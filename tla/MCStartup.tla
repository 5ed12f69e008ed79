----------------------------- MODULE MCStartup ------------------------------
(* Model values for checking Startup with TLC. *)
EXTENDS Startup

CONSTANTS h1, h2

MCHandlers == {h1, h2}

=============================================================================
