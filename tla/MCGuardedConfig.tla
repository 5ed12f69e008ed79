--------------------------- MODULE MCGuardedConfig ---------------------------
(* Model values for checking GuardedConfig with TLC.  Callers of SetConfigs *)
(* exclude each other, so one that calls again and again stands for all.    *)
EXTENDS GuardedConfig

CONSTANTS other, p1

MCKeys == {Limit, other}
MCValues == {1, 2}
MCSetters == {p1}

=============================================================================
