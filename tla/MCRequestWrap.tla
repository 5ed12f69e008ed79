--------------------------- MODULE MCRequestWrap ----------------------------
(* Model values for checking RequestWrap with TLC. *)
EXTENDS RequestWrap, TLC

CONSTANTS c1, c2, r1, stray, site, k1, k2

MCClients == {c1, c2}
MCRules == {r1, stray, Old, Default}
MCStrays == {stray}
MCNetlocs == {site, Root}
MCKeys == {k1, k2}
MCDefaultFields == {k1}
MCRequests ==
    {[fields |-> {}, queued |-> FALSE],
     [fields |-> {}, queued |-> TRUE],
     [fields |-> {k1, Method}, queued |-> TRUE],
     [fields |-> {k2, Replace, Body}, queued |-> FALSE]}
MCRuleShapes == {{k1, Method}, {k2, Replace, Body}}

Symmetry == Permutations(MCClients)

=============================================================================
