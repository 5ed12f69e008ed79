\* Two requests are wrapped while two rules are added or deleted.
SPECIFICATION Spec
CONSTANTS
    c1 = c1
    c2 = c2
    r1 = r1
    stray = stray
    site = site
    k1 = k1
    k2 = k2
    Root = Root
    Default = Default
    Old = Old
    Nothing = Nothing
    Clients <- MCClients
    Rules <- MCRules
    Strays <- MCStrays
    Netlocs <- MCNetlocs
    Keys <- MCKeys
    DefaultFields <- MCDefaultFields
    Requests <- MCRequests
    RuleShapes <- MCRuleShapes
    MaxFaults = 1
SYMMETRY Symmetry
INVARIANTS
    TypeOK
    WrapsRight
    RulesTraceable
    AckedRulesApply
