SPECIFICATION GroupFairSpec

CONSTANTS
    n1 = n1
    n2 = n2
    Node = {n1, n2}
    Supervisor = Supervisor

CHECK_DEADLOCK FALSE

INVARIANTS
    RunsToTheEnd

PROPERTY NoChildSurvives
