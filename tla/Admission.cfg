\* Two sessions, two Wallets, one Plan, every kind of transaction.
SPECIFICATION Spec
CONSTANTS
    Wallets = {1, 2}
    MaxWallet = 2
    Requests = {{}, {2}, {1, 2}}
    Plans = {1}
    Sessions = {s1, s2}
    MaxRevision = 2
    Kinds = {"select", "connect", "edit", "plan", "ready", "run", "cashOut", "batch"}
SYMMETRY SessionSymmetry
INVARIANTS
    TypeOK
    ExclusiveWork
    WorkIsSelected
    FactsStayTrue
    NoDeadlock
PROPERTIES
    PlanStepsAtItsRevisions
\* No request may be admissible any more.
CHECK_DEADLOCK FALSE
