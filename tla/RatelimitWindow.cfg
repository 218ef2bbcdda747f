SPECIFICATION Spec
CONSTANTS
    CounterValues = 8
    Limit = 2
    Burst = 4
INVARIANTS TypeOK CountersAreRecent AtMostOneOver
PROPERTY NeverLockedOut
