SPECIFICATION Spec
CONSTANTS
    CounterValues = 8
    Limit = 2
    Burst = 4
INVARIANTS DocumentedLimit
