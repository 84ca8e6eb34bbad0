SPECIFICATION LiveSpec
CONSTANTS
    d = d
    p = p
    q = q
    Report <- MCReport
    ServiceOf <- MCServiceOf
    Room = 1
    MaxOutside = 2
INVARIANTS
    FailureIsNotSuccess
    NeverKilledWithServices
PROPERTIES
    FailureEndsCore
CHECK_DEADLOCK FALSE
