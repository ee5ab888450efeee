SPECIFICATION Spec
CONSTANTS
    Requests = {q1, q2}
    Total = 3
    Amounts = {2}
    Deltas <- MCDeltas
    Isolation = "read_committed"
    MaxPeriods = 1
    MaxFaults = 1
    MaxSaveFaults = 1
    q1 = q1
    q2 = q2
INVARIANT UsedInRange
PROPERTY ResetsPrevail
