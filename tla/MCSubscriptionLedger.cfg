SPECIFICATION Spec
CONSTANTS
    Requests = {q1, q2, q3}
    Total = 3
    Amounts = {1, 2}
    Deltas <- MCDeltas
    Isolation = "serializable"
    MaxPeriods = 0
    MaxFaults = 1
    MaxSaveFaults = 0
    q1 = q1
    q2 = q2
    q3 = q3
PROPERTY ImplementsAccount
