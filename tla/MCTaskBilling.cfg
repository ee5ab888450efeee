SPECIFICATION Spec
CONSTANTS
    Tasks = {1}
    Pollers = {"p1", "p2"}
    Fetchers = {"f1", "f2"}
    Suno = {}
    Quotas = {0, 2}
    SubmitTime = 1780000000
    Limit = 1
    Scenarios <- Races
    MaxFaults = 2
INVARIANTS CostsWhatRowSays  PollersShareOnce
 
