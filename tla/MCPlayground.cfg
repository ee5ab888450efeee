SPECIFICATION Spec
CONSTANTS
    Modes = {"text", "image", "video"}
    MaxSends = 2
    MaxActions = 3
INVARIANTS ActivePollsAreExact
   
CHECK_DEADLOCK FALSE
