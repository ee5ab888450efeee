SPECIFICATION TableSpec
CONSTANTS
    Options = {"o1", "o2"}
    Forms = {"empty", "keyword", "supplier"}
    MaxPage = 2
    MaxActions = 3
INVARIANTS SpinnersAreHeld
PROPERTIES LoadsInOrder
