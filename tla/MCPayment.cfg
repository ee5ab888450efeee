SPECIFICATION Spec
CONSTANTS
    Nodes = {n1}
    Handlers = {h1, h2}
    Methods = {"epay", "yipay", "stripe", "creem", "waffo", "subscription"}
    MaxFaults = 2
    Unit = 2
INVARIANTS CreditedOnce LocksAreExact
PROPERTIES  HandlersEnd
CHECK_DEADLOCK FALSE
