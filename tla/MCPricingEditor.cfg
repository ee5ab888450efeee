SPECIFICATION PageSpec
CONSTANTS
  m1 = m1
  m2 = m2
  NoModel = NoModel
  Models = {m1, m2}
  PlainKeys = {}
  OptionalTierKeys = {"CompletionTierRatio"}
  LockedRatio <- MCLocked
  Stores <- MCStores
  Typed = {0, 60}
  TierRules = {1}
  Templates <- MCTemplates
  Units = {"USD", "CNY"}
  DefaultUnit = "USD"
  Rate = 3
  Scale = 1000
  Writes <- MCWrites
  Absorb = 2
  MaxEdits = 2
  MaxSaves = 2
  MaxFaults = 1
  
PROPERTY UntouchedPricesStay
CHECK_DEADLOCK FALSE
