CONSTANTS
  Meters = {m1, m2}
  Outdated = {}
  MaxRetry = 2
  MaxChanges = 2
  MaxInputs = 1
  MaxFaults = 1
  MaxQueue = 3
  Prompt = TRUE
SPECIFICATION Spec
PROPERTY MetersSettle
