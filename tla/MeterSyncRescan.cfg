CONSTANTS
  Meters = {m1}
  Outdated = {}
  MaxRetry = 2
  MaxChanges = 2
  MaxInputs = 0
  MaxFaults = 0
  MaxQueue = 3
  Prompt = TRUE
SPECIFICATION Spec
INVARIANTS RescanIsForced
