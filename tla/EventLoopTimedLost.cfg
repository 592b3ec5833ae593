CONSTANTS
  Producers = {p1}
  Runner = Runner
  k1 = k1
  k2 = k2
  Keys = {k1}
  Templates <- TimedUniqueTemplates
  Interval = 1
  TimezoneOffset = 1
  StartsInUTC = FALSE
  MaxEvents = 2
  MaxTime = 2
SPECIFICATION Spec
PROPERTIES TimedIsForwarded
