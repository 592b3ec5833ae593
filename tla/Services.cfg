CONSTANTS
  MaxPost = 2
  MaxElements = 2
  MaxPrio = 1
  LogKinds <- AllKinds
  MaxLogged = 2
  MaxFaults = 1
  MaxToggles = 3
  s1 = s1
  s2 = s2
  n1 = n1
  Workers = {w1, w2}
  Tokens = {s1}
  OldTokens = {}
  EventNames = {n1}
  NamesOf <- Names
  MaxSessions = 1
  SessionTimeout = 1
  MaxRequests = 4
  MaxCollectors = 2
  MaxDelivered = 2
  MaxWebTime = 1
  Setups <- AllSetups
  DayLength = 2
  MaxTrigTime = 4
SPECIFICATION ServicesSpec
INVARIANTS ServicesTypeOK OneUpload NoEventLost RelayIsExact
PROPERTIES LogIsEmptied WaitingKeepsSession WebEventsGoOn TriggerTiming ActionFollows
CHECK_DEADLOCK FALSE
