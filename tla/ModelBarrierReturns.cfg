CONSTANTS
  Writers = {w1}
  Waiters = {b1}
  Loop = Loop
  Meter = Meter
  Mod = 32
  Delay = 1
  MaxChanges = 1
  MaxPosts = 0
SPECIFICATION Spec
PROPERTIES BarrierReturns
CHECK_DEADLOCK FALSE
