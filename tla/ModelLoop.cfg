CONSTANTS
  Writers = {w1}
  Waiters = {b1, b2}
  Loop = Loop
  Meter = Meter
  Mod = 32
  Delay = 1
  MaxChanges = 1
  MaxPosts = 1
SPECIFICATION Spec
SYMMETRY WaiterSymmetry
INVARIANTS BarrierIsExact NoChangeForgotten ObserversInformed
PROPERTIES WritesAreApart
CHECK_DEADLOCK FALSE
