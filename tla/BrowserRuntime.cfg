SPECIFICATION BrowserSpec
CONSTANTS
  Publishers = {"python"}
  BarTicks = 1
  MaxAge = 1
  MaxClock = 2
  MaxPayloads = 2
  Pages = {}
  Overlaps = {}
  Calls = {c1, c2}
  Isolates = {"i1"}
  MaxRestarts = 1
  Actions = {"WAIT", "ENTER"}
  FailureModes = {"NONE", "TIMEOUT_AFTER_ACCEPT"}
  MaxReloads = 1
  MaxDamages = 1
SYMMETRY Symmetry
CHECK_DEADLOCK FALSE
INVARIANTS
  UnknownOrderHalts
  OrdersAreSound
PROPERTIES
  BarsInOrder
