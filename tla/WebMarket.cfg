SPECIFICATION WebSpec
CONSTANTS
  Publishers = {"python", "expert_advisor"}
  BarTicks = 1
  MaxAge = 1
  MaxClock = 2
  MaxPayloads = 2
  Pages = {"page"}
  Overlaps = {k1, k2}
  Calls = {}
  Isolates = {i1, i2}
  MaxRestarts = 1
SYMMETRY Symmetry
INVARIANTS
  EvaluatedOnceUnlessRaced
  LiveIsOneSnapshot
PROPERTIES
  OlderOnlyWhenOvertaken
CHECK_DEADLOCK FALSE
