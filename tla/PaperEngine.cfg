SPECIFICATION Spec
CONSTANTS
  MaxBar = 3
  Signals = {"WAIT", "ENTER", "INVALID", "NO_SYMBOL"}
  FailureModes = {"NONE", "TIMEOUT_AFTER_ACCEPT", "REJECT", "PARTIAL_FILL", "DISAPPEAR_POSITION"}
  Retries = TRUE
  MaxCrashes = 2
  MaxFaults = 1
  MaxCorruptions = 1
CHECK_DEADLOCK FALSE
INVARIANTS
  EntryOncePerBar
  NoSilentReset
  CheckpointedBarIsRecorded
  PendingIsHalt
  LifecycleMatchesPosition
