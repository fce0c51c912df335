CONSTANTS
  MaxOps = 2
  FirstOpId = 3
  Arriving = {"sent", "text"}
  MaxCrashes = 0
  Compliance = FALSE
  Faults = {"cursorRead"}
SPECIFICATION FairSpec
PROPERTIES
  EventuallyAccepted
CHECK_DEADLOCK FALSE
