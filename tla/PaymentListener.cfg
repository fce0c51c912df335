\* Every fault, with a compliance server.
CONSTANTS
  MaxOps = 3
  FirstOpId = 3
  Arriving = {"not_payment", "sent", "asset_not_allowed", "text", "hash"}
  MaxCrashes = 2
  Compliance = TRUE
  Faults = {"cursorRead", "lostAck", "hang"}
SPECIFICATION Spec
INVARIANTS
  TypeOK
  NoOvertaking
  CursorBehindAccepted
  SuccessIsAccepted
  RowsInLedgerOrder
PROPERTIES
  ResumesWhereItStopped
  ImplementsLog
CHECK_DEADLOCK FALSE
