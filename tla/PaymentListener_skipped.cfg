CONSTANTS
  MaxOps = 2
  FirstOpId = 2
  Arriving = {"not_payment", "sent", "asset_not_allowed", "text", "hash"}
  MaxCrashes = 0
  Compliance = TRUE
  Faults = {}
SPECIFICATION Spec
INVARIANTS
  EveryPaymentAccepted
CHECK_DEADLOCK FALSE
