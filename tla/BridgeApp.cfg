\* The whole process, with requests that hang, and a database that does not fail at
\* the two places the safety run breaks it.
CONSTANTS
  MaxOps = 2
  FirstOpId = 3
  Arriving = {"sent", "text"}
  MaxCrashes = 1
  Compliance = FALSE
  Faults = {"hang"}
  Configs <- MCConfigs
SPECIFICATION BridgeFairSpec
INVARIANTS
  BridgeTypeOK
PROPERTIES
  ImplementsLog
  EndsOnlyIfKilled
  ServesUnlessHorizonHangs
  PaymentsMadeKnown
CHECK_DEADLOCK FALSE
