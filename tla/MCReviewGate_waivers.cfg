SPECIFICATION GateSpec
CHECK_DEADLOCK FALSE
CONSTANTS
  Databases <- Databases0
  Loads <- Loads0
  MaxWrites = 1
  NoRule = NoRule
INVARIANT WaiversApplyAsWritten
