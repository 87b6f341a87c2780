SPECIFICATION Spec
CONSTANTS
  Makers = {"readme"}
  Payloads <- CallData
  Costs = {0, 30000}
  BaseFees <- FirstBaseFees
  Tips = {0, 15}
  FixedTip = 15
  gtxDataNonZero = 16
  gtxDataZero = 4
  MaxBlocks = 6
  MaxRelays = 2
INVARIANT GasAsDocumented
CHECK_DEADLOCK FALSE
