SPECIFICATION FairSpec
CONSTANTS
  NoMnemonic = NoMnemonic
  Garbage = Garbage
  NoCall = NoCall
  Environments <- ContractDevices
  MaxTasks = 2
  Generated = {g1, g2}
  External = {e1}
  Invalid = {}
  Calls = {c1}
PROPERTIES ContractHolds EveryCallEnds
