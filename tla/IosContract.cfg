SPECIFICATION FairSpec
CONSTANTS
  NoMnemonic = NoMnemonic
  Failure = Failure
  Environments <- ContractDevices
  Generated = {g1, g2}
  External = {e1}
  Invalid = {}
  Calls = {c1}
PROPERTIES ContractHolds EveryCallEnds
