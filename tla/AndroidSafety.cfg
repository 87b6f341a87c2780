SPECIFICATION Spec
CONSTANTS
  NoMnemonic = NoMnemonic
  Garbage = Garbage
  NoCall = NoCall
  Environments <- Installations
  MaxTasks = 2
  Generated = {g1}
  External = {e1, e2}
  Invalid = {}
  Calls = {c1, c2}
SYMMETRY CallSymmetry
INVARIANTS TypeOK CachedWasStored CacheStaysTrue
PROPERTIES NeverLost MovesKeepWallet MovesLeaveCloud RejectHonoured
