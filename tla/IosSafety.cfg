SPECIFICATION Spec
CONSTANTS
  NoMnemonic = NoMnemonic
  Failure = Failure
  Environments <- Installations
  Generated = {g1}
  External = {e1}
  Invalid = {Failure}
  Calls = {c1, c2}
SYMMETRY CallSymmetry
INVARIANTS TypeOK CachedWasStored CacheStaysTrue
PROPERTIES MovesNeverLose MovesKeepWallet MovesLeaveCloud
