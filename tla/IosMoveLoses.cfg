SPECIFICATION Spec
CONSTANTS
  NoMnemonic = NoMnemonic
  Failure = Failure
  Environments <- WritesFail
  Generated = {g1}
  External = {}
  Invalid = {}
  Calls = {c1}
PROPERTIES NeverLost
