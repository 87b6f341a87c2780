SPECIFICATION Spec
CONSTANTS
  NoMnemonic = NoMnemonic
  Failure = Failure
  Environments <- DoubleTap
  Generated = {g1, g2}
  External = {}
  Invalid = {}
  Calls = {c1, c2}
PROPERTIES ReplacePromise
