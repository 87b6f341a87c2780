SPECIFICATION Spec
CONSTANTS
  NoMnemonic = NoMnemonic
  Garbage = Garbage
  NoCall = NoCall
  Environments <- Creates
  MaxTasks = 2
  Generated = {g1, g2}
  External = {}
  Invalid = {}
  Calls = {c1}
PROPERTIES OverwritePromise
