SPECIFICATION Spec
CONSTANTS
  NoMnemonic = NoMnemonic
  Garbage = Garbage
  NoCall = NoCall
  Environments <- Imports
  MaxTasks = 2
  Generated = {}
  External = {}
  Invalid = {x1}
  Calls = {c1}
INVARIANTS InvalidNeverStored
