SPECIFICATION CSpec
CONSTANTS
  Name = {"x", "y"}
  Value <- MCValue
  Events <- MCEvents
  Trees <- MCTrees
  Within <- MCWithin
  Enums <- MCEnums
  ShortBits = 2
  LongBits = 3
  LongLongBits = 4
  StackSize = 10
  OpSeqSize = 40
  OneCounter = TRUE
INVARIANTS StackTyped CompilerTyped Agrees
CHECK_DEADLOCK FALSE
