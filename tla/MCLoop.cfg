SPECIFICATION FairSpec
CONSTANTS
  Loops = {"nested", "endloop", "crash"}
  MaxLoops = 6
  MaxCalls = 3
INVARIANTS
  TypeOK
  Exclusive
  OneLoop
  LoopAsWanted
PROPERTIES
  InstructionReturns
