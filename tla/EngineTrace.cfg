SPECIFICATION ParitySpec
CONSTANTS
  Plain = {Null, Zero, v}
  Captures = {v}
  Null = Null
  Zero = Zero
  LoadsUnset = FALSE
  NFuncs = 3
  NParams <- MCNParams
  NCaptured <- MCNCaptured
  FnValues = {2}
  NLocals <- MCNLocals
  PCs = 2
  MaxPops = 2
  StackInit = 4
  StackMax = 6
  LocalsMax = 4
  FrameMax = 4
  HandlerMax = 3
INVARIANTS
  SameTrace
CHECK_DEADLOCK FALSE
