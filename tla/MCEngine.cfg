SPECIFICATION ParitySpec
CONSTANTS
  Plain = {Null, Zero, v}
  Captures = {v}
  Null = Null
  Zero = Zero
  LoadsUnset = FALSE
  NFuncs = 3
  NParams <- MCNParams
  NCaptured <- MCNCaptured
  FnValues = {2}
  NLocals <- MCNLocals
  PCs = 1
  MaxPops = 2
  StackInit = 4
  StackMax = 6
  LocalsMax = 4
  FrameMax = 4
  HandlerMax = 3
CONSTRAINT FewOperandsInDepth
INVARIANTS
  TypeOK
  LocalsRegionsDisjoint
  HandlersMatchFrames
  StackFits
PROPERTIES
  CImplementsGo
  LoadsAlike
