SPECIFICATION CppSpec
CONSTANTS
  NObj = 3
  MaxItems = 2
  MaxStack = 3
  MaxFrames = 2
  MaxHandlers = 1
  NGlobals = 1
  NLocals = 1
  MaxDepth = 4
  MaxRefs = 7
INVARIANT
  SomeCountingRuleHolds
