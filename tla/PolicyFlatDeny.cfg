SPECIFICATION Spec
CONSTANTS
  Parts = {"policy"}
  Engines = {"C"}
  MapKeys <- MCKeys
  MapValues = {v1, v2}
  StrHash <- MCHash
  NumText <- MCText
  MapInitCap = 2
  Missing = none
  INT_MAX = 7
  Names <- MCNames
  FoldCase <- MCFold
  Cwd <- MCCwd
  MaxSegments = 8
  PolicyTexts <- MCTexts
  MaxPath = 3
  Images <- MCImages
  BadCells = {}
  Clients = {c1, c2}
  RequestKinds <- MCReqs
  NFd = 3
  Backlog = 1
  HeadLimit = 2
  SrvTimeout = 1
  RespSize = 2
  SndBuf = 1
  Answers <- MCAnswers
  MaxHops = 2
  ClientTimeout = 2
  Second = 2
  CurlGrace = 1
  Versions = {"old", "new"}
  Blocks = 2
  NObj = 3
  MaxItems = 2
  MaxStack = 3
  MaxFrames = 2
  MaxHandlers = 1
  NGlobals = 1
  NLocals = 1
  MaxDepth = 4
  MaxRefs = 5
CHECK_DEADLOCK FALSE
PROPERTY
  FlatDenyWins
