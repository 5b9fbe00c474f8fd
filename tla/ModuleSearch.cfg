SPECIFICATION Spec
CONSTANTS
  Values = 4
  MaxInsn = 2
  Decode <- MCDecode
  Targets = {0, 2, 3}
  Any = any
  NoHex = noHex
  any = any
  noHex = noHex
  a = a
  b = b
  ab = ab
  anonymous = anonymous
  Top = 16
  HalfInt = 6
  SizeTs = 22
  NoPath = anonymous
  Paths <- MCPaths
  PathRead <- MCPathRead
  Name <- MCName
  MapFiles <- MCMapFiles
  Memories <- MCMemories
  Tokens <- MCTokens
INVARIANTS
  FindsEveryMatch
  FindsEveryXref
  WholeModuleSearched
  NotFoundMeansAbsent
  FaultsOnlyInGaps
PROPERTY
  SearchEnds
CHECK_DEADLOCK FALSE
