CONSTANTS
  Kinds = {"tools", "prompts"}
  Names = {a}
  Helper = helper
  Cursors = {c0, c1, c2}
  First = c0
  NoPage = none
  MaxPages = 2
  Guidances <- PlainTools
  SchemaGuidances <- SchemaTools
  HelperGuidance <- ShortTool
  Untold = untold
  JSON <- Decoded
  Height <- Nesting
  Depth = 4
SPECIFICATION FairSpec
CHECK_DEADLOCK FALSE
INVARIANTS ListedIsCallable ListingComplete ListingCompacted DescribeFinds DaemonGuidance
PROPERTY DescribeEnds
