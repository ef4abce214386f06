SPECIFICATION Spec
CONSTANTS
  any = any
  one = one
  two = two
  NaN = NaN
  None = None
  Callers = {any, one, two}
  Session = "s"
  Tolerance = 1
  NonFinite <- NaN
  Texts <- MCTexts
  Blanks <- MCBlanks
  WideBlanks <- MCWide
  NulBlanks <- MCNul
  Bytes <- MCBytes
  AbsolutePaths <- MCAbsolute
  Ext <- MCExt
  DotNames = {"/d/.skp", "/d/.png"}
  Paged = {"/d/book.layout"}
  PageFile <- MCPageFile
  Globbed <- MCGlobbed
  Requests <- MCRequests
INVARIANTS AcceptedIsWellFormed RefusalsLeaveTheId ImageIsNoOlder
CHECK_DEADLOCK FALSE
