\* Construction, the tag walk, and three calls of Close that race.
CONSTANTS
  A = A  B = B  C = C  D = D  f = f  g = g  base = base
  Types = {A, B, C, D}
  Root = A
  NoType = notype
  Names = {f, g, base}
  Layouts <- MCLayouts
  Definitions <- MCDefinitions
  Callers = {server, application, supervisor}
  Nil = nil  Failure = failure  None = none
SPECIFICATION FairSpec
INVARIANTS ClosedOnce CloseBlocks ClosesAgree  PathsCollected
PROPERTIES EveryCloseEnds
\* The model ends when every caller has closed the handler.
CHECK_DEADLOCK FALSE
