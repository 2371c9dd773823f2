\* Query fields of an entity, and list requests on those that are served.
CONSTANTS
  Post = Post  Author = Author  Tag = Tag  Entity = Entity
  CodePoints <- MCCodePoints
  Orbits <- MCOrbits
  Asked <- MCAsked
  Models <- MCModels
  Nil = nil  NoType = notype  Base = base  Excluded = excluded  Unmapped = unmapped
  Filters <- MCFilters
  Requests <- MCRequests
  Databases <- MCDatabases
  SoftDelete = TRUE
  None = none
SPECIFICATION Spec
INVARIANTS FieldsAsDeclared PathsSelectColumns RefusedBeforeStatements StatementsWellFormed TotalCountsMatches PageAnswersRequest
\* A handler whose construction was refused stops there.
CHECK_DEADLOCK FALSE
