\* Both input fields of the relation Tags are configured as its patch paths.
CONSTANTS
  Fields = {"name", "tags", "tagIds", "author", "id"}
  Kind <- MCKind
  Keys = {}
  Hidden = {}
  v1 = v1
  i1 = i1
  Zero = zero
  Scalars = {zero, v1}
  Ids = {i1, i2}
  Nil = nil
  Relations = {"Tags", "Author"}
  Target <- MCTarget
  Derived <- MCDerived
  Overrides <- Aliased
  Triggers <- MCTriggers
  Seeds <- MCSeeds
  Documents <- SmallDocuments
SPECIFICATION Spec
PROPERTY ClearsAssociations
