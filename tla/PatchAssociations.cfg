\* Two input fields of one relation, a belongs-to relation and a trigger; PatchAssociations
\* may rename a path.
CONSTANTS
  Fields = {"name", "tags", "tagIds", "author", "id"}
  Kind <- MCKind
  Keys = {}
  Hidden = {}
  v1 = v1
  i1 = i1
  Zero = zero
  Scalars = {zero, v1}
  Ids = {i1, i2}
  Nil = nil
  Relations = {"Tags", "Author"}
  Target <- MCTarget
  Derived <- MCDerived
  Overrides <- Renamed
  Triggers <- MCTriggers
  Seeds <- MCSeeds
  Documents <- SmallDocuments
SPECIFICATION Spec
PROPERTIES ClearsAssociations OnlySelectedWritten
