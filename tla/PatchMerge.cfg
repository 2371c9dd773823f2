\* Every kind of field but the associations; two keys in the nested objects.
CONSTANTS
  Fields = {"name", "labels", "profile", "comment", "id"}
  Kind <- MCKind
  Keys = {"a", "b"}
  Hidden = {}
  v1 = v1
  i1 = i1
  Zero = zero
  Scalars = {zero, v1}
  Ids = {i1}
  Nil = nil
  Relations = {}
  Target <- MCTarget
  Derived <- MCDerived
  Overrides <- NoOverride
  Triggers <- NoTriggers
  Seeds <- MCSeeds
  Documents <- SmallDocuments
SPECIFICATION Spec
INVARIANT TypeOK
PROPERTIES OmittedFieldsKept NullResets ExcludedFieldsKept
