\* The struct field profile has a member b that is tagged json:"-".
CONSTANTS
  Fields = {"name", "labels", "profile", "comment", "id"}
  Kind <- MCKind
  Keys = {"a", "b"}
  Hidden = {"b"}
  v1 = v1
  i1 = i1
  Zero = zero
  Scalars = {zero, v1}
  Ids = {i1}
  Nil = nil
  Relations = {}
  Target <- MCTarget
  Derived <- MCDerived
  Overrides <- NoOverride
  Triggers <- NoTriggers
  Seeds <- MCSeeds
  Documents <- SmallDocuments
SPECIFICATION Spec
PROPERTY ExcludedFieldsKept
