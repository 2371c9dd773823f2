\* nickname is promoted from an embedded struct of an unexported type.
CONSTANTS
  Fields = {"name", "labels", "profile", "nickname", "id"}
  Kind <- MCKind
  Keys = {"a", "b"}
  Hidden = {}
  v1 = v1
  i1 = i1
  Zero = zero
  Scalars = {zero, v1}
  Ids = {i1}
  Nil = nil
  Relations = {}
  Target <- MCTarget
  Derived <- MCDerived
  Overrides <- NoOverride
  Triggers <- NoTriggers
  Seeds <- MCSeeds
  Documents <- SmallDocuments
SPECIFICATION Spec
PROPERTY NullResets
