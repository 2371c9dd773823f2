\* Two requests on one row, with an error, a panic or a cancellation, and a foreign write.
CONSTANTS
  c1 = c1  c2 = c2  c3 = c3  k1 = k1  k2 = k2  k3 = k3  fa = fa  fb = fb  oa = oa  ob = ob
  Calls = {c1, c2}
  Keys = {k1, k2, k3}
  Seeded = {k1}
  Fields = {fa, fb}
  Owners = {oa, ob}
  Requests <- PairRequests
  SoftDelete = FALSE
  Base = base  Other = other  Absent = absent  NotFound = notfound  Failed = failed  Doubt = doubt
  Zero = zero  None = none  NoReply = noreply  Keep = keep  Free = free
  PoolSize = 2
  MaxFaults = 1
  MaxOthers = 1
SPECIFICATION MCFairSpec
INVARIANTS TypeOK EntityFresh
PROPERTIES WritesStayInScope OmittedAssociationSurvives KeepsPromise EveryCallEnds LocksAreReleased
