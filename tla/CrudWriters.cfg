\* Three writers of one row compete for it and for two connections; deletes are soft.
CONSTANTS
  c1 = c1  c2 = c2  c3 = c3  k1 = k1  k2 = k2  k3 = k3  fa = fa  fb = fb  oa = oa  ob = ob
  Calls = {c1, c2, c3}
  Keys = {k1, k2, k3}
  Seeded = {k1}
  Fields = {fa, fb}
  Owners = {oa, ob}
  Requests <- WriterRequests
  SoftDelete = TRUE
  Base = base  Other = other  Absent = absent  NotFound = notfound  Failed = failed  Doubt = doubt
  Zero = zero  None = none  NoReply = noreply  Keep = keep  Free = free
  PoolSize = 2
  MaxFaults = 0
  MaxOthers = 0
SPECIFICATION MCFairSpec
INVARIANTS DeletedOnce
PROPERTIES OmittedFieldsSurvive DeletedStaysDeleted KeepsPromise EveryCallEnds
