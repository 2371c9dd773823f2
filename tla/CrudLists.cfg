\* Lists among creates, deletes and writers of other programs.
CONSTANTS
  c1 = c1  c2 = c2  c3 = c3  k1 = k1  k2 = k2  k3 = k3  fa = fa  fb = fb  oa = oa  ob = ob
  Calls = {c1, c2, c3}
  Keys = {k1, k2, k3, k4}
  Seeded = {k1}
  Fields = {fa, fb}
  Owners = {oa, ob}
  Requests <- ListRequests
  SoftDelete = FALSE
  Base = base  Other = other  Absent = absent  NotFound = notfound  Failed = failed  Doubt = doubt
  Zero = zero  None = none  NoReply = noreply  Keep = keep  Free = free
  PoolSize = 3
  MaxFaults = 0
  MaxOthers = 1
SPECIFICATION MCSpec
INVARIANTS TotalMatchesPage
PROPERTIES KeepsPromise
