\* Two configured calls compete for one connection; a third is unconfigured.
CONSTANTS
  Calls = {c1, c2, c3}
  Unconfigured = {c3}
  PoolSize = 1
  Values = {v1}
  Zero = zero
  NoReply = noreply
SPECIFICATION FairSpec
INVARIANTS TypeOK ValueOnlyAfterCommit FailureLeavesNothing FinishedOnce NoLeak
PROPERTIES EveryCallEnds EveryTransactionEnds KeepsPromise
