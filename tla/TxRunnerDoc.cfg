\* The instance of TxRunner.cfg, for what doc.go says of errors.
CONSTANTS
  Calls = {c1, c2, c3}
  Unconfigured = {c3}
  PoolSize = 1
  Values = {v1}
  Zero = zero
  NoReply = noreply
SPECIFICATION Spec
INVARIANT RollsBackOnEveryError
