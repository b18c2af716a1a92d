\* A batch of two statements beside a write, over two connections.
SPECIFICATION PoolSpec
CONSTANTS
  Batches = {b1}
  Singles = {w1}
  Length = 2
  Conns = {c1, c2}
  NoConn = NoConn
  MaxRefusals = 1
INVARIANT FailedBatchIsGone
CHECK_DEADLOCK FALSE
