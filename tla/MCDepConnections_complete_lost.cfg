CONSTANTS
  Uploads = {u1, u2}
  Readers = {r1}
  Conns = {c1, c2, c3, c4, c5}
  PoolSize = 2
  MaxOverflow = 1
  NBatches = 1
  RepeatLayers = {u1}
  BadDeps = {}
  None = None
SPECIFICATION Spec
INVARIANTS CompleteIsInserted
