\* Three uploads of one product, two at a time, each with a dependency thread.
SPECIFICATION Spec
CONSTANTS
  r1 = r1 r2 = r2 r3 = r3
  p1 = p1 p2 = p2
  n1 = n1
  none = none
  Requests = {r1, r2, r3}
  Procs = {p1, p2}
  Names = {n1}
  None = none
  Ops = {"upload"}
  Bodies = {{"deps"}}
  NBatches = 1
  MaxActive = 2
  MaxCrashes = 0
  StorageFaults = FALSE
SYMMETRY Symmetric
INVARIANTS CompleteMeansAllDeps
PROPERTIES DepsStatusForward
