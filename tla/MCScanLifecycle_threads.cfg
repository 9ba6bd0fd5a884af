\* Progress of handlers and of the dependency threads that share a process.
SPECIFICATION FairSpec
CONSTANTS
  r1 = r1 r2 = r2 r3 = r3
  p1 = p1 p2 = p2
  n1 = n1
  none = none
  Requests = {r1, r2}
  Procs = {p1}
  Names = {n1}
  None = none
  Ops = {"upload", "import", "delete_product"}
  Bodies = {{"deps"}, {"deps", "bad_deps"}}
  NBatches = 1
  MaxActive = 2
  MaxCrashes = 0
  StorageFaults = FALSE
INVARIANTS OneInserterPerProcess
PROPERTIES PendingIsSettled RequestsEnd
