\* Every operation, with a process crash and failing object-store calls.
SPECIFICATION Spec
CONSTANTS
  r1 = r1 r2 = r2 r3 = r3
  p1 = p1 p2 = p2
  n1 = n1
  none = none
  Requests = {r1, r2}
  Procs = {p1, p2}
  Names = {n1}
  None = none
  Ops = {"upload", "import", "packages", "delete_scan", "delete_product"}
  Bodies = {{"deps", "attestations", "files"}, {"layers", "dup_layers"}}
  NBatches = 2
  MaxActive = 2
  MaxCrashes = 1
  StorageFaults = TRUE
SYMMETRY Symmetric
INVARIANTS NoDanglingKey CompleteMeansAllDeps AnsweredIsIndexed
