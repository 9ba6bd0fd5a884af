\* One request at a time: replacement and reclamation of storage.
SPECIFICATION Spec
CONSTANTS
  r1 = r1 r2 = r2 r3 = r3
  p1 = p1 p2 = p2
  n1 = n1
  none = none
  Requests = {r1, r2, r3}
  Procs = {p1}
  Names = {n1}
  None = none
  Ops = {"upload", "delete_scan", "delete_product"}
  Bodies = {{"deps"}, {"deps", "attestations", "layers"}, {"malformed"}}
  NBatches = 1
  MaxActive = 1
  MaxCrashes = 0
  StorageFaults = FALSE
SYMMETRY Symmetric
INVARIANTS OneScanPerProduct NoOrphanObject
