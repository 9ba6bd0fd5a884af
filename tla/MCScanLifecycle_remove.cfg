\* Uploads, package imports and both deletes of one product, three at a time.
SPECIFICATION Spec
CONSTANTS
  r1 = r1 r2 = r2 r3 = r3
  p1 = p1 p2 = p2
  n1 = n1
  none = none
  Requests = {r1, r2, r3}
  Procs = {p1, p2}
  Names = {n1}
  None = none
  Ops = {"upload", "packages", "delete_scan", "delete_product"}
  Bodies = {{}, {"tags"}}
  NBatches = 1
  MaxActive = 3
  MaxCrashes = 0
  StorageFaults = FALSE
SYMMETRY Symmetric
INVARIANTS TypeOK FlushedKeysSurvive
PROPERTIES RowsOutliveStrangers
