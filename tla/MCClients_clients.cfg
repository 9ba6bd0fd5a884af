CONSTANTS
  Procs = {p1, p2}
  Names = {n1, n2}
  MaxPackages = 1
  MaxIds = 7
  MaxCommands = 3
  None = None
SPECIFICATION ClientsSpec
INVARIANTS PartsTypeOK LocalScansHold ProvenanceAgrees RecordedIsStored
PROPERTIES ImplementsScanStore StepsAreSafe CommandsEnd
