CONSTANTS
  Device = {1, 2}
  Owner = 1
  Editor = {1, 2}
  MaxCounter = 3
  Path = {1, 2}
  Ancestors <- Nested
  Data = {1}
  Mode = {0}
  MaxEntries = 3
  DefaultMode = 0
  MaxWall = 0
  Session = {1}
  Edits <- FilesDirsAndLinks
  MaxTransferFiles = 2
  MaxEdits = 1
  MaxFaults = 2
SPECIFICATION Spec
INVARIANTS TypeOK BothSidesAgree VersionIdentity AuthorBound ReplicaBound ManifestMatchesDisk ParentsRecorded
PROPERTIES VersionsAdvance ImplementsReplicas
