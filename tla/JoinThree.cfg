CONSTANTS
  Device = {1, 2, 3}
  Owner = 1
  Editor = {1, 2, 3}
  MaxCounter = 20
  Path = {1}
  Ancestors <- Flat
  Data = {1, 2}
  Mode = {0}
  MaxEntries = 3
  DefaultMode = 0
  MaxWall = 1
  Session = {1}
  Edits <- FilesAndNothing
  MaxTransferFiles = 1
  MaxEdits = 0
  MaxFaults = 2
SPECIFICATION SetupSpec
INVARIANTS JoinYieldsToOwner
