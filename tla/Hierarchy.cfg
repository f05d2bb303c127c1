CONSTANTS
  Device = {1, 2}
  Owner = 1
  Editor = {1}
  MaxCounter = 20
  Path = {1, 2}
  Ancestors <- Nested
  Data = {1}
  Mode = {0}
  MaxEntries = 3
  DefaultMode = 0
  MaxWall = 0
  Session = {1}
  Edits <- FilesAndDirs
  MaxTransferFiles = 2
  MaxEdits = 3
  MaxFaults = 0
SPECIFICATION FairSpec
PROPERTIES Convergence
