CONSTANTS
  Device = {1, 2}
  Owner = 1
  Editor = {1, 2}
  MaxCounter = 20
  Path = {1, 2}
  Ancestors <- Flat
  Data = {1}
  Mode = {0}
  MaxEntries = 3
  DefaultMode = 0
  MaxWall = 0
  Session = {1}
  Edits <- FilesAndNothing
  MaxTransferFiles = 1
  MaxEdits = 1
  MaxFaults = 1
SPECIFICATION FairSpec
PROPERTIES Convergence
