CONSTANTS
  Device = {1, 2}
  Owner = 1
  Editor = {1, 2}
  MaxCounter = 20
  Path = {1}
  Ancestors <- Flat
  Data = {1, 2}
  Mode = {0}
  MaxEntries = 3
  DefaultMode = 0
  MaxWall = 1
  Session = {1}
  Edits <- LinksAndNothing
  MaxTransferFiles = 2
  MaxEdits = 1
  MaxFaults = 0
SPECIFICATION Spec
PROPERTIES LinkVersionsAdvance
