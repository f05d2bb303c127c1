CONSTANTS
  SyncInterval = 2
  FullScanInterval = 4
  MaxEdits = 3
  MaxFaults = 2
SPECIFICATION FairSpec
INVARIANT ChangesStayNoticed
PROPERTY ChangesScanned
