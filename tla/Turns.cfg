CONSTANTS
  Peer = {1, 2}
  MaxConcurrentPeers = 1
  MaxSelected = 4
  SyncInterval = 1
  IdlePeerInterval = 2
  MaxGeneration = 0
  MaxNetwork = 1
  MaxFaults = 0
SPECIFICATION FairSpec
PROPERTIES EveryPeerTried ShutdownEnds
