CONSTANTS
  Peer = {1, 2}
  MaxConcurrentPeers = 1
  MaxSelected = 4
  SyncInterval = 1
  IdlePeerInterval = 2
  MaxGeneration = 1
  MaxNetwork = 1
  MaxFaults = 1
SPECIFICATION Spec
INVARIANTS TypeOK SessionsBounded ConfirmedWasOffered RetriesReachEveryPeer 
