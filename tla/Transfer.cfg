CONSTANTS
  Device = {1, 2}
  Session = {1, 2}
  Client <- BothWays
  Server <- OtherWay
  File = {1, 2, 3}
  Editor <- EachEdits
  Edited = {1}
  Size = 2
  MaxVersion = 2
  MaxFaults = 1
  NoPartial = NoPartial
SPECIFICATION FairSpec
INVARIANTS TypeOK  PartialsUndisturbed
PROPERTIES TransfersEnd 
