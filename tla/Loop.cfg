SPECIFICATION FairSpec
CONSTANTS
  Conns = {c1, c2}
  Fds = {3, 5, 6}
  OthersHold <- OthersChoices
  Listener = 4
  SetSize = 6
  MaxPieces = 2
  None = None
  Other = Other
INVARIANTS TypeOK MaxfdIsHighest EventsMatchDescriptors FiredStillReady OnlyLeaversDropped IInv
PROPERTIES PiecesRead LeaversDropped ConnectionsAccepted
CHECK_DEADLOCK FALSE
