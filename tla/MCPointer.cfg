CONSTANTS
  Slaves = {"s1", "s2"}
  LocalMonitors <- MasterScreens
  PeerLayouts <- SlaveLayouts
  Saved <- Arranged
  Drops <- Corners
  Moves <- SmallMoves
  NoEntry = NoEntry
  ReturnMargin = 2
SPECIFICATION Spec
INVARIANTS
  SuppressedForSlave
  HomeInside
PROPERTIES
  PinnedElsewhere
  RestStays
