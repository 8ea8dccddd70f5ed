\* The bounds of MCPointer.cfg.
\* TLC refutes each of these; keep the line of one to see its trace.
CONSTANTS
  Slaves = {"s1", "s2"}
  LocalMonitors <- MasterScreens
  PeerLayouts <- SlaveLayouts
  Saved <- Arranged
  Drops <- Corners
  Moves <- SmallMoves
  NoEntry = NoEntry
  ReturnMargin = 2
SPECIFICATION Spec
PROPERTY ReturnNeedsPush
INVARIANT ReportsExceededEdge
PROPERTY StartsFromCursor
