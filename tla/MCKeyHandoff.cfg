\* A letter that completes the escape combination with a modifier, and a button, over two sessions.
CONSTANTS
  Plain = {"esc"}
  Mods = {"ctrl"}
  RightMods <- OnlyLeft
  Buttons = {"button"}
  Combo = {"esc", "ctrl"}
  MaxPending = 2
  MaxWire = 0
  MaxSessions = 2
SPECIFICATION Spec
INVARIANTS
  NothingStuckOnSlave
  NoGhostKeys
