CONSTANTS
  Plain = {"a"}
  Mods = {"ctrl"}
  RightMods <- OnlyLeft
  Buttons = {}
  Combo = {"none"}
  MaxPending = 2
  MaxWire = 0
  MaxSessions = 1
SPECIFICATION Spec
INVARIANT EarlyKeysReleased
