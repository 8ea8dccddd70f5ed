CONSTANTS
  Plain = {"a", "esc"}
  Mods = {"ctrl"}
  RightMods <- OnlyLeft
  Buttons = {}
  Combo = {"esc", "ctrl"}
  MaxPending = 3
  MaxWire = 0
  MaxSessions = 1
SPECIFICATION Spec
INVARIANT EscapeFrees
