CONSTANTS
  Plain = {"a"}
  Mods = {}
  RightMods <- OnlyLeft
  Buttons = {"button"}
  Combo = {"none"}
  MaxPending = 2
  MaxWire = 0
  MaxSessions = 1
SPECIFICATION Spec
INVARIANT ButtonsReleased
