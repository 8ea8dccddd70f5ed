CONSTANTS
  Plain = {}
  Mods = {"ctrl"}
  RightMods <- LeftAndRight
  Buttons = {}
  Combo = {"none"}
  MaxPending = 2
  MaxWire = 0
  MaxSessions = 1
SPECIFICATION Spec
INVARIANT ModifiersFreed
