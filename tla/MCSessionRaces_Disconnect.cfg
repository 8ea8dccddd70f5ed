CONSTANTS
  Slaves = {a}
  Keys = {k1}
  NoKey = NoKey
  Nobody = Nobody
  MaxInFlight = 1
  Buttons = {"disconnect"}
SPECIFICATION RaceSpec
INVARIANT DisconnectHonoured
