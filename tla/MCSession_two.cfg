\* Two Slaves competing for the one session; prompts and kicks of one meet the other.
CONSTANTS
  Slaves = {a, b}
  Keys = {k1}
  NoKey = NoKey
  Nobody = Nobody
  MaxInFlight = 0
  Buttons = {"disconnect", "forget", "slaveforget"}
SPECIFICATION Spec
SYMMETRY Symmetry
PROPERTY OnlyAdmitted
