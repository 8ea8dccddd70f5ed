\* One Slave, two keys it may have held, every button.
CONSTANTS
  Slaves = {a}
  Keys = {k1, k2}
  NoKey = NoKey
  Nobody = Nobody
  MaxInFlight = 1
  Buttons = {"disconnect", "forget", "restart", "slavestop", "slaveforget", "rekey"}
SPECIFICATION Spec
INVARIANTS
  TypeOK
  StreamAgreement
  KickedSlaveTold
PROPERTIES
  OnlyAdmitted
  ServerNeverWedged
  ServerStops
  ClientStops
