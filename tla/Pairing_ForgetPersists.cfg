\* A store that may refuse to open.
CONSTANTS
  Master = master
  Slave = slave
  Other = other
  Machines = {master, slave}
  Devices = {master, slave, other}
  Keys = {k1, k2, ko}
  OtherKey = ko
  NoKey = NoKey
  NoDevice = NoDevice
  BadKey = BadKey
  Unread = Unread
  Writable = {master, slave}
  Mishaps = {"crash", "refused", "forget"}
  MaxMishaps = 3
SPECIFICATION PairSpec
INVARIANT ForgetPersists
