\* Up to three faults, at any step of either machine.
CONSTANTS
  Master = master
  Slave = slave
  Other = other
  Machines = {master, slave}
  Devices = {master, slave, other}
  Keys = {k1, k2, ko}
  OtherKey = ko
  NoKey = NoKey
  NoDevice = NoDevice
  BadKey = BadKey
  Unread = Unread
  Writable = {master, slave}
  Mishaps = {"crash", "short", "refused", "forget", "lost", "replaced"}
  MaxMishaps = 3
SPECIFICATION PairSpec
INVARIANTS
  OnlyTrusted
  OnDisk
PROPERTY Heals
