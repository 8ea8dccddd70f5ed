\* The Slave cannot store its own key pair.
CONSTANTS
  Master = master
  Slave = slave
  Other = other
  Machines = {master, slave}
  Devices = {master, slave, other}
  Keys = {k1, k2, k3, ko}
  OtherKey = ko
  NoKey = NoKey
  NoDevice = NoDevice
  BadKey = BadKey
  Unread = Unread
  Writable = {master}
  Mishaps = {}
  MaxMishaps = 0
SPECIFICATION PairSpec
PROPERTY Heals
