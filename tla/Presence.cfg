\* One other device under two announcements; one packet in a row lost, periods and delays that vary.
CONSTANTS
  Devices = {own, peer}
  Own = own
  Ads = {old, new}
  MinPeriod = 1
  MaxPeriod = 2
  Timeout = 6
  Poll = 1
  MaxDelay = 2
  MaxLost = 1
SPECIFICATION Spec
INVARIANTS
  NoGhosts
  Current
