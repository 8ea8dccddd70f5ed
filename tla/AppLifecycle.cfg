\* Both roles, two formats, two servers in a row.
CONSTANTS
  Formats = {f1, f2}
  Sockets = {s1, s2}
  Generations = 3
SPECIFICATION Spec
INVARIANTS
  DiscoveryServed
  AudioBelongs
  OneSource
  CallbackSafe
CHECK_DEADLOCK FALSE
