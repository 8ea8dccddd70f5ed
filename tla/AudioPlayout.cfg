\* The jitter buffer inside its stream: a ceiling asked below the target, packets
\* and requests of unequal size, more than a turn of the sequence numbers.
CONSTANTS
  TargetDepth = 2
  MaxDepthAsked = 1
  MaxMisses = 2
  SeqMod = 5
  PacketBytes = 2
  Requests = {1, 3}
  NetCapacity = 2
SPECIFICATION PlayoutSpec
INVARIANTS
  BoundedDepth
  NothingStranded
PROPERTIES
  HeardInOrder
  SoundReturns
  CallbackReturns
