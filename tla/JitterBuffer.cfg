\* Every interleaving of push and pop over a whole turn of the sequence numbers.
CONSTANTS
  TargetDepth = 2
  MaxDepthAsked = 4
  MaxMisses = 3
  SeqMod = 8
SPECIFICATION Spec
INVARIANTS
  TypeOK
  BoundedDepth
  NothingStranded
  CapClears
PROPERTY HeardInOrder
