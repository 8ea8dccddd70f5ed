CONSTANTS
  TargetDepth = 2
  MaxDepthAsked = 5
  MaxMisses = 2
  SeqMod = 8
SPECIFICATION Spec
PROPERTY FastForwards
