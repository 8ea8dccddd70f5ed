\* The bounds of ClipboardSync.cfg.
\* TLC refutes each of these; keep the line of one to see its trace.
SPECIFICATION ClipSpec
CONSTANTS
  Texts = {x}
  Images = {p}
  None = None
  MaxGen = 1
  MaxEvents = 4
CHECK_DEADLOCK FALSE
PROPERTY OnlyEchoHeldBack
INVARIANT OwnerOffers
INVARIANT TextsIntact
