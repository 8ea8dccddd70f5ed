\* Two machines of either kind, a text and an image; four events in all: sessions,
\* copies by the users, and X11 requests that time out.
SPECIFICATION ClipSpec
CONSTANTS
  Texts = {x}
  Images = {p}
  None = None
  MaxGen = 1
  MaxEvents = 4
INVARIANT LatestWins
PROPERTY NoEcho
PROPERTY Quiet
CHECK_DEADLOCK FALSE
