\* Two sessions, two formats, two edits of each user; frames and threads are fair.
CONSTANTS
  AudioFormats = {f1, f2}
  NoFormat = NoFormat
  MaxEdits = 2
  MaxSessions = 2
SPECIFICATION FairControlSpec
PROPERTIES
  ReportsArrive
  CaptureFollows
  EditsStick
  Settles
