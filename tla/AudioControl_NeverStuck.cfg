CONSTANTS
  AudioFormats = {f1, f2}
  NoFormat = NoFormat
  MaxEdits = 1
  MaxSessions = 1
SPECIFICATION FairControlSpec
PROPERTY NeverStuck
