\* Two sessions, two edits.
\* TLC refutes each of these; keep the line of one to see its trace.
CONSTANTS
  AudioFormats = {f1, f2}
  NoFormat = NoFormat
  MaxEdits = 2
  MaxSessions = 2
SPECIFICATION ControlSpec
PROPERTY RequestsApplied
PROPERTY SameAudioKey
INVARIANT ChoiceHolds
INVARIANT FormatsChosen
