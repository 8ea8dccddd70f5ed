\* One Master.
\* TLC refutes each of these; keep the line of one to see its trace.
CONSTANTS
  Masters = {m1}
  Nobody = Nobody
SPECIFICATION ConnectSpec
PROPERTY GoAwayStopsDialing
PROPERTY RejectionIsFinal
PROPERTY RetriesWait
