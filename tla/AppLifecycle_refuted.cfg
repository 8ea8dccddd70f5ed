\* The bounds of AppLifecycle.cfg.
\* TLC refutes each of these; keep the line of one to see its trace.
CONSTANTS
  Formats = {f1, f2}
  Sockets = {s1, s2}
  Generations = 3
SPECIFICATION Spec
INVARIANT NeverDestroyed
INVARIANT HiddenCanQuit
CHECK_DEADLOCK FALSE
