CONSTANTS
  Masters = {m1, m2}
  Nobody = Nobody
SPECIFICATION ConnectSpec
INVARIANTS
  LeaveIsFinal
PROPERTY KeepsTrying
