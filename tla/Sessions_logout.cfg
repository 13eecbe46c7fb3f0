SPECIFICATION Spec
CONSTANTS
  Sid = {s1}
  Worker = {w1, w2}
  CodeTTL = 2
  TokenTTL = 5
  Latency = 1
  Skew = 3
  SessionAge = 6
  MaxTime = 7
  MaxCodes = 1
  MaxGrants = 3
  MaxTrouble = 0
SYMMETRY Symmetry
INVARIANTS
  LoggedOutStaysOut
