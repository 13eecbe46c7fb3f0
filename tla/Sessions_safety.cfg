SPECIFICATION Spec
CONSTANTS
  Sid = {s1}
  Worker = {w1, w2}
  CodeTTL = 2
  TokenTTL = 5
  Latency = 1
  Skew = 3
  SessionAge = 6
  MaxTime = 7
  MaxCodes = 1
  MaxGrants = 4
  MaxTrouble = 2
SYMMETRY Symmetry
INVARIANTS
  TypeOK
  SingleUse
  NeverForwardsExpired
  SessionRenewable
  LogoutIsFinal
