SPECIFICATION Spec
CONSTANTS
  Wallets = {w1}
  Requests = {r1, r2, r3}
  Guards = {}
  Nonces = {n1}
  Nil = Nil
  TokenTtl = 2
  SessionLife = 2
  PurgeDelay = 1
  MaxClock = 2
SYMMETRY Symmetry
INVARIANT UnexpiredTokenIsReissued
CHECK_DEADLOCK FALSE
