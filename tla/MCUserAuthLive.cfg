SPECIFICATION FairSpec
CONSTANTS
  Wallets = {w1}
  Requests = {r1, r2}
  Guards = {g1}
  Nonces = {n1}
  Nil = Nil
  TokenTtl = 2
  SessionLife = 2
  PurgeDelay = 1
  MaxClock = 4
PROPERTY SignInEnds
CHECK_DEADLOCK FALSE
