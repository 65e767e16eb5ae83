SPECIFICATION Spec
CONSTANTS
  Wallets = {w1}
  Requests = {r1, r2, r3}
  Guards = {g1}
  Nonces = {n1}
  Nil = Nil
  TokenTtl = 3
  SessionLife = 2
  PurgeDelay = 1
  MaxClock = 4
SYMMETRY Symmetry
INVARIANTS
  TypeOK
  StrandedOnlyInFlight
  SomeClientSignedIn
  ErrorsNeedARace
  RefusalMeansDisplaced
  IInv
PROPERTIES
  PurgedOnlyExpired
  SessionsKept
CHECK_DEADLOCK FALSE
