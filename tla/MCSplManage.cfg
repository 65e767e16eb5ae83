SPECIFICATION Spec
CONSTANTS
  Calls = {c1, c2}
  Mints = {m1}
  NoMint = NoMint
  MaxRetries = 2
  InitialPowers = {{"mintAuthority", "freezeAuthority"}, {"mutable"}}
SYMMETRY Symmetry
INVARIANTS
  TypeOK
  RevokedMeansGone
  AppliedAtMostOnce
  FailedMeansTaken
  IInv
PROPERTIES
  PromiseKept
  RetriesRunOut
CHECK_DEADLOCK FALSE
