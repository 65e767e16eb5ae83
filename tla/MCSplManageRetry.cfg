SPECIFICATION Spec
CONSTANTS
  Calls = {c1}
  Mints = {m1}
  NoMint = NoMint
  MaxRetries = 2
  InitialPowers = {{"mintAuthority", "freezeAuthority"}, {"mutable"}}
INVARIANT AttemptsGetTheirTime
CHECK_DEADLOCK FALSE
