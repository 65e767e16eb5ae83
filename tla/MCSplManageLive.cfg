SPECIFICATION FairSpec
CONSTANTS
  Calls = {c1}
  Mints = {m1}
  NoMint = NoMint
  MaxRetries = 3
  InitialPowers = {{"mintAuthority", "freezeAuthority"}, {"mutable"}}
PROPERTY CallEnds
CHECK_DEADLOCK FALSE
