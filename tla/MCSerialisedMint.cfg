SPECIFICATION FairSpec
CONSTANTS
  Calls = {c1, c2}
  Sends = {s1, s2}
  Other = Other
  Wishes = {{"revokeMint"}, {"revokeFreeze"},
            {"revokeMint", "revokeFreeze", "unmodifiable"}}
  MaxAdvances = 2
INVARIANTS
  TypeOK
  RequestHonoured
  KeysAreKept
  FreshMeansExecutable
  TokensWereHandedOut
  SameNonceExcludes
  SignatureIsFinal
  IInv
PROPERTIES
  PromiseKept
  AllAnswered
CHECK_DEADLOCK FALSE
