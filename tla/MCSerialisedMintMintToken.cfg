SPECIFICATION Spec
CONSTANTS
  Calls = {c1, c2}
  Sends = {s1, s2}
  Other = Other
  Wishes = {{"revokeMint"}, {"revokeFreeze"},
            {"revokeMint", "revokeFreeze", "unmodifiable"}}
  MaxAdvances = 2
SYMMETRY Symmetry
INVARIANT MintTokenWorks
CHECK_DEADLOCK FALSE
