SPECIFICATION FairSpec
CONSTANTS
  Calls = {c1, c2}
  Client = Client
  Nobody = Nobody
  MaxSlot = 1
INVARIANTS
  TypeOK
  FailureMeansContention
  FixedTokensStayFixed
  MetadataResolves
  AnsweredAfterSettling
  IInv
PROPERTIES
  PromiseKept
  CallEnds
CHECK_DEADLOCK FALSE
