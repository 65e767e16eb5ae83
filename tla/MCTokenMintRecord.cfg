SPECIFICATION Spec
CONSTANTS
  Calls = {c1, c2}
  Client = Client
  Nobody = Nobody
  MaxSlot = 1
SYMMETRY Symmetry
INVARIANT RecordedTokenExists
CHECK_DEADLOCK FALSE
