CONSTANTS
  k1 = k1
  k2 = k2
  u1 = u1
  Conn = {k1, k2}
  User = {u1}
  None = None
  Ssl = TRUE
SPECIFICATION FairSpec
INVARIANTS
  TypeOK
  ReadIsOutstanding
PROPERTY
  UsersLeave
CHECK_DEADLOCK FALSE
