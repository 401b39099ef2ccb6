CONSTANTS
  c1 = c1
  c2 = c2
  u1 = u1
  u2 = u2
  n1 = n1
  n2 = n2
  Channel = {c1, c2}
  User = {u1, u2}
  Nickname = {n1, n2}
  None = None
  MaxFaults = 2
SPECIFICATION FairSpec
INVARIANTS
  TypeOK
  CharacterIsComplete
  NobodyIsIgnored
  NicknamePerChannel
PROPERTY
  GetsCharacter
