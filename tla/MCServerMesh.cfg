CONSTANTS
  c1 = c1
  c2 = c2
  s1 = s1
  s2 = s2
  Channel = {c1, c2}
  Server = {s1, s2}
  ServerOf <- MCServerOf
  Timeout = 3
  MaxStarts = 4
  MaxLost = 3
  MaxStray = 2
SPECIFICATION FairSpec
INVARIANTS TypeOK StatusAgrees
PROPERTIES Trust Converges AllKnown
