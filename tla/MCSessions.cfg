CONSTANTS
  c1 = c1
  c2 = c2
  c3 = c3
  u1 = u1
  u2 = u2
  Channel = {c1, c2, c3}
  User = {u1, u2}
  None = None
  MaxPlayers = 1
  MaxTokens = 3
  MeshIsAccurate = TRUE
  Stalls = FALSE
  Crashes = TRUE
  OneClient = TRUE
  DBFaults = FALSE
SPECIFICATION Spec
SYMMETRY Symmetry
INVARIANTS
  TypeOK
  OneChannel
  SessionOfListed
  RowIsUsed
PROPERTY
  EntersFromNowhere
