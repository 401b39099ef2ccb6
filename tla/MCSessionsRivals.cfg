CONSTANTS
  c1 = c1
  c2 = c2
  u1 = u1
  Channel = {c1, c2}
  User = {u1}
  None = None
  MaxPlayers = 1
  MaxTokens = 3
  MeshIsAccurate = FALSE
  Stalls = TRUE
  Crashes = TRUE
  OneClient = FALSE
  DBFaults = FALSE
SPECIFICATION Spec
SYMMETRY Symmetry
PROPERTY
  RedeemedOnce
