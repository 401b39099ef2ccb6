CONSTANTS
  c1 = c1
  c2 = c2
  c3 = c3
  u1 = u1
  Channel = {c1, c2, c3}
  User = {u1}
  None = None
  MaxPlayers = 1
  MaxTokens = 1
  MeshIsAccurate = FALSE
  Stalls = FALSE
  Crashes = TRUE
  OneClient = TRUE
  DBFaults = FALSE
SPECIFICATION Spec
SYMMETRY Symmetry
INVARIANT
  OneChannel
