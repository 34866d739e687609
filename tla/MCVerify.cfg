SPECIFICATION VerifySpec
CONSTANTS
  None = None
  Bad = Bad
  MaxSlots = 6
  Fields <- MCFields
  Worlds <- MCWorlds
  Contents <- MCContents
  Radius = 4
  Tolerance = 1
  PROBES = 4
INVARIANTS TreesAreJoins ClustersAreComponents SpeaksForAll PassIsEarned NamesKeep DiffTells
