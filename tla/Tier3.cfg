SPECIFICATION FairSpec
CONSTANTS
  FieldOrder = 7
  NumVoters = 2
  NonceShares = 3
  NoncePoly <- MCNoncePoly
  Party = {0, 1}
  Instance <- WholeInstances
  NoInstance = NoInstance
  Width = 2
  Chunk = 1
  Slots = 5
  MaxFaults = 1
  MaxSwitches = 1
INVARIANT TypeOK
INVARIANT AcceptedIsExpected
INVARIANT OnlyOrphansSpoil
INVARIANT SameNonces
PROPERTY AlwaysProvedAgain
