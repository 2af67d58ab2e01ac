SPECIFICATION Spec
CONSTANTS
  FieldOrder = 7
  NumVoters = 2
  NonceShares = 3
  NoncePoly <- MCNoncePoly
  Party = {0, 1}
  Instance <- PaddedInstances
  NoInstance = NoInstance
  Width = 2
  Chunk = 1
  Slots = 5
  MaxFaults = 0
  MaxSwitches = 1
INVARIANT HonestChunkIsProvable
