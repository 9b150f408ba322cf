CONSTANTS
  None = None
  Id <- MCId
  MaxText = 6
  Chunk = 5
  Attempts = 2
  EepromSize = 30
  Setups <- MCSetups
SPECIFICATION Spec
INVARIANTS SavesAndLoads CodecSound
