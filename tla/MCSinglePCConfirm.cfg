CONSTANTS
  Primary = Primary
  Verifier = Verifier
  NoFrame = NoFrame
  NoMeta = NoMeta
  NoChunk = NoChunk
  Sources <- TwoBytes
  ChunkSize = 2
  HighWater = 1
  Zstd = TRUE
  Lossy = TRUE
  Byte = {0, 1}
  Zero = 0
  Wrap = 8
  HasPath = TRUE
  MaxBytes = 8
SPECIFICATION Spec
INVARIANTS ConfirmationIsTrue
CHECK_DEADLOCK FALSE
