CONSTANTS
  Peers = {p1, p2}
  Verifier = Verifier
  NoFrame = NoFrame
  NoMeta = NoMeta
  NoChunk = NoChunk
  Byte = {0, 1}
  Zero = 0
  Source <- TwoBytes
  ChunkSize = 1
  HighWater = 1
  PipeSize = 2
  Faults = {}
  MaxFaults = 0
SPECIFICATION Spec
INVARIANTS CompleteIsVerified
CHECK_DEADLOCK FALSE
