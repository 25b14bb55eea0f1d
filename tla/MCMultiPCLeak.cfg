CONSTANTS
  Peers = {p1, p2}
  Verifier = Verifier
  NoFrame = NoFrame
  NoMeta = NoMeta
  NoChunk = NoChunk
  Byte = {0, 1}
  Zero = 0
  Source <- TwoBytes
  ChunkSize = 1
  HighWater = 1
  PipeSize = 2
  Faults = {"setup"}
  MaxFaults = 1
SPECIFICATION Spec
INVARIANTS NoSessionLeak
CHECK_DEADLOCK FALSE
