CONSTANTS
  Peers = {p1, p2}
  Verifier = Verifier
  NoFrame = NoFrame
  NoMeta = NoMeta
  NoChunk = NoChunk
  Byte = {0, 1}
  Zero = 0
  Source <- ThreeBytes
  ChunkSize = 2
  HighWater = 0
  PipeSize = 1
  Faults = {"link", "ice", "setup", "signaling", "read", "timer", "disk"}
  MaxFaults = 1
SPECIFICATION Spec
INVARIANTS CompleteMeansSent PeerIsPublished FailureHasCause NobodyStuck
SYMMETRY PeerSymmetry
CHECK_DEADLOCK FALSE
