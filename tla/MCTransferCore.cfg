CONSTANTS
  r1 = r1
  r2 = r2
  v1 = v1
  v2 = v2
  NoMeta = NoMeta
  NoChunk = NoChunk
  Readers = {r1, r2}
  Verifiers = {v1, v2}
  Byte = {0, 1}
  Zero = 0
  Wrap = 8
  MaxSize = 2
  Metas <- MCMetas
  Chunks <- MCChunks
  HasPath = TRUE
  MaxBytes = 0
  ExactlyOnce = TRUE
SPECIFICATION FairSpec
INVARIANTS OkMeansIntact IInv
PROPERTIES HashedIsFinal KeepsPromise VerificationEnds
CHECK_DEADLOCK FALSE
