------------------------ MODULE TransferCore_proofs ------------------------
(* Proofs about TransferCore, for every file, every set of chunks, any number of
   readers and of verifiers. *)
EXTENDS TransferCore, FiniteSetTheorems, TLAPS

(* What a chunk covers: as many offsets as it has bytes. *)
LEMMA ChunkFacts ==
  ASSUME NEW c \in Chunks
  PROVE  /\ c.at \in Nat /\ c.at < Wrap
         /\ Len(c.data) \in Nat /\ Len(c.data) < Wrap
         /\ Cells(c) \in SUBSET Nat
         /\ IsFiniteSet(Cells(c))
         /\ Cardinality(Cells(c)) = Len(c.data)
         /\ \A o \in Cells(c) : c.data[o - c.at + 1] \in Byte
<1>1. /\ c.at \in Nat /\ c.at < Wrap
      /\ c.data \in Seq(Byte)
      /\ Len(c.data) \in Nat /\ Len(c.data) < Wrap
  BY ChunkAssumption, WrapAssumption DEF Offsets
<1>2. Cells(c) \in SUBSET Nat
  BY <1>1 DEF Cells
<1>3. /\ IsFiniteSet(Cells(c))
      /\ Cardinality(Cells(c)) = Len(c.data)
  <2> DEFINE last == c.at + Len(c.data) - 1
  <2>1. c.at \in Int /\ last \in Int
    BY <1>1
  <2>2. Len(c.data) = IF c.at > last THEN 0 ELSE last - c.at + 1
    BY <1>1
  <2>3. Cells(c) = c.at .. last
    BY DEF Cells
  <2> HIDE DEF last
  <2>4. QED
    BY <2>1, <2>2, <2>3, FS_Interval
<1>4. \A o \in Cells(c) : o - c.at + 1 \in 1 .. Len(c.data)
  BY <1>1 DEF Cells
<1>5. \A o \in Cells(c) : c.data[o - c.at + 1] \in Byte
  BY <1>1, <1>4
<1>6. QED
  BY <1>1, <1>2, <1>3, <1>5

(* The bounds check of writeChunk is exact although `end` is computed modulo
   2^64: it accepts a chunk just when all of it lies inside the file. *)
THEOREM BoundsCheckExact ==
  ASSUME NEW c \in Chunks, meta \in Metas
  PROVE  inBounds(c) <=> c.at + Len(c.data) <= meta.size
<1>1. /\ c.at \in Nat /\ c.at < Wrap
      /\ Len(c.data) \in Nat /\ Len(c.data) < Wrap
  BY ChunkFacts
<1>2. Wrap \in Nat /\ meta.size \in Nat /\ meta.size < Wrap
  BY WrapAssumption, MetaAssumption DEF Offsets
<1>3. CASE c.at + Len(c.data) < Wrap
  BY <1>1, <1>2, <1>3 DEF inBounds, plus64
<1>4. CASE c.at + Len(c.data) >= Wrap
  BY <1>1, <1>2, <1>4 DEF inBounds, plus64
<1>5. QED
  BY <1>1, <1>2, <1>3, <1>4

COROLLARY InBoundsCells ==
  ASSUME NEW c \in Chunks, meta \in Metas, inBounds(c)
  PROVE  Cells(c) \in SUBSET (0 .. meta.size - 1)
<1>1. c.at \in Nat /\ Len(c.data) \in Nat /\ meta.size \in Nat
  BY ChunkFacts, MetaAssumption DEF Offsets
<1>2. c.at + Len(c.data) <= meta.size
  BY BoundsCheckExact
<1>3. QED
  BY <1>1, <1>2 DEF Cells
-----------------------------------------------------------------------------
(* Type correctness, with the fact that a reader holds a chunk exactly while it
   is about to write or to count it. *)
TypeInv == TypeOK /\ Holding

LEMMA TypeInit == Init => TypeInv
<1> SUFFICES ASSUME Init PROVE TypeInv
  OBVIOUS
<1>1. contents \in [Offsets -> Byte]
  BY ByteAssumption DEF Init
<1>2. /\ rd \in [Readers -> {"idle", "ingest", "count", "stopped"}]
      /\ chunk \in [Readers -> Chunks \cup {NoChunk}]
      /\ vf \in [Verifiers -> {"off", "waiting", "claiming", "stopped"}]
      /\ Holding
  BY DEF Init, Holding
<1>3. QED
  BY <1>1, <1>2 DEF Init, TypeInv, TypeOK, Gates

USE DEF fileState, gateState, history, data, bodyMoves

LEMMA TypeNext == TypeInv /\ [Next]_vars => TypeInv'
<1> SUFFICES ASSUME TypeInv, [Next]_vars PROVE TypeInv'
  OBVIOUS
<1> USE DEF TypeInv, TypeOK, Holding
<1>1. CASE clientFails("client")
  BY <1>1 DEF clientFails, fail, Gates, Reasons
<1>2. ASSUME NEW m \in Metas, handleMetadata(m) PROVE TypeInv'
  <2>1. CASE metadataRejected(m)
    <3>1. /\ gate' \in Gates /\ result' \in Reasons \cup {"nil"}
          /\ UNCHANGED <<data, rd, chunk, vf, history>>
      BY <2>1 DEF metadataRejected, fail, gateState, Gates, Reasons
    <3>2. QED
      BY <3>1 DEF data, fileState, history
  <2>2. CASE metadataAccepted(m)
    BY <2>2, MetaAssumption DEF metadataAccepted
  <2>3. CASE truncateFails(m)
    BY <2>3, ZenonT(30) DEF truncateFails, fail, Gates, Reasons
  <2>4. QED
    BY <1>2, <2>1, <2>2, <2>3 DEF handleMetadata
<1>3. ASSUME NEW r \in Readers, NEW c \in Chunks, deliver(r, c) PROVE TypeInv'
  BY <1>3, ChunkFacts DEF deliver
<1>4. ASSUME NEW r \in Readers, readerStep(r) PROVE TypeInv'
  <2>1. ASSUME NEW why \in Reasons, readerFails(r, why) PROVE TypeInv'
    BY <2>1 DEF readerFails, fail, Gates
  <2>2. CASE decodeFails(r)
    BY <2>1, <2>2 DEF decodeFails, Reasons
  <2>3. CASE dataBeforeMetadata(r)
    BY <2>1, <2>3 DEF dataBeforeMetadata, Reasons
  <2>4. CASE dataOutOfBounds(r)
    BY <2>1, <2>4 DEF dataOutOfBounds, Reasons
  <2>5. CASE writeFails(r)
    BY <2>1, <2>5 DEF writeFails, Reasons
  <2>6. CASE writeChunk(r)
    <3>1. chunk[r] \in Chunks
      BY <2>6 DEF writeChunk
    <3>2. contents' \in [Offsets -> Byte]
      BY <2>6, <3>1, ChunkFacts DEF writeChunk, writeAt
    <3>3. QED
      BY <2>6, <3>1, <3>2 DEF writeChunk
  <2>7. CASE countBytes(r)
    <3>1. chunk[r] \in Chunks
      BY <2>7 DEF countBytes
    <3>2. Len(chunk[r].data) \in Nat /\ Cells(chunk[r]) \in SUBSET Nat
      BY <3>1, ChunkFacts
    <3>3. meta.size \in Nat
      BY <2>7, MetaAssumption DEF countBytes, Offsets
    <3>4. bytesWritten' \in Nat
      BY <2>7, <3>2, <3>3 DEF countBytes
    <3>5. counted' \in SUBSET Nat
      BY <2>7, <3>2, <3>3 DEF countBytes
    <3>6. allBytes' \in BOOLEAN
      BY <2>7, <3>2, <3>3 DEF countBytes
    <3>7. QED
      BY <2>7, <3>4, <3>5, <3>6 DEF countBytes
  <2>8. QED
    BY <1>4, <2>2, <2>3, <2>4, <2>5, <2>6, <2>7 DEF readerStep
<1>5. ASSUME NEW v \in Verifiers, startVerify(v) \/ verifierStep(v)
      PROVE  TypeInv'
  <2>1. ASSUME NEW why \in Reasons, verifierFails(v, why) PROVE TypeInv'
    BY <2>1 DEF verifierFails, fail, Gates
  <2>2. ASSUME NEW to \in {"waiting", "claiming", "stopped"}, verifierMoves(v, to)
        PROVE  TypeInv'
    BY <2>2 DEF verifierMoves
  <2>3. CASE claimVerify(v)
    BY <2>3 DEF claimVerify, Gates
  <2>4. QED
    BY <1>5, <2>1, <2>2, <2>3
    DEF startVerify, verifyBeforeMetadata, verifyStarts, verifierStep,
        seeAllBytes, seeDone, verifyTimeout, Reasons
<1>6. CASE doneBody
  <2> USE DEF rest, Gates, Reasons
  <2>1. CASE cleanup
    BY <2>1 DEF cleanup
  <2>2. CASE sync \/ verifyIntegrity \/ closeDone
    BY <2>2, ZenonT(30) DEF sync, verifyIntegrity, closeDone
  <2>3. CASE syncFails \/ integrityFails \/ hashFails
    BY <2>3 DEF syncFails, integrityFails, hashFails, abortWith
  <2>4. CASE sinkClose \/ abortClose
    BY <2>4 DEF sinkClose, abortClose
  <2>5. CASE abortRemove
    BY <2>5 DEF abortRemove
  <2>6. QED
    BY <1>6, <2>1, <2>2, <2>3, <2>4, <2>5 DEF doneBody
<1>7. CASE UNCHANGED vars
  BY <1>7 DEF vars
<1>8. QED
  BY <1>1, <1>2, <1>3, <1>4, <1>5, <1>6, <1>7 DEF Next

(* Every variable of the receive-side core keeps its type, whatever its readers,
   verifiers and failers do, and a reader never writes without a chunk. *)
THEOREM TypeCorrect == Spec => []TypeOK
<1>1. TypeInv => TypeOK
  BY DEF TypeInv
<1>2. QED
  BY <1>1, TypeInit, TypeNext, PTL DEF Spec
-----------------------------------------------------------------------------
(* The safety invariant: a full count leaves no reader anything to write. *)
LEMMA SafetyInit == Init => IInv
<1> SUFFICES ASSUME Init PROVE IInv
  OBVIOUS
<1>1. Holding /\ Apart /\ Awaited
  BY DEF Init, Holding, Apart, InFlight, Awaited, Sealed
<1>2. Accounting
  BY FS_EmptySet DEF Init, Accounting
<1>3. AllBytesMeansCovered /\ GateInv
  BY DEF Init, AllBytesMeansCovered, GateInv, Sealed
<1>4. QED
  BY <1>1, <1>2, <1>3 DEF IInv

\* A failing transfer disturbs neither the accounts nor the file.
LEMMA FailSafe ==
  ASSUME TypeOK, Awaited, GateInv, NEW why \in Reasons, fail(why),
         UNCHANGED <<meta, fileState, allBytes>>
  PROVE  /\ GateInv'
         /\ (gate \in {"verifying", "syncing", "hashing"} \/ Sealed => allBytes)'
<1>1. why # "nil"
  BY DEF Reasons
<1>2. matches(meta)' <=> matches(meta)
  BY DEF matches
<1>3. CASE gate = "free"
  BY <1>1, <1>3 DEF fail, TypeOK, Awaited, GateInv, Sealed
<1>4. CASE gate # "free"
  BY <1>2, <1>4 DEF fail, TypeOK, Awaited, GateInv, Sealed
<1>5. QED
  BY <1>3, <1>4

\* What the accounts depend on.
LEMMA AccountsFrame ==
  ASSUME UNCHANGED <<meta, bytesWritten, allBytes, rd, chunk, history>>,
         Accounting, Apart, AllBytesMeansCovered, Holding
  PROVE  Accounting' /\ Apart' /\ AllBytesMeansCovered' /\ Holding'
BY DEF Accounting, Apart, InFlight, AllBytesMeansCovered, Holding, Cells

\* A reader that lets go of its chunk for good.
LEMMA ReaderFailsSafe ==
  ASSUME TypeInv, IInv, NEW r \in Readers, NEW why \in Reasons,
         readerFails(r, why)
  PROVE  IInv'
<1>1. /\ UNCHANGED <<meta, fileState, bytesWritten, allBytes, vf, history>>
      /\ fail(why)
      /\ rd' = [rd EXCEPT ![r] = "stopped"]
      /\ chunk' = [chunk EXCEPT ![r] = NoChunk]
  BY DEF readerFails
<1>2. \A q \in Readers : rd'[q] \in {"ingest", "count"} =>
        q # r /\ rd'[q] = rd[q] /\ chunk'[q] = chunk[q]
  BY <1>1 DEF TypeInv, TypeOK
<1>3. Holding'
  BY <1>1, <1>2 DEF IInv, Holding
<1>4. Apart'
  <2>1. \A q \in InFlight' : q \in InFlight /\ chunk'[q] = chunk[q]
    BY <1>2 DEF InFlight
  <2>2. \A q \in Readers :
          rd'[q] = "count" => rd[q] = "count" /\ chunk'[q] = chunk[q]
    BY <1>2
  <2>3. QED
    BY <1>1, <2>1, <2>2 DEF IInv, Apart, Cells
<1>5. Accounting' /\ AllBytesMeansCovered'
  BY <1>1 DEF IInv, Accounting, AllBytesMeansCovered
<1>6. Awaited' /\ GateInv'
  BY <1>1, FailSafe DEF TypeInv, IInv, Awaited
<1>7. QED
  BY <1>3, <1>4, <1>5, <1>6 DEF IInv

\* Once every byte is counted an accepted chunk has no byte left to write.
LEMMA NothingLeftToWrite ==
  ASSUME TypeInv, IInv, NEW r \in Readers, writeChunk(r), allBytes
  PROVE  UNCHANGED contents
<1>1. chunk[r] \in Chunks /\ meta \in Metas /\ inBounds(chunk[r])
  BY DEF writeChunk, TypeInv, TypeOK, IInv, Holding
<1>2. Cells(chunk[r]) \subseteq 0 .. meta.size - 1
  BY <1>1, InBoundsCells
<1>3. Cells(chunk[r]) \cap counted = {}
  BY DEF writeChunk, IInv, Apart, InFlight
<1>4. counted = 0 .. meta.size - 1
  BY DEF IInv, AllBytesMeansCovered
<1>5. Cells(chunk[r]) = {}
  BY <1>2, <1>3, <1>4
<1>6. QED
  BY <1>5 DEF writeChunk, writeAt, TypeInv, TypeOK

LEMMA WriteChunkSafe ==
  ASSUME TypeInv, IInv, NEW r \in Readers, writeChunk(r)
  PROVE  IInv'
<1>1. /\ rd[r] = "ingest" /\ chunk[r] \in Chunks /\ meta \in Metas
      /\ inBounds(chunk[r])
      /\ rd' = [rd EXCEPT ![r] = "count"]
      /\ UNCHANGED <<meta, sinkOpen, onDisk, bytesWritten, allBytes, gateState,
                     chunk, vf, history>>
  BY DEF writeChunk, TypeInv, TypeOK, IInv, Holding
<1>2. \A q \in Readers : q # r => rd'[q] = rd[q]
  BY <1>1 DEF TypeInv, TypeOK
<1>3. rd'[r] = "count"
  BY <1>1 DEF TypeInv, TypeOK
<1>4. Holding'
  BY <1>1, <1>2 DEF IInv, Holding
<1>5. Apart'
  <2>1. InFlight' = InFlight
    BY <1>1, <1>2, <1>3 DEF InFlight
  <2>2. Cells(chunk[r]) \subseteq 0 .. meta.size - 1
    BY <1>1, InBoundsCells
  <2>3. QED
    BY <1>1, <1>2, <2>1, <2>2 DEF IInv, Apart, Cells
<1>6. Accounting' /\ AllBytesMeansCovered'
  BY <1>1 DEF IInv, Accounting, AllBytesMeansCovered
<1>7. Awaited'
  BY <1>1 DEF IInv, Awaited, Sealed
<1>8. Sealed => UNCHANGED contents
  BY NothingLeftToWrite DEF IInv, Awaited
<1>9. GateInv'
  BY <1>1, <1>8 DEF IInv, GateInv, Sealed, matches
<1>10. QED
  BY <1>4, <1>5, <1>6, <1>7, <1>9 DEF IInv

LEMMA CountBytesSafe ==
  ASSUME TypeInv, IInv, NEW r \in Readers, countBytes(r)
  PROVE  IInv'
<1>1. /\ rd[r] = "count" /\ chunk[r] \in Chunks /\ meta \in Metas
      /\ meta # NoMeta /\ meta.size \in Nat
  BY MetaAssumption DEF countBytes, IInv, Holding, Offsets
<1> DEFINE cells == Cells(chunk[r])
           len == Len(chunk[r].data)
<1>2. /\ bytesWritten' = bytesWritten + len
      /\ counted' = counted \cup cells
      /\ rd' = [rd EXCEPT ![r] = "idle"]
      /\ chunk' = [chunk EXCEPT ![r] = NoChunk]
      /\ UNCHANGED <<meta, fileState, gateState, vf, arrived>>
  BY DEF countBytes
<1>3. IF bytesWritten' >= meta.size THEN allBytes' = TRUE ELSE allBytes' = allBytes
  BY <1>2 DEF countBytes
<1>4. /\ cells \in SUBSET Nat /\ IsFiniteSet(cells)
      /\ Cardinality(cells) = len /\ len \in Nat
  BY <1>1, ChunkFacts
<1>5. /\ cells \subseteq arrived /\ cells \cap counted = {}
      /\ cells \subseteq 0 .. meta.size - 1
  BY <1>1 DEF IInv, Apart, InFlight
<1>6. /\ counted \subseteq arrived /\ counted \subseteq 0 .. meta.size - 1
      /\ IsFiniteSet(counted) /\ bytesWritten = Cardinality(counted)
  BY <1>1 DEF IInv, Accounting
<1> HIDE DEF cells, len
<1>7. /\ IsFiniteSet(counted')
      /\ Cardinality(counted') = bytesWritten'
  <2>1. IsFiniteSet(counted \cup cells)
    BY <1>4, <1>6, FS_Union
  <2>2. Cardinality(counted \cup cells)
          = Cardinality(counted) + Cardinality(cells)
            - Cardinality(counted \cap cells)
    BY <1>4, <1>6, FS_Union
  <2>3. Cardinality(counted \cap cells) = 0
    BY <1>5, FS_EmptySet
  <2>4. QED
    BY <1>2, <1>4, <1>6, <2>1, <2>2, <2>3, FS_CardinalityType
<1>8. Accounting'
  BY <1>1, <1>2, <1>5, <1>6, <1>7 DEF Accounting
<1>9. AllBytesMeansCovered'
  <2>1. /\ counted' \in SUBSET (0 .. meta.size - 1)
        /\ IsFiniteSet(0 .. meta.size - 1)
        /\ Cardinality(0 .. meta.size - 1) = meta.size
    <3>1. 0 \in Int /\ meta.size - 1 \in Int
      BY <1>1
    <3>2. /\ IsFiniteSet(0 .. meta.size - 1)
          /\ Cardinality(0 .. meta.size - 1)
               = IF 0 > meta.size - 1 THEN 0 ELSE (meta.size - 1) - 0 + 1
      BY <3>1, FS_Interval, Zenon
    <3>3. (IF 0 > meta.size - 1 THEN 0 ELSE (meta.size - 1) - 0 + 1) = meta.size
      BY <1>1
    <3>4. QED
      BY <1>2, <1>5, <1>6, <3>2, <3>3
  <2>2. /\ Cardinality(counted') <= meta.size
        /\ Cardinality(counted') = meta.size => counted' = 0 .. meta.size - 1
    BY <2>1, FS_Subset
  <2>3. Cardinality(counted') \in Nat
    BY <1>7, FS_CardinalityType
  <2>4. CASE bytesWritten' >= meta.size
    BY <1>1, <1>2, <1>7, <2>2, <2>3, <2>4 DEF AllBytesMeansCovered
  <2>5. CASE ~(bytesWritten' >= meta.size)
    <3>1. allBytes' = allBytes
      BY <1>3, <2>5
    <3>2. CASE allBytes
      <4>1. counted = 0 .. meta.size - 1
        BY <3>2 DEF IInv, AllBytesMeansCovered
      <4>2. counted' = 0 .. meta.size - 1
        BY <1>2, <1>5, <4>1
      <4>3. QED
        BY <1>1, <1>2, <4>2 DEF AllBytesMeansCovered
    <3>3. CASE ~allBytes
      BY <3>1, <3>3 DEF AllBytesMeansCovered
    <3>4. QED
      BY <3>2, <3>3
  <2>6. QED
    BY <2>4, <2>5
<1>10. \A q \in Readers : rd'[q] \in {"ingest", "count"} =>
         q # r /\ rd'[q] = rd[q] /\ chunk'[q] = chunk[q]
  BY <1>2 DEF TypeInv, TypeOK
<1>11. Holding'
  BY <1>2, <1>10 DEF IInv, Holding
<1>12. Apart'
  <2>1. \A q \in InFlight' : q \in InFlight /\ q # r /\ chunk'[q] = chunk[q]
    BY <1>10 DEF InFlight
  <2>2. \A q \in Readers :
          rd'[q] = "count" => rd[q] = "count" /\ chunk'[q] = chunk[q]
    BY <1>10
  <2>3. r \in InFlight
    BY <1>1 DEF InFlight
  <2>4. \A q \in InFlight' : Cells(chunk'[q]) \cap cells = {}
    BY <2>1, <2>3 DEF IInv, Apart, cells
  <2>5. \A q \in InFlight' : /\ Cells(chunk'[q]) \subseteq arrived'
                             /\ Cells(chunk'[q]) \cap counted' = {}
    BY <1>2, <2>1, <2>4 DEF IInv, Apart
  <2>6. \A p, q \in InFlight' :
          p # q => Cells(chunk'[p]) \cap Cells(chunk'[q]) = {}
    BY <2>1 DEF IInv, Apart
  <2>7. \A q \in Readers :
          rd'[q] = "count" => Cells(chunk'[q]) \subseteq 0 .. meta'.size - 1
    BY <1>2, <2>2 DEF IInv, Apart
  <2>8. QED
    BY <2>5, <2>6, <2>7 DEF Apart, Cells
<1>13. allBytes => allBytes'
  BY <1>3
<1>14. Awaited'
  BY <1>2, <1>13 DEF IInv, Awaited, Sealed
<1>15. GateInv'
  BY <1>2 DEF IInv, GateInv, Sealed, matches
<1>16. QED
  BY <1>8, <1>9, <1>11, <1>12, <1>14, <1>15 DEF IInv

LEMMA MetadataSafe ==
  ASSUME TypeInv, IInv, NEW m \in Metas, handleMetadata(m)
  PROVE  IInv'
<1>1. CASE metadataRejected(m)
  <2>1. UNCHANGED <<meta, fileState, bytesWritten, allBytes, rd, chunk, vf, history>>
    BY <1>1 DEF metadataRejected
  <2>2. fail("metadata")
    BY <1>1 DEF metadataRejected
  <2>3. Awaited' /\ GateInv'
    BY <2>1, <2>2, FailSafe DEF TypeInv, IInv, Awaited, Reasons
  <2>4. QED
    BY <2>1, <2>3, AccountsFrame DEF IInv
\* The winner of the CAS: nothing has been written yet.
<1>2. CASE metadataAccepted(m) \/ truncateFails(m)
  <2>1. /\ meta = NoMeta /\ meta' = m /\ m # NoMeta
        /\ UNCHANGED <<fileState, bytesWritten, rd, chunk, vf, history>>
    BY <1>2, MetaAssumption DEF metadataAccepted, truncateFails
  <2>2. counted = {} /\ ~allBytes
    BY <2>1 DEF IInv, Accounting, AllBytesMeansCovered
  <2>3. allBytes' => m.size = 0
    <3>1. CASE metadataAccepted(m)
      BY <2>2, <3>1 DEF metadataAccepted
    <3>2. CASE truncateFails(m)
      BY <2>2, <3>2 DEF truncateFails
    <3>3. QED
      BY <1>2, <3>1, <3>2
  <2>4. AllBytesMeansCovered'
    BY <2>1, <2>2, <2>3 DEF AllBytesMeansCovered
  <2>5. Accounting'
    BY <2>1, <2>2 DEF IInv, Accounting
  <2>6. Holding' /\ Apart'
    <3>1. \A r \in Readers : rd[r] # "count"
      BY <2>1, MetaAssumption DEF IInv, Holding
    <3>2. Holding'
      BY <2>1, <3>1 DEF IInv, Holding
    <3>3. InFlight' = InFlight
      BY <2>1 DEF InFlight
    <3>4. Apart'
      BY <2>1, <3>1, <3>3 DEF IInv, Apart, Cells
    <3>5. QED
      BY <3>2, <3>4
  <2>7. /\ ~Sealed /\ gate \notin {"verifying", "syncing", "hashing"}
        /\ \A v \in Verifiers : vf[v] # "claiming"
    BY <2>2 DEF IInv, Awaited
  <2>8. ~Sealed' /\ gate' \notin {"verifying", "syncing", "hashing"}
    BY <1>2, <2>7 DEF metadataAccepted, truncateFails, fail, Sealed
  <2>9. Awaited'
    BY <2>1, <2>7, <2>8 DEF Awaited
  <2>10. GateInv'
    <3>1. CASE UNCHANGED gateState
      BY <2>1, <2>8, <3>1 DEF IInv, GateInv
    <3>2. CASE gate = "free" /\ gate' = "failing" /\ result' = "truncate"
      BY <2>1, <2>8, <3>2 DEF IInv, GateInv
    <3>3. QED
      BY <1>2, <3>1, <3>2 DEF metadataAccepted, truncateFails, fail
  <2>11. QED
    BY <2>4, <2>5, <2>6, <2>9, <2>10 DEF IInv
<1>3. QED
  BY <1>1, <1>2 DEF handleMetadata

LEMMA DeliverSafe ==
  ASSUME ExactlyOnce, TypeInv, IInv, NEW r \in Readers, NEW c \in Chunks,
         deliver(r, c)
  PROVE  IInv'
<1>1. /\ rd[r] = "idle"
      /\ Cells(c) \cap arrived = {}
      /\ rd' = [rd EXCEPT ![r] = "ingest"]
      /\ chunk' = [chunk EXCEPT ![r] = c]
      /\ arrived' = arrived \cup Cells(c)
      /\ UNCHANGED <<meta, fileState, bytesWritten, allBytes, gateState, vf,
                     counted>>
  BY DEF deliver
<1>2. /\ rd'[r] = "ingest" /\ chunk'[r] = c
      /\ \A q \in Readers : q # r => rd'[q] = rd[q] /\ chunk'[q] = chunk[q]
  BY <1>1 DEF TypeInv, TypeOK
<1>3. Holding'
  BY <1>1, <1>2 DEF IInv, Holding
<1>4. Accounting' /\ AllBytesMeansCovered'
  BY <1>1 DEF IInv, Accounting, AllBytesMeansCovered
<1>5. Apart'
  <2>1. \A q \in InFlight' : q # r => q \in InFlight /\ chunk'[q] = chunk[q]
    BY <1>2 DEF InFlight
  <2>2. \A q \in InFlight' : /\ Cells(chunk'[q]) \subseteq arrived'
                             /\ Cells(chunk'[q]) \cap counted' = {}
    <3>1. Cells(c) \cap counted = {}
      BY <1>1 DEF IInv, Accounting
    <3>2. QED
      BY <1>1, <1>2, <2>1, <3>1 DEF IInv, Apart
  <2>3. \A p, q \in InFlight' :
          p # q => Cells(chunk'[p]) \cap Cells(chunk'[q]) = {}
    <3>1. \A q \in InFlight' : q # r => Cells(chunk'[q]) \cap Cells(c) = {}
      BY <1>1, <2>1 DEF IInv, Apart
    <3>2. QED
      BY <1>2, <2>1, <3>1 DEF IInv, Apart
  <2>4. \A q \in Readers :
          rd'[q] = "count" => Cells(chunk'[q]) \subseteq 0 .. meta'.size - 1
    BY <1>1, <1>2 DEF IInv, Apart
  <2>5. QED
    BY <2>2, <2>3, <2>4 DEF Apart, Cells
<1>6. Awaited'
  BY <1>1 DEF IInv, Awaited, Sealed
<1>7. GateInv'
  BY <1>1 DEF IInv, GateInv, Sealed, matches
<1>8. QED
  BY <1>3, <1>4, <1>5, <1>6, <1>7 DEF IInv

LEMMA VerifierSafe ==
  ASSUME TypeInv, IInv, NEW v \in Verifiers, startVerify(v) \/ verifierStep(v)
  PROVE  IInv'
<1>1. ASSUME NEW why \in Reasons, verifierFails(v, why) PROVE IInv'
  <2>1. /\ UNCHANGED <<meta, fileState, bytesWritten, allBytes, rd, chunk, history>>
        /\ fail(why) /\ vf' = [vf EXCEPT ![v] = "stopped"]
    BY <1>1 DEF verifierFails
  <2>2. \A u \in Verifiers : vf'[u] = "claiming" => vf[u] = "claiming"
    BY <2>1 DEF TypeInv, TypeOK
  <2>3. Awaited' /\ GateInv'
    BY <2>1, <2>2, FailSafe DEF TypeInv, IInv, Awaited
  <2>4. QED
    BY <2>1, <2>3, AccountsFrame DEF IInv
<1>2. ASSUME NEW to \in {"waiting", "claiming", "stopped"},
             to = "claiming" => allBytes, verifierMoves(v, to)
      PROVE  IInv'
  <2>1. /\ UNCHANGED <<meta, fileState, bytesWritten, allBytes, gateState, rd,
                       chunk, history>>
        /\ vf' = [vf EXCEPT ![v] = to]
    BY <1>2 DEF verifierMoves
  <2>2. Awaited'
    BY <1>2, <2>1 DEF TypeInv, TypeOK, IInv, Awaited, Sealed
  <2>3. GateInv'
    BY <2>1 DEF IInv, GateInv, Sealed, matches
  <2>4. QED
    BY <2>1, <2>2, <2>3, AccountsFrame DEF IInv
<1>3. CASE claimVerify(v)
  <2>1. /\ vf[v] = "claiming"
        /\ gate' = IF gate = "free" THEN "verifying" ELSE gate
        /\ vf' = [vf EXCEPT ![v] = "stopped"]
        /\ UNCHANGED <<meta, fileState, bytesWritten, allBytes, result, rd, chunk,
                       history>>
    BY <1>3 DEF claimVerify
  <2>2. allBytes
    BY <2>1 DEF IInv, Awaited
  <2>3. Awaited'
    BY <2>1, <2>2 DEF Awaited
  <2>4. GateInv'
    BY <2>1 DEF IInv, GateInv, Sealed, matches
  <2>5. QED
    BY <2>1, <2>3, <2>4, AccountsFrame DEF IInv
<1>4. QED
  BY <1>1, <1>2, <1>3
  DEF startVerify, verifyBeforeMetadata, verifyStarts, verifierStep,
      seeAllBytes, seeDone, verifyTimeout, Reasons

LEMMA DoneBodySafe == ASSUME TypeInv, IInv, doneBody PROVE IInv'
<1>1. UNCHANGED rest
  BY DEF doneBody, cleanup, sync, syncFails, verifyIntegrity, integrityFails,
         hashFails, abortWith, sinkClose, abortClose, abortRemove, closeDone
<1>2. UNCHANGED <<meta, contents, bytesWritten, allBytes, rd, chunk, vf, history>>
  BY <1>1 DEF rest
<1>3. matches(meta)' <=> matches(meta)
  BY <1>2 DEF matches
<1>4. Awaited' /\ GateInv'
  <2> USE DEF TypeInv, TypeOK, IInv, Awaited, GateInv, Sealed
  <2>1. CASE cleanup
    BY <1>2, <1>3, <2>1 DEF cleanup
  <2>2. CASE sync
    BY <1>2, <1>3, <2>2 DEF sync
  <2>3. CASE syncFails \/ integrityFails \/ hashFails
    BY <1>2, <1>3, <2>3 DEF syncFails, integrityFails, hashFails, abortWith
  <2>4. CASE verifyIntegrity
    BY <1>2, <1>3, <2>4 DEF verifyIntegrity
  <2>5. CASE sinkClose
    BY <1>2, <1>3, <2>5 DEF sinkClose
  <2>6. CASE abortClose
    BY <1>2, <1>3, <2>6 DEF abortClose
  <2>7. CASE abortRemove
    BY <1>2, <1>3, <2>7 DEF abortRemove
  <2>8. CASE closeDone
    BY <1>2, <1>3, <2>8 DEF closeDone
  <2>9. QED
    BY <2>1, <2>2, <2>3, <2>4, <2>5, <2>6, <2>7, <2>8 DEF doneBody
<1>5. QED
  BY <1>2, <1>4, AccountsFrame DEF IInv

LEMMA SafetyNext ==
  ASSUME ExactlyOnce, TypeInv, IInv, [Next]_vars
  PROVE  IInv'
<1>1. CASE clientFails("client")
  <2>1. /\ UNCHANGED <<meta, fileState, bytesWritten, allBytes, rd, chunk, vf,
                       history>>
        /\ fail("client")
    BY <1>1 DEF clientFails
  <2>2. Awaited' /\ GateInv'
    BY <2>1, FailSafe DEF TypeInv, IInv, Awaited, Reasons
  <2>3. QED
    BY <2>1, <2>2, AccountsFrame DEF IInv
<1>2. ASSUME NEW r \in Readers, readerStep(r) PROVE IInv'
  BY <1>2, ReaderFailsSafe, WriteChunkSafe, CountBytesSafe
  DEF readerStep, decodeFails, dataBeforeMetadata, dataOutOfBounds, writeFails,
      Reasons
<1>3. CASE UNCHANGED vars
  <2>1. UNCHANGED <<meta, fileState, bytesWritten, allBytes, gateState, rd,
                    chunk, vf, history>>
    BY <1>3 DEF vars
  <2>2. Awaited' /\ GateInv'
    BY <2>1 DEF IInv, Awaited, GateInv, Sealed, matches
  <2>3. QED
    BY <2>1, <2>2, AccountsFrame DEF IInv
<1>4. QED
  BY <1>1, <1>2, <1>3, MetadataSafe, DeliverSafe, VerifierSafe, DoneBodySafe
  DEF Next

(* For a sender that sends no byte twice the invariant holds throughout. *)
THEOREM Safety == ASSUME ExactlyOnce PROVE Spec => [](TypeInv /\ IInv)
<1>1. Init => TypeInv /\ IInv
  BY TypeInit, SafetyInit
<1>2. (TypeInv /\ IInv) /\ [Next]_vars => (TypeInv /\ IInv)'
  BY TypeNext, SafetyNext
<1>3. QED
  BY <1>1, <1>2, PTL DEF Spec

(* A transfer that waitDone reports as a success left the announced bytes, all
   of them, in a closed file that is still there. *)
THEOREM SuccessIsTrue == ASSUME ExactlyOnce PROVE Spec => []OkMeansIntact
<1>1. TypeInv /\ IInv => OkMeansIntact
  BY DEF IInv, Awaited, GateInv, Sealed, AllBytesMeansCovered, OkMeansIntact,
         Intact, done
<1>2. QED
  BY <1>1, Safety, PTL

(* allBytesCh, which counts lengths, closes only on a file covered throughout. *)
THEOREM CountIsCoverage == ASSUME ExactlyOnce PROVE Spec => []AllBytesMeansCovered
<1>1. TypeInv /\ IInv => AllBytesMeansCovered
  BY DEF IInv
<1>2. QED
  BY <1>1, Safety, PTL

(* No write changes the file once allBytesCh is closed, so what is hashed is
   what is kept. *)
THEOREM NoWriteAfterHash == ASSUME ExactlyOnce PROVE Spec => HashedIsFinal
<1>1. ASSUME TypeInv, IInv, [Next]_vars, allBytes PROVE UNCHANGED contents
  <2>1. ASSUME NEW r \in Readers, readerStep(r) PROVE UNCHANGED contents
    BY <1>1, <2>1, NothingLeftToWrite
    DEF readerStep, decodeFails, dataBeforeMetadata, dataOutOfBounds,
        writeFails, readerFails, countBytes
  <2>2. ASSUME NEW v \in Verifiers, startVerify(v) \/ verifierStep(v)
        PROVE  UNCHANGED contents
    BY <2>2 DEF startVerify, verifyBeforeMetadata, verifyStarts, verifierStep,
                seeAllBytes, seeDone, verifyTimeout, claimVerify,
                verifierFails, verifierMoves
  <2>3. CASE doneBody
    BY <2>3 DEF doneBody, cleanup, sync, syncFails, verifyIntegrity,
                integrityFails, hashFails, abortWith, sinkClose, abortClose,
                abortRemove, closeDone, rest
  <2>4. ASSUME NEW m \in Metas, handleMetadata(m) PROVE UNCHANGED contents
    BY <2>4 DEF handleMetadata, metadataRejected, metadataAccepted, truncateFails
  <2>5. QED
    BY <1>1, <2>1, <2>2, <2>3, <2>4 DEF Next, vars, clientFails, deliver
<1>2. (TypeInv /\ IInv) /\ [Next]_vars => [allBytes => UNCHANGED contents]_vars
  BY <1>1
<1>3. QED
  BY <1>2, Safety, PTL DEF Spec, HashedIsFinal
-----------------------------------------------------------------------------
(* Refinement.  Under the invariant the abstract file depends only on how far
   the body of doneOnce has come and on the result it has recorded. *)
Settled == gate \in {"closing", "over"} \/ (gate = "removing" /\ ~HasPath)

PhaseView ==
  IF ~Settled THEN "partial"
  ELSE IF result = "nil" THEN "complete" ELSE "discarded"

LEMMA FileViewIsPhase == TypeInv /\ IInv => fileView = PhaseView
<1> SUFFICES ASSUME TypeInv, IInv PROVE fileView = PhaseView
  OBVIOUS
<1> USE DEF PhaseView
<1>1. CASE sinkOpen
  BY <1>1 DEF fileView, Settled, IInv, GateInv
<1>2. CASE ~sinkOpen /\ result = "nil"
  <2>1. gate \in {"closing", "over"} /\ onDisk /\ matches(meta) /\ allBytes
    BY <1>2 DEF IInv, GateInv, Awaited, Sealed
  <2>2. Intact
    BY <1>2, <2>1 DEF Intact, IInv, AllBytesMeansCovered
  <2>3. QED
    BY <1>2, <2>1, <2>2 DEF fileView, Settled
<1>3. CASE ~sinkOpen /\ result # "nil"
  <2>1. fileView = IF HasPath /\ onDisk THEN "partial" ELSE "discarded"
    BY <1>3 DEF fileView
  <2>2. CASE gate = "removing"
    BY <1>3, <2>1, <2>2 DEF Settled, IInv, GateInv
  <2>3. CASE gate \in {"closing", "over"}
    BY <1>3, <2>1, <2>3 DEF Settled, IInv, GateInv
  <2>4. QED
    BY <1>3, <2>2, <2>3 DEF IInv, GateInv
<1>4. QED
  BY <1>1, <1>2, <1>3 DEF TypeInv, TypeOK

LEMMA FileViewIsPhaseNext == (TypeInv /\ IInv => fileView = PhaseView)'
BY FileViewIsPhase, PTL

\* The order in which doneOnce's body advances, and when the result may change.
Advances ==
  \/ UNCHANGED gateState
  \/ gate = "free" /\ gate' = "failing"
  \/ /\ gate \in {"syncing", "hashing"} /\ gate' = "aborting"
  \/ /\ UNCHANGED result
     /\ \/ gate = "free" /\ gate' = "verifying"
        \/ gate = "failing" /\ gate' = "aborting"
        \/ gate = "verifying" /\ gate' = "syncing"
        \/ gate = "syncing" /\ gate' = "hashing"
        \/ gate = "hashing" /\ gate' = "sealing"
        \/ gate = "sealing" /\ gate' = "closing"
        \/ gate = "aborting" /\ gate' = "removing"
        \/ gate = "removing" /\ gate' = "closing"
        \/ gate = "closing" /\ gate' = "over"

LEMMA GateAdvances == ASSUME [Next]_vars PROVE Advances
<1> USE DEF Advances
<1>1. ASSUME NEW why, fail(why) PROVE Advances
  BY <1>1 DEF fail
<1>2. CASE clientFails("client")
  BY <1>1, <1>2 DEF clientFails
<1>3. ASSUME NEW m \in Metas, handleMetadata(m) PROVE Advances
  BY <1>1, <1>3 DEF handleMetadata, metadataRejected, metadataAccepted,
                    truncateFails
<1>4. ASSUME NEW r \in Readers, NEW c \in Chunks, deliver(r, c) PROVE Advances
  BY <1>4 DEF deliver
<1>5. ASSUME NEW r \in Readers, readerStep(r) PROVE Advances
  BY <1>1, <1>5 DEF readerStep, decodeFails, dataBeforeMetadata,
                    dataOutOfBounds, writeFails, readerFails, writeChunk,
                    countBytes
<1>6. ASSUME NEW v \in Verifiers, startVerify(v) \/ verifierStep(v)
      PROVE  Advances
  BY <1>1, <1>6 DEF startVerify, verifyBeforeMetadata, verifyStarts,
                    verifierStep, seeAllBytes, seeDone,
                    verifyTimeout, claimVerify, verifierFails, verifierMoves
<1>7. CASE doneBody
  BY <1>7 DEF doneBody, cleanup, sync, syncFails, verifyIntegrity,
              integrityFails, hashFails, abortWith, sinkClose, abortClose,
              abortRemove, closeDone
<1>8. CASE UNCHANGED vars
  BY <1>8 DEF vars
<1>9. QED
  BY <1>2, <1>3, <1>4, <1>5, <1>6, <1>7, <1>8 DEF Next

LEMMA PromiseStep ==
  ASSUME TypeInv, IInv, TypeInv', IInv', [Next]_vars
  PROVE  [Promise!Next]_(Promise!fileVars)
<1>1. Advances
  BY GateAdvances
<1>2. fileView = IF ~Settled THEN "partial"
                 ELSE IF result = "nil" THEN "complete" ELSE "discarded"
  BY FileViewIsPhase DEF PhaseView
<1>3. fileView' = IF ~Settled' THEN "partial"
                  ELSE IF result' = "nil" THEN "complete" ELSE "discarded"
  BY FileViewIsPhaseNext DEF PhaseView
<1>4. CASE UNCHANGED gateState
  BY <1>2, <1>3, <1>4 DEF Promise!fileVars, outcomeView, done, Settled
<1>5. CASE gate' # "over" /\ gate # "over" /\ ~Settled'
  BY <1>1, <1>2, <1>3, <1>5
  DEF Advances, Promise!fileVars, outcomeView, done, Settled
<1>6. CASE gate' # "over" /\ gate # "over" /\ Settled' /\ ~Settled
  BY <1>2, <1>3, <1>6
  DEF Promise!Next, Promise!Complete, Promise!Discard, outcomeView, done
<1>7. CASE gate = "removing" /\ gate' = "closing" /\ Settled /\ UNCHANGED result
  BY <1>2, <1>3, <1>7 DEF Promise!fileVars, outcomeView, done, Settled
<1>8. CASE gate = "closing" /\ gate' = "over" /\ UNCHANGED result
  BY <1>2, <1>3, <1>8 DEF Promise!Next, Promise!Report, outcomeView, done, Settled
<1>9. ASSUME ~UNCHANGED gateState
      PROVE  \/ gate' # "over" /\ gate # "over" /\ ~Settled'
             \/ gate' # "over" /\ gate # "over" /\ Settled' /\ ~Settled
             \/ gate = "removing" /\ gate' = "closing" /\ Settled /\ UNCHANGED result
             \/ gate = "closing" /\ gate' = "over" /\ UNCHANGED result
  <2>1. CASE gate \in {"free", "failing", "verifying", "syncing", "hashing"}
    BY <1>1, <1>9, <2>1 DEF Advances, Settled
  <2>2. CASE gate \in {"sealing", "aborting"}
    BY <1>1, <1>9, <2>2 DEF Advances, Settled
  <2>3. CASE gate \in {"removing", "closing"}
    BY <1>1, <1>9, <2>3 DEF Advances, Settled
  <2>4. QED
    BY <1>1, <1>9, <2>1, <2>2, <2>3 DEF Advances
<1>10. QED
  BY <1>4, <1>5, <1>6, <1>7, <1>8, <1>9

(* transferCore implements FileTransfer: the file is settled before the outcome
   is reported, both once, and they agree. *)
THEOREM ImplementsPromise == ASSUME ExactlyOnce PROVE Spec => KeepsPromise
<1>1. Init => Promise!Init
  BY DEF Init, Promise!Init, outcomeView, fileView, done
<1>2. (TypeInv /\ IInv) /\ (TypeInv /\ IInv)' /\ [Next]_vars
        => [Promise!Next]_(Promise!fileVars)
  BY PromiseStep
<1>3. QED
  BY <1>1, <1>2, Safety, PTL DEF Spec, KeepsPromise, Promise!Spec
=============================================================================
