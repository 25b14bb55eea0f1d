-------------------------- MODULE SinglePC_proofs ---------------------------
(* Theorems about SinglePC, for every input file and every change to it, every
   chunk size and buffer threshold.

   The receiver's theorems (TransferCore_proofs) hold for a sender that sends no
   byte twice.  This one keeps to that because `sent` only grows: the frames in
   `out`, in `rq` and in the reader's hand carry bytes below `sent`, no two the
   same, and none that arrived before.  So every step is one of transferCore's
   or leaves it alone, its theorems apply, and a success is what METADATA said;
   METADATA said what preHash had hashed. *)
EXTENDS SinglePC, SequenceTheorems, FiniteSetTheorems, TLAPS

FramesOK == out \in Seq(Frames) /\ rq \in Seq(Frames) /\ hand \in Frames \cup {NoFrame}

TypeInv == TypeOK /\ FramesOK /\ (spc \in {"open", "metadata"} => sum \in Sources)

(* The bytes frames carry. *)
FrameCells(f) == IF f.type = "DATA" THEN Core!Cells(f.chunk) ELSE {}

CellsOf(q) == UNION {FrameCells(q[i]) : i \in 1 .. Len(q)}

Disjoint(q) ==
  \A i, j \in 1 .. Len(q) : i # j => FrameCells(q[i]) \cap FrameCells(q[j]) = {}

handCells == IF hand = NoFrame THEN {} ELSE FrameCells(hand)

Fresh ==
  /\ Disjoint(out) /\ Disjoint(rq)
  /\ CellsOf(out) \cap CellsOf(rq) = {}
  /\ handCells \cap (CellsOf(out) \cup CellsOf(rq)) = {}
  /\ arrived \cap (CellsOf(out) \cup CellsOf(rq) \cup handCells) = {}
  /\ CellsOf(out) \cup CellsOf(rq) \cup handCells \cup arrived \subseteq 0 .. sent - 1

(* METADATA, wherever it is, announces what preHash hashed. *)
Announces(f) == f.type = "METADATA" => spc # "hash" /\ f.meta = metaOf(sum)

Announced ==
  /\ \A i \in 1 .. Len(out) : Announces(out[i])
  /\ \A i \in 1 .. Len(rq) : Announces(rq[i])
  /\ hand # NoFrame => Announces(hand)
  /\ meta # NoMeta => spc # "hash" /\ meta = metaOf(sum)
-----------------------------------------------------------------------------
(* Queues of frames. *)
LEMMA Appended ==
  ASSUME NEW q \in Seq(Frames), NEW f \in Frames
  PROVE  /\ Append(q, f) \in Seq(Frames)
         /\ CellsOf(Append(q, f)) = CellsOf(q) \cup FrameCells(f)
         /\ Disjoint(q) /\ FrameCells(f) \cap CellsOf(q) = {}
              => Disjoint(Append(q, f))
<1> DEFINE n == Len(q)
           r == Append(q, f)
<1>1. /\ n \in Nat /\ r \in Seq(Frames) /\ Len(r) = n + 1
      /\ \A i \in 1 .. n : r[i] = q[i]
      /\ r[n + 1] = f
  BY AppendProperties
<1>2. \A i \in 1 .. Len(r) : i \in 1 .. n \/ i = n + 1
  BY <1>1
<1>3. \A i \in 1 .. n : i \in 1 .. Len(r)
  BY <1>1
<1>4. n + 1 \in 1 .. Len(r)
  BY <1>1
<1> HIDE DEF r, n
<1>5. CellsOf(r) = UNION {FrameCells(r[i]) : i \in 1 .. Len(r)}
  BY DEF CellsOf
<1>6. CellsOf(q) = UNION {FrameCells(q[i]) : i \in 1 .. n}
  BY DEF CellsOf, n
<1>7. CellsOf(r) = CellsOf(q) \cup FrameCells(f)
  BY <1>1, <1>2, <1>3, <1>4, <1>5, <1>6
<1>8. ASSUME Disjoint(q), FrameCells(f) \cap CellsOf(q) = {} PROVE Disjoint(r)
  <2>1. \A i \in 1 .. n : FrameCells(f) \cap FrameCells(q[i]) = {}
    BY <1>6, <1>8
  <2>2. \A i, j \in 1 .. n : i # j => FrameCells(q[i]) \cap FrameCells(q[j]) = {}
    BY <1>8 DEF Disjoint, n
  <2>3. SUFFICES ASSUME NEW i \in 1 .. Len(r), NEW j \in 1 .. Len(r), i # j
                 PROVE  FrameCells(r[i]) \cap FrameCells(r[j]) = {}
    BY DEF Disjoint
  <2>4. CASE i \in 1 .. n /\ j \in 1 .. n
    BY <1>1, <2>2, <2>3, <2>4
  <2>5. CASE i \in 1 .. n /\ j = n + 1
    BY <1>1, <2>1, <2>5
  <2>6. CASE i = n + 1 /\ j \in 1 .. n
    BY <1>1, <2>1, <2>6
  <2>7. QED
    BY <1>2, <2>3, <2>4, <2>5, <2>6
<1>9. QED
  BY <1>1, <1>7, <1>8 DEF r

LEMMA Taken ==
  ASSUME NEW q \in Seq(Frames), q # <<>>
  PROVE  /\ Head(q) \in Frames /\ Tail(q) \in Seq(Frames)
         /\ CellsOf(q) = FrameCells(Head(q)) \cup CellsOf(Tail(q))
         /\ Disjoint(q) => /\ Disjoint(Tail(q))
                           /\ FrameCells(Head(q)) \cap CellsOf(Tail(q)) = {}
<1> DEFINE n == Len(q)
           t == Tail(q)
<1>1. /\ n \in Nat \ {0} /\ t \in Seq(Frames) /\ Len(t) = n - 1
      /\ \A i \in 1 .. Len(t) : t[i] = q[i + 1]
      /\ Head(q) = q[1] /\ q[1] \in Frames
  BY HeadTailProperties
<1>2. \A i \in 1 .. n : i # 1 => i - 1 \in 1 .. Len(t) /\ q[i] = t[i - 1]
  BY <1>1
<1>3. \A i \in 1 .. Len(t) : i + 1 \in 1 .. n /\ i + 1 # 1
  BY <1>1
<1>4. 1 \in 1 .. n
  BY <1>1
<1> HIDE DEF t, n
<1>5. CellsOf(t) = UNION {FrameCells(t[i]) : i \in 1 .. Len(t)}
  BY DEF CellsOf
<1>6. CellsOf(q) = UNION {FrameCells(q[i]) : i \in 1 .. n}
  BY DEF CellsOf, n
<1>7. CellsOf(q) = FrameCells(Head(q)) \cup CellsOf(t)
  BY <1>1, <1>2, <1>3, <1>4, <1>5, <1>6
<1>8. ASSUME Disjoint(q) PROVE Disjoint(t)
  <2>1. \A i, j \in 1 .. n : i # j => FrameCells(q[i]) \cap FrameCells(q[j]) = {}
    BY <1>8 DEF Disjoint, n
  <2>2. \A i, j \in 1 .. Len(t) : i # j => i + 1 # j + 1
    BY <1>1
  <2>3. QED
    BY <1>1, <1>3, <2>1, <2>2 DEF Disjoint
<1>9. ASSUME Disjoint(q) PROVE FrameCells(Head(q)) \cap CellsOf(t) = {}
  <2>1. \A i \in 1 .. Len(t) : FrameCells(q[1]) \cap FrameCells(t[i]) = {}
    BY <1>1, <1>3, <1>4, <1>9 DEF Disjoint, n
  <2>2. QED
    BY <1>1, <1>5, <2>1
<1>10. QED
  BY <1>1, <1>7, <1>8, <1>9 DEF t

LEMMA Emptied == /\ <<>> \in Seq(Frames) /\ CellsOf(<<>>) = {} /\ Disjoint(<<>>)
                 /\ Len(<<>>) = 0
BY DEF CellsOf, Disjoint

\* What a non-empty read returns.
LEMMA ReadFacts ==
  ASSUME NEW s \in Sources, NEW o \in Nat, bytesAt(s, o) # <<>>
  PROVE  /\ o < Len(s) /\ Len(s) \in Nat
         /\ bytesAt(s, o) \in Seq(Byte)
         /\ Len(bytesAt(s, o)) \in Nat /\ o + Len(bytesAt(s, o)) <= Len(s)
         /\ [at |-> o, data |-> bytesAt(s, o)] \in FileChunks
<1> DEFINE to == IF o + ChunkSize <= Len(s) THEN o + ChunkSize ELSE Len(s)
           b == bytesAt(s, o)
<1>1. s \in Seq(Byte) /\ Len(s) \in Nat /\ ChunkSize \in Nat \ {0}
  BY SinglePCAssumption
<1>2. to \in Nat /\ to <= Len(s) /\ o + 1 \in Nat /\ o + 1 >= 1
  BY <1>1
<1>3. b = SubSeq(s, o + 1, to)
  BY DEF bytesAt
<1> HIDE DEF to, b
<1>4. /\ b \in Seq(Byte)
      /\ Len(b) = IF o + 1 <= to THEN to - (o + 1) + 1 ELSE 0
  <2>1. \A i \in o + 1 .. to : i \in 1 .. Len(s) /\ s[i] \in Byte
    BY <1>1, <1>2
  <2>2. QED
    BY <1>1, <1>2, <1>3, <2>1, SubSeqProperties
<1>5. b # <<>>
  BY DEF b
<1>6. Len(b) # 0
  BY <1>4, <1>5, EmptySeq
<1>7. o < Len(s) /\ Len(b) \in Nat /\ o + Len(b) <= Len(s)
  BY <1>1, <1>2, <1>4, <1>6
<1>8. o \in 0 .. Len(s) - 1
  BY <1>1, <1>7
<1>9. [at |-> o, data |-> b] \in FileChunks
  BY <1>8 DEF FileChunks, b
<1>10. QED
  BY <1>1, <1>4, <1>7, <1>9 DEF b
-----------------------------------------------------------------------------
(* What a step may do to the frames under way, to `arrived` and to METADATA. *)
cut == chan \in {"down", "dead"}

Rests == /\ out' = out \/ (out' = <<>> /\ cut')
         /\ cut => cut'
         /\ UNCHANGED <<rq, hand, arrived, sent, meta>>
         /\ spc = "hash" \/ (spc' # "hash" /\ UNCHANGED sum)

Sends(f) == /\ f \in Frames /\ Announces(f)
            /\ out' = Append(out, f)
            /\ spc # "hash" /\ spc' # "hash"
            /\ UNCHANGED <<chan, rq, hand, arrived, meta, sum>>

SendsControl == \E f \in Frames : f.type # "DATA" /\ Sends(f) /\ UNCHANGED sent

SendsData == /\ spc = "read" /\ readBytes # <<>>
             /\ Sends(data(sent, readBytes))
             /\ sent' = sent + Len(readBytes)

Acks == /\ ~cut /\ out # <<>>
        /\ rq' = Append(rq, Head(out)) /\ out' = Tail(out)
        /\ UNCHANGED <<chan, hand, arrived, sent, meta, sum, spc>>

Takes == /\ rq # <<>> /\ hand = NoFrame /\ hand' = Head(rq) /\ rq' = Tail(rq)
         /\ UNCHANGED <<chan, out, arrived, sent, meta, sum, spc>>

Dispatches ==
  /\ hand # NoFrame /\ hand' = NoFrame
  /\ UNCHANGED <<chan, out, rq, sent, sum, spc>>
  /\ arrived' = arrived \cup FrameCells(hand)
  /\ (hand.type = "METADATA" /\ meta' = hand.meta) \/ UNCHANGED meta

Moves == Rests \/ SendsControl \/ SendsData \/ Acks \/ Takes \/ Dispatches

USE DEF coreVars, sndVars, netVars, rcvVars

LEMMA MetadataIsFrame == ASSUME sum \in Sources PROVE metadata \in Frames
BY DEF metadata, Frames, FileMetas

LEMMA DataIsFrame ==
  ASSUME TypeInv, readBytes # <<>>
  PROVE  data(sent, readBytes) \in Frames
<1>1. [at |-> sent, data |-> readBytes] \in FileChunks
  BY ReadFacts DEF TypeInv, TypeOK, readBytes
<1>2. QED
  BY <1>1 DEF data, Frames

LEMMA RunMoves == ASSUME TypeInv, run PROVE Moves
<1> USE DEF runMoves, send, sendFails, Rests, Sends, cut
<1>1. CASE preHash
  BY <1>1 DEF preHash, Moves
<1>2. CASE preHashFails \/ seeOpen \/ openCancelled \/ readEOF \/ readFails
  BY <1>2 DEF preHashFails, seeOpen, openCancelled, readEOF, readFails, Moves
<1>3. CASE drained \/ drainCancelled \/ flushed \/ flushTimeout \/ closeRun
  BY <1>3 DEF drained, drainCancelled, flushed, flushTimeout, closeRun, Moves
<1>4. CASE sendMetadata
  <2>1. CASE send(metadata) /\ runMoves("read")
    <3>1. metadata \in Frames
      BY <1>4, MetadataIsFrame DEF sendMetadata, TypeInv
    <3>2. metadata.type # "DATA" /\ Announces(metadata)
      BY <1>4 DEF sendMetadata, metadata, Announces
    <3>3. Sends(metadata) /\ UNCHANGED sent
      BY <1>4, <2>1, <3>1, <3>2 DEF sendMetadata
    <3>4. QED
      BY <3>1, <3>2, <3>3 DEF SendsControl, Moves
  <2>2. CASE sendFails /\ runMoves("abort")
    BY <1>4, <2>2 DEF sendMetadata, Moves
  <2>3. QED
    BY <1>4, <2>1, <2>2 DEF sendMetadata
<1>5. CASE sendData
  <2>1. CASE send(data(sent, readBytes)) /\ sent' = sent + Len(readBytes)
             /\ runMoves(IF atEnd THEN "drainLast" ELSE "drain")
    <3>1. data(sent, readBytes) \in Frames
      BY <1>5, DataIsFrame DEF sendData
    <3>2. Announces(data(sent, readBytes))
      BY DEF data, Announces
    <3>3. QED
      BY <1>5, <2>1, <3>1, <3>2 DEF sendData, SendsData, Moves
  <2>2. CASE sendFails /\ runMoves("abort") /\ UNCHANGED sent
    BY <1>5, <2>2 DEF sendData, Moves
  <2>3. QED
    BY <1>5, <2>1, <2>2 DEF sendData
<1>6. ASSUME NEW f \in Frames, f.type \in {"EOF", "ABORT"}, send(f),
             NEW to \in {"flush"}, runMoves(to), spc # "hash", UNCHANGED sent
      PROVE  Moves
  BY <1>6 DEF Announces, SendsControl, Moves
<1>7. CASE sendEOF
  <2>1. eof \in Frames /\ eof.type = "EOF"
    BY DEF eof, Frames
  <2>2. QED
    BY <1>6, <1>7, <2>1 DEF sendEOF, Moves
<1>8. CASE sendAbort
  <2>1. abort \in Frames /\ abort.type = "ABORT"
    BY DEF abort, Frames
  <2>2. QED
    BY <1>6, <1>8, <2>1 DEF sendAbort, Moves
<1>9. QED
  BY <1>1, <1>2, <1>3, <1>4, <1>5, <1>7, <1>8 DEF run
LEMMA FailMoves ==
  ASSUME NEW why, failCore(why)
  PROVE  UNCHANGED <<arrived, meta>>
BY DEF failCore, Core!clientFails, Core!data, Core!history, Core!fileState

LEMMA SenderMoves ==
  ASSUME \/ senderProcess \/ signalingFails \/ \E s \in Sources : sourceChanges(s)
         \/ channelOpens \/ linkLost \/ senderNotified \/ receiverNotified
         \/ announced \/ pathTimeout \/ waitDone
  PROVE  Rests
BY DEF senderProcess, signalingFails, startReturns, startEnds, acceptAnswer,
       watcherCloses, stopSend, iceFails, sourceChanges, channelOpens, linkLost,
       netMoves, senderNotified, receiverNotified, announced, pathTimeout,
       waitDone, receiverEnds, hangUp, cut, Rests

LEMMA VerifyMoves == ASSUME verify \/ closing \/ watcher PROVE Rests
<1> USE DEF Core!data, Core!fileState, Core!history, Core!rest, Rests, cut
<1>1. CASE verify
  <2>1. UNCHANGED <<arrived, meta>>
    BY <1>1 DEF verify, Core!seeAllBytes, Core!seeDone, Core!claimVerify,
                Core!verifyTimeout, Core!verifierFails, Core!verifierMoves
  <2>2. QED
    BY <1>1, <2>1 DEF verify
<1>2. CASE closing
  <2>1. UNCHANGED <<arrived, meta>>
    BY <1>2 DEF closing, Core!doneBody, Core!cleanup, Core!sync, Core!syncFails,
                Core!verifyIntegrity, Core!integrityFails, Core!hashFails,
                Core!abortWith, Core!bodyMoves, Core!sinkClose, Core!abortClose,
                Core!abortRemove, Core!closeDone
  <2>2. QED
    BY <1>2, <2>1 DEF closing
<1>3. CASE watcherLooks
  BY <1>3 DEF watcherLooks
<1>4. CASE failOnEarlyClose
  <2>1. UNCHANGED <<arrived, meta>>
    BY <1>4, FailMoves DEF failOnEarlyClose
  <2>2. QED
    BY <1>4, <2>1 DEF failOnEarlyClose
<1>5. QED
  BY <1>1, <1>2, <1>3, <1>4 DEF watcher

LEMMA ReaderMoves == ASSUME reader PROVE Moves
<1> USE DEF Core!data, Core!fileState, Core!history
<1>1. CASE readFrame
  BY <1>1 DEF readFrame, Takes, Moves
<1>2. CASE readEnds
  <2>1. UNCHANGED <<arrived, meta>>
    BY <1>2, FailMoves DEF readEnds
  <2>2. QED
    BY <1>2, <2>1 DEF readEnds, Rests, cut, Moves
<1>3. CASE ingest
  <2>1. UNCHANGED <<arrived, meta>>
    BY <1>3 DEF ingest, Core!decodeFails, Core!dataBeforeMetadata,
                Core!dataOutOfBounds, Core!writeFails, Core!readerFails,
                Core!writeChunk, Core!countBytes
  <2>2. QED
    BY <1>3, <2>1 DEF ingest, Rests, cut, Moves
<1>4. ASSUME dispatched, hand # NoFrame,
             arrived' = arrived \cup FrameCells(hand)
               \/ (hand.type # "DATA" /\ UNCHANGED arrived),
             (hand.type = "METADATA" /\ meta' = hand.meta) \/ UNCHANGED meta
      PROVE  Moves
  BY <1>4 DEF dispatched, Dispatches, Moves, FrameCells
<1>5. CASE OnMetadata
  <2>1. UNCHANGED arrived /\ meta' \in {meta, hand.meta}
    BY <1>5 DEF OnMetadata, Core!metadataAccepted, Core!metadataRejected,
                Core!truncateFails
  <2>2. QED
    BY <1>4, <1>5, <2>1 DEF OnMetadata
<1>6. CASE OnData
  <2>1. UNCHANGED meta /\ arrived' = arrived \cup FrameCells(hand)
    BY <1>6 DEF OnData, Core!deliver, FrameCells
  <2>2. QED
    BY <1>4, <1>6, <2>1 DEF OnData
<1>7. CASE OnEOF
  <2>1. UNCHANGED <<arrived, meta>>
    BY <1>7, FailMoves DEF OnEOF, Core!verifyStarts, Core!verifierMoves
  <2>2. QED
    BY <1>4, <1>7, <2>1 DEF OnEOF
<1>8. CASE OnAbort
  <2>1. UNCHANGED <<arrived, meta>>
    BY <1>8, FailMoves DEF OnAbort
  <2>2. QED
    BY <1>4, <1>8, <2>1 DEF OnAbort
<1>9. QED
  BY <1>1, <1>2, <1>3, <1>5, <1>6, <1>7, <1>8 DEF reader

LEMMA StepMoves == ASSUME TypeInv, [Next]_vars PROVE Moves
<1>1. CASE ack
  BY <1>1 DEF ack, netMoves, Acks, cut, Moves
<1>2. CASE UNCHANGED vars
  BY <1>2 DEF vars, Rests, cut, Moves
<1>3. CASE Rests
  BY <1>3 DEF Moves
<1>4. QED
  BY <1>1, <1>2, <1>3, RunMoves, SenderMoves, VerifyMoves, ReaderMoves DEF Next
-----------------------------------------------------------------------------
(* Types. *)
LEMMA FramesNext == ASSUME TypeInv, Moves PROVE FramesOK'
<1> USE DEF TypeInv, FramesOK
<1>1. CASE Rests
  BY <1>1, Emptied DEF Rests
<1>2. CASE SendsControl
  BY <1>2, Appended DEF SendsControl, Sends
<1>3. CASE SendsData
  BY <1>3, Appended DEF SendsData, Sends
<1>4. CASE Acks
  <2>1. Head(out) \in Frames /\ Tail(out) \in Seq(Frames)
    BY <1>4, Taken DEF Acks
  <2>2. QED
    BY <1>4, <2>1, Appended DEF Acks
<1>5. CASE Takes
  BY <1>5, Taken DEF Takes
<1>6. CASE Dispatches
  BY <1>6 DEF Dispatches
<1>7. QED
  BY <1>1, <1>2, <1>3, <1>4, <1>5, <1>6 DEF Moves

Typed == TypeOK /\ (spc \in {"open", "metadata"} => sum \in Sources)

LEMMA RunTyped == ASSUME TypeInv, run PROVE Typed'
<1> USE DEF TypeInv, TypeOK, Typed, runMoves, send, sendFails
<1>1. CASE preHash
  BY <1>1 DEF preHash
<1>2. CASE preHashFails \/ seeOpen \/ openCancelled \/ readEOF \/ readFails
  BY <1>2 DEF preHashFails, seeOpen, openCancelled, readEOF, readFails
<1>3. CASE drained \/ drainCancelled \/ flushed \/ flushTimeout
  BY <1>3 DEF drained, drainCancelled, flushed, flushTimeout
<1>4. CASE closeRun
  BY <1>4 DEF closeRun
<1>5. CASE sendMetadata
  BY <1>5 DEF sendMetadata
<1>6. CASE sendData
  <2>1. Len(readBytes) \in Nat
    BY <1>6, ReadFacts DEF sendData, readBytes
  <2>2. sent' \in Nat
    BY <1>6, <2>1 DEF sendData
  <2>3. QED
    BY <1>6, <2>2 DEF sendData
<1>7. CASE sendEOF
  BY <1>7 DEF sendEOF
<1>8. CASE sendAbort
  BY <1>8 DEF sendAbort
<1>9. QED
  BY <1>1, <1>2, <1>3, <1>4, <1>5, <1>6, <1>7, <1>8 DEF run

LEMMA SenderTyped ==
  ASSUME TypeInv,
         senderProcess \/ signalingFails \/ \E s \in Sources : sourceChanges(s)
  PROVE  Typed'
<1> USE DEF TypeInv, TypeOK, Typed
<1>1. CASE acceptAnswer
  BY <1>1 DEF acceptAnswer
<1>2. CASE startReturns \/ signalingFails
  BY <1>2 DEF startReturns, signalingFails, startEnds, hangUp
<1>3. CASE watcherCloses \/ iceFails
  BY <1>3 DEF watcherCloses, iceFails, stopSend
<1>4. ASSUME NEW s \in Sources, sourceChanges(s) PROVE Typed'
  BY <1>4 DEF sourceChanges
<1>5. QED
  BY <1>1, <1>2, <1>3, <1>4 DEF senderProcess

LEMMA NetworkTyped ==
  ASSUME TypeInv,
         \/ channelOpens \/ ack \/ linkLost \/ senderNotified \/ receiverNotified
         \/ announced \/ pathTimeout \/ waitDone
  PROVE  Typed'
<1> USE DEF TypeInv, TypeOK, Typed, netMoves
<1>1. CASE channelOpens \/ ack \/ linkLost
  BY <1>1 DEF channelOpens, ack, linkLost
<1>2. CASE senderNotified \/ receiverNotified
  BY <1>2 DEF senderNotified, receiverNotified
<1>3. CASE announced
  BY <1>3 DEF announced
<1>4. CASE pathTimeout \/ waitDone
  BY <1>4 DEF pathTimeout, waitDone, receiverEnds, hangUp
<1>5. QED
  BY <1>1, <1>2, <1>3, <1>4

LEMMA ReceiverTyped ==
  ASSUME TypeInv, reader \/ watcher \/ verify \/ closing
  PROVE  Typed'
<1> USE DEF TypeInv, TypeOK, Typed
<1>1. CASE readFrame \/ readEnds \/ ingest
  BY <1>1 DEF readFrame, readEnds, ingest
<1>2. CASE OnMetadata \/ OnData
  BY <1>2 DEF OnMetadata, OnData, dispatched
<1>3. CASE OnEOF \/ OnAbort
  BY <1>3 DEF OnEOF, OnAbort, dispatched
<1>4. CASE watcher
  BY <1>4 DEF watcher, watcherLooks, failOnEarlyClose
<1>5. CASE verify \/ closing
  BY <1>5 DEF verify, closing
<1>6. QED
  BY <1>1, <1>2, <1>3, <1>4, <1>5 DEF reader

LEMMA TypeInit == Init => TypeInv
<1> SUFFICES ASSUME Init PROVE TypeInv
  OBVIOUS
<1>1. FramesOK
  BY Emptied DEF Init, FramesOK
<1>2. TypeOK
  BY DEF Init, TypeOK
<1>3. QED
  BY <1>1, <1>2 DEF Init, TypeInv

LEMMA TypeNext == ASSUME TypeInv, [Next]_vars PROVE TypeInv'
<1>1. FramesOK'
  BY StepMoves, FramesNext
<1>2. CASE UNCHANGED vars
  BY <1>1, <1>2 DEF vars, TypeInv, TypeOK
<1>3. ASSUME Next PROVE Typed'
  BY <1>3, RunTyped, SenderTyped, NetworkTyped, ReceiverTyped DEF Next
<1>4. QED
  BY <1>1, <1>2, <1>3 DEF TypeInv, Typed

(* Every variable of the sender, the channel and the receiver's loops keeps its
   type, whatever fails and however the file changes. *)
THEOREM TypeCorrect == Spec => []TypeOK
<1>1. TypeInv /\ [Next]_vars => TypeInv'
  BY TypeNext
<1>2. TypeInv => TypeOK
  BY DEF TypeInv
<1>3. QED
  BY <1>1, <1>2, TypeInit, PTL DEF Spec
-----------------------------------------------------------------------------
(* No byte is under way twice, and none that has arrived. *)
LEMMA FreshInit == Init => Fresh
<1> SUFFICES ASSUME Init PROVE Fresh
  OBVIOUS
<1>1. arrived = {} /\ sent = 0 /\ hand = NoFrame /\ out = <<>> /\ rq = <<>>
  BY DEF Init, Core!Init
<1>2. QED
  BY <1>1, Emptied DEF Fresh, handCells

LEMMA AboveIsNew ==
  ASSUME NEW m \in Nat, NEW n \in Nat, m <= n, NEW S, S \subseteq m .. n - 1
  PROVE  /\ S \cap (0 .. m - 1) = {} /\ S \subseteq 0 .. n - 1
         /\ 0 .. m - 1 \subseteq 0 .. n - 1
<1>1. \A x \in S : x \in Int /\ m <= x /\ x <= n - 1
  OBVIOUS
<1>2. \A x \in S : x \in 0 .. n - 1 /\ x \notin 0 .. m - 1
  BY <1>1
<1>3. \A x \in 0 .. m - 1 : x \in 0 .. n - 1
  OBVIOUS
<1>4. QED
  BY <1>2, <1>3

LEMMA FreshNext == ASSUME TypeInv, TypeInv', Fresh, Moves PROVE Fresh'
<1>1. /\ out \in Seq(Frames) /\ rq \in Seq(Frames) /\ sent \in Nat /\ sent' \in Nat
      /\ hand \in Frames \cup {NoFrame} /\ source \in Sources
  BY DEF TypeInv, TypeOK, FramesOK
<1>2. /\ CellsOf(out)' = CellsOf(out') /\ CellsOf(rq)' = CellsOf(rq')
      /\ (Disjoint(out)' <=> Disjoint(out'))
      /\ (Disjoint(rq)' <=> Disjoint(rq'))
      /\ handCells' = IF hand' = NoFrame THEN {} ELSE FrameCells(hand')
  BY DEF CellsOf, Disjoint, FrameCells, handCells
<1>3. CASE Rests
  <2>1. UNCHANGED <<rq, hand, arrived, sent>>
    BY <1>3 DEF Rests
  <2>2. out' = out \/ (CellsOf(out') = {} /\ Disjoint(out'))
    BY <1>3, Emptied DEF Rests
  <2>3. QED
    BY <1>2, <2>1, <2>2 DEF Fresh, handCells
<1>4. ASSUME NEW f \in Frames, Sends(f), sent <= sent',
             FrameCells(f) \subseteq sent .. sent' - 1
      PROVE  Fresh'
  <2>1. UNCHANGED <<rq, hand, arrived>> /\ out' = Append(out, f)
    BY <1>4 DEF Sends
  <2>2. /\ FrameCells(f) \cap (0 .. sent - 1) = {}
        /\ FrameCells(f) \subseteq 0 .. sent' - 1
        /\ 0 .. sent - 1 \subseteq 0 .. sent' - 1
    BY <1>1, <1>4, AboveIsNew, Zenon
  <2>3. CellsOf(out') = CellsOf(out) \cup FrameCells(f)
    BY <1>1, <2>1, Appended
  <2>4. FrameCells(f) \cap (CellsOf(out) \cup CellsOf(rq) \cup handCells \cup arrived) = {}
    BY <2>2 DEF Fresh
  <2>5. Disjoint(out')
    BY <1>1, <2>1, <2>4, Appended DEF Fresh
  <2>6. QED
    BY <1>2, <2>1, <2>2, <2>3, <2>4, <2>5 DEF Fresh, handCells
<1>5. CASE SendsControl
  <2>1. PICK f \in Frames : f.type # "DATA" /\ Sends(f) /\ UNCHANGED sent
    BY <1>5 DEF SendsControl
  <2>2. FrameCells(f) = {} /\ sent <= sent'
    BY <1>1, <2>1 DEF FrameCells
  <2>3. QED
    BY <1>4, <2>1, <2>2
<1>6. CASE SendsData
  <2> DEFINE f == data(sent, readBytes)
  <2>1. f \in Frames /\ Sends(f)
    BY <1>6 DEF SendsData, Sends
  <2>2. sent' = sent + Len(readBytes) /\ Len(readBytes) \in Nat
    BY <1>1, <1>6, ReadFacts DEF SendsData, readBytes
  <2>3. FrameCells(f) = sent .. sent' - 1
    <3>1. f.type = "DATA" /\ f.chunk.at = sent /\ f.chunk.data = readBytes
      BY DEF data
    <3>2. FrameCells(f) = sent .. sent + Len(readBytes) - 1
      BY <3>1 DEF FrameCells, Core!Cells
    <3>3. sent + Len(readBytes) - 1 = sent' - 1
      BY <1>1, <2>2
    <3>4. QED
      BY <3>2, <3>3
  <2>4. QED
    BY <1>1, <1>4, <2>1, <2>2, <2>3
<1>7. CASE Acks
  <2> DEFINE f == Head(out)
  <2>1. /\ out # <<>> /\ rq' = Append(rq, f) /\ out' = Tail(out)
        /\ UNCHANGED <<hand, arrived, sent>>
    BY <1>7 DEF Acks
  <2>2. /\ f \in Frames
        /\ CellsOf(out) = FrameCells(f) \cup CellsOf(out')
        /\ Disjoint(out') /\ FrameCells(f) \cap CellsOf(out') = {}
    BY <1>1, <2>1, Taken DEF Fresh
  <2>3. FrameCells(f) \cap CellsOf(rq) = {}
    BY <2>2 DEF Fresh
  <2>4. CellsOf(rq') = CellsOf(rq) \cup FrameCells(f) /\ Disjoint(rq')
    BY <1>1, <2>1, <2>2, <2>3, Appended DEF Fresh
  <2>5. QED
    BY <1>2, <2>1, <2>2, <2>3, <2>4 DEF Fresh, handCells
<1>8. CASE Takes
  <2> DEFINE f == Head(rq)
  <2>1. /\ rq # <<>> /\ hand = NoFrame /\ hand' = f /\ rq' = Tail(rq)
        /\ UNCHANGED <<out, arrived, sent>>
    BY <1>8 DEF Takes
  <2>2. /\ CellsOf(rq) = FrameCells(f) \cup CellsOf(rq')
        /\ Disjoint(rq') /\ FrameCells(f) \cap CellsOf(rq') = {}
    BY <1>1, <2>1, Taken DEF Fresh
  <2>3. handCells' \subseteq FrameCells(f)
    BY <1>2, <2>1
  <2>4. QED
    BY <1>2, <2>1, <2>2, <2>3 DEF Fresh
<1>9. CASE Dispatches
  <2>1. /\ UNCHANGED <<out, rq, sent>>
        /\ handCells' = {} /\ arrived' \subseteq arrived \cup handCells
    BY <1>2, <1>9 DEF Dispatches, handCells
  <2>2. QED
    BY <1>2, <2>1 DEF Fresh
<1>10. QED
  BY <1>3, <1>5, <1>6, <1>7, <1>8, <1>9 DEF Moves
-----------------------------------------------------------------------------
(* METADATA is what was hashed. *)
LEMMA AnnouncedInit == Init => Announced
BY Emptied DEF Init, Core!Init, Announced

LEMMA AnnouncedNext == ASSUME TypeInv, Announced, Moves PROVE Announced'
<1>1. out \in Seq(Frames) /\ rq \in Seq(Frames)
  BY DEF TypeInv, FramesOK
<1>2. spc = "hash" \/ (spc' # "hash" /\ UNCHANGED sum) \/ UNCHANGED <<spc, sum>>
  BY DEF Moves, Rests, SendsControl, SendsData, Sends, Acks, Takes, Dispatches
<1> DEFINE StillAnnounces(f) ==
             f.type = "METADATA" => spc' # "hash" /\ f.meta = metaOf(sum')
<1>3. ASSUME NEW f, Announces(f) PROVE StillAnnounces(f)
  BY <1>2, <1>3 DEF Announces
<1>4. ASSUME NEW q \in Seq(Frames), q # <<>>, \A i \in 1 .. Len(q) : Announces(q[i])
      PROVE  /\ Announces(Head(q)) /\ Head(q) \in Frames /\ Tail(q) \in Seq(Frames)
             /\ \A i \in 1 .. Len(Tail(q)) : Announces(Tail(q)[i])
  <2>1. /\ Len(q) \in Nat \ {0} /\ Tail(q) \in Seq(Frames) /\ Len(Tail(q)) = Len(q) - 1
        /\ \A i \in 1 .. Len(Tail(q)) : Tail(q)[i] = q[i + 1]
        /\ Head(q) = q[1] /\ q[1] \in Frames
    BY <1>4, HeadTailProperties
  <2>2. 1 \in 1 .. Len(q) /\ \A i \in 1 .. Len(Tail(q)) : i + 1 \in 1 .. Len(q)
    BY <2>1
  <2>3. QED
    BY <1>4, <2>1, <2>2
<1>5. ASSUME NEW q \in Seq(Frames), NEW f \in Frames, Announces(f),
             \A i \in 1 .. Len(q) : Announces(q[i])
      PROVE  \A i \in 1 .. Len(Append(q, f)) : Announces(Append(q, f)[i])
  <2>1. /\ Len(q) \in Nat /\ Len(Append(q, f)) = Len(q) + 1
        /\ \A i \in 1 .. Len(q) : Append(q, f)[i] = q[i]
        /\ Append(q, f)[Len(q) + 1] = f
    BY AppendProperties
  <2>2. \A i \in 1 .. Len(Append(q, f)) : i \in 1 .. Len(q) \/ i = Len(q) + 1
    BY <2>1
  <2>3. QED
    BY <1>5, <2>1, <2>2
<1>6. \A i \in 1 .. Len(out') : Announces(out'[i])
  <2>1. ASSUME NEW f \in Frames, Sends(f) PROVE \A i \in 1 .. Len(out') : Announces(out'[i])
    BY <1>1, <1>5, <2>1 DEF Sends, Announced
  <2>2. CASE SendsData
    BY <2>1, <2>2 DEF SendsData, Sends
  <2>3. CASE Acks
    BY <1>1, <1>4, <2>3 DEF Acks, Announced
  <2>4. CASE Rests
    BY <2>4, Emptied DEF Rests, Announced
  <2>5. QED
    BY <2>1, <2>2, <2>3, <2>4
    DEF Moves, SendsControl, Takes, Dispatches, Announced
<1>7. \A i \in 1 .. Len(rq') : Announces(rq'[i])
  <2>1. CASE Acks
    BY <1>1, <1>4, <1>5, <2>1 DEF Acks, Announced
  <2>2. CASE Takes
    BY <1>1, <1>4, <2>2 DEF Takes, Announced
  <2>3. QED
    BY <2>1, <2>2
    DEF Moves, Rests, SendsControl, SendsData, Sends, Dispatches, Announced
<1>8. hand' # NoFrame => Announces(hand')
  BY <1>1, <1>4
  DEF Moves, Rests, SendsControl, SendsData, Sends, Acks, Takes, Dispatches, Announced
<1>9. meta' # NoMeta => spc # "hash" /\ meta' = metaOf(sum)
  BY DEF Moves, Rests, SendsControl, SendsData, Sends, Acks, Takes, Dispatches,
         Announced, Announces
<1>10. QED
  <2>1. /\ \A i \in 1 .. Len(out') : StillAnnounces(out'[i])
        /\ \A i \in 1 .. Len(rq') : StillAnnounces(rq'[i])
        /\ hand' # NoFrame => StillAnnounces(hand')
    BY <1>3, <1>6, <1>7, <1>8
  <2>2. meta' # NoMeta => spc' # "hash" /\ meta' = metaOf(sum')
    BY <1>2, <1>9
  <2>3. QED
    BY <2>1, <2>2 DEF Announced, Announces
-----------------------------------------------------------------------------
(* transferCore as the whole transfer uses it, and its theorems. *)
CoreProofs == INSTANCE TransferCore_proofs
                WITH Readers <- {Primary}, Verifiers <- {Verifier},
                     Chunks <- FileChunks, Metas <- FileMetas,
                     ExactlyOnce <- TRUE,
                     result <- IF result \in {"protocolError", "badEOF", "abort",
                                              "closedEarly"}
                               THEN "client" ELSE result

\* The assumptions of TransferCore hold of the frames the sender builds.
LEMMA CoreAssumptions ==
  /\ Wrap \in Nat \ {0} /\ Zero \in Byte
  /\ HasPath \in BOOLEAN /\ TRUE \in BOOLEAN
  /\ \A c \in FileChunks : /\ c.at \in 0 .. Wrap - 1
                           /\ c.data \in Seq(Byte)
                           /\ Len(c.data) < Wrap
  /\ NoChunk \notin FileChunks
  /\ \A m \in FileMetas : /\ m.known \in BOOLEAN
                          /\ m.size \in 0 .. Wrap - 1
                          /\ m.sha \in [0 .. m.size - 1 -> Byte]
  /\ NoMeta \notin FileMetas
<1>1. ASSUME NEW c \in FileChunks
      PROVE  /\ c.at \in 0 .. Wrap - 1 /\ c.data \in Seq(Byte)
             /\ Len(c.data) < Wrap
  <2>0. PICK s \in Sources :
               c \in {[at |-> o, data |-> bytesAt(s, o)] : o \in 0 .. Len(s) - 1}
    BY DEF FileChunks
  <2>1. PICK o \in 0 .. Len(s) - 1 : c = [at |-> o, data |-> bytesAt(s, o)]
    BY <2>0
  <2>2. s \in Seq(Byte) /\ Len(s) \in Nat /\ Len(s) < Wrap /\ Wrap \in Nat
        /\ ChunkSize \in Nat \ {0} /\ o \in Nat /\ o < Len(s)
    BY <2>1, SinglePCAssumption
  <2> DEFINE to == IF o + ChunkSize <= Len(s) THEN o + ChunkSize ELSE Len(s)
  <2>3. to \in Nat /\ to <= Len(s) /\ o + 1 \in Nat /\ o + 1 <= to
    BY <2>2
  <2>4. bytesAt(s, o) = SubSeq(s, o + 1, to)
    BY DEF bytesAt
  <2> HIDE DEF to
  <2>5. \A i \in o + 1 .. to : s[i] \in Byte
    BY <2>2, <2>3
  <2>6. bytesAt(s, o) \in Seq(Byte) /\ Len(bytesAt(s, o)) = to - (o + 1) + 1
    BY <2>3, <2>4, <2>5, SubSeqProperties
  <2>7. Len(bytesAt(s, o)) < Wrap /\ o \in 0 .. Wrap - 1
    BY <2>2, <2>3, <2>6
  <2>8. c.at = o /\ c.data = bytesAt(s, o)
    BY <2>1
  <2>9. QED
    BY <2>6, <2>7, <2>8
<1>2. ASSUME NEW m \in FileMetas
      PROVE  /\ m.known \in BOOLEAN /\ m.size \in 0 .. Wrap - 1
             /\ m.sha \in [0 .. m.size - 1 -> Byte]
  <2>1. PICK s \in Sources : m = metaOf(s)
    BY DEF FileMetas
  <2>2. s \in Seq(Byte) /\ Len(s) \in Nat /\ Len(s) < Wrap /\ Wrap \in Nat
    BY SinglePCAssumption
  <2>3. /\ m.known = TRUE /\ m.size = Len(s)
        /\ m.sha = [o \in 0 .. Len(s) - 1 |-> s[o + 1]]
    BY <2>1 DEF metaOf
  <2>4. \A o \in 0 .. Len(s) - 1 : s[o + 1] \in Byte
    BY <2>2
  <2>5. m.known \in BOOLEAN /\ m.size \in 0 .. Wrap - 1
    <3>1. Len(s) \in 0 .. Wrap - 1
      BY <2>2
    <3>2. QED
      BY <2>3, <3>1, Zenon
  <2>6. m.sha \in [0 .. m.size - 1 -> Byte]
    BY <2>3, <2>4, Zenon
  <2>7. QED
    BY <2>5, <2>6
<1>3. QED
  BY <1>1, <1>2, SinglePCAssumption
LEMMA CoreSafety == CoreProofs!Spec => [](CoreProofs!TypeInv /\ CoreProofs!IInv)
BY CoreAssumptions, CoreProofs!Safety DEF CoreProofs!Offsets

LEMMA CoreSuccess == CoreProofs!Spec => []CoreProofs!OkMeansIntact
BY CoreAssumptions, CoreProofs!SuccessIsTrue DEF CoreProofs!Offsets
-----------------------------------------------------------------------------
(* Every step is a step of the core, as a sender that sends nothing twice drives
   it, or leaves it alone. *)
CoreStep == [Honest!Next]_(Honest!vars)

USE DEF Honest!vars, Honest!data, Honest!fileState, Honest!gateState,
        Honest!history, Core!data, Core!fileState, Core!gateState, Core!history

LEMMA CoreRests == ASSUME UNCHANGED coreVars PROVE CoreStep
BY DEF CoreStep

LEMMA CoreFails ==
  ASSUME NEW why \in {"protocolError", "badEOF", "abort", "closedEarly"},
         failCore(why)
  PROVE  CoreStep
<1>1. CASE gate = "free"
  <2>1. Honest!clientFails("client")
    BY <1>1 DEF failCore, Core!clientFails, Core!fail, Honest!clientFails, Honest!fail
  <2>2. QED
    BY <2>1 DEF CoreStep, Honest!Next
<1>2. CASE gate # "free"
  BY <1>2, CoreRests DEF failCore
<1>3. QED
  BY <1>1, <1>2

\* A failure of the core's own is recorded as it is.
LEMMA CoreReason ==
  ASSUME NEW why, Core!fail(why),
         why \notin {"protocolError", "badEOF", "abort", "closedEarly"}
  PROVE  Honest!fail(why)
BY DEF Core!fail, Honest!fail

LEMMA MetadataStep == ASSUME TypeInv, OnMetadata PROVE CoreStep
<1>1. hand.meta \in FileMetas
  BY DEF OnMetadata, TypeInv, FramesOK, Frames
<1>2. Honest!handleMetadata(hand.meta)
  BY CoreReason
  DEF OnMetadata, Honest!handleMetadata,
      Core!metadataAccepted, Honest!metadataAccepted,
      Core!metadataRejected, Honest!metadataRejected,
      Core!truncateFails, Honest!truncateFails
<1>3. QED
  BY <1>1, <1>2 DEF CoreStep, Honest!Next

LEMMA DataStep == ASSUME TypeInv, Fresh, OnData PROVE CoreStep
<1>1. hand.chunk \in FileChunks
  BY DEF OnData, TypeInv, FramesOK, Frames
<1>2. Core!Cells(hand.chunk) \cap arrived = {}
  BY DEF OnData, Fresh, handCells, FrameCells
<1>3. Honest!deliver(Primary, hand.chunk)
  BY <1>2 DEF OnData, Core!deliver, Honest!deliver, Core!Cells, Honest!Cells
<1>4. QED
  BY <1>1, <1>3 DEF CoreStep, Honest!Next

LEMMA IngestStep == ASSUME ingest PROVE CoreStep
<1>1. ASSUME NEW why, Core!readerFails(Primary, why),
             why \notin {"protocolError", "badEOF", "abort", "closedEarly"}
      PROVE  Honest!readerFails(Primary, why)
  BY <1>1, CoreReason DEF Core!readerFails, Honest!readerFails
<1>2. Honest!readerStep(Primary)
  <2> USE DEF Honest!readerStep
  <2>1. CASE Core!decodeFails(Primary) \/ Core!dataBeforeMetadata(Primary)
    BY <1>1, <2>1 DEF Core!decodeFails, Core!dataBeforeMetadata,
                      Honest!decodeFails, Honest!dataBeforeMetadata
  <2>2. CASE Core!dataOutOfBounds(Primary) \/ Core!writeFails(Primary)
    BY <1>1, <2>2 DEF Core!dataOutOfBounds, Core!writeFails, Core!inBounds,
                      Core!plus64, Honest!dataOutOfBounds, Honest!writeFails,
                      Honest!inBounds, Honest!plus64
  <2>3. CASE Core!writeChunk(Primary)
    BY <2>3 DEF Core!writeChunk, Core!inBounds, Core!plus64, Core!writeAt,
                Core!Cells, Core!Offsets, Honest!writeChunk, Honest!inBounds,
                Honest!plus64, Honest!writeAt, Honest!Cells, Honest!Offsets
  <2>4. CASE Core!countBytes(Primary)
    BY <2>4 DEF Core!countBytes, Core!Cells, Honest!countBytes, Honest!Cells
  <2>5. QED
    BY <2>1, <2>2, <2>3, <2>4 DEF ingest
<1>3. QED
  BY <1>2 DEF CoreStep, Honest!Next

LEMMA VerifyStep == ASSUME verify PROVE CoreStep
<1>1. Honest!verifierStep(Verifier)
  BY CoreReason
  DEF verify, Honest!verifierStep, Core!seeAllBytes, Honest!seeAllBytes,
      Core!seeDone, Honest!seeDone, Core!done, Honest!done,
      Core!verifyTimeout, Honest!verifyTimeout, Core!claimVerify,
      Honest!claimVerify, Core!verifierFails, Honest!verifierFails,
      Core!verifierMoves, Honest!verifierMoves
<1>2. QED
  BY <1>1 DEF CoreStep, Honest!Next

LEMMA BodyStep == ASSUME closing PROVE CoreStep
<1> USE DEF Core!rest, Honest!rest, Core!bodyMoves, Honest!bodyMoves,
            Core!abortWith, Honest!abortWith, Core!matches, Honest!matches,
            Honest!doneBody
<1>1. Honest!doneBody
  <2>1. CASE Core!cleanup
    BY <2>1 DEF Core!cleanup, Honest!cleanup
  <2>2. CASE Core!sync \/ Core!syncFails
    BY <2>2 DEF Core!sync, Core!syncFails, Honest!sync, Honest!syncFails
  <2>3. CASE Core!verifyIntegrity \/ Core!integrityFails \/ Core!hashFails
    BY <2>3 DEF Core!verifyIntegrity, Core!integrityFails, Core!hashFails,
                Honest!verifyIntegrity, Honest!integrityFails, Honest!hashFails
  <2>4. CASE Core!sinkClose \/ Core!abortClose
    BY <2>4 DEF Core!sinkClose, Core!abortClose, Honest!sinkClose, Honest!abortClose
  <2>5. CASE Core!abortRemove \/ Core!closeDone
    BY <2>5 DEF Core!abortRemove, Core!closeDone, Honest!abortRemove, Honest!closeDone
  <2>6. QED
    BY <2>1, <2>2, <2>3, <2>4, <2>5 DEF closing, Core!doneBody
<1>2. QED
  BY <1>1 DEF CoreStep, Honest!Next

LEMMA EOFStep == ASSUME OnEOF PROVE CoreStep
<1>1. CASE Core!verifyStarts(Verifier)
  <2>1. Honest!startVerify(Verifier)
    BY <1>1 DEF Core!verifyStarts, Core!verifierMoves, Honest!startVerify,
                Honest!verifyStarts, Honest!verifierMoves
  <2>2. QED
    BY <2>1 DEF CoreStep, Honest!Next
<1>2. QED
  BY <1>1, CoreFails DEF OnEOF
LEMMA StepIsCore == ASSUME TypeInv, Fresh, [Next]_vars PROVE CoreStep
<1>1. ASSUME UNCHANGED coreVars PROVE CoreStep
  BY <1>1, CoreRests
<1>2. CASE run
  <2>1. UNCHANGED coreVars
    BY <1>2 DEF run, preHash, preHashFails, seeOpen, openCancelled, sendMetadata,
                sendData, readEOF, readFails, drained, drainCancelled, sendEOF,
                sendAbort, flushed, flushTimeout, closeRun, runMoves
  <2>2. QED
    BY <1>1, <2>1
<1>3. CASE senderProcess \/ signalingFails \/ \E s \in Sources : sourceChanges(s)
  <2>1. UNCHANGED coreVars
    BY <1>3 DEF senderProcess, acceptAnswer, startReturns, startEnds,
                watcherCloses, stopSend, iceFails, signalingFails, sourceChanges
  <2>2. QED
    BY <1>1, <2>1
<1>4. CASE \/ channelOpens \/ ack \/ linkLost \/ senderNotified
           \/ receiverNotified \/ announced \/ pathTimeout \/ waitDone
  <2>1. UNCHANGED coreVars
    BY <1>4 DEF channelOpens, ack, linkLost, netMoves, senderNotified,
                receiverNotified, announced, pathTimeout, waitDone, receiverEnds
  <2>2. QED
    BY <1>1, <2>1
<1>5. CASE reader
  <2>1. CASE readFrame \/ readEnds \/ OnAbort
    BY <1>1, <2>1, CoreFails DEF readFrame, readEnds, OnAbort
  <2>2. QED
    BY <1>5, <2>1, MetadataStep, DataStep, EOFStep, IngestStep DEF reader
<1>6. CASE watcher
  BY <1>1, <1>6, CoreFails DEF watcher, watcherLooks, failOnEarlyClose
<1>7. CASE UNCHANGED vars
  BY <1>1, <1>7 DEF vars
<1>8. QED
  BY <1>2, <1>3, <1>4, <1>5, <1>6, <1>7, VerifyStep, BodyStep DEF Next

LEMMA TransitInv == Spec => [](TypeInv /\ Fresh /\ Announced)
<1>1. Init => TypeInv /\ Fresh /\ Announced
  BY TypeInit, FreshInit, AnnouncedInit
<1>2. ASSUME TypeInv /\ Fresh /\ Announced, [Next]_vars
      PROVE  (TypeInv /\ Fresh /\ Announced)'
  BY <1>2, TypeNext, StepMoves, FreshNext, AnnouncedNext
<1>3. QED
  BY <1>1, <1>2, PTL DEF Spec

(* From preHash to close(done), whatever the network, the user and the file do,
   the transfer takes transferCore only through steps its own specification
   allows for a sender that sends no byte twice. *)
THEOREM UsesCoreAsMeant == Spec => ImplementsCore
<1>1. Init => Honest!Init
  BY DEF Init, Core!Init, Honest!Init, Core!Offsets, Honest!Offsets
<1>2. ASSUME TypeInv /\ Fresh /\ Announced, [Next]_vars
      PROVE  [Honest!Next]_(Honest!vars)
  BY <1>2, StepIsCore DEF CoreStep
<1>3. QED
  BY <1>1, <1>2, TransitInv, PTL DEF Spec, ImplementsCore, Honest!Spec

\* The same module under two names, definition by definition.
LEMMA SameCore == Honest!Spec => CoreProofs!Spec
<1>1. Honest!Init => CoreProofs!Init
  BY DEF Honest!Init, CoreProofs!Init, Honest!Offsets, CoreProofs!Offsets
<1>2. [Honest!Next]_(Honest!vars) => [CoreProofs!Next]_(CoreProofs!vars)
  BY Zenon
  DEF Honest!Next, Honest!clientFails, Honest!fail, Honest!handleMetadata,
      Honest!metadataRejected, Honest!metadataAccepted,
      Honest!truncateFails, Honest!deliver, Honest!readerStep,
      Honest!decodeFails, Honest!dataBeforeMetadata, Honest!dataOutOfBounds,
      Honest!writeFails, Honest!writeChunk, Honest!countBytes,
      Honest!readerFails, Honest!inBounds, Honest!plus64, Honest!writeAt,
      Honest!Cells, Honest!Offsets, Honest!startVerify,
      Honest!verifyBeforeMetadata, Honest!verifyStarts, Honest!verifierStep,
      Honest!seeAllBytes, Honest!seeDone, Honest!verifyTimeout,
      Honest!claimVerify, Honest!verifierFails, Honest!verifierMoves,
      Honest!done, Honest!doneBody, Honest!cleanup, Honest!sync,
      Honest!syncFails, Honest!verifyIntegrity, Honest!integrityFails,
      Honest!hashFails, Honest!sinkClose, Honest!abortClose,
      Honest!abortRemove, Honest!closeDone, Honest!bodyMoves,
      Honest!abortWith, Honest!matches, Honest!rest, Honest!data,
      Honest!fileState, Honest!gateState, Honest!history, Honest!vars,
      CoreProofs!Next, CoreProofs!clientFails, CoreProofs!fail,
      CoreProofs!handleMetadata, CoreProofs!metadataRejected,
      CoreProofs!metadataAccepted, CoreProofs!truncateFails,
      CoreProofs!deliver, CoreProofs!readerStep, CoreProofs!decodeFails,
      CoreProofs!dataBeforeMetadata, CoreProofs!dataOutOfBounds,
      CoreProofs!writeFails, CoreProofs!writeChunk, CoreProofs!countBytes,
      CoreProofs!readerFails, CoreProofs!inBounds, CoreProofs!plus64,
      CoreProofs!writeAt, CoreProofs!Cells, CoreProofs!Offsets,
      CoreProofs!startVerify, CoreProofs!verifyBeforeMetadata,
      CoreProofs!verifyStarts, CoreProofs!verifierStep,
      CoreProofs!seeAllBytes, CoreProofs!seeDone, CoreProofs!verifyTimeout,
      CoreProofs!claimVerify, CoreProofs!verifierFails,
      CoreProofs!verifierMoves, CoreProofs!done, CoreProofs!doneBody,
      CoreProofs!cleanup, CoreProofs!sync, CoreProofs!syncFails,
      CoreProofs!verifyIntegrity, CoreProofs!integrityFails,
      CoreProofs!hashFails, CoreProofs!sinkClose, CoreProofs!abortClose,
      CoreProofs!abortRemove, CoreProofs!closeDone, CoreProofs!bodyMoves,
      CoreProofs!abortWith, CoreProofs!matches, CoreProofs!rest,
      CoreProofs!data, CoreProofs!fileState, CoreProofs!gateState,
      CoreProofs!history, CoreProofs!vars
<1>3. QED
  BY <1>1, <1>2, PTL DEF Honest!Spec, CoreProofs!Spec

(* A receiver that reports success holds, in a closed file, exactly the bytes
   the sender hashed, even if the input was rewritten while it was being sent. *)
THEOREM Faithful == Spec => []SuccessIsFaithful
<1>1. ASSUME TypeInv /\ Fresh /\ Announced, CoreProofs!OkMeansIntact
      PROVE  SuccessIsFaithful
  <2>1. SUFFICES ASSUME Core!done, result = "nil"
                 PROVE  /\ Core!Intact /\ meta.size = Len(sum)
                        /\ \A o \in 0 .. Len(sum) - 1 : contents[o] = sum[o + 1]
    BY DEF SuccessIsFaithful
  <2>2. Core!Intact
    BY <1>1, <2>1
    DEF CoreProofs!OkMeansIntact, CoreProofs!Intact, CoreProofs!done,
        CoreProofs!matches, Core!Intact, Core!done, Core!matches
  <2>3. meta = metaOf(sum) /\ \A o \in 0 .. meta.size - 1 : contents[o] = meta.sha[o]
    BY <1>1, <2>2 DEF Announced, Core!Intact, Core!matches
  <2>4. meta.size = Len(sum) /\ meta.sha = [o \in 0 .. Len(sum) - 1 |-> sum[o + 1]]
    BY <2>3 DEF metaOf
  <2>5. QED
    BY <2>2, <2>3, <2>4
<1>2. QED
  BY <1>1, TransitInv, UsesCoreAsMeant, SameCore, CoreSuccess, PTL DEF ImplementsCore
-----------------------------------------------------------------------------
(* The order of frames. *)
Types(q) == {q[i].type : i \in 1 .. Len(q)}

Ordered(q) ==
  \A i \in 1 .. Len(q) : /\ q[i].type = "METADATA" => i = 1
                         /\ q[i].type = "EOF" => i = Len(q)

holds(t) == hand # NoFrame /\ hand.type = t

early == spc \in {"hash", "open", "metadata"}

\* METADATA comes first and once, EOF last and once.
Sequenced ==
  /\ Ordered(out) /\ Ordered(rq)
  /\ out # <<>> => "EOF" \notin Types(rq)
  /\ rq # <<>> => "METADATA" \notin Types(out)
  /\ hand # NoFrame \/ meta # NoMeta => "METADATA" \notin Types(out) \cup Types(rq)
  /\ meta # NoMeta => ~holds("METADATA")
  /\ holds("EOF") \/ eofSeen => out = <<>> /\ rq = <<>>
  /\ hand # NoFrame => rpc = "reading" /\ rd[Primary] = "idle"
  /\ eofSeen => hand = NoFrame /\ eofSent
  /\ "EOF" \in Types(out) \cup Types(rq) \/ holds("EOF") => eofSent
  /\ eofSent => spc \in {"flush", "close", "gone"}
  /\ early => out = <<>> /\ rq = <<>> /\ hand = NoFrame /\ meta = NoMeta
  /\ vf[Verifier] # "off" => eofSeen

underWay == chan \in {"connecting", "open", "closing"}

\* The receiver has METADATA, or METADATA is the next frame it takes, if any.
Leading ==
  /\ rd[Primary] # "idle" => meta # NoMeta
  /\ chan = "connecting" => out = <<>> /\ spc \in {"hash", "open", "close", "gone"}
  /\ meta = NoMeta =>
       \/ holds("METADATA")
       \/ /\ hand = NoFrame
          /\ \/ "METADATA" \in Types(rq)
             \/ rq = <<>> /\ ("METADATA" \in Types(out) \/ ~underWay)
             \/ rq = <<>> /\ out = <<>> /\ (early \/ spc \in {"close", "gone"})

LEMMA OrderAppended ==
  ASSUME NEW q \in Seq(Frames), NEW f \in Frames
  PROVE  /\ Append(q, f) \in Seq(Frames) /\ Append(q, f) # <<>>
         /\ Types(Append(q, f)) = Types(q) \cup {f.type}
         /\ /\ Ordered(q) /\ "EOF" \notin Types(q)
            /\ f.type = "METADATA" => q = <<>>
            => Ordered(Append(q, f))
<1> DEFINE n == Len(q)
           r == Append(q, f)
<1>1. /\ n \in Nat /\ r \in Seq(Frames) /\ Len(r) = n + 1
      /\ \A i \in 1 .. n : r[i] = q[i]
      /\ r[n + 1] = f
  BY AppendProperties
<1>2. \A i \in 1 .. Len(r) : i \in 1 .. n \/ i = n + 1
  BY <1>1
<1>3. \A i \in 1 .. n : i \in 1 .. Len(r)
  BY <1>1
<1>4. n + 1 \in 1 .. Len(r) /\ r # <<>>
  BY <1>1, Emptied
<1>0. q = <<>> => n = 0
  BY Emptied
<1> HIDE DEF r, n
<1>5. Types(r) = {r[i].type : i \in 1 .. Len(r)}
  BY DEF Types
<1>6. Types(q) = {q[i].type : i \in 1 .. n}
  BY DEF Types, n
<1>7. Types(r) = Types(q) \cup {f.type}
  BY <1>1, <1>2, <1>3, <1>4, <1>5, <1>6
<1>8. ASSUME Ordered(q), "EOF" \notin Types(q), f.type = "METADATA" => q = <<>>
      PROVE  Ordered(r)
  <2>1. SUFFICES ASSUME NEW i \in 1 .. Len(r)
                 PROVE  /\ r[i].type = "METADATA" => i = 1
                        /\ r[i].type = "EOF" => i = Len(r)
    BY DEF Ordered
  <2>2. CASE i \in 1 .. n
    <3>1. r[i] = q[i] /\ q[i].type \in Types(q)
      BY <1>1, <1>6, <2>2
    <3>2. q[i].type = "METADATA" => i = 1
      BY <1>8, <2>2 DEF Ordered, n
    <3>3. QED
      BY <1>8, <3>1, <3>2
  <2>3. CASE i = n + 1
    BY <1>0, <1>1, <1>8, <2>3
  <2>4. QED
    BY <1>2, <2>2, <2>3
<1>9. QED
  BY <1>1, <1>4, <1>7, <1>8 DEF r

LEMMA OrderTaken ==
  ASSUME NEW q \in Seq(Frames), q # <<>>
  PROVE  /\ Head(q) \in Frames /\ Tail(q) \in Seq(Frames)
         /\ Types(q) = {Head(q).type} \cup Types(Tail(q))
         /\ Ordered(q) =>
              /\ Ordered(Tail(q)) /\ "METADATA" \notin Types(Tail(q))
              /\ Head(q).type = "EOF" => Tail(q) = <<>>
              /\ "EOF" \in Types(Tail(q)) => Tail(q) # <<>>
<1> DEFINE n == Len(q)
           t == Tail(q)
<1>1. /\ n \in Nat \ {0} /\ t \in Seq(Frames) /\ Len(t) = n - 1
      /\ \A i \in 1 .. Len(t) : t[i] = q[i + 1]
      /\ Head(q) = q[1] /\ q[1] \in Frames
  BY HeadTailProperties
<1>2. \A i \in 1 .. n : i # 1 => i - 1 \in 1 .. Len(t) /\ q[i] = t[i - 1]
  BY <1>1
<1>3. \A i \in 1 .. Len(t) : i + 1 \in 1 .. n /\ i + 1 # 1
  BY <1>1
<1>4. 1 \in 1 .. n
  BY <1>1
<1>0. ASSUME n = 1 PROVE t = <<>>
  <2>1. Len(t) = 0
    BY <1>0, <1>1
  <2>2. QED
    BY <1>1, <2>1, EmptySeq
<1> HIDE DEF t, n
<1>11. ASSUME NEW i \in 1 .. Len(t), i + 1 = n PROVE i = Len(t)
  <2>1. PICK m \in Int : m = Len(t) /\ m = n - 1
    BY <1>1
  <2>2. i \in 1 .. m
    BY <2>1
  <2>3. i = m
    BY <1>1, <1>11, <2>1, <2>2
  <2>4. QED
    BY <2>1, <2>3
<1>5. Types(t) = {t[i].type : i \in 1 .. Len(t)}
  BY DEF Types
<1>6. Types(q) = {q[i].type : i \in 1 .. n}
  BY DEF Types, n
<1>7. Types(q) = {Head(q).type} \cup Types(t)
  <2>1. \A i \in 1 .. n : q[i].type \in {Head(q).type} \cup Types(t)
    BY <1>1, <1>2, <1>5
  <2>2. \A i \in 1 .. Len(t) : t[i].type \in Types(q)
    BY <1>1, <1>3, <1>6
  <2>3. Head(q).type \in Types(q)
    BY <1>1, <1>4, <1>6
  <2>4. QED
    BY <1>5, <1>6, <2>1, <2>2, <2>3
<1>8. ASSUME Ordered(q)
      PROVE  /\ Ordered(t) /\ "METADATA" \notin Types(t)
             /\ Head(q).type = "EOF" => t = <<>>
  <2>1. \A i \in 1 .. n : /\ q[i].type = "METADATA" => i = 1
                          /\ q[i].type = "EOF" => i = n
    BY <1>8 DEF Ordered, n
  <2>2. \A i \in 1 .. Len(t) : /\ t[i].type # "METADATA"
                               /\ t[i].type = "EOF" => i = Len(t)
    BY <1>1, <1>3, <1>11, <2>1
  <2>3. Head(q).type = "EOF" => t = <<>>
    BY <1>0, <1>1, <1>4, <2>1
  <2>4. QED
    BY <1>5, <2>2, <2>3 DEF Ordered
<1>9. "EOF" \in Types(t) => t # <<>>
  BY <1>5, Emptied
<1>10. QED
  BY <1>1, <1>7, <1>8, <1>9 DEF t

LEMMA OrderEmptied == Types(<<>>) = {} /\ Ordered(<<>>)
BY Emptied DEF Types, Ordered
-----------------------------------------------------------------------------
(* What a step may do to the order of frames. *)
Stays ==
  /\ out' \in {out, <<>>} /\ UNCHANGED <<rq, hand, meta, eofSeen, eofSent>>
  /\ hand # NoFrame => UNCHANGED <<rpc, rd>>
  /\ rd'[Primary] # "idle" => rd[Primary] # "idle"
  /\ vf'[Verifier] # "off" => vf[Verifier] # "off"
  /\ eofSent => spc' \in {"flush", "close", "gone"}
  /\ spc' \in {"hash", "open", "metadata"} => early
  /\ early \/ spc \in {"close", "gone"} =>
       \/ spc' \in {"hash", "open", "metadata", "close", "gone"}
       \/ chan' \notin {"connecting", "open", "closing"}
  /\ chan' = "connecting" =>
       /\ chan = "connecting"
       /\ spc \in {"hash", "open", "close", "gone"}
            => spc' \in {"hash", "open", "close", "gone"}
  /\ chan' \in {"connecting", "open", "closing"} => underWay /\ UNCHANGED out

Says(f) ==
  /\ f \in Frames /\ out' = Append(out, f)
  /\ UNCHANGED <<rq, hand, meta, eofSeen, rpc, rd, vf, chan>>
  /\ chan # "connecting" /\ ~eofSent
  /\ spc \notin {"hash", "open", "close", "gone"}
  /\ spc' \notin {"hash", "open", "metadata"}
  /\ spc = "metadata" <=> f.type = "METADATA"
  /\ eofSent' <=> f.type = "EOF"
  /\ f.type = "EOF" => spc' \in {"flush", "close", "gone"}

Delivers ==
  /\ Acks /\ underWay
  /\ UNCHANGED <<meta, eofSeen, eofSent, rpc, rd, vf, chan>>

Reads ==
  /\ Takes /\ rpc = "reading" /\ rd[Primary] = "idle"
  /\ UNCHANGED <<meta, eofSeen, eofSent, rpc, rd, vf, chan>>

Handles ==
  /\ hand # NoFrame /\ hand' = NoFrame
  /\ UNCHANGED <<out, rq, eofSent, spc, chan>>
  /\ IF hand.type = "METADATA" THEN meta' # NoMeta ELSE UNCHANGED meta
  /\ IF hand.type = "EOF" /\ meta # NoMeta
       THEN eofSeen' = TRUE ELSE UNCHANGED <<eofSeen, vf>>
  /\ hand.type # "DATA" => UNCHANGED rd

Kinds == Stays \/ (\E f \in Frames : Says(f)) \/ Delivers \/ Reads \/ Handles

LEMMA SequencedInit == Init => Sequenced /\ Leading
BY OrderEmptied DEF Init, Core!Init, Sequenced, Leading, holds, early

LEMMA OrderNext ==
  ASSUME TypeInv, Sequenced, Leading, Kinds
  PROVE  Sequenced' /\ Leading'
<1>0. /\ out \in Seq(Frames) /\ rq \in Seq(Frames) /\ hand \in Frames \cup {NoFrame} /\ NoFrame \notin Frames
      /\ {eofSent, eofSeen} \subseteq BOOLEAN
  BY SinglePCAssumption DEF TypeInv, TypeOK, FramesOK
<1>1. /\ Types(out)' = Types(out') /\ Types(rq)' = Types(rq')
      /\ Ordered(out)' = Ordered(out') /\ Ordered(rq)' = Ordered(rq')
  BY DEF Types, Ordered
<1> USE DEF Sequenced, Leading, holds, early, underWay
<1>2. CASE Stays
  BY <1>1, <1>2, OrderEmptied DEF Stays
<1>3. ASSUME NEW f \in Frames, Says(f) PROVE Sequenced' /\ Leading'
  <2>1. /\ out' # <<>> /\ Types(out') = Types(out) \cup {f.type}
        /\ /\ Ordered(out) /\ "EOF" \notin Types(out)
           /\ f.type = "METADATA" => out = <<>>
           => Ordered(out')
    BY <1>0, <1>3, OrderAppended DEF Says
  <2>2. "EOF" \notin Types(out) /\ (f.type = "METADATA" => out = <<>>)
    BY <1>3 DEF Says
  <2>3. Sequenced'
    BY <1>0, <1>1, <1>3, <2>1, <2>2 DEF Says
  <2>4. Leading'
    BY <1>0, <1>1, <1>3, <2>1 DEF Says
  <2>5. QED
    BY <2>3, <2>4
<1>4. CASE Delivers
  <2> DEFINE f == Head(out)
  <2>1. /\ out # <<>> /\ rq' = Append(rq, f) /\ out' = Tail(out)
        /\ UNCHANGED <<hand, spc, meta, eofSeen, eofSent, rpc, rd, vf, chan>>
        /\ underWay
    BY <1>4 DEF Delivers, Acks
  <2>2. /\ f \in Frames
        /\ Types(out) = {f.type} \cup Types(out')
        /\ Ordered(out') /\ "METADATA" \notin Types(out')
        /\ f.type = "EOF" => out' = <<>>
        /\ "EOF" \in Types(out') => out' # <<>>
    BY <1>0, <2>1, OrderTaken
  <2>3. /\ rq' # <<>> /\ Types(rq') = Types(rq) \cup {f.type}
        /\ /\ Ordered(rq) /\ "EOF" \notin Types(rq)
           /\ f.type = "METADATA" => rq = <<>>
           => Ordered(rq')
    BY <1>0, <2>1, <2>2, OrderAppended
  <2> HIDE DEF f
  <2>4. "EOF" \notin Types(rq) /\ (f.type = "METADATA" => rq = <<>>)
    BY <2>1, <2>2
  <2>5. Sequenced'
    BY <1>0, <1>1, <2>1, <2>2, <2>3, <2>4
  <2>6. Leading'
    BY <1>0, <1>1, <2>1, <2>2, <2>3, <2>4
  <2>7. QED
    BY <2>5, <2>6
<1>5. CASE Reads
  <2> DEFINE f == Head(rq)
  <2>1. /\ rq # <<>> /\ hand = NoFrame /\ hand' = f /\ rq' = Tail(rq)
        /\ UNCHANGED <<out, spc, meta, eofSeen, eofSent, rpc, rd, vf, chan>>
        /\ rpc = "reading" /\ rd[Primary] = "idle"
    BY <1>5 DEF Reads, Takes
  <2>2. /\ f \in Frames
        /\ Types(rq) = {f.type} \cup Types(rq')
        /\ Ordered(rq') /\ "METADATA" \notin Types(rq')
        /\ f.type = "EOF" => rq' = <<>>
        /\ "EOF" \in Types(rq') => rq' # <<>>
    BY <1>0, <2>1, OrderTaken
  <2> HIDE DEF f
  <2>3. Sequenced'
    BY <1>0, <1>1, <2>1, <2>2
  <2>4. Leading'
    BY <1>0, <1>1, <2>1, <2>2
  <2>5. QED
    BY <2>3, <2>4
<1>6. CASE Handles
  <2>1. Sequenced'
    BY <1>0, <1>1, <1>6 DEF Handles
  <2>2. Leading'
    BY <1>0, <1>1, <1>6 DEF Handles
  <2>3. QED
    BY <2>1, <2>2
<1>7. QED
  BY <1>2, <1>3, <1>4, <1>5, <1>6 DEF Kinds

LEMMA FailStays == ASSUME NEW why, failCore(why) PROVE UNCHANGED <<meta, rd, vf>>
BY DEF failCore, Core!clientFails

LEMMA RunKinds == ASSUME TypeInv, Sequenced, Leading, run PROVE Kinds
<1> USE DEF runMoves, send, sendFails, Stays, Kinds, underWay, early
<1>0. spc \notin {"flush", "close", "gone"} => ~eofSent
  BY DEF Sequenced
<1>00. chan = "connecting" => spc \in {"hash", "open", "close", "gone"}
  BY DEF Leading
<1>1. CASE preHash \/ preHashFails \/ seeOpen \/ openCancelled
  BY <1>0, <1>00, <1>1 DEF preHash, preHashFails, seeOpen, openCancelled
<1>2. CASE readEOF \/ readFails \/ drained \/ drainCancelled
  BY <1>0, <1>00, <1>2 DEF readEOF, readFails, drained, drainCancelled
<1>3. CASE flushed \/ flushTimeout
  BY <1>00, <1>3 DEF flushed, flushTimeout
<1>4. CASE closeRun
  BY <1>00, <1>4 DEF closeRun
<1>5. ASSUME NEW f \in Frames, send(f), spc \notin {"hash", "open", "close", "gone", "flush"},
             spc' \notin {"hash", "open", "metadata"},
             spc = "metadata" <=> f.type = "METADATA",
             eofSent' <=> f.type = "EOF",
             f.type = "EOF" => spc' \in {"flush", "close", "gone"},
             UNCHANGED <<coreVars, rcvVars>>
      PROVE  Kinds
  BY <1>0, <1>00, <1>5 DEF Says
<1>6. CASE sendMetadata
  <2>1. CASE send(metadata) /\ runMoves("read")
    <3>1. metadata \in Frames
      BY <1>6, MetadataIsFrame DEF sendMetadata, TypeInv
    <3>2. metadata.type = "METADATA"
      BY DEF metadata
    <3>3. QED
      BY <1>0, <1>5, <1>6, <2>1, <3>1, <3>2 DEF sendMetadata
  <2>2. CASE sendFails /\ runMoves("abort")
    BY <1>0, <1>00, <1>6, <2>2 DEF sendMetadata
  <2>3. QED
    BY <1>6, <2>1, <2>2 DEF sendMetadata
<1>7. CASE sendData
  <2>1. CASE send(data(sent, readBytes))
    <3>1. data(sent, readBytes) \in Frames
      BY <1>7, DataIsFrame DEF sendData
    <3>2. data(sent, readBytes).type = "DATA"
      BY DEF data
    <3>3. spc' \in {"drain", "drainLast", "abort"} /\ UNCHANGED <<coreVars, rcvVars, eofSent>>
      BY <1>7 DEF sendData
    <3>4. QED
      BY <1>0, <1>5, <1>7, <2>1, <3>1, <3>2, <3>3 DEF sendData
  <2>2. CASE sendFails /\ runMoves("abort")
    BY <1>0, <1>00, <1>7, <2>2 DEF sendData
  <2>3. QED
    BY <1>7, <2>1, <2>2 DEF sendData
<1>8. CASE sendEOF
  <2>1. eof \in Frames /\ eof.type = "EOF"
    BY DEF eof, Frames
  <2>2. CASE send(eof) /\ runMoves("flush") /\ eofSent' = TRUE
    BY <1>5, <1>8, <2>1, <2>2 DEF sendEOF
  <2>3. CASE sendFails /\ runMoves("abort") /\ UNCHANGED eofSent
    BY <1>0, <1>00, <1>8, <2>3 DEF sendEOF
  <2>4. QED
    BY <1>8, <2>2, <2>3 DEF sendEOF
<1>9. CASE sendAbort
  <2>1. abort \in Frames /\ abort.type = "ABORT"
    BY DEF abort, Frames
  <2>2. CASE send(abort)
    BY <1>0, <1>5, <1>9, <2>1, <2>2 DEF sendAbort
  <2>3. CASE sendFails
    BY <1>0, <1>00, <1>9, <2>3 DEF sendAbort
  <2>4. QED
    BY <1>9, <2>2, <2>3 DEF sendAbort
<1>10. QED
  BY <1>1, <1>2, <1>3, <1>4, <1>6, <1>7, <1>8, <1>9 DEF run

LEMMA OtherKinds ==
  ASSUME TypeInv, Sequenced, Leading,
         \/ senderProcess \/ signalingFails \/ \E s \in Sources : sourceChanges(s)
         \/ channelOpens \/ linkLost \/ senderNotified \/ receiverNotified
         \/ announced \/ pathTimeout \/ waitDone
  PROVE  Stays
<1> USE DEF Stays, underWay, early
<1>0. /\ eofSent => spc \in {"flush", "close", "gone"}
      /\ hand # NoFrame => rpc = "reading"
  BY DEF Sequenced
<1>1. CASE startReturns \/ signalingFails
  BY <1>0, <1>1 DEF startReturns, signalingFails, startEnds, hangUp
<1>2. CASE acceptAnswer \/ watcherCloses \/ iceFails \/ \E s \in Sources : sourceChanges(s)
  BY <1>0, <1>2 DEF acceptAnswer, watcherCloses, stopSend, iceFails, sourceChanges
<1>3. CASE channelOpens \/ linkLost \/ senderNotified \/ receiverNotified
  BY <1>0, <1>3 DEF channelOpens, linkLost, netMoves, senderNotified, receiverNotified
<1>4. CASE announced
  BY <1>0, <1>4 DEF announced
<1>5. CASE pathTimeout \/ waitDone
  BY <1>0, <1>5 DEF pathTimeout, waitDone, receiverEnds, hangUp
<1>6. QED
  BY <1>1, <1>2, <1>3, <1>4, <1>5 DEF senderProcess

LEMMA ReceiverKinds ==
  ASSUME TypeInv, Sequenced, Leading, reader \/ watcher \/ verify \/ closing
  PROVE  Kinds
<1>0. /\ eofSent => spc \in {"flush", "close", "gone"}
      /\ hand # NoFrame => rpc = "reading" /\ rd[Primary] = "idle"
  BY DEF Sequenced
<1>1. CASE readFrame
  BY <1>1 DEF readFrame, Takes, Reads, Kinds
<1>2. CASE readEnds
  <2>1. UNCHANGED <<meta, rd, vf>>
    BY <1>2, FailStays DEF readEnds
  <2>2. QED
    BY <1>0, <1>2, <2>1 DEF readEnds, Stays, Kinds, underWay, early
<1>3. CASE ingest
  <2>1. UNCHANGED <<meta, vf>> /\ rd[Primary] # "idle"
    BY <1>3 DEF ingest, Core!decodeFails, Core!dataBeforeMetadata,
                Core!dataOutOfBounds, Core!writeFails, Core!readerFails,
                Core!writeChunk, Core!countBytes
  <2>2. QED
    BY <1>0, <1>3, <2>1 DEF ingest, Stays, Kinds, underWay, early
<1>4. CASE watcher
  <2>1. UNCHANGED <<meta, rd, vf>>
    BY <1>4, FailStays DEF watcher, watcherLooks, failOnEarlyClose
  <2>2. QED
    BY <1>0, <1>4, <2>1
    DEF watcher, watcherLooks, failOnEarlyClose, Stays, Kinds, underWay, early
<1>5. CASE verify
  <2>1. UNCHANGED <<meta, rd>> /\ vf[Verifier] # "off"
    BY <1>5 DEF verify, Core!seeAllBytes, Core!seeDone, Core!claimVerify,
                Core!verifyTimeout, Core!verifierFails, Core!verifierMoves
  <2>2. QED
    BY <1>0, <1>5, <2>1 DEF verify, Stays, Kinds, underWay, early
<1>6. CASE closing
  <2>1. UNCHANGED <<meta, rd, vf>>
    BY <1>6 DEF closing, Core!doneBody, Core!cleanup, Core!sync, Core!syncFails,
                Core!verifyIntegrity, Core!integrityFails, Core!hashFails,
                Core!abortWith, Core!bodyMoves, Core!sinkClose, Core!abortClose,
                Core!abortRemove, Core!closeDone, Core!rest
  <2>2. QED
    BY <1>0, <1>6, <2>1 DEF closing, Stays, Kinds, underWay, early
<1>7. CASE OnMetadata
  <2>1. hand \in Frames /\ hand.type = "METADATA"
    BY <1>7 DEF OnMetadata, TypeInv, FramesOK
  <2>2. hand.meta \in FileMetas
    BY <2>1 DEF Frames
  <2>3. PICK s \in Sources : hand.meta = metaOf(s)
    BY <2>2 DEF FileMetas
  <2>4. hand.meta.known /\ meta = NoMeta
    BY <1>7, <2>3 DEF metaOf, Sequenced, holds, OnMetadata
  <2>5. meta' # NoMeta /\ UNCHANGED <<rd, vf>>
    BY <1>7, <2>2, <2>4, SinglePCAssumption
    DEF OnMetadata, Core!metadataAccepted, Core!metadataRejected, Core!truncateFails
  <2>6. QED
    BY <1>7, <2>1, <2>5 DEF OnMetadata, dispatched, Handles, Kinds
<1>8. CASE OnData
  <2>1. UNCHANGED <<meta, vf>>
    BY <1>8 DEF OnData, Core!deliver
  <2>2. QED
    BY <1>8, <2>1 DEF OnData, dispatched, Handles, Kinds
<1>9. CASE OnEOF
  <2>1. ~eofSeen
    BY <1>9 DEF OnEOF, Sequenced
  <2>2. CASE meta = NoMeta
    BY <1>9, <2>1, <2>2, FailStays DEF OnEOF, dispatched, Handles, Kinds
  <2>3. CASE meta # NoMeta
    <3>1. UNCHANGED <<meta, rd>> /\ eofSeen' = TRUE
      BY <1>9, <2>1, <2>3 DEF OnEOF, Core!verifyStarts, Core!verifierMoves
    <3>2. QED
      BY <1>9, <2>3, <3>1 DEF OnEOF, dispatched, Handles, Kinds
  <2>4. QED
    BY <2>2, <2>3
<1>10. CASE OnAbort
  BY <1>10, FailStays DEF OnAbort, dispatched, Handles, Kinds
<1>11. QED
  BY <1>1, <1>2, <1>3, <1>4, <1>5, <1>6, <1>7, <1>8, <1>9, <1>10 DEF reader

LEMMA StepKinds == ASSUME TypeInv, Sequenced, Leading, [Next]_vars PROVE Kinds
<1>1. CASE ack
  BY <1>1 DEF ack, netMoves, Acks, cut, Delivers, Kinds, underWay
<1>2. CASE UNCHANGED vars
  BY <1>2 DEF vars, Stays, Kinds, Sequenced, Leading, underWay, early
<1>3. CASE Stays
  BY <1>3 DEF Kinds
<1>4. QED
  BY <1>1, <1>2, <1>3, RunKinds, OtherKinds, ReceiverKinds DEF Next
-----------------------------------------------------------------------------
(* What the core's theorems say of its counter. *)
Counting ==
  /\ meta \in FileMetas \cup {NoMeta}
  /\ contents \in [Core!Offsets -> Byte] /\ counted \in SUBSET Nat
  /\ rd \in [{Primary} -> {"idle", "ingest", "count", "stopped"}]
  /\ chunk \in [{Primary} -> FileChunks \cup {NoChunk}]
  /\ vf \in [{Verifier} -> {"off", "waiting", "claiming", "stopped"}]
  /\ bytesWritten = Cardinality(counted) /\ allBytes \in BOOLEAN
  /\ rd[Primary] \in {"ingest", "count"} => chunk[Primary] \in FileChunks
  /\ meta = NoMeta => counted = {}
  /\ meta # NoMeta => counted \subseteq 0 .. meta.size - 1
  /\ allBytes => meta # NoMeta /\ counted = 0 .. meta.size - 1
  /\ gate \in {"verifying", "syncing", "hashing"} => allBytes

LEMMA SameCardinality == ASSUME NEW S PROVE CoreProofs!Cardinality(S) = Cardinality(S)
BY Zenon DEF CoreProofs!Cardinality, Cardinality

LEMMA CountingInv == Spec => []Counting
<1>1. ASSUME CoreProofs!TypeInv, CoreProofs!IInv PROVE Counting
  <2> USE <1>1
  <2>1. /\ meta \in FileMetas \cup {NoMeta}
        /\ contents \in [Core!Offsets -> Byte] /\ counted \in SUBSET Nat
        /\ rd \in [{Primary} -> {"idle", "ingest", "count", "stopped"}]
        /\ chunk \in [{Primary} -> FileChunks \cup {NoChunk}]
        /\ vf \in [{Verifier} -> {"off", "waiting", "claiming", "stopped"}]
        /\ allBytes \in BOOLEAN
    BY Zenon DEF CoreProofs!TypeInv, CoreProofs!TypeOK, Core!Offsets, CoreProofs!Offsets
  <2>2. rd[Primary] \in {"ingest", "count"} => chunk[Primary] \in FileChunks
    BY DEF CoreProofs!IInv, CoreProofs!Holding
  <2>3. /\ bytesWritten = Cardinality(counted)
        /\ meta = NoMeta => counted = {}
        /\ meta # NoMeta => counted \subseteq 0 .. meta.size - 1
    BY SameCardinality DEF CoreProofs!IInv, CoreProofs!Accounting
  <2>4. allBytes => meta # NoMeta /\ counted = 0 .. meta.size - 1
    BY DEF CoreProofs!IInv, CoreProofs!AllBytesMeansCovered
  <2>5. gate \in {"verifying", "syncing", "hashing"} => allBytes
    BY DEF CoreProofs!IInv, CoreProofs!Awaited
  <2>6. QED
    BY <2>1, <2>2, <2>3, <2>4, <2>5 DEF Counting
<1>2. QED
  BY <1>1, UsesCoreAsMeant, SameCore, CoreSafety, PTL DEF ImplementsCore
-----------------------------------------------------------------------------
(* What a step may do to the reader and to what it has taken, in transferCore. *)
DeliversChunk ==
  /\ holds("DATA") /\ rd[Primary] = "idle"
  /\ rd' = [rd EXCEPT ![Primary] = "ingest"]
  /\ chunk' = [chunk EXCEPT ![Primary] = hand.chunk]
  /\ arrived' = arrived \cup Core!Cells(hand.chunk)
  /\ UNCHANGED <<contents, counted, meta, allBytes>>

Refuses ==
  /\ rd[Primary] = "ingest"
  /\ rd' = [rd EXCEPT ![Primary] = "stopped"]
  /\ UNCHANGED <<contents, counted, arrived, meta, allBytes, hand>>

Writes ==
  /\ rd[Primary] = "ingest"
  /\ rd' = [rd EXCEPT ![Primary] = "count"]
  /\ Core!writeAt(chunk[Primary])
  /\ UNCHANGED <<chunk, counted, arrived, meta, allBytes, hand>>

Counts ==
  /\ rd[Primary] = "count"
  /\ rd' = [rd EXCEPT ![Primary] = "idle"]
  /\ counted' = counted \cup Core!Cells(chunk[Primary])
  /\ bytesWritten' >= meta.size => allBytes'
  /\ allBytes => allBytes'
  /\ UNCHANGED <<contents, arrived, meta, hand>>

Waits == 
  /\ UNCHANGED <<rd, chunk, contents, counted, arrived>>
  /\ allBytes => allBytes'
  /\ meta' # meta =>
       meta = NoMeta /\ (rpc' = "ended" \/ (meta'.size = 0 => allBytes'))
  /\ holds("DATA") => hand' = hand

CoreKinds == DeliversChunk \/ Refuses \/ Writes \/ Counts \/ Waits

LEMMA FailWaits ==
  ASSUME NEW why, failCore(why)
  PROVE  UNCHANGED <<rd, chunk, contents, counted, arrived, allBytes, meta>>
BY DEF failCore, Core!clientFails

LEMMA StepCore == ASSUME TypeInv, Counting, Sequenced, [Next]_vars PROVE CoreKinds
<1> USE DEF CoreKinds, holds
<1>1. ASSUME UNCHANGED coreVars, UNCHANGED hand \/ hand = NoFrame PROVE CoreKinds
  BY <1>1, Zenon DEF Waits
<1>2. CASE run
  <2>1. UNCHANGED coreVars /\ UNCHANGED hand
    BY <1>2 DEF run, preHash, preHashFails, seeOpen, openCancelled, sendMetadata,
                sendData, readEOF, readFails, drained, drainCancelled, sendEOF,
                sendAbort, flushed, flushTimeout, closeRun, runMoves
  <2>2. QED
    BY <1>1, <2>1
<1>3. CASE senderProcess \/ signalingFails \/ \E s \in Sources : sourceChanges(s)
  <2>1. UNCHANGED coreVars /\ UNCHANGED hand
    BY <1>3 DEF senderProcess, acceptAnswer, startReturns, startEnds,
                watcherCloses, stopSend, iceFails, signalingFails, sourceChanges
  <2>2. QED
    BY <1>1, <2>1
<1>4. CASE \/ channelOpens \/ ack \/ linkLost \/ senderNotified
           \/ receiverNotified \/ announced \/ pathTimeout \/ waitDone
  <2>1. UNCHANGED coreVars /\ UNCHANGED hand
    BY <1>4 DEF channelOpens, ack, linkLost, netMoves, senderNotified,
                receiverNotified, announced, pathTimeout, waitDone, receiverEnds
  <2>2. QED
    BY <1>1, <2>1
<1>5. CASE readFrame
  BY <1>1, <1>5 DEF readFrame
<1>6. CASE readEnds
  BY <1>6, FailWaits DEF readEnds, Waits
<1>7. CASE ingest
  <2>1. CASE Core!decodeFails(Primary) \/ Core!dataBeforeMetadata(Primary)
             \/ Core!dataOutOfBounds(Primary) \/ Core!writeFails(Primary)
    BY <1>7, <2>1 DEF ingest, Core!decodeFails, Core!dataBeforeMetadata,
                Core!dataOutOfBounds, Core!writeFails, Core!readerFails, Refuses
  <2>2. CASE Core!writeChunk(Primary)
    BY <1>7, <2>2 DEF ingest, Core!writeChunk, Writes
  <2>3. CASE Core!countBytes(Primary)
    BY <1>7, <2>3 DEF ingest, Core!countBytes, Counts
  <2>4. QED
    BY <1>7, <2>1, <2>2, <2>3 DEF ingest
<1>8. CASE watcher
  BY <1>8, FailWaits DEF watcher, watcherLooks, failOnEarlyClose, Waits
<1>9. CASE verify
  BY <1>9 DEF verify, Core!seeAllBytes, Core!seeDone, Core!claimVerify,
              Core!verifyTimeout, Core!verifierFails, Core!verifierMoves, Waits
<1>10. CASE closing
  BY <1>10 DEF closing, Core!doneBody, Core!cleanup, Core!sync, Core!syncFails,
               Core!verifyIntegrity, Core!integrityFails, Core!hashFails,
               Core!abortWith, Core!bodyMoves, Core!sinkClose, Core!abortClose,
               Core!abortRemove, Core!closeDone, Core!rest, Waits
<1>11. CASE OnMetadata
  <2>1. CASE Core!metadataAccepted(hand.meta)
    BY <1>11, <2>1 DEF OnMetadata, Core!metadataAccepted, Waits
  <2>2. CASE Core!metadataRejected(hand.meta)
    BY <1>11, <2>2 DEF OnMetadata, Core!metadataRejected, Waits
  <2>3. CASE Core!truncateFails(hand.meta) /\ rpc' = "ended"
    BY <1>11, <2>3 DEF OnMetadata, Core!truncateFails, Waits
  <2>4. QED
    BY <1>11, <2>1, <2>2, <2>3 DEF OnMetadata
<1>12. CASE OnData
  BY <1>12 DEF OnData, Core!deliver, DeliversChunk
<1>13. CASE OnEOF
  BY <1>13, FailWaits DEF OnEOF, Core!verifyStarts, Core!verifierMoves, Waits
<1>14. CASE OnAbort
  BY <1>14, FailWaits DEF OnAbort, Waits
<1>15. CASE UNCHANGED vars
  BY <1>1, <1>15 DEF vars
<1>16. QED
  BY <1>2, <1>3, <1>4, <1>5, <1>6, <1>7, <1>8, <1>9, <1>10, <1>11, <1>12, <1>13,
     <1>14, <1>15 DEF Next, reader
-----------------------------------------------------------------------------
LEMMA CausesGrow == ASSUME [Next]_vars PROVE causes \subseteq causes'
<1>1. CASE run
  BY <1>1 DEF run, preHash, preHashFails, seeOpen, openCancelled, sendMetadata,
              sendData, readEOF, readFails, drained, drainCancelled, sendEOF,
              sendAbort, flushed, flushTimeout, closeRun, runMoves, blame
<1>2. CASE senderProcess \/ signalingFails \/ \E s \in Sources : sourceChanges(s)
  BY <1>2 DEF senderProcess, acceptAnswer, startReturns, startEnds, watcherCloses,
              stopSend, iceFails, signalingFails, sourceChanges, blame
<1>3. CASE \/ channelOpens \/ ack \/ linkLost \/ senderNotified
           \/ receiverNotified \/ announced \/ pathTimeout \/ waitDone
  BY <1>3 DEF channelOpens, ack, linkLost, netMoves, senderNotified,
              receiverNotified, announced, pathTimeout, waitDone, receiverEnds, blame
<1>4. CASE reader
  BY <1>4 DEF reader, readFrame, readEnds, OnMetadata, OnData, OnEOF, OnAbort,
              dispatched, ingest
<1>5. CASE watcher \/ verify \/ closing
  BY <1>5 DEF watcher, watcherLooks, failOnEarlyClose, verify, closing
<1>6. CASE UNCHANGED vars
  BY <1>6 DEF vars
<1>7. QED
  BY <1>1, <1>2, <1>3, <1>4, <1>5, <1>6 DEF Next
-----------------------------------------------------------------------------
(* Unless the file changed, the sender reads what it hashed. *)
unchanged == "changed" \notin causes

sending == spc \in {"open", "metadata", "read", "drain", "drainLast", "eof"}

ReadsTheSum ==
  /\ early => sent = 0
  /\ unchanged =>
       /\ sending => source = sum /\ sent <= Len(sum)
       /\ spc \in {"drainLast", "eof"} \/ eofSent => sent = Len(sum)

\* What a read returns, and where it leaves the offset.
LEMMA ReadIs ==
  ASSUME NEW s \in Sources, NEW o \in Nat
  PROVE  LET b == bytesAt(s, o) IN
         /\ Len(s) \in Nat
         /\ b = <<>> => o >= Len(s)
         /\ b # <<>> => /\ Len(b) \in Nat /\ o + Len(b) <= Len(s)
                        /\ o + ChunkSize > Len(s) => o + Len(b) = Len(s)
                        /\ \A i \in 1 .. Len(b) : b[i] = s[o + i]
<1> DEFINE to == IF o + ChunkSize <= Len(s) THEN o + ChunkSize ELSE Len(s)
           b == bytesAt(s, o)
<1>1. s \in Seq(Byte) /\ Len(s) \in Nat /\ ChunkSize \in Nat \ {0}
  BY SinglePCAssumption
<1>2. /\ to \in Nat /\ to <= Len(s) /\ o + 1 \in Nat /\ o + 1 >= 1
      /\ o + ChunkSize > Len(s) => to = Len(s)
      /\ to < o + 1 => o >= Len(s)
  BY <1>1
<1>3. b = SubSeq(s, o + 1, to)
  BY DEF bytesAt
<1> HIDE DEF to, b
<1>4. /\ b \in Seq(Byte)
      /\ Len(b) = IF o + 1 <= to THEN to - (o + 1) + 1 ELSE 0
      /\ \A i \in 1 .. to - (o + 1) + 1 : b[i] = s[o + 1 + i - 1]
  <2>1. \A i \in o + 1 .. to : i \in 1 .. Len(s) /\ s[i] \in Byte
    BY <1>1, <1>2
  <2>2. QED
    BY <1>1, <1>2, <1>3, <2>1, SubSeqProperties
<1>5. ASSUME b = <<>> PROVE o >= Len(s)
  <2>1. Len(b) = 0
    BY <1>5, Emptied
  <2>2. QED
    BY <1>1, <1>2, <1>4, <2>1
<1>6. ASSUME b # <<>>
      PROVE  /\ Len(b) \in Nat /\ o + Len(b) <= Len(s)
             /\ o + ChunkSize > Len(s) => o + Len(b) = Len(s)
             /\ \A i \in 1 .. Len(b) : b[i] = s[o + i]
  <2>1. Len(b) # 0
    BY <1>4, <1>6, EmptySeq
  <2>2. Len(b) = to - (o + 1) + 1 /\ o + 1 <= to
    BY <1>4, <2>1
  <2>3. /\ Len(b) \in Nat /\ o + Len(b) <= Len(s)
        /\ o + ChunkSize > Len(s) => o + Len(b) = Len(s)
    BY <1>1, <1>2, <2>2
  <2>4. \A i \in 1 .. Len(b) : o + 1 + i - 1 = o + i
    BY <2>3
  <2>5. QED
    BY <1>4, <2>2, <2>3, <2>4
<1>7. QED
  BY <1>1, <1>5, <1>6 DEF b

LEMMA ReadsInit == Init => ReadsTheSum
BY DEF Init, ReadsTheSum, early, sending

LEMMA ReadsNext ==
  ASSUME TypeInv, Sequenced, ReadsTheSum, [Next]_vars
  PROVE  ReadsTheSum'
<1>0. /\ source \in Sources /\ sent \in Nat /\ Len(source) \in Nat
      /\ causes \subseteq causes'
      /\ eofSent => spc \in {"flush", "close", "gone"}
      /\ sum \in Sources \cup {<<>>} /\ Len(sum) \in Nat
  BY CausesGrow, SinglePCAssumption, Emptied DEF TypeInv, TypeOK, Sequenced
<1> USE DEF ReadsTheSum, early, sending, unchanged, runMoves
<1>1. CASE preHash \/ preHashFails
  BY <1>0, <1>1 DEF preHash, preHashFails, blame
<1>2. CASE seeOpen \/ openCancelled \/ sendMetadata
  BY <1>0, <1>2 DEF seeOpen, openCancelled, sendMetadata
<1>3. CASE sendData
  <2>1. /\ Len(readBytes) \in Nat /\ sent + Len(readBytes) <= Len(source)
        /\ atEnd => sent + Len(readBytes) = Len(source)
    BY <1>0, <1>3, ReadIs DEF sendData, readBytes, atEnd
  <2>2. CASE sent' = sent + Len(readBytes)
             /\ runMoves(IF atEnd THEN "drainLast" ELSE "drain")
    BY <1>0, <1>3, <2>1, <2>2 DEF sendData
  <2>3. CASE sendFails /\ runMoves("abort") /\ UNCHANGED sent
    BY <1>0, <1>3, <2>3 DEF sendData
  <2>4. QED
    BY <1>3, <2>2, <2>3 DEF sendData
<1>4. CASE readEOF
  <2>1. sent >= Len(source)
    BY <1>0, <1>4, ReadIs DEF readEOF, readBytes
  <2>2. QED
    BY <1>0, <1>4, <2>1 DEF readEOF
<1>5. CASE readFails \/ drained \/ drainCancelled
  BY <1>0, <1>5 DEF readFails, blame, drained, drainCancelled
<1>6. CASE sendEOF \/ sendAbort
  BY <1>0, <1>6 DEF sendEOF, sendAbort
<1>7. CASE flushed \/ flushTimeout
  BY <1>0, <1>7 DEF flushed, flushTimeout, blame
<1>15. CASE closeRun
  BY <1>0, <1>15 DEF closeRun
<1>8. ASSUME UNCHANGED <<spc, sum, sent, eofSent>>, UNCHANGED source \/ ~unchanged'
      PROVE  ReadsTheSum'
  BY <1>0, <1>8
<1>9. CASE senderProcess \/ signalingFails \/ \E s \in Sources : sourceChanges(s)
  <2>1. UNCHANGED <<spc, sum, sent, eofSent>> /\ (UNCHANGED source \/ ~unchanged')
    BY <1>9 DEF senderProcess, acceptAnswer, startReturns, startEnds, watcherCloses,
                stopSend, iceFails, signalingFails, sourceChanges
  <2>2. QED
    BY <1>8, <2>1
<1>10. CASE \/ channelOpens \/ ack \/ linkLost \/ senderNotified
            \/ receiverNotified \/ announced \/ pathTimeout \/ waitDone
  BY <1>8, <1>10 DEF channelOpens, ack, linkLost, netMoves, senderNotified,
              receiverNotified, announced, pathTimeout, waitDone, receiverEnds
<1>11. CASE reader
  BY <1>8, <1>11 DEF reader, readFrame, readEnds, OnMetadata, OnData, OnEOF, OnAbort,
              dispatched, ingest
<1>12. CASE watcher \/ verify \/ closing
  BY <1>8, <1>12 DEF watcher, watcherLooks, failOnEarlyClose, verify, closing
<1>13. CASE UNCHANGED vars
  BY <1>8, <1>13 DEF vars
<1>14. QED
  BY <1>1, <1>2, <1>3, <1>4, <1>5, <1>6, <1>7, <1>9, <1>10, <1>11, <1>12, <1>13,
     <1>15 DEF Next, run
-----------------------------------------------------------------------------
(* Unless the file changed, DATA carries what was hashed, and what is counted is
   written. *)
Copies(c) ==
  /\ c.at + Len(c.data) <= Len(sum)
  /\ \A o \in Core!Cells(c) : c.data[o - c.at + 1] = sum[o + 1]

TrueFrames == {f \in Frames : f.type = "DATA" => Copies(f.chunk)}

CarriesTheSum ==
  unchanged =>
    /\ out \in Seq(TrueFrames) /\ rq \in Seq(TrueFrames)
    /\ hand \in TrueFrames \cup {NoFrame}

StoresTheSum ==
  unchanged =>
    /\ rd[Primary] \in {"ingest", "count"} => Copies(chunk[Primary])
    /\ \A o \in counted : contents[o] = sum[o + 1]
    /\ rd[Primary] = "count" =>
         \A o \in Core!Cells(chunk[Primary]) : contents[o] = sum[o + 1]

LEMMA CarriesInit == Init => CarriesTheSum /\ StoresTheSum
BY DEF Init, Core!Init, CarriesTheSum, StoresTheSum

LEMMA ReadIsTrue ==
  ASSUME TypeInv, ReadsTheSum, unchanged, spc = "read", readBytes # <<>>
  PROVE  data(sent, readBytes) \in TrueFrames
<1>1. /\ source \in Sources /\ source = sum /\ sent \in Nat
      /\ data(sent, readBytes) \in Frames
  BY DataIsFrame DEF TypeInv, TypeOK, ReadsTheSum, sending
<1> DEFINE c == [at |-> sent, data |-> readBytes]
<1>2. /\ Len(readBytes) \in Nat /\ sent + Len(readBytes) <= Len(sum)
      /\ \A i \in 1 .. Len(readBytes) : readBytes[i] = sum[sent + i]
  BY <1>1, ReadIs DEF readBytes
<1>3. Core!Cells(c) = sent .. sent + Len(readBytes) - 1
  BY DEF Core!Cells
<1>4. ASSUME NEW o \in Core!Cells(c) PROVE c.data[o - c.at + 1] = sum[o + 1]
  <2>1. o \in Int /\ sent <= o /\ o <= sent + Len(readBytes) - 1
    BY <1>1, <1>2, <1>3
  <2>2. o - sent + 1 \in 1 .. Len(readBytes) /\ sent + (o - sent + 1) = o + 1
    BY <1>1, <1>2, <2>1
  <2>3. readBytes[o - sent + 1] = sum[o + 1]
    BY <1>2, <2>2
  <2>4. QED
    BY <2>3
<1>5. Copies(c)
  BY <1>2, <1>4 DEF Copies
<1>6. data(sent, readBytes).chunk = c
  BY DEF data
<1>7. QED
  BY <1>1, <1>5, <1>6 DEF TrueFrames

LEMMA SumStays == ASSUME Moves PROVE spc = "hash" \/ UNCHANGED sum
BY DEF Moves, Rests, SendsControl, SendsData, Sends, Acks, Takes, Dispatches

LEMMA CarriesNext ==
  ASSUME TypeInv, Sequenced, ReadsTheSum, CarriesTheSum, Moves,
         causes \subseteq causes'
  PROVE  CarriesTheSum'
<1>1. CASE spc = "hash"
  <2>1. out = <<>> /\ rq = <<>> /\ hand = NoFrame
    BY <1>1 DEF Sequenced, early
  <2>2. CASE Rests
    <3>1. <<>> \in Seq(TrueFrames')
      BY EmptySeq
    <3>2. out' = <<>> /\ rq' = <<>> /\ hand' = NoFrame
      BY <2>1, <2>2 DEF Rests
    <3>3. QED
      BY <3>1, <3>2 DEF CarriesTheSum
  <2>3. QED
    BY <1>1, <2>1, <2>2
    DEF Moves, SendsControl, SendsData, Sends, Acks, Takes, Dispatches
<1>2. CASE UNCHANGED sum
  <2>1. SUFFICES ASSUME unchanged
                 PROVE  /\ out' \in Seq(TrueFrames) /\ rq' \in Seq(TrueFrames)
                        /\ hand' \in TrueFrames \cup {NoFrame}
    <3>1. TrueFrames' = TrueFrames
      BY <1>2 DEF TrueFrames, Copies
    <3>2. unchanged' => unchanged
      BY DEF unchanged
    <3>3. QED
      BY <2>1, <3>1, <3>2 DEF CarriesTheSum
  <2>2. /\ out \in Seq(TrueFrames) /\ rq \in Seq(TrueFrames)
        /\ hand \in TrueFrames \cup {NoFrame}
    BY <2>1 DEF CarriesTheSum
  <2>3. ASSUME NEW f \in TrueFrames, Sends(f)
        PROVE  /\ out' \in Seq(TrueFrames) /\ rq' \in Seq(TrueFrames)
               /\ hand' \in TrueFrames \cup {NoFrame}
    <3>1. Append(out, f) \in Seq(TrueFrames)
      BY <2>2, AppendProperties
    <3>2. QED
      BY <2>2, <2>3, <3>1 DEF Sends
  <2>4. ASSUME NEW q \in Seq(TrueFrames), q # <<>>
        PROVE  Head(q) \in TrueFrames /\ Tail(q) \in Seq(TrueFrames)
    BY <2>4, HeadTailProperties
  <2>5. CASE Rests
    <3>1. <<>> \in Seq(TrueFrames)
      BY EmptySeq
    <3>2. QED
      BY <2>2, <2>5, <3>1 DEF Rests
  <2>6. CASE SendsControl
    <3>1. PICK f \in Frames : f.type # "DATA" /\ Sends(f)
      BY <2>6 DEF SendsControl
    <3>2. f \in TrueFrames
      BY <3>1 DEF TrueFrames
    <3>3. QED
      BY <2>3, <3>1, <3>2
  <2>7. CASE SendsData
    <3>1. data(sent, readBytes) \in TrueFrames
      BY <2>1, <2>7, ReadIsTrue DEF SendsData
    <3>2. QED
      BY <2>3, <2>7, <3>1 DEF SendsData
  <2>8. CASE Acks
    <3>1. Head(out) \in TrueFrames /\ Tail(out) \in Seq(TrueFrames)
      BY <2>2, <2>4, <2>8 DEF Acks
    <3>2. Append(rq, Head(out)) \in Seq(TrueFrames)
      BY <2>2, <3>1, AppendProperties
    <3>3. QED
      BY <2>2, <2>8, <3>1, <3>2 DEF Acks
  <2>9. CASE Takes
    <3>1. Head(rq) \in TrueFrames /\ Tail(rq) \in Seq(TrueFrames)
      BY <2>2, <2>4, <2>9 DEF Takes
    <3>2. QED
      BY <2>2, <2>9, <3>1 DEF Takes
  <2>10. CASE Dispatches
    BY <2>2, <2>10 DEF Dispatches
  <2>11. QED
    BY <2>5, <2>6, <2>7, <2>8, <2>9, <2>10 DEF Moves
<1>3. QED
  BY <1>1, <1>2, SumStays

LEMMA StoresNext ==
  ASSUME TypeInv, Counting, Sequenced, Leading, CarriesTheSum, StoresTheSum,
         CoreKinds, Moves, causes \subseteq causes'
  PROVE  StoresTheSum'
<1>0. rd \in [{Primary} -> {"idle", "ingest", "count", "stopped"}]
      /\ chunk \in [{Primary} -> FileChunks \cup {NoChunk}]
  BY DEF Counting
<1>1. CASE spc = "hash"
  <2>1. hand = NoFrame /\ meta = NoMeta
    BY <1>1 DEF Sequenced, early
  <2>2. rd[Primary] = "idle" /\ counted = {}
    BY <2>1 DEF Leading, Counting
  <2>3. UNCHANGED <<rd, counted>>
    BY <2>1, <2>2 DEF CoreKinds, DeliversChunk, holds, Refuses, Writes, Counts, Waits
  <2>4. QED
    BY <2>2, <2>3 DEF StoresTheSum
<1>2. CASE UNCHANGED sum
  <2> DEFINE Copied(c) == /\ c.at + Len(c.data) <= Len(sum)
                          /\ \A o \in Core!Cells(c) : c.data[o - c.at + 1] = sum[o + 1]
             True(o) == contents'[o] = sum[o + 1]
  <2>1. SUFFICES ASSUME unchanged
                 PROVE  /\ rd'[Primary] \in {"ingest", "count"} => Copied(chunk'[Primary])
                        /\ \A o \in counted' : True(o)
                        /\ rd'[Primary] = "count" =>
                             \A o \in Core!Cells(chunk'[Primary]) : True(o)
    <3>1. unchanged' => unchanged
      BY DEF unchanged
    <3>2. QED
      BY <1>2, <2>1, <3>1 DEF StoresTheSum, Copies, Core!Cells
  <2>2. /\ rd[Primary] \in {"ingest", "count"} => Copied(chunk[Primary])
        /\ \A o \in counted : contents[o] = sum[o + 1]
        /\ rd[Primary] = "count" =>
             \A o \in Core!Cells(chunk[Primary]) : contents[o] = sum[o + 1]
    BY <2>1 DEF StoresTheSum, Copies
  <2>3. CASE DeliversChunk
    <3>1. rd'[Primary] = "ingest" /\ chunk'[Primary] = hand.chunk
      BY <1>0, <2>3 DEF DeliversChunk
    <3>2. Copied(hand.chunk)
      BY <2>1, <2>3 DEF DeliversChunk, holds, CarriesTheSum, TrueFrames, Copies
    <3>3. UNCHANGED <<contents, counted>>
      BY <2>3 DEF DeliversChunk
    <3>4. QED
      BY <2>2, <3>1, <3>2, <3>3
  <2>4. CASE Refuses
    <3>1. rd'[Primary] = "stopped" /\ UNCHANGED <<contents, counted>>
      BY <1>0, <2>4 DEF Refuses
    <3>2. QED
      BY <2>2, <3>1
  <2>5. CASE Writes
    <3> DEFINE c == chunk[Primary]
    <3>1. /\ rd[Primary] = "ingest" /\ rd'[Primary] = "count"
          /\ UNCHANGED <<chunk, counted>>
          /\ contents' = [o \in Core!Offsets |->
                            IF o \in Core!Cells(c) THEN c.data[o - c.at + 1] ELSE contents[o]]
      BY <1>0, <2>5 DEF Writes, Core!writeAt
    <3>2. Copied(c)
      BY <2>2, <3>1
    <3>3. c \in FileChunks
      BY <3>1 DEF Counting
    <3>4. c.at \in Nat /\ Len(c.data) \in Nat /\ Len(sum) \in Nat /\ Len(sum) < Wrap
          /\ Wrap \in Nat
      <4>1. c.at \in 0 .. Wrap - 1 /\ c.data \in Seq(Byte)
        BY <3>3, CoreAssumptions
      <4>2. sum \in Sources \cup {<<>>}
        BY DEF TypeInv, TypeOK
      <4>3. Len(sum) \in Nat /\ Len(sum) < Wrap /\ Wrap \in Nat
        BY <4>2, SinglePCAssumption, Emptied
      <4>4. QED
        BY <4>1, <4>3
    <3>5. ASSUME NEW o \in Core!Cells(c) PROVE o \in Core!Offsets
      <4>1. o \in c.at .. c.at + Len(c.data) - 1
        BY DEF Core!Cells
      <4>2. c.at + Len(c.data) <= Len(sum)
        BY <3>2
      <4> HIDE DEF c
      <4>3. o \in 0 .. Wrap - 1
        BY <3>4, <4>1, <4>2
      <4>4. QED
        BY <4>3 DEF Core!Offsets
    <3>6. \A o \in Core!Cells(c) : True(o)
      BY <3>1, <3>2, <3>5
    <3>7. ASSUME NEW o \in counted PROVE True(o)
      <4>1. o \in 0 .. meta.size - 1 /\ meta \in FileMetas
        BY DEF Counting
      <4>2. meta.size \in Nat /\ meta.size < Wrap /\ Wrap \in Nat
        BY <4>1, CoreAssumptions
      <4>3. o \in 0 .. Wrap - 1
        BY <4>1, <4>2
      <4>4. o \in Core!Offsets
        BY <4>3 DEF Core!Offsets
      <4>5. CASE o \in Core!Cells(c)
        BY <3>6, <4>5
      <4>6. CASE o \notin Core!Cells(c)
        BY <2>2, <3>1, <4>4, <4>6
      <4>7. QED
        BY <4>5, <4>6
    <3>8. QED
      BY <3>1, <3>2, <3>6, <3>7
  <2>6. CASE Counts
    <3>1. /\ rd[Primary] = "count" /\ rd'[Primary] = "idle" /\ UNCHANGED contents
          /\ counted' = counted \cup Core!Cells(chunk[Primary])
      BY <1>0, <2>6 DEF Counts
    <3>2. QED
      BY <2>2, <3>1
  <2>7. CASE Waits
    BY <2>2, <2>7 DEF Waits
  <2>8. QED
    BY <2>3, <2>4, <2>5, <2>6, <2>7 DEF CoreKinds
<1>3. QED
  BY <1>1, <1>2, SumStays
-----------------------------------------------------------------------------
(* Where the bytes sent are. *)
inHand ==
  IF rd[Primary] \in {"ingest", "count"} THEN Core!Cells(chunk[Primary]) ELSE {}

taken == arrived \cup handCells \cup CellsOf(rq)

Covered ==
  /\ rd[Primary] # "stopped" => arrived = counted \cup inHand
  /\ ~cut => taken \cup CellsOf(out) = 0 .. sent - 1
  /\ "EOF" \in Types(rq) \/ holds("EOF") => taken = 0 .. sent - 1

Exhausts ==
  /\ rpc # "ended" /\ meta # NoMeta /\ counted = 0 .. meta.size - 1 => allBytes
  /\ unchanged /\ eofSeen => allBytes

LEMMA CoveredInit == Init => Covered /\ Exhausts
<1> SUFFICES ASSUME Init PROVE Covered /\ Exhausts
  OBVIOUS
<1>1. /\ arrived = {} /\ counted = {} /\ sent = 0 /\ hand = NoFrame /\ out = <<>>
      /\ rq = <<>> /\ rd[Primary] = "idle" /\ meta = NoMeta /\ ~eofSeen
  BY DEF Init, Core!Init
<1>2. CellsOf(out) = {} /\ CellsOf(rq) = {} /\ handCells = {} /\ Types(rq) = {}
      /\ 0 .. sent - 1 = {}
  BY <1>1, Emptied, OrderEmptied DEF handCells
<1>3. QED
  BY <1>1, <1>2 DEF Covered, Exhausts, taken, inHand, holds

LEMMA CoveredNext ==
  ASSUME TypeInv, TypeInv', Counting, Sequenced, Covered, Moves, CoreKinds
  PROVE  Covered'
<1>0. /\ out \in Seq(Frames) /\ rq \in Seq(Frames) /\ hand \in Frames \cup {NoFrame}
      /\ sent \in Nat /\ sent' \in Nat /\ source \in Sources
      /\ rd \in [{Primary} -> {"idle", "ingest", "count", "stopped"}]
      /\ chunk \in [{Primary} -> FileChunks \cup {NoChunk}]
      /\ NoFrame \notin Frames
  BY SinglePCAssumption DEF TypeInv, TypeOK, FramesOK, Counting
<1>1. /\ CellsOf(out)' = CellsOf(out') /\ CellsOf(rq)' = CellsOf(rq')
      /\ Types(rq)' = Types(rq')
      /\ handCells' = IF hand' = NoFrame THEN {} ELSE FrameCells(hand')
  BY DEF CellsOf, FrameCells, handCells, Types
<1> DEFINE Held == rd[Primary] # "stopped" => arrived = counted \cup inHand
           Whole == cut' \/ taken' \cup CellsOf(out') = 0 .. sent' - 1
           Last == "EOF" \in Types(rq') \/ (hand' # NoFrame /\ hand'.type = "EOF")
                     => taken' = 0 .. sent' - 1
<1>2. Held'
  <2> USE DEF inHand
  <2>0. inHand' = IF rd'[Primary] \in {"ingest", "count"}
                  THEN Core!Cells(chunk'[Primary]) ELSE {}
    BY DEF Core!Cells
  <2>1. CASE DeliversChunk
    BY <1>0, <2>0, <2>1 DEF DeliversChunk, Covered
  <2>2. CASE Refuses
    BY <1>0, <2>2 DEF Refuses
  <2>3. CASE Writes
    BY <1>0, <2>0, <2>3 DEF Writes, Covered
  <2>4. CASE Counts
    BY <1>0, <2>0, <2>4 DEF Counts, Covered
  <2>5. CASE Waits
    BY <2>0, <2>5 DEF Waits, Covered
  <2>6. QED
    BY <2>1, <2>2, <2>3, <2>4, <2>5 DEF CoreKinds
<1>3. Whole /\ Last
  <2>0. taken' = arrived' \cup handCells' \cup CellsOf(rq')
    BY <1>1 DEF taken
  <2>1. CASE Rests
    <3>1. UNCHANGED <<arrived, rq, hand, sent>> /\ taken' = taken
      BY <1>1, <2>0, <2>1 DEF Rests, taken, handCells
    <3>2. cut' \/ (~cut /\ out' = out)
      BY <2>1 DEF Rests
    <3>3. QED
      BY <3>1, <3>2 DEF Covered, holds
  <2>2. ASSUME NEW f \in Frames, Sends(f), f.type # "DATA", UNCHANGED sent
        PROVE  Whole /\ Last
    <3>1. CellsOf(out') = CellsOf(out) /\ UNCHANGED <<chan, arrived, rq, hand>>
      BY <1>0, <2>2, Appended DEF Sends, FrameCells
    <3>2. taken' = taken
      BY <1>1, <2>0, <3>1 DEF taken, handCells
    <3>3. QED
      BY <2>2, <3>1, <3>2 DEF Covered, holds, cut
  <2>3. CASE SendsData
    <3> DEFINE f == data(sent, readBytes)
    <3>1. f \in Frames /\ Sends(f)
      BY <2>3 DEF SendsData, Sends
    <3>2. sent' = sent + Len(readBytes) /\ Len(readBytes) \in Nat
      BY <1>0, <2>3, ReadFacts DEF SendsData, readBytes
    <3>3. FrameCells(f) = sent .. sent' - 1
      <4>1. f.type = "DATA" /\ f.chunk.at = sent /\ f.chunk.data = readBytes
        BY DEF data
      <4>2. FrameCells(f) = sent .. sent + Len(readBytes) - 1
        BY <4>1 DEF FrameCells, Core!Cells
      <4>3. sent + Len(readBytes) - 1 = sent' - 1
        BY <1>0, <3>2
      <4>4. QED
        BY <4>2, <4>3
    <3> HIDE DEF f
    <3>4. CellsOf(out') = CellsOf(out) \cup FrameCells(f)
          /\ UNCHANGED <<chan, arrived, rq, hand>>
      BY <1>0, <3>1, Appended DEF Sends
    <3>5. taken' = taken
      BY <1>1, <2>0, <3>4 DEF taken, handCells
    <3>6. 0 .. sent' - 1 = (0 .. sent - 1) \cup (sent .. sent' - 1)
      BY <1>0, <3>2
    <3>7. ~("EOF" \in Types(rq) \/ holds("EOF"))
      BY <2>3 DEF SendsData, Sequenced
    <3>8. QED
      BY <3>3, <3>4, <3>5, <3>6, <3>7 DEF Covered, holds, cut
  <2>4. CASE Acks
    <3> DEFINE f == Head(out)
    <3>1. /\ ~cut /\ out # <<>> /\ rq' = Append(rq, f) /\ out' = Tail(out)
          /\ UNCHANGED <<hand, arrived, sent>>
      BY <2>4 DEF Acks
    <3>2. /\ f \in Frames
          /\ CellsOf(out) = FrameCells(f) \cup CellsOf(out')
          /\ f.type = "EOF" => out' = <<>>
      BY <1>0, <3>1, Taken, OrderTaken DEF Sequenced
    <3> HIDE DEF f
    <3>3. CellsOf(rq') = CellsOf(rq) \cup FrameCells(f)
          /\ Types(rq') = Types(rq) \cup {f.type}
      BY <1>0, <3>1, <3>2, Appended, OrderAppended
    <3>4. taken' = taken \cup FrameCells(f)
      BY <1>1, <2>0, <3>1, <3>3 DEF taken, handCells
    <3>5. taken' \cup CellsOf(out') = 0 .. sent - 1
      BY <3>1, <3>2, <3>4 DEF Covered
    <3>6. "EOF" \notin Types(rq) /\ ~holds("EOF")
      BY <3>1 DEF Sequenced
    <3>7. "EOF" \in Types(rq') \/ (hand' # NoFrame /\ hand'.type = "EOF") => CellsOf(out') = {}
      BY <3>1, <3>2, <3>3, <3>6, Emptied DEF holds
    <3>8. QED
      BY <3>1, <3>5, <3>7
  <2>5. CASE Takes
    <3> DEFINE f == Head(rq)
    <3>1. /\ rq # <<>> /\ hand = NoFrame /\ hand' = f /\ rq' = Tail(rq)
          /\ UNCHANGED <<chan, out, arrived, sent>>
      BY <2>5 DEF Takes
    <3>2. /\ f \in Frames
          /\ CellsOf(rq) = FrameCells(f) \cup CellsOf(rq')
          /\ Types(rq) = {f.type} \cup Types(rq')
      BY <1>0, <3>1, Taken, OrderTaken
    <3> HIDE DEF f
    <3>3. taken' = taken
      BY <1>0, <1>1, <2>0, <3>1, <3>2 DEF taken, handCells
    <3>4. QED
      BY <3>1, <3>2, <3>3 DEF Covered, cut
  <2>6. CASE Dispatches
    <3>1. /\ UNCHANGED <<chan, out, rq, sent>> /\ hand' = NoFrame
          /\ arrived' = arrived \cup handCells
      BY <2>6 DEF Dispatches, handCells
    <3>2. taken' = taken
      BY <1>1, <2>0, <3>1 DEF taken
    <3>3. QED
      BY <3>1, <3>2 DEF Covered, cut
  <2>7. QED
    BY <2>1, <2>2, <2>3, <2>4, <2>5, <2>6 DEF Moves, SendsControl
<1>4. QED
  BY <1>1, <1>2, <1>3 DEF Covered, holds, taken

LEMMA EndedStays == ASSUME TypeInv, [Next]_vars, rpc = "ended" PROVE rpc' = "ended"
<1>1. CASE run
  BY <1>1 DEF run, preHash, preHashFails, seeOpen, openCancelled, sendMetadata,
              sendData, readEOF, readFails, drained, drainCancelled, sendEOF,
              sendAbort, flushed, flushTimeout, closeRun, runMoves
<1>2. CASE senderProcess \/ signalingFails \/ \E s \in Sources : sourceChanges(s)
  BY <1>2 DEF senderProcess, acceptAnswer, startReturns, startEnds, watcherCloses,
              stopSend, iceFails, signalingFails, sourceChanges
<1>3. CASE \/ channelOpens \/ ack \/ linkLost \/ senderNotified
           \/ receiverNotified \/ announced \/ pathTimeout \/ waitDone
  BY <1>3 DEF channelOpens, ack, linkLost, netMoves, senderNotified,
              receiverNotified, announced, pathTimeout, waitDone, receiverEnds
<1>4. CASE reader
  BY <1>4 DEF reader, readFrame, readEnds, OnMetadata, OnData, OnEOF, OnAbort,
              dispatched, ingest
<1>5. CASE watcher \/ verify \/ closing
  BY <1>5 DEF watcher, watcherLooks, failOnEarlyClose, verify, closing
<1>6. CASE UNCHANGED vars
  BY <1>6 DEF vars
<1>7. QED
  BY <1>1, <1>2, <1>3, <1>4, <1>5, <1>6 DEF Next

LEMMA CountOf ==
  ASSUME NEW n \in Nat
  PROVE  Cardinality(0 .. n - 1) = n /\ (0 .. n - 1 = {} => n = 0)
<1>1. Cardinality(0 .. n - 1) = IF 0 > n - 1 THEN 0 ELSE (n - 1) - 0 + 1
  BY FS_Interval
<1>2. n # 0 => 0 \in 0 .. n - 1
  OBVIOUS
<1>3. QED
  BY <1>1, <1>2

\* A count of the whole file closes allBytesCh.
LEMMA ExhaustsNext ==
  ASSUME TypeInv, Counting, Counting', Sequenced, Announced, ReadsTheSum, Covered,
         Exhausts, CoreKinds, Kinds, [Next]_vars
  PROVE  Exhausts'
<1>1. (rpc = "ended" => rpc' = "ended") /\ causes \subseteq causes'
  BY EndedStays, CausesGrow
<1>2. \A m \in FileMetas : m.size \in Nat
  BY CoreAssumptions
<1>3. \A n \in Nat : Cardinality(0 .. n - 1) = n /\ (0 .. n - 1 = {} => n = 0)
  BY CountOf
<1>4. ASSUME rpc' # "ended", meta' # NoMeta, counted' = 0 .. meta'.size - 1
      PROVE  allBytes'
  <2>1. meta' \in FileMetas /\ meta'.size \in Nat
    BY <1>2, <1>4 DEF Counting
  <2>2. CASE DeliversChunk \/ Refuses \/ Writes
    BY <1>1, <1>4, <2>2 DEF DeliversChunk, Refuses, Writes, Core!writeAt, Exhausts
  <2>3. CASE Counts
    <3>1. bytesWritten' = meta'.size
      BY <1>3, <1>4, <2>1 DEF Counting
    <3>2. bytesWritten' >= meta.size
      BY <2>1, <2>3, <3>1 DEF Counts
    <3>3. QED
      BY <2>3, <3>2 DEF Counts
  <2>4. CASE Waits
    <3>1. CASE meta' = meta
      BY <1>1, <1>4, <2>4, <3>1 DEF Waits, Exhausts
    <3>2. CASE meta' # meta
      <4>1. counted' = {}
        BY <2>4, <3>2 DEF Waits, Counting
      <4>2. meta'.size = 0
        BY <1>3, <1>4, <2>1, <4>1
      <4>3. QED
        BY <1>4, <2>4, <3>2, <4>2 DEF Waits
    <3>3. QED
      BY <3>1, <3>2
  <2>5. QED
    BY <2>2, <2>3, <2>4 DEF CoreKinds
<1>5. allBytes => allBytes'
  BY DEF CoreKinds, DeliversChunk, Refuses, Writes, Counts, Waits
<1>6. ASSUME unchanged', eofSeen' PROVE allBytes'
  <2>1. unchanged
    BY <1>1, <1>6 DEF unchanged
  <2>2. CASE eofSeen
    BY <1>5, <2>1, <2>2 DEF Exhausts
  <2>3. CASE ~eofSeen
    <3>1. holds("EOF") /\ meta # NoMeta
      BY <1>6, <2>3 DEF Kinds, Stays, Says, Delivers, Reads, Handles, holds
    <3>2. rpc = "reading" /\ rd[Primary] = "idle" /\ rq = <<>> /\ eofSent
      BY <3>1 DEF Sequenced, holds
    <3>3. arrived = counted
      BY <3>2 DEF Covered, inHand
    <3>4. taken = arrived
      BY <3>1, <3>2, Emptied DEF taken, handCells, FrameCells, holds
    <3>5. counted = 0 .. Len(sum) - 1
      BY <2>1, <3>1, <3>2, <3>3, <3>4 DEF Covered, ReadsTheSum
    <3>6. meta.size = Len(sum)
      BY <3>1 DEF Announced, metaOf
    <3>7. QED
      BY <1>5, <3>1, <3>2, <3>5, <3>6 DEF Exhausts
  <2>4. QED
    BY <2>2, <2>3
<1>7. QED
  BY <1>4, <1>6 DEF Exhausts, unchanged
-----------------------------------------------------------------------------
(* The sender aborts for a cause, and what the peer reads of it has that cause. *)
faulty == causes \cap {"read", "lost"} # {}

Faults ==
  /\ chan = "lost" => "lost" \in causes
  /\ closedS => chan \in {"down", "closing"} \/ "lost" \in causes
  /\ chan = "closing" => spc = "gone"
  /\ ctxDone => faulty \/ cut \/ chan = "closing"
  /\ spc = "abort" \/ "ABORT" \in Types(out) => faulty \/ cut
  /\ "ABORT" \in Types(rq) \/ holds("ABORT") => faulty

LEMMA FaultsInit == Init => Faults
BY OrderEmptied DEF Init, Faults, holds

LEMMA FaultsNext == ASSUME TypeInv, Faults, [Next]_vars PROVE Faults'
<1>0. /\ out \in Seq(Frames) /\ rq \in Seq(Frames) /\ hand \in Frames \cup {NoFrame}
      /\ sum \in Sources \cup {<<>>}
      /\ NoFrame \notin Frames /\ causes \subseteq causes' /\ Types(<<>>) = {}
      /\ faulty => faulty'
  BY SinglePCAssumption, CausesGrow, OrderEmptied DEF TypeInv, TypeOK, FramesOK, faulty
<1>1. Types(out)' = Types(out') /\ Types(rq)' = Types(rq')
  BY DEF Types
<1> DEFINE queues == <<out, rq, hand>>
<1> USE DEF cut, holds
<1>2. ASSUME UNCHANGED queues, UNCHANGED <<chan, closedS, ctxDone>>,
             spc = "gone" => spc' = "gone",
             spc' = "abort" => faulty' \/ cut'
      PROVE  Faults'
  BY <1>0, <1>1, <1>2 DEF Faults
<1>3. ASSUME NEW f \in Frames, send(f), UNCHANGED <<hand, ctxDone>>,
             spc # "gone", spc' # "abort", f.type = "ABORT" => spc = "abort"
      PROVE  Faults'
  <2>1. Types(out') = Types(out) \cup {f.type}
    BY <1>0, <1>3, OrderAppended DEF send
  <2>2. QED
    BY <1>0, <1>1, <1>3, <2>1 DEF Faults, send
<1>4. ASSUME sendFails, UNCHANGED <<hand, ctxDone>>, spc # "gone"
      PROVE  Faults'
  BY <1>0, <1>1, <1>4 DEF Faults, sendFails
<1>5. CASE run
  <2> USE DEF runMoves
  <2>1. CASE preHash \/ preHashFails \/ seeOpen \/ openCancelled
    BY <1>2, <2>1 DEF preHash, preHashFails, seeOpen, openCancelled
  <2>2. CASE sendMetadata
    <3>1. send(metadata) => metadata \in Frames /\ metadata.type = "METADATA"
      BY <2>2, MetadataIsFrame DEF sendMetadata, TypeInv, metadata
    <3>2. QED
      BY <1>3, <1>4, <2>2, <3>1 DEF sendMetadata
  <2>3. CASE sendData
    <3>1. data(sent, readBytes) \in Frames /\ data(sent, readBytes).type = "DATA"
      BY <2>3, DataIsFrame DEF sendData, data
    <3>2. QED
      BY <1>3, <1>4, <2>3, <3>1 DEF sendData
  <2>4. CASE readEOF \/ drained \/ flushed \/ flushTimeout
    BY <1>2, <2>4 DEF readEOF, drained, flushed, flushTimeout
  <2>5. CASE readFails
    BY <1>2, <2>5 DEF readFails, blame, faulty
  <2>6. CASE drainCancelled
    <3>1. faulty \/ cut
      BY <2>6 DEF drainCancelled, Faults
    <3>2. QED
      BY <1>0, <1>2, <2>6, <3>1 DEF drainCancelled
  <2>7. CASE sendEOF
    <3>1. eof \in Frames /\ eof.type = "EOF"
      BY DEF eof, Frames
    <3>2. QED
      BY <1>3, <1>4, <2>7, <3>1 DEF sendEOF
  <2>8. CASE sendAbort
    <3>1. abort \in Frames /\ abort.type = "ABORT"
      BY DEF abort, Frames
    <3>2. QED
      BY <1>3, <1>4, <2>8, <3>1 DEF sendAbort
  <2>9. CASE closeRun
    BY <1>0, <1>1, <2>9 DEF closeRun, Faults
  <2>10. QED
    BY <1>5, <2>1, <2>2, <2>3, <2>4, <2>5, <2>6, <2>7, <2>8, <2>9 DEF run
<1>6. CASE startReturns \/ signalingFails
  BY <1>0, <1>1, <1>6 DEF startReturns, signalingFails, startEnds, hangUp, Faults
<1>7. CASE acceptAnswer \/ \E s \in Sources : sourceChanges(s)
  BY <1>2, <1>7, <1>0 DEF acceptAnswer, sourceChanges, Faults
<1>8. CASE watcherCloses
  BY <1>0, <1>1, <1>8 DEF watcherCloses, stopSend, Faults, faulty
<1>9. CASE iceFails
  <2>1. faulty' \/ cut' \/ chan' = "closing"
    BY <1>9 DEF iceFails, stopSend, blame, Faults, faulty
  <2>2. UNCHANGED queues /\ UNCHANGED <<chan, closedS, spc>>
    BY <1>9 DEF iceFails, stopSend
  <2>3. QED
    BY <1>0, <1>1, <2>1, <2>2 DEF Faults
<1>10. CASE channelOpens \/ linkLost
  BY <1>0, <1>1, <1>10 DEF channelOpens, linkLost, netMoves, blame, Faults, faulty
<1>11. CASE senderNotified \/ receiverNotified
  BY <1>0, <1>1, <1>11 DEF senderNotified, receiverNotified, hungUp, netMoves, Faults
<1>12. CASE ack
  <2>1. /\ out # <<>> /\ rq' = Append(rq, Head(out)) /\ out' = Tail(out) /\ ~cut
        /\ UNCHANGED <<hand, chan, closedS, ctxDone, spc>>
    BY <1>12 DEF ack, netMoves
  <2>2. /\ Head(out) \in Frames
        /\ Types(out) = {Head(out).type} \cup Types(out')
    BY <1>0, <2>1, OrderTaken
  <2>3. Types(rq') = Types(rq) \cup {Head(out).type}
    BY <1>0, <2>1, <2>2, OrderAppended
  <2>4. QED
    BY <1>0, <1>1, <2>1, <2>2, <2>3 DEF Faults
<1>13. CASE announced
  BY <1>2, <1>13, <1>0 DEF announced, Faults
<1>14. CASE pathTimeout \/ waitDone
  BY <1>0, <1>1, <1>14 DEF pathTimeout, waitDone, receiverEnds, hangUp, Faults
<1>15. CASE readFrame
  <2>1. /\ rq # <<>> /\ hand' = Head(rq) /\ rq' = Tail(rq)
        /\ UNCHANGED <<out, chan, closedS, ctxDone, spc>>
    BY <1>15 DEF readFrame
  <2>2. Types(rq) = {Head(rq).type} \cup Types(rq')
    BY <1>0, <2>1, OrderTaken
  <2>3. QED
    BY <1>0, <1>1, <2>1, <2>2 DEF Faults
<1>16. CASE OnMetadata \/ OnData \/ OnEOF \/ OnAbort
  <2>1. hand' = NoFrame /\ UNCHANGED <<out, rq, chan, closedS, ctxDone, spc>>
    BY <1>16 DEF OnMetadata, OnData, OnEOF, OnAbort, dispatched
  <2>2. QED
    BY <1>0, <1>1, <2>1 DEF Faults
<1>17. CASE readEnds \/ ingest \/ watcher \/ verify \/ closing \/ UNCHANGED vars
  <2>1. UNCHANGED queues /\ UNCHANGED <<chan, closedS, ctxDone, spc>>
    BY <1>17 DEF readEnds, ingest, watcher, watcherLooks, failOnEarlyClose, verify,
                 closing, vars
  <2>2. QED
    BY <1>0, <1>2, <2>1 DEF Faults
<1>18. QED
  BY <1>5, <1>6, <1>7, <1>8, <1>9, <1>10, <1>11, <1>12, <1>13, <1>14, <1>15, <1>16,
     <1>17 DEF Next, senderProcess, reader
-----------------------------------------------------------------------------
(* The loops and the close watcher start together. *)
Started ==
  /\ rmain \in {"init", "gaveUp"} => rpc = "off"
  /\ rpc = "off" => wpc = "off" /\ ~closedR

LEMMA StartedInit == Init => Started
BY DEF Init, Started

LEMMA StartedNext == ASSUME TypeInv, Sequenced, Started, [Next]_vars PROVE Started'
<1> USE DEF Started
<1>0. hand # NoFrame => rpc = "reading"
  BY DEF Sequenced
<1>1. CASE run
  BY <1>1 DEF run, preHash, preHashFails, seeOpen, openCancelled, sendMetadata,
              sendData, readEOF, readFails, drained, drainCancelled, sendEOF,
              sendAbort, flushed, flushTimeout, closeRun, runMoves, send, sendFails
<1>2. CASE senderProcess \/ signalingFails \/ \E s \in Sources : sourceChanges(s)
  BY <1>2 DEF senderProcess, acceptAnswer, startReturns, startEnds, watcherCloses,
              stopSend, iceFails, signalingFails, sourceChanges
<1>3. CASE channelOpens \/ ack \/ linkLost \/ senderNotified \/ receiverNotified
  BY <1>3 DEF channelOpens, ack, linkLost, netMoves, senderNotified, receiverNotified
<1>4. CASE announced \/ pathTimeout \/ waitDone
  BY <1>4 DEF announced, pathTimeout, waitDone, receiverEnds
<1>5. CASE reader
  BY <1>0, <1>5 DEF reader, readFrame, readEnds, OnMetadata, OnData, OnEOF, OnAbort,
              dispatched, ingest
<1>6. CASE watcher \/ verify \/ closing
  BY <1>6 DEF watcher, watcherLooks, failOnEarlyClose, verify, closing
<1>7. CASE UNCHANGED vars
  BY <1>7 DEF vars
<1>8. QED
  BY <1>1, <1>2, <1>3, <1>4, <1>5, <1>6, <1>7 DEF Next
-----------------------------------------------------------------------------
(* A channel closes early for a cause: until there is one, the sender goes on to
   EOF and leaves only when EOF is with the receiver. *)
gaveUp == causes \cap {"read", "lost", "flushTimeout", "signaling", "raced"} # {}

excused == gaveUp \/ gate # "free" \/ rmain = "gaveUp"

eofUnderWay == "EOF" \in Types(out) \cup Types(rq) \/ holds("EOF") \/ eofSeen

InTime ==
  /\ spc # "abort"
  /\ cut \/ closedS \/ sessDone \/ ctxDone => spc = "gone"
  /\ spc \in {"flush", "close", "gone"} => eofUnderWay
  /\ spc \in {"close", "gone"} => out = <<>>
  /\ closedR => holds("EOF") \/ eofSeen
  /\ wpc # "looked"

Excuses == excused \/ InTime

LEMMA ExcusesInit == Init => Excuses
BY DEF Init, Excuses, InTime, cut

LEMMA GateStays == ASSUME [Next]_vars, gate # "free" PROVE gate' # "free"
<1>1. CASE UNCHANGED gate
  BY <1>1
<1>2. CASE run
  BY <1>1, <1>2
  DEF run, preHash, preHashFails, seeOpen, openCancelled, sendMetadata,
      sendData, readEOF, readFails, drained, drainCancelled, sendEOF,
      sendAbort, flushed, flushTimeout, closeRun, runMoves
<1>3. CASE senderProcess \/ signalingFails \/ \E s \in Sources : sourceChanges(s)
  BY <1>1, <1>3 DEF senderProcess, acceptAnswer, startReturns, startEnds,
              watcherCloses, stopSend, iceFails, signalingFails, sourceChanges
<1>4. CASE \/ channelOpens \/ ack \/ linkLost \/ senderNotified
           \/ receiverNotified \/ announced \/ pathTimeout \/ waitDone
  BY <1>1, <1>4 DEF channelOpens, ack, linkLost, netMoves, senderNotified,
              receiverNotified, announced, pathTimeout, waitDone, receiverEnds
<1>5. ASSUME NEW why, failCore(why) PROVE UNCHANGED gate
  BY <1>5 DEF failCore
<1>6. ASSUME NEW why, Core!fail(why) PROVE UNCHANGED gate
  BY <1>6 DEF Core!fail
<1>7. CASE readFrame \/ readEnds \/ OnEOF \/ OnAbort \/ watcher
  BY <1>5, <1>7 DEF readFrame, readEnds, OnEOF, OnAbort, Core!verifyStarts,
              Core!verifierMoves, watcher, watcherLooks, failOnEarlyClose
<1>8. CASE OnMetadata \/ OnData
  BY <1>6, <1>8 DEF OnMetadata, Core!metadataAccepted, Core!metadataRejected,
              Core!truncateFails, OnData, Core!deliver
<1>9. CASE ingest
  BY <1>6, <1>9 DEF ingest, Core!decodeFails, Core!dataBeforeMetadata,
              Core!dataOutOfBounds, Core!writeFails, Core!readerFails,
              Core!writeChunk, Core!countBytes
<1>10. CASE verify
  BY <1>6, <1>10 DEF verify, Core!seeAllBytes, Core!seeDone, Core!claimVerify,
              Core!verifyTimeout, Core!verifierFails, Core!verifierMoves
<1>11. CASE closing
  BY <1>11 DEF closing, Core!doneBody, Core!cleanup, Core!sync, Core!syncFails,
               Core!verifyIntegrity, Core!integrityFails, Core!hashFails,
               Core!abortWith, Core!bodyMoves, Core!sinkClose, Core!abortClose,
               Core!abortRemove, Core!closeDone
<1>12. CASE UNCHANGED vars
  BY <1>1, <1>12 DEF vars
<1>13. QED
  BY <1>2, <1>3, <1>4, <1>7, <1>8, <1>9, <1>10, <1>11, <1>12 DEF Next, reader

LEMMA GaveUpStays == ASSUME [Next]_vars, rmain = "gaveUp" PROVE rmain' = "gaveUp"
<1>1. CASE run
  BY <1>1 DEF run, preHash, preHashFails, seeOpen, openCancelled, sendMetadata,
              sendData, readEOF, readFails, drained, drainCancelled, sendEOF,
              sendAbort, flushed, flushTimeout, closeRun, runMoves
<1>2. CASE senderProcess \/ signalingFails \/ \E s \in Sources : sourceChanges(s)
  BY <1>2 DEF senderProcess, acceptAnswer, startReturns, startEnds, watcherCloses,
              stopSend, iceFails, signalingFails, sourceChanges
<1>3. CASE \/ channelOpens \/ ack \/ linkLost \/ senderNotified
           \/ receiverNotified \/ announced \/ pathTimeout \/ waitDone
  BY <1>3 DEF channelOpens, ack, linkLost, netMoves, senderNotified,
              receiverNotified, announced, pathTimeout, waitDone, receiverEnds
<1>4. CASE reader
  BY <1>4 DEF reader, readFrame, readEnds, OnMetadata, OnData, OnEOF, OnAbort,
              dispatched, ingest
<1>5. CASE watcher \/ verify \/ closing
  BY <1>5 DEF watcher, watcherLooks, failOnEarlyClose, verify, closing
<1>6. CASE UNCHANGED vars
  BY <1>6 DEF vars
<1>7. QED
  BY <1>1, <1>2, <1>3, <1>4, <1>5, <1>6 DEF Next

\* EOF is not lost on the way, unless the queue it is in is discarded.
LEMMA EOFKept ==
  ASSUME TypeInv, Sequenced, Leading, Kinds, eofUnderWay,
         Stays => out = <<>> \/ UNCHANGED out
  PROVE  eofUnderWay'
<1>0. /\ out \in Seq(Frames) /\ rq \in Seq(Frames) /\ hand \in Frames \cup {NoFrame}
      /\ NoFrame \notin Frames /\ Types(<<>>) = {}
  BY SinglePCAssumption, OrderEmptied DEF TypeInv, TypeOK, FramesOK
<1>1. Types(out)' = Types(out') /\ Types(rq)' = Types(rq')
  BY DEF Types
<1> USE DEF eofUnderWay, holds
<1>2. CASE Stays
  BY <1>0, <1>1, <1>2 DEF Stays
<1>3. ASSUME NEW f \in Frames, Says(f) PROVE eofUnderWay'
  <2>1. Types(out') = Types(out) \cup {f.type}
    BY <1>0, <1>3, OrderAppended DEF Says
  <2>2. QED
    BY <1>1, <1>3, <2>1 DEF Says
<1>4. CASE Delivers
  <2>1. /\ out # <<>> /\ rq' = Append(rq, Head(out)) /\ out' = Tail(out)
        /\ UNCHANGED <<hand, eofSeen>>
    BY <1>4 DEF Delivers, Acks
  <2>2. Head(out) \in Frames /\ Types(out) = {Head(out).type} \cup Types(out')
    BY <1>0, <2>1, OrderTaken
  <2>3. Types(rq') = Types(rq) \cup {Head(out).type}
    BY <1>0, <2>1, <2>2, OrderAppended
  <2>4. QED
    BY <1>1, <2>1, <2>2, <2>3
<1>5. CASE Reads
  <2>1. /\ rq # <<>> /\ hand = NoFrame /\ hand' = Head(rq) /\ rq' = Tail(rq)
        /\ UNCHANGED <<out, eofSeen>>
    BY <1>5 DEF Reads, Takes
  <2>2. Head(rq) \in Frames /\ Types(rq) = {Head(rq).type} \cup Types(rq')
    BY <1>0, <2>1, OrderTaken
  <2>3. QED
    BY <1>0, <1>1, <2>1, <2>2
<1>6. CASE Handles
  <2>1. holds("EOF") => meta # NoMeta
    BY DEF Leading
  <2>2. QED
    BY <1>1, <1>6, <2>1 DEF Handles
<1>7. QED
  BY <1>2, <1>3, <1>4, <1>5, <1>6 DEF Kinds

LEMMA ExcusesNext ==
  ASSUME TypeInv, Sequenced, Leading, Faults, Started, Excuses, Kinds, [Next]_vars
  PROVE  Excuses'
<1>0. /\ out \in Seq(Frames) /\ rq \in Seq(Frames) /\ hand \in Frames \cup {NoFrame}
      /\ NoFrame \notin Frames /\ Types(<<>>) = {}
      /\ spc \in {"hash", "open", "metadata", "read", "drain", "drainLast", "eof",
                  "abort", "flush", "close", "gone"}
  BY SinglePCAssumption, OrderEmptied DEF TypeInv, TypeOK, FramesOK
<1>1. SUFFICES ASSUME ~excused' PROVE InTime'
  BY DEF Excuses
<1>2. ~gaveUp' /\ causes \subseteq causes' /\ gate' = "free" /\ gate = "free" /\ ~excused
  BY <1>1, CausesGrow, GateStays, GaveUpStays DEF excused, gaveUp
<1>3. InTime
  BY <1>2 DEF Excuses
<1>4. (Stays => out = <<>> \/ UNCHANGED out) /\ eofUnderWay => eofUnderWay'
  BY EOFKept
<1>5. ~faulty /\ chan # "lost" /\ (chan = "closing" => spc = "gone")
  BY <1>2 DEF excused, gaveUp, faulty, Faults
<1>6. ASSUME UNCHANGED <<spc, chan, closedS, sessDone, ctxDone, closedR>>,
             UNCHANGED <<out, rq, hand, eofSeen>>, wpc' # "looked"
      PROVE  InTime'
  BY <1>3, <1>6 DEF InTime, eofUnderWay, cut, holds, Types
<1>7. CASE run
  <2>1. UNCHANGED <<closedS, ctxDone, closedR, rq, hand, eofSeen, wpc>>
    BY <1>7 DEF run, preHash, preHashFails, seeOpen, openCancelled, sendMetadata,
              sendData, readEOF, readFails, drained, drainCancelled, sendEOF,
              sendAbort, flushed, flushTimeout, closeRun, runMoves, send, sendFails
  <2>2. holds("EOF")' = holds("EOF") /\ (out' = out => eofUnderWay' = eofUnderWay)
    BY <2>1 DEF holds, eofUnderWay, Types
  <2> USE DEF runMoves, sendFails
  <2>3. CASE preHash \/ preHashFails \/ seeOpen \/ openCancelled
    BY <1>2, <1>3, <2>1, <2>2, <2>3
    DEF preHash, preHashFails, seeOpen, openCancelled, blame, gaveUp, InTime, cut
  <2>4. CASE sendMetadata \/ sendData
    BY <1>3, <2>1, <2>2, <2>4 DEF sendMetadata, sendData, send, InTime, cut
  <2>5. CASE readEOF \/ readFails \/ drained \/ drainCancelled
    BY <1>2, <1>3, <2>1, <2>2, <2>5
    DEF readEOF, readFails, drained, drainCancelled, blame, gaveUp, InTime, cut
  <2>6. CASE sendEOF
    <3>1. eof \in Frames /\ eof.type = "EOF"
      BY DEF eof, Frames
    <3>2. send(eof) => eofUnderWay'
      <4>1. send(eof) => Types(out') = Types(out) \cup {"EOF"}
        BY <1>0, <3>1, OrderAppended DEF send
      <4>2. QED
        BY <4>1 DEF eofUnderWay, Types
    <3>3. QED
      BY <1>3, <2>1, <2>2, <2>6, <3>2 DEF sendEOF, send, InTime, cut
  <2>7. CASE sendAbort
    BY <1>3, <2>7 DEF sendAbort, InTime
  <2>8. CASE flushed \/ flushTimeout
    BY <1>2, <1>3, <2>1, <2>2, <2>8 DEF flushed, flushTimeout, blame, gaveUp, InTime, cut
  <2>9. CASE closeRun
    BY <1>3, <2>1, <2>2, <2>9 DEF closeRun, InTime, cut
  <2>10. QED
    BY <1>7, <2>3, <2>4, <2>5, <2>6, <2>7, <2>8, <2>9 DEF run
<1>8. CASE startReturns
  <2>1. spc = "gone" /\ out = <<>>
    BY <1>3, <1>8 DEF startReturns, InTime
  <2>2. eofUnderWay'
    BY <1>3, <1>4, <2>1 DEF InTime
  <2>3. out' = <<>> /\ UNCHANGED <<spc, closedR, hand, eofSeen, wpc>>
    BY <1>8 DEF startReturns, startEnds
  <2>4. QED
    BY <1>3, <2>1, <2>2, <2>3 DEF InTime, holds
<1>9. CASE signalingFails
  BY <1>2, <1>9 DEF signalingFails, blame, gaveUp
<1>10. ASSUME UNCHANGED <<spc, out, rq, hand, eofSeen, closedR, wpc>>, spc = "gone"
       PROVE  InTime'
  BY <1>3, <1>10 DEF InTime, eofUnderWay, holds, Types
<1>11. CASE acceptAnswer \/ \E s \in Sources : sourceChanges(s)
  BY <1>3, <1>6, <1>11 DEF acceptAnswer, sourceChanges, InTime
<1>12. CASE watcherCloses
  BY <1>3, <1>10, <1>12 DEF watcherCloses, stopSend, InTime
<1>13. CASE iceFails
  <2>1. spc = "gone"
    BY <1>2, <1>3, <1>5, <1>13 DEF iceFails, blame, gaveUp, InTime, cut
  <2>2. QED
    BY <1>10, <1>13, <2>1 DEF iceFails, stopSend
<1>14. CASE channelOpens
  <2>1. UNCHANGED <<out, rq, hand, eofSeen, spc, closedS, sessDone, ctxDone, closedR, wpc>>
    BY <1>14 DEF channelOpens, netMoves
  <2>2. ~cut /\ ~cut'
    BY <1>14 DEF channelOpens, cut
  <2>3. QED
    BY <1>3, <2>1, <2>2 DEF InTime, eofUnderWay, holds, Types
<1>15. CASE linkLost
  BY <1>2, <1>15 DEF linkLost, blame, gaveUp
<1>16. CASE senderNotified
  <2>1. spc = "gone"
    BY <1>3, <1>5, <1>16 DEF senderNotified, hungUp, InTime, cut
  <2>2. QED
    BY <1>10, <1>16, <2>1 DEF senderNotified, netMoves
<1>17. CASE receiverNotified
  <2>1. spc = "gone"
    BY <1>3, <1>5, <1>17 DEF receiverNotified, hungUp, InTime, cut
  <2>2. holds("EOF") \/ eofSeen
    BY <1>0, <1>3, <1>17, <2>1 DEF receiverNotified, InTime, eofUnderWay
  <2>3. UNCHANGED <<out, rq, hand, eofSeen, spc, chan, closedS, sessDone, ctxDone, wpc>>
    BY <1>17 DEF receiverNotified, netMoves
  <2>4. QED
    BY <1>3, <2>2, <2>3 DEF InTime, eofUnderWay, holds, Types, cut
<1>18. CASE ack
  <2>1. /\ out # <<>> /\ ~cut
        /\ UNCHANGED <<hand, eofSeen, spc, chan, closedS, sessDone, ctxDone, closedR, wpc>>
    BY <1>18 DEF ack, netMoves, cut
  <2>2. ~Stays
    BY <1>0, <1>18, AppendProperties DEF Stays, ack
  <2>3. QED
    BY <1>3, <1>4, <2>1, <2>2 DEF InTime, holds, cut
<1>19. CASE announced
  BY <1>6, <1>19 DEF announced
<1>20. CASE pathTimeout
  BY <1>1, <1>20 DEF pathTimeout, receiverEnds, excused
<1>21. CASE waitDone
  BY <1>2, <1>21 DEF waitDone, Core!done
<1>22. CASE readFrame
  <2>1. /\ rq # <<>> /\ hand = NoFrame
        /\ UNCHANGED <<out, eofSeen, spc, chan, closedS, sessDone, ctxDone, closedR, wpc>>
    BY <1>22 DEF readFrame
  <2>2. ~closedR
    BY <1>3, <2>1 DEF InTime, holds, Sequenced
  <2>3. QED
    BY <1>3, <1>4, <2>1, <2>2 DEF InTime, cut
<1>23. ASSUME hand # NoFrame, dispatched,
              holds("EOF") \/ eofSeen => eofSeen'
       PROVE  InTime'
  <2>1. UNCHANGED <<out, rq, spc, chan, closedS, sessDone, ctxDone, closedR, wpc>>
    BY <1>23 DEF dispatched
  <2>2. QED
    BY <1>3, <1>4, <1>23, <2>1 DEF InTime, cut
<1>24. ASSUME NEW why, failCore(why) PROVE FALSE
  BY <1>2, <1>24 DEF failCore, Core!clientFails, Core!fail
<1>25. CASE OnMetadata \/ OnData
  BY <1>23, <1>25 DEF OnMetadata, OnData, holds
<1>26. CASE OnEOF \/ OnAbort
  BY <1>23, <1>24, <1>26 DEF OnEOF, OnAbort
<1>27. CASE readEnds \/ ingest \/ verify \/ closing \/ UNCHANGED vars
  BY <1>3, <1>6, <1>27 DEF readEnds, ingest, verify, closing, vars, InTime
<1>28. CASE failOnEarlyClose
  BY <1>6, <1>28 DEF failOnEarlyClose
<1>29. CASE watcherLooks
  <2>1. holds("EOF") \/ eofSeen
    BY <1>3, <1>29 DEF watcherLooks, InTime
  <2>2. holds("EOF") => hand = eof
    BY <1>0 DEF holds, Frames, eof
  <2>3. eofSeen
    BY <1>2, <1>29, <2>1, <2>2 DEF watcherLooks, gaveUp
  <2>4. QED
    BY <1>6, <1>29, <2>3 DEF watcherLooks
<1>30. QED
  BY <1>7, <1>8, <1>9, <1>11, <1>12, <1>13, <1>14, <1>15, <1>16, <1>17, <1>18, <1>19,
     <1>20, <1>21, <1>22, <1>25, <1>26, <1>27, <1>28, <1>29
  DEF Next, senderProcess, reader, watcher
-----------------------------------------------------------------------------
(* FailureHasCause, of every result there may be and not only once it is final. *)
Caused(why, c) ==
  LET because(set) == c \cap set # {}
  IN /\ why \notin {"badEOF", "metadata", "excess", "client",
                    "dataBeforeMetadata", "verifyBeforeMetadata"}
     /\ why \in {"integrity", "outOfBounds"} => because({"changed"})
     /\ why = "timeout" => because({"changed", "starved"})
     /\ why = "abort" => because({"read", "lost"})
     /\ why \in {"closedEarly", "protocolError"}
          => because({"read", "lost", "flushTimeout", "signaling", "raced"})

Blamed == Caused(result, causes)

LEMMA BlamedInit == Init => Blamed
BY DEF Init, Core!Init, Blamed, Caused

\* While the file is unchanged, DATA fits the size announced.
LEMMA FitsSize ==
  ASSUME TypeInv, Counting, Announced, StoresTheSum, unchanged,
         rd[Primary] = "ingest", meta # NoMeta
  PROVE  Core!inBounds(chunk[Primary])
<1> DEFINE c == chunk[Primary]
           n == Len(c.data)
<1>1. c \in FileChunks /\ Copies(c)
  BY DEF Counting, StoresTheSum
<1>2. c.at \in 0 .. Wrap - 1 /\ c.data \in Seq(Byte) /\ n < Wrap
  BY <1>1, CoreAssumptions
<1>3. c.at \in Nat /\ n \in Nat /\ Wrap \in Nat
  BY <1>2, SinglePCAssumption
<1>4. meta.size = Len(sum)
  BY DEF Announced, metaOf
<1>5. Len(sum) \in Nat /\ Len(sum) < Wrap
  <2>1. sum \in Sources \cup {<<>>}
    BY DEF TypeInv, TypeOK
  <2>2. QED
    BY <2>1, SinglePCAssumption, Emptied
<1>6. c.at + n <= Len(sum)
  BY <1>1 DEF Copies
<1> HIDE DEF n, c
<1>7. Core!plus64(c.at, n) = c.at + n
  BY <1>3, <1>5, <1>6 DEF Core!plus64
<1>8. QED
  BY <1>3, <1>4, <1>6, <1>7 DEF Core!inBounds, c, n

\* ... and what is counted matches the hash announced.
LEMMA MatchesHash ==
  ASSUME Counting, Announced, StoresTheSum, unchanged, allBytes
  PROVE  Core!matches(meta)
<1>1. meta = metaOf(sum) /\ counted = 0 .. meta.size - 1
  BY DEF Counting, Announced
<1>2. meta.size = Len(sum) /\ meta.sha = [o \in 0 .. Len(sum) - 1 |-> sum[o + 1]]
  BY <1>1 DEF metaOf
<1>3. \A o \in 0 .. Len(sum) - 1 : contents[o] = sum[o + 1]
  BY <1>1, <1>2 DEF StoresTheSum
<1>4. QED
  BY <1>2, <1>3 DEF Core!matches

LEMMA BlamedNext ==
  ASSUME TypeInv, Sequenced, Leading, Counting, Announced, StoresTheSum, Exhausts,
         Faults, Started, Excuses, Blamed, [Next]_vars
  PROVE  Blamed'
<1>1. causes \subseteq causes'
  BY CausesGrow
<1>2. ASSUME Caused(result', causes) PROVE Blamed'
  BY <1>1, <1>2 DEF Blamed, Caused
<1>3. ASSUME UNCHANGED result PROVE Blamed'
  BY <1>2, <1>3 DEF Blamed
<1>4. ASSUME NEW why, failCore(why), gate = "free" => Caused(why, causes)
      PROVE  Blamed'
  BY <1>2, <1>3, <1>4 DEF failCore, Core!clientFails, Core!fail
<1>5. ASSUME NEW why, Core!fail(why), gate = "free" => Caused(why, causes)
      PROVE  Blamed'
  BY <1>2, <1>3, <1>5 DEF Core!fail
<1>6. ASSUME gate = "free", rpc # "off", ~InTime PROVE gaveUp
  BY <1>6 DEF Excuses, excused, Started
<1>7. hand # NoFrame => meta # NoMeta \/ holds("METADATA")
  BY DEF Leading
<1>8. CASE run
  BY <1>3, <1>8
  DEF run, preHash, preHashFails, seeOpen, openCancelled, sendMetadata,
      sendData, readEOF, readFails, drained, drainCancelled, sendEOF,
      sendAbort, flushed, flushTimeout, closeRun, runMoves
<1>9. CASE senderProcess \/ signalingFails \/ \E s \in Sources : sourceChanges(s)
  BY <1>3, <1>9 DEF senderProcess, acceptAnswer, startReturns, startEnds,
              watcherCloses, stopSend, iceFails, signalingFails, sourceChanges
<1>10. CASE \/ channelOpens \/ ack \/ linkLost \/ senderNotified
            \/ receiverNotified \/ announced \/ pathTimeout \/ waitDone
  BY <1>3, <1>10 DEF channelOpens, ack, linkLost, netMoves, senderNotified,
              receiverNotified, announced, pathTimeout, waitDone, receiverEnds
<1>11. CASE readFrame \/ OnData
  BY <1>3, <1>11 DEF readFrame, OnData, Core!deliver
<1>12. CASE readEnds
  <2>1. CASE failCore("protocolError") /\ ~eofSeen
    <3>1. ASSUME gate = "free" PROVE gaveUp
      <4>1. ASSUME InTime PROVE FALSE
        <5>1. spc = "gone"
          BY <1>12, <4>1 DEF readEnds, hungUp, InTime, cut, Faults
        <5>2. out = <<>> /\ rq = <<>> /\ hand = NoFrame /\ eofUnderWay
          BY <1>12, <4>1, <5>1 DEF readEnds, InTime
        <5>3. QED
          BY <2>1, <5>2, OrderEmptied DEF eofUnderWay, holds
      <4>2. QED
        BY <1>6, <1>12, <3>1, <4>1 DEF readEnds
    <3>2. gate = "free" => Caused("protocolError", causes)
      BY <3>1 DEF Caused, gaveUp
    <3>3. QED
      BY <1>4, <2>1, <3>2
  <2>2. QED
    BY <1>3, <1>12, <2>1 DEF readEnds
<1>13. CASE OnMetadata
  <2>1. hand \in Frames /\ hand.type = "METADATA"
    BY <1>13 DEF OnMetadata, TypeInv, FramesOK
  <2>2. hand.meta \in FileMetas
    BY <2>1 DEF Frames
  <2>3. PICK s \in Sources : hand.meta = metaOf(s)
    BY <2>2 DEF FileMetas
  <2>4. hand.meta.known /\ meta = NoMeta
    BY <1>13, <2>3 DEF metaOf, Sequenced, holds, OnMetadata
  <2>5. Core!truncateFails(hand.meta) => Blamed'
    BY <1>5 DEF Core!truncateFails, Caused
  <2>6. QED
    BY <1>3, <1>13, <2>4, <2>5
    DEF OnMetadata, Core!metadataAccepted, Core!metadataRejected
<1>14. CASE OnEOF
  <2>1. meta # NoMeta /\ ~eofSeen
    BY <1>7, <1>14 DEF OnEOF, holds, Sequenced
  <2>2. QED
    BY <1>3, <1>14, <2>1 DEF OnEOF, Core!verifyStarts, Core!verifierMoves
<1>15. CASE OnAbort
  <2>1. faulty
    BY <1>15 DEF OnAbort, Faults, holds
  <2>2. Caused("abort", causes)
    BY <2>1 DEF Caused, faulty
  <2>3. QED
    BY <1>4, <1>15, <2>2 DEF OnAbort
<1>16. CASE ingest
  <2>1. CASE Core!decodeFails(Primary) \/ Core!writeFails(Primary)
    BY <1>5, <2>1 DEF Core!decodeFails, Core!writeFails, Core!readerFails, Caused
  <2>2. CASE Core!dataBeforeMetadata(Primary)
    BY <2>2 DEF Core!dataBeforeMetadata, Leading
  <2>3. CASE Core!dataOutOfBounds(Primary)
    <3>1. ~unchanged
      BY <2>3, FitsSize DEF Core!dataOutOfBounds
    <3>2. Caused("outOfBounds", causes)
      BY <3>1 DEF unchanged, Caused
    <3>3. QED
      BY <1>5, <2>3, <3>2 DEF Core!dataOutOfBounds, Core!readerFails
  <2>4. CASE Core!writeChunk(Primary) \/ Core!countBytes(Primary)
    BY <1>3, <2>4 DEF Core!writeChunk, Core!countBytes
  <2>5. QED
    BY <1>16, <2>1, <2>2, <2>3, <2>4 DEF ingest
<1>17. CASE watcherLooks
  BY <1>3, <1>17 DEF watcherLooks
<1>18. CASE failOnEarlyClose
  <2>1. rpc # "off" /\ ~InTime
    BY <1>18 DEF failOnEarlyClose, Started, InTime
  <2>2. gate = "free" => Caused("closedEarly", causes)
    BY <1>6, <2>1 DEF Caused, gaveUp
  <2>3. QED
    BY <1>3, <1>4, <1>18, <2>2 DEF failOnEarlyClose
<1>19. CASE verify
  <2>1. CASE Core!seeAllBytes(Verifier)
    <3>1. allBytes /\ meta \in FileMetas /\ counted = 0 .. meta.size - 1
      BY <2>1 DEF Core!seeAllBytes, Counting
    <3>2. meta.size \in Nat
      BY <3>1, CoreAssumptions
    <3>3. Cardinality(0 .. meta.size - 1) = meta.size
      BY <3>2, CountOf
    <3>4. bytesWritten = meta.size
      BY <3>1, <3>2, <3>3 DEF Counting
    <3>5. ~(bytesWritten > meta.size)
      BY <3>2, <3>4
    <3>6. QED
      BY <1>3, <2>1, <3>5 DEF Core!seeAllBytes, Core!verifierMoves
  <2>2. CASE Core!seeDone(Verifier) \/ Core!claimVerify(Verifier)
    BY <1>3, <2>2 DEF Core!seeDone, Core!verifierMoves, Core!claimVerify
  <2>3. CASE /\ Core!verifyTimeout(Verifier)
             /\ causes' = IF allBytes THEN causes \cup {"starved"} ELSE causes
    <3>1. allBytes \/ ~unchanged
      BY <2>3 DEF Core!verifyTimeout, Sequenced, Exhausts
    <3>2. Caused("timeout", causes')
      BY <2>3, <3>1 DEF unchanged, Caused
    <3>3. result' \in {result, "timeout"}
      BY <2>3 DEF Core!verifyTimeout, Core!verifierFails, Core!fail
    <3>4. QED
      BY <1>3, <3>2, <3>3 DEF Blamed
  <2>4. QED
    BY <1>19, <2>1, <2>2, <2>3 DEF verify
<1>20. CASE closing
  <2>1. CASE Core!integrityFails
    <3>1. allBytes /\ ~Core!matches(meta)
      BY <2>1 DEF Core!integrityFails, Counting
    <3>2. ~unchanged
      BY <3>1, MatchesHash
    <3>3. Caused("integrity", causes)
      BY <3>2 DEF unchanged, Caused
    <3>4. QED
      BY <1>2, <2>1, <3>3 DEF Core!integrityFails, Core!abortWith
  <2>2. CASE Core!syncFails \/ Core!hashFails
    BY <1>2, <2>2 DEF Core!syncFails, Core!hashFails, Core!abortWith, Caused
  <2>3. QED
    BY <1>3, <1>20, <2>1, <2>2
    DEF closing, Core!doneBody, Core!cleanup, Core!sync, Core!verifyIntegrity,
        Core!bodyMoves, Core!sinkClose, Core!abortClose, Core!abortRemove,
        Core!closeDone
<1>21. CASE UNCHANGED vars
  BY <1>3, <1>21 DEF vars
<1>22. QED
  BY <1>8, <1>9, <1>10, <1>11, <1>12, <1>13, <1>14, <1>15, <1>16, <1>17, <1>18,
     <1>19, <1>20, <1>21 DEF Next, reader, watcher
-----------------------------------------------------------------------------
CauseInv ==
  /\ Sequenced /\ Leading
  /\ ReadsTheSum /\ CarriesTheSum /\ StoresTheSum
  /\ Covered /\ Exhausts
  /\ Faults /\ Started /\ Excuses /\ Blamed

LEMMA CauseInit == Init => CauseInv
BY SequencedInit, ReadsInit, CarriesInit, CoveredInit, FaultsInit, StartedInit,
   ExcusesInit, BlamedInit
DEF CauseInv

LEMMA CauseNext ==
  ASSUME TypeInv, TypeInv', Announced, Counting, Counting', CauseInv, [Next]_vars
  PROVE  CauseInv'
<1> USE DEF CauseInv
<1>1. Moves /\ Kinds /\ CoreKinds /\ causes \subseteq causes'
  BY StepMoves, StepKinds, StepCore, CausesGrow
<1>2. Sequenced' /\ Leading'
  BY <1>1, OrderNext
<1>3. ReadsTheSum' /\ CarriesTheSum' /\ StoresTheSum'
  BY <1>1, ReadsNext, CarriesNext, StoresNext
<1>4. Covered' /\ Exhausts'
  BY <1>1, CoveredNext, ExhaustsNext
<1>5. Faults' /\ Started' /\ Excuses'
  BY <1>1, FaultsNext, StartedNext, ExcusesNext
<1>6. Blamed'
  BY BlamedNext
<1>7. QED
  BY <1>2, <1>3, <1>4, <1>5, <1>6

(* A transfer fails only for a cause, and the error names the right one: a
   receiver never accuses a sender that keeps to the protocol, a mismatch means
   the input changed, ABORT that the sender could not read or the link failed,
   a timeout that bytes are missing for such a reason or the goroutine was
   starved, and a channel closed early that the sender had given up, unless the
   close overtook the EOF in the reader's hand. *)
THEOREM FailsForACause == Spec => []FailureHasCause
<1>1. CauseInv => FailureHasCause
  BY DEF CauseInv, Blamed, Caused, FailureHasCause
<1>2. ASSUME TypeInv /\ Fresh /\ Announced, (TypeInv /\ Fresh /\ Announced)',
             Counting, Counting', CauseInv, [Next]_vars
      PROVE  CauseInv'
  BY <1>2, CauseNext
<1>3. QED
  BY <1>1, <1>2, CauseInit, TransitInv, CountingInv, PTL DEF Spec
=============================================================================
