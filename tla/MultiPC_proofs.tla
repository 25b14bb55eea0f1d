--------------------------- MODULE MultiPC_proofs ---------------------------
(* Theorems about MultiPC, for every set of data peers, every file, chunk size,
   buffer and pipeline capacity, and every combination of faults.

   `chunks` hands each chunk to one worker, so no byte is on two data channels:
   the chunks in the pipeline, in every peer's buffer and in every reader's
   queue are disjoint, and nothing under way has arrived before.  METADATA is
   the first frame of the control channel, so TRANSFER_COMPLETE never comes
   before it.  With these two, the receiver drives transferCore only as
   TransferCore_proofs assumes.

   CauseInv, at the end, follows a transfer in which no timer fires early, no
   link is lost and no outage reported (`calm`), and then one without any fault
   (`faultless`): what is torn down, by whom, and what the sender has sent by
   then. *)
EXTENDS MultiPC, SequenceTheorems, FiniteSetTheorems, TLAPS

CtrlFrames == [type : {"METADATA", "TRANSFER_COMPLETE", "ABORT"}]
                \cup [type : {"ADD_PEER_OFFER"}, id : Peers]

QueuesOK ==
  /\ out \in Seq(CtrlFrames) /\ rq \in Seq(CtrlFrames)
  /\ hand \in CtrlFrames \cup {NoFrame}
  /\ back \in Seq(Peers)
  /\ pipe \in Seq(FileChunks)
  /\ dout \in [Peers -> Seq(FileChunks)] /\ drq \in [Peers -> Seq(FileChunks)]

MetaOK == meta \in {metadata, NoMeta}

TypeInv == TypeOK /\ QueuesOK /\ MetaOK

(* An answer, wherever it is, and a data link that opened come from a peer the
   receiver has published. *)
PublishedPeers == {p \in Peers : entry[p] = "published"}

Published ==
  /\ \A p \in Peers : neg[p] \in {"accepting", "answering"} => p \in PublishedPeers
  /\ back \in Seq(PublishedPeers) /\ answers \in Seq(PublishedPeers)
  /\ Peers \ waiting \subseteq PublishedPeers
  /\ \A p \in Peers : dlink[p] = "open" => p \notin waiting
  /\ PeerIsPublished

(* The bytes the chunks of a queue hold. *)
CellsOf(q) == UNION {Core!Cells(q[i]) : i \in 1 .. Len(q)}

Disjoint(q) ==
  \A i, j \in 1 .. Len(q) : i # j => Core!Cells(q[i]) \cap Core!Cells(q[j]) = {}

UnderWay(p) == CellsOf(dout[p]) \cup CellsOf(drq[p])

Fresh ==
  /\ Disjoint(pipe)
  /\ \A p \in Peers : /\ Disjoint(dout[p]) /\ Disjoint(drq[p])
                      /\ CellsOf(dout[p]) \cap CellsOf(drq[p]) = {}
                      /\ UnderWay(p) \subseteq sentCells
                      /\ UnderWay(p) \cap arrived = {}
  /\ \A p, q \in Peers : p # q => UnderWay(p) \cap UnderWay(q) = {}
  /\ arrived \subseteq sentCells
  /\ CellsOf(pipe) \cap sentCells = {}
  /\ sentCells \cup CellsOf(pipe) \subseteq 0 .. produced - 1

(* What was read is sent or in the pipeline, unless a worker failed. *)
setUp == spc \in {"pre", "build", "negotiate"}

Whole ==
  /\ setUp => prod = "off" /\ produced = 0
  /\ prod = "ended" => produced = Size
  /\ \A p \in Peers : worker[p] = "ended" =>
                        pipe = <<>> /\ prod \in {"ended", "failed"}
  /\ (\A p \in Peers : worker[p] # "failed")
       => 0 .. produced - 1 \subseteq sentCells \cup CellsOf(pipe)
  /\ spc \in {"flushData", "complete"} \/ sentComplete => sentCells = 0 .. Size - 1

(* METADATA is the first frame of the control channel. *)
mayAnnounce ==
  spc \notin {"pre", "close", "gone"} \/ \E p \in Peers : offer[p] = "making"

first(q) == q # <<>> /\ Head(q).type = "METADATA"

Leading ==
  /\ chan = "connecting" => ~mayAnnounce /\ out = <<>>
  /\ meta = NoMeta =>
       \/ hand # NoFrame /\ hand.type = "METADATA"
       \/ hand = NoFrame /\ first(rq)
       \/ hand = NoFrame /\ rq = <<>> /\ first(out)
       \/ hand = NoFrame /\ rq = <<>> /\ chan \notin {"open", "closing"}
       \/ hand = NoFrame /\ rq = <<>> /\ out = <<>> /\ ~mayAnnounce
-----------------------------------------------------------------------------
(* What multiProduce reads at an offset inside the file. *)
LEMMA ChunkFacts ==
  ASSUME NEW o \in 0 .. Size - 1
  PROVE  LET c == chunkAt(o)
             n == Len(c.data)
         IN /\ c \in FileChunks /\ c.at = o /\ c.data \in Seq(Byte)
            /\ n \in Nat /\ n >= 1 /\ o + n <= Size
            /\ o + ChunkSize > Size => o + n = Size
            /\ Core!Cells(c) = o .. o + n - 1
<1> DEFINE to == IF o + ChunkSize <= Size THEN o + ChunkSize ELSE Size
           d == SubSeq(Source, o + 1, to)
<1>1. Source \in Seq(Byte) /\ Size \in Nat /\ ChunkSize \in Nat \ {0}
  BY MultiPCAssumption DEF Size
<1>2. /\ to \in Nat /\ to <= Size /\ o + 1 <= to
      /\ o + ChunkSize > Size => to = Size
  BY <1>1
<1>3. \A i \in o + 1 .. to : Source[i] \in Byte
  BY <1>1, <1>2 DEF Size
<1>4. chunkAt(o) = [at |-> o, data |-> d]
  BY DEF chunkAt
<1> HIDE DEF to
<1>5. d \in Seq(Byte) /\ Len(d) = to - (o + 1) + 1
  BY <1>2, <1>3, SubSeqProperties
<1>6. /\ Len(d) \in Nat /\ Len(d) >= 1 /\ o + Len(d) <= Size
      /\ o + ChunkSize > Size => o + Len(d) = Size
  BY <1>1, <1>2, <1>5
<1> HIDE DEF d
<1>7. Core!Cells(chunkAt(o)) = o .. o + Len(d) - 1
  BY <1>4 DEF Core!Cells
<1>8. chunkAt(o) \in FileChunks
  BY DEF FileChunks
<1>9. chunkAt(o).at = o /\ chunkAt(o).data = d
  BY <1>4
<1>10. QED
  BY <1>5, <1>6, <1>7, <1>8, <1>9

LEMMA SizeIsNat == Size \in Nat
BY MultiPCAssumption DEF Size

(* Queues of chunks. *)
LEMMA Appended ==
  ASSUME NEW q \in Seq(FileChunks), NEW c \in FileChunks
  PROVE  /\ Append(q, c) \in Seq(FileChunks)
         /\ CellsOf(Append(q, c)) = CellsOf(q) \cup Core!Cells(c)
         /\ Disjoint(q) /\ Core!Cells(c) \cap CellsOf(q) = {}
              => Disjoint(Append(q, c))
<1> DEFINE n == Len(q)
           r == Append(q, c)
<1>1. /\ n \in Nat /\ r \in Seq(FileChunks) /\ Len(r) = n + 1
      /\ \A i \in 1 .. n : r[i] = q[i]
      /\ r[n + 1] = c
  BY AppendProperties
<1>2. \A i \in 1 .. Len(r) : i \in 1 .. n \/ i = n + 1
  BY <1>1
<1>3. \A i \in 1 .. n : i \in 1 .. Len(r)
  BY <1>1
<1>4. n + 1 \in 1 .. Len(r)
  BY <1>1
<1> HIDE DEF r, n
<1>5. CellsOf(r) = UNION {Core!Cells(r[i]) : i \in 1 .. Len(r)}
  BY DEF CellsOf
<1>6. CellsOf(q) = UNION {Core!Cells(q[i]) : i \in 1 .. n}
  BY DEF CellsOf, n
<1>7. CellsOf(r) = CellsOf(q) \cup Core!Cells(c)
  BY <1>1, <1>2, <1>3, <1>4, <1>5, <1>6
<1>8. ASSUME Disjoint(q), Core!Cells(c) \cap CellsOf(q) = {} PROVE Disjoint(r)
  <2>1. \A i \in 1 .. n : Core!Cells(c) \cap Core!Cells(q[i]) = {}
    BY <1>6, <1>8
  <2>2. \A i, j \in 1 .. n : i # j => Core!Cells(q[i]) \cap Core!Cells(q[j]) = {}
    BY <1>8 DEF Disjoint, n
  <2>3. SUFFICES ASSUME NEW i \in 1 .. Len(r), NEW j \in 1 .. Len(r), i # j
                 PROVE  Core!Cells(r[i]) \cap Core!Cells(r[j]) = {}
    BY DEF Disjoint
  <2>4. CASE i \in 1 .. n /\ j \in 1 .. n
    BY <1>1, <2>2, <2>3, <2>4
  <2>5. CASE i \in 1 .. n /\ j = n + 1
    BY <1>1, <2>1, <2>5
  <2>6. CASE i = n + 1 /\ j \in 1 .. n
    BY <1>1, <2>1, <2>6
  <2>7. QED
    BY <1>2, <2>3, <2>4, <2>5, <2>6
<1>9. QED
  BY <1>1, <1>7, <1>8 DEF r

LEMMA Taken ==
  ASSUME NEW q \in Seq(FileChunks), q # <<>>
  PROVE  /\ Head(q) \in FileChunks /\ Tail(q) \in Seq(FileChunks)
         /\ CellsOf(q) = Core!Cells(Head(q)) \cup CellsOf(Tail(q))
         /\ Disjoint(q) => /\ Disjoint(Tail(q))
                           /\ Core!Cells(Head(q)) \cap CellsOf(Tail(q)) = {}
<1> DEFINE n == Len(q)
           t == Tail(q)
<1>1. /\ n \in Nat \ {0} /\ t \in Seq(FileChunks) /\ Len(t) = n - 1
      /\ \A i \in 1 .. Len(t) : t[i] = q[i + 1]
      /\ Head(q) = q[1] /\ q[1] \in FileChunks
  BY HeadTailProperties
<1>2. \A i \in 1 .. n : i # 1 => i - 1 \in 1 .. Len(t) /\ q[i] = t[i - 1]
  BY <1>1
<1>3. \A i \in 1 .. Len(t) : i + 1 \in 1 .. n /\ i + 1 # 1
  BY <1>1
<1>4. 1 \in 1 .. n
  BY <1>1
<1> HIDE DEF t, n
<1>5. CellsOf(t) = UNION {Core!Cells(t[i]) : i \in 1 .. Len(t)}
  BY DEF CellsOf
<1>6. CellsOf(q) = UNION {Core!Cells(q[i]) : i \in 1 .. n}
  BY DEF CellsOf, n
<1>7. CellsOf(q) = Core!Cells(Head(q)) \cup CellsOf(t)
  BY <1>1, <1>2, <1>3, <1>4, <1>5, <1>6
<1>8. ASSUME Disjoint(q) PROVE Disjoint(t)
  <2>1. \A i, j \in 1 .. n : i # j => Core!Cells(q[i]) \cap Core!Cells(q[j]) = {}
    BY <1>8 DEF Disjoint, n
  <2>2. \A i, j \in 1 .. Len(t) : i # j => i + 1 # j + 1
    BY <1>1
  <2>3. QED
    BY <1>1, <1>3, <2>1, <2>2 DEF Disjoint
<1>9. ASSUME Disjoint(q) PROVE Core!Cells(Head(q)) \cap CellsOf(t) = {}
  <2>1. \A i \in 1 .. Len(t) : Core!Cells(q[1]) \cap Core!Cells(t[i]) = {}
    BY <1>1, <1>3, <1>4, <1>9 DEF Disjoint, n
  <2>2. QED
    BY <1>1, <1>5, <2>1
<1>10. QED
  BY <1>1, <1>7, <1>8, <1>9 DEF t

LEMMA Emptied == /\ \A S : <<>> \in Seq(S)
                 /\ CellsOf(<<>>) = {} /\ Disjoint(<<>>) /\ Len(<<>>) = 0
BY DEF CellsOf, Disjoint
-----------------------------------------------------------------------------
(* What a step may do to the chunks: nothing, drop those in the peers' buffers
   when the peers are closed, or one of five moves of one chunk. *)
Rests == /\ UNCHANGED <<produced, pipe, sentCells, drq, arrived>>
         /\ \/ UNCHANGED dout
            \/ dout' = all(<<>>) /\ (spc \in {"negotiate", "close"} \/ closedS)

Produces ==
  /\ produced < Size /\ Len(pipe) < PipeSize
  /\ pipe' = Append(pipe, chunkAt(produced))
  /\ produced' = produced + Len(chunkAt(produced).data)
  /\ UNCHANGED <<sentCells, dout, drq, arrived>>

Drops == pipe # <<>> /\ pipe' = Tail(pipe)
           /\ UNCHANGED <<produced, sentCells, dout, drq, arrived>>

SendsOn(p) ==
  /\ worker[p] = "ready" /\ pipe # <<>> /\ pipe' = Tail(pipe)
  /\ dout' = [dout EXCEPT ![p] = Append(@, Head(pipe))]
  /\ sentCells' = sentCells \cup Core!Cells(Head(pipe))
  /\ UNCHANGED <<produced, drq, arrived>>

AcksOn(p) ==
  /\ dout[p] # <<>>
  /\ drq' = [drq EXCEPT ![p] = Append(@, Head(dout[p]))]
  /\ dout' = [dout EXCEPT ![p] = Tail(@)]
  /\ UNCHANGED <<produced, pipe, sentCells, arrived>>

DeliversTo(p) ==
  /\ drq[p] # <<>>
  /\ drq' = [drq EXCEPT ![p] = Tail(@)]
  /\ arrived' = arrived \cup Core!Cells(Head(drq[p]))
  /\ UNCHANGED <<produced, pipe, sentCells, dout>>

DataMoves ==
  \/ Rests \/ Produces \/ Drops
  \/ \E p \in Peers : SendsOn(p) \/ AcksOn(p) \/ DeliversTo(p)

USE DEF coreVars, lifeVars, setupVars, pipeVars, sndVars, ctrlVars, dataVars,
        routerVars, dataReaderVars, rcvVars,
        Core!data, Core!fileState, Core!gateState, Core!history

\* The core changes METADATA and what has arrived in two places only.
Quiet == UNCHANGED <<arrived, meta>>

LEMMA FailIsQuiet == ASSUME NEW why, failCore(why) PROVE Quiet
BY DEF failCore, Core!clientFails, Quiet

LEMMA IngestIsQuiet == ASSUME NEW p \in Peers, ingest(p) \/ diskFails(p) PROVE Quiet
BY DEF ingest, diskFails, Core!decodeFails, Core!dataBeforeMetadata,
       Core!dataOutOfBounds, Core!writeFails, Core!readerFails, Core!writeChunk,
       Core!countBytes, Quiet

LEMMA VerifyIsQuiet == ASSUME verify PROVE Quiet
BY DEF verify, Core!seeAllBytes, Core!seeDone, Core!claimVerify,
       Core!verifyTimeout, Core!verifierFails, Core!verifierMoves, Quiet

LEMMA BodyIsQuiet == ASSUME doneBody PROVE Quiet
<1> USE DEF Core!rest, Core!bodyMoves, Core!abortWith, Quiet
<1>1. CASE cleanup
  BY <1>1 DEF cleanup, Core!cleanup
<1>2. CASE finish
  BY <1>2 DEF finish, Core!sync, Core!syncFails, Core!verifyIntegrity,
              Core!integrityFails, Core!hashFails, Core!sinkClose,
              Core!abortClose, Core!abortRemove, Core!closeDone
<1>3. QED
  BY <1>1, <1>2 DEF doneBody

LEMMA RouterIsQuiet ==
  /\ OnMetadata => UNCHANGED arrived /\ meta' \in {meta, metadata}
  /\ OnAddPeerOffer \/ OnTransferComplete \/ OnAbort => Quiet
<1>1. ASSUME OnMetadata PROVE UNCHANGED arrived /\ meta' \in {meta, metadata}
  BY <1>1 DEF OnMetadata, Core!metadataAccepted, Core!metadataRejected,
              Core!truncateFails
<1>2. ASSUME OnAddPeerOffer PROVE Quiet
  BY <1>2 DEF OnAddPeerOffer, Quiet
<1>3. ASSUME OnTransferComplete PROVE Quiet
  BY <1>3, FailIsQuiet DEF OnTransferComplete, Core!verifyStarts,
                           Core!verifierMoves, Quiet
<1>4. ASSUME OnAbort PROVE Quiet
  BY <1>4, FailIsQuiet DEF OnAbort
<1>5. QED
  BY <1>1, <1>2, <1>3, <1>4
LEMMA RunData == ASSUME runMulti PROVE DataMoves
<1> USE DEF Rests, DataMoves, runMoves, runOnly
<1>1. CASE preTransfer \/ buildDataPeers
  BY <1>1 DEF preTransfer, buildDataPeers
<1>2. ASSUME spc = "negotiate", cancelHandshake PROVE Rests
  BY <1>2 DEF cancelHandshake, closePeers
<1>3. CASE takeAnswer \/ negotiationFails
  BY <1>2, <1>3 DEF takeAnswer, negotiationFails
<1>4. CASE allOpen
  BY <1>4 DEF allOpen
<1>5. CASE discardChunk
  BY <1>5 DEF discardChunk, Drops
<1>6. CASE collectErrors \/ flushData \/ sendTransferComplete
  BY <1>6 DEF collectErrors, flushData, sendTransferComplete
<1>7. CASE sendAbort \/ flush
  BY <1>7 DEF sendAbort, flush
<1>8. CASE closeRun
  BY <1>8 DEF closeRun, closePeers
<1>9. QED
  BY <1>1, <1>3, <1>4, <1>5, <1>6, <1>7, <1>8 DEF runMulti, negotiatePeers

LEMMA WorkData == ASSUME multiProduce \/ \E p \in Peers : multiWorker(p) PROVE DataMoves
<1> USE DEF DataMoves, pipelineMoves
<1>1. CASE multiProduce
  BY <1>1 DEF multiProduce, Produces, Rests
<1>2. ASSUME NEW p \in Peers, multiWorker(p) PROVE DataMoves
  <2>1. CASE sendChunk(p)
    BY <2>1 DEF sendChunk, sendOn, sendOnFails, SendsOn, Drops
  <2>2. CASE ~sendChunk(p)
    BY <1>2, <2>2 DEF multiWorker, Rests
  <2>3. QED
    BY <2>1, <2>2
<1>3. QED
  BY <1>1, <1>2

LEMMA SenderData ==
  ASSUME \/ OnAddPeerAnswer \/ \E p \in Peers : makeOffer(p)
         \/ senderStart \/ signalingFails
  PROVE  Rests
<1> USE DEF Rests
<1>1. CASE OnAddPeerAnswer \/ \E p \in Peers : makeOffer(p)
  BY <1>1 DEF OnAddPeerAnswer, makeOffer
<1>2. CASE senderStart \/ signalingFails
  BY <1>2 DEF senderStart, acceptAnswer, startReturns, signalingFails, startEnds,
              startMoves, watcherCloses, closePeers, iceFails
<1>3. QED
  BY <1>1, <1>2

LEMMA NetworkData == ASSUME network \/ linkLost PROVE DataMoves
<1> USE DEF DataMoves, netMoves, ctrlMoves, dataMoves
<1>1. CASE channelOpens \/ ack \/ senderNotified \/ receiverNotified \/ linkLost
  BY <1>1 DEF channelOpens, ack, senderNotified, receiverNotified, linkLost, Rests
<1>2. ASSUME NEW p \in Peers, dataOpens(p) \/ dataAck(p) \/ dataNotified(p)
      PROVE  DataMoves
  BY <1>2 DEF dataOpens, dataAck, dataNotified, AcksOn, Rests
<1>3. QED
  BY <1>1, <1>2 DEF network

LEMMA ReceiverData == ASSUME receiver \/ pathTimeout PROVE DataMoves
<1> USE DEF Rests, Quiet, readerMoves
<1>1. CASE announced \/ waitDone \/ pathTimeout
  BY <1>1 DEF announced, waitDone, pathTimeout, receiverEnds, DataMoves
<1>2. CASE router
  <2>1. CASE readFrame \/ readEnds
    BY <2>1 DEF readFrame, readEnds, DataMoves
  <2>2. CASE ~(readFrame \/ readEnds)
    BY <1>2, <2>2, RouterIsQuiet
    DEF router, OnMetadata, OnAddPeerOffer, OnTransferComplete, OnAbort,
        dispatched, DataMoves
  <2>3. QED
    BY <2>1, <2>2
<1>3. CASE failOnEarlyClose
  BY <1>3, FailIsQuiet DEF failOnEarlyClose, DataMoves
<1>4. CASE verify
  BY <1>4, VerifyIsQuiet DEF verify, DataMoves
<1>5. CASE doneBody
  BY <1>5, BodyIsQuiet DEF doneBody, cleanup, finish, DataMoves
<1>6. ASSUME NEW p \in Peers, negotiateReceivePeer(p) PROVE Rests
  BY <1>6, FailIsQuiet DEF negotiateReceivePeer, createPeer, acceptOffer,
                           answerOffer, negMoves, closeSess
<1>7. ASSUME NEW p \in Peers, onPeerData(p) PROVE DeliversTo(p)
  BY <1>7 DEF onPeerData, Core!deliver, DeliversTo
<1>8. ASSUME NEW p \in Peers,
             \/ installDataPeer(p) \/ ingest(p) \/ diskFails(p) \/ peerReadEnds(p)
             \/ peerWatchLooks(p) \/ failOnPeerClose(p)
      PROVE  Rests
  <2>1. Quiet
    BY <1>8, FailIsQuiet, IngestIsQuiet
    DEF installDataPeer, peerReadEnds, peerWatchLooks, failOnPeerClose
  <2>2. QED
    BY <1>8, <2>1 DEF installDataPeer, ingest, diskFails, peerReadEnds,
                      peerWatchLooks, failOnPeerClose
<1>9. QED
  BY <1>1, <1>2, <1>3, <1>4, <1>5, <1>6, <1>7, <1>8
  DEF receiver, dataReader, DataMoves

LEMMA StepData == ASSUME [Next]_vars PROVE DataMoves
<1>1. CASE UNCHANGED vars
  BY <1>1 DEF vars, Rests, DataMoves
<1>2. QED
  BY <1>1, RunData, WorkData, SenderData, NetworkData, ReceiverData
  DEF Next, DataMoves
-----------------------------------------------------------------------------
(* What a step may do to the frames of the control channel. *)
CtrlRests == out' \in {out, <<>>} /\ UNCHANGED <<rq, hand>>

Sends == \E f \in CtrlFrames : out' = Append(out, f) /\ UNCHANGED <<rq, hand>>

Acks == out # <<>> /\ rq' = Append(rq, Head(out)) /\ out' = Tail(out)
          /\ UNCHANGED hand

Takes == rq # <<>> /\ hand = NoFrame /\ hand' = Head(rq) /\ rq' = Tail(rq)
           /\ UNCHANGED out

Dispatches == hand # NoFrame /\ hand' = NoFrame /\ UNCHANGED <<out, rq>>

CtrlMoves == CtrlRests \/ Sends \/ Acks \/ Takes \/ Dispatches

LEMMA FramesExist ==
  /\ [type |-> "METADATA"] \in CtrlFrames
  /\ [type |-> "TRANSFER_COMPLETE"] \in CtrlFrames
  /\ [type |-> "ABORT"] \in CtrlFrames
  /\ \A p \in Peers : [type |-> "ADD_PEER_OFFER", id |-> p] \in CtrlFrames
BY DEF CtrlFrames

LEMMA RunCtrl ==
  ASSUME runMulti \/ OnAddPeerAnswer \/ \E p \in Peers : makeOffer(p)
  PROVE  CtrlRests \/ Sends
<1> USE FramesExist DEF CtrlRests, Sends, runMoves, runOnly, send, sendFails
<1>1. CASE preTransfer \/ buildDataPeers
  BY <1>1 DEF preTransfer, buildDataPeers
<1>2. ASSUME cancelHandshake PROVE CtrlRests
  BY <1>2 DEF cancelHandshake
<1>3. CASE takeAnswer \/ negotiationFails \/ allOpen \/ discardChunk
  BY <1>2, <1>3 DEF takeAnswer, negotiationFails, allOpen, discardChunk
<1>4. CASE collectErrors \/ flushData
  BY <1>4 DEF collectErrors, flushData
<1>5. CASE sendTransferComplete
  BY <1>5 DEF sendTransferComplete
<1>6. CASE sendAbort
  BY <1>6 DEF sendAbort
<1>7. CASE flush \/ closeRun
  BY <1>7 DEF flush, closeRun
<1>8. CASE OnAddPeerAnswer
  BY <1>8 DEF OnAddPeerAnswer
<1>9. ASSUME NEW p \in Peers, makeOffer(p) PROVE CtrlRests \/ Sends
  BY <1>9 DEF makeOffer
<1>10. QED
  BY <1>1, <1>3, <1>4, <1>5, <1>6, <1>7, <1>8, <1>9 DEF runMulti, negotiatePeers

LEMMA OtherCtrl ==
  ASSUME \/ multiProduce \/ \E p \in Peers : multiWorker(p)
         \/ senderStart \/ signalingFails \/ network \/ linkLost \/ pathTimeout
  PROVE  CtrlRests \/ Acks
<1> USE DEF CtrlRests
<1>1. CASE multiProduce \/ \E p \in Peers : multiWorker(p)
  BY <1>1 DEF multiProduce, multiWorker, sendChunk, pipelineMoves
<1>2. CASE senderStart \/ signalingFails
  BY <1>2 DEF senderStart, acceptAnswer, startReturns, signalingFails, startEnds,
              startMoves, watcherCloses, iceFails
<1>3. CASE linkLost
  BY <1>3 DEF linkLost, ctrlMoves, dataMoves, netMoves
<1>4. CASE channelOpens \/ ack \/ senderNotified \/ receiverNotified
  BY <1>4 DEF channelOpens, ack, senderNotified, receiverNotified, ctrlMoves,
              netMoves, Acks
<1>5. CASE \E p \in Peers : dataOpens(p) \/ dataAck(p) \/ dataNotified(p)
  BY <1>5 DEF dataOpens, dataAck, dataNotified, dataMoves, netMoves
<1>6. CASE pathTimeout
  BY <1>6 DEF pathTimeout, receiverEnds
<1>7. QED
  BY <1>1, <1>2, <1>3, <1>4, <1>5, <1>6 DEF network

LEMMA ReceiverCtrl == ASSUME receiver PROVE CtrlRests \/ Takes \/ Dispatches
<1> USE DEF CtrlRests, readerMoves
<1>1. CASE announced \/ waitDone \/ readEnds \/ failOnEarlyClose
  BY <1>1 DEF announced, waitDone, receiverEnds, readEnds, failOnEarlyClose
<1>2. CASE readFrame
  BY <1>2 DEF readFrame, Takes
<1>3. CASE OnMetadata \/ OnAddPeerOffer \/ OnTransferComplete \/ OnAbort
  BY <1>3 DEF OnMetadata, OnAddPeerOffer, OnTransferComplete, OnAbort,
              dispatched, holds, Dispatches
<1>4. CASE verify \/ doneBody
  BY <1>4 DEF verify, doneBody, cleanup, finish
<1>5. ASSUME NEW p \in Peers, negotiateReceivePeer(p) PROVE CtrlRests
  BY <1>5 DEF negotiateReceivePeer, createPeer, acceptOffer, answerOffer, negMoves
<1>6. ASSUME NEW p \in Peers,
             \/ installDataPeer(p) \/ dataReader(p)
             \/ peerWatchLooks(p) \/ failOnPeerClose(p)
      PROVE  CtrlRests
  BY <1>6 DEF installDataPeer, dataReader, onPeerData, ingest, diskFails,
              peerReadEnds, peerWatchLooks, failOnPeerClose
<1>7. QED
  BY <1>1, <1>2, <1>3, <1>4, <1>5, <1>6 DEF receiver, router

LEMMA StepCtrl == ASSUME [Next]_vars PROVE CtrlMoves
<1>1. CASE UNCHANGED vars
  BY <1>1 DEF vars, CtrlRests, CtrlMoves
<1>2. QED
  BY <1>1, RunCtrl, OtherCtrl, ReceiverCtrl DEF Next, CtrlMoves
-----------------------------------------------------------------------------
(* METADATA leads. *)
LEMMA LeadingInit == Init => Leading
BY Emptied DEF Init, Core!Init, Leading, mayAnnounce, all

LEMMA FirstKept ==
  ASSUME NEW q \in Seq(CtrlFrames), NEW f \in CtrlFrames
  PROVE  /\ Append(q, f) # <<>>
         /\ first(q) => first(Append(q, f))
         /\ q = <<>> /\ f.type = "METADATA" => first(Append(q, f))
<1>1. /\ Append(q, f) # <<>> /\ Append(q, f) \in Seq(CtrlFrames)
      /\ Len(Append(q, f)) = Len(q) + 1 /\ Len(q) \in Nat
      /\ \A i \in 1 .. Len(q) : Append(q, f)[i] = q[i]
      /\ Append(q, f)[Len(q) + 1] = f
  BY AppendProperties
<1>2. Head(Append(q, f)) = Append(q, f)[1]
  BY <1>1, HeadTailProperties
<1>3. ASSUME first(q) PROVE first(Append(q, f))
  <2>1. q # <<>> /\ Head(q) = q[1] /\ 1 \in 1 .. Len(q)
    BY <1>3, HeadTailProperties DEF first
  <2>2. QED
    BY <1>1, <1>2, <1>3, <2>1 DEF first
<1>4. ASSUME q = <<>>, f.type = "METADATA" PROVE first(Append(q, f))
  <2>1. Len(q) + 1 = 1
    BY <1>4, Emptied
  <2>2. QED
    BY <1>1, <1>2, <1>4, <2>1 DEF first
<1>5. QED
  BY <1>1, <1>3, <1>4

(* The kinds of step Leading has to survive. *)
Idles == UNCHANGED <<chan, out, rq, hand, meta, spc, offer>>

Ends == /\ chan' \notin {"connecting", "open", "closing"} /\ out' \in {out, <<>>}
        /\ UNCHANGED <<rq, hand, meta, spc, offer>>

Goes == /\ UNCHANGED <<out, rq, hand, meta>>
        /\ chan' = chan \/ (chan = "open" /\ chan' = "closing")
        /\ mayAnnounce' => mayAnnounce \/ chan \notin {"connecting", "open", "closing"}

Opens == chan = "connecting" /\ chan' = "open"
           /\ UNCHANGED <<out, rq, hand, meta, spc, offer>>

Says(f) == /\ f \in CtrlFrames /\ out' = Append(out, f)
           /\ IF f.type = "METADATA" THEN spc = "pre" /\ spc' # "pre"
                                     ELSE mayAnnounce
           /\ f.type = "TRANSFER_COMPLETE" => sentComplete'
           /\ f.type = "ABORT" => spc = "abort"
           /\ chan # "connecting"
           /\ UNCHANGED <<chan, rq, hand, meta>>

Delivers == /\ chan \in {"open", "closing"} /\ Acks
            /\ UNCHANGED <<chan, meta, spc, offer>>

Reads == Takes /\ UNCHANGED <<chan, meta, spc, offer>>

Handles == /\ hand # NoFrame /\ hand' = NoFrame
           /\ UNCHANGED <<chan, out, rq, spc, offer>>
           /\ meta' \in {meta, metadata}
           /\ meta' # NoMeta \/ (hand.type # "METADATA" /\ UNCHANGED meta)

LeadMoves ==
  \/ Idles \/ Ends \/ Goes \/ Opens \/ Delivers \/ Reads \/ Handles
  \/ \E f \in CtrlFrames : Says(f)

LEMMA LeadingNext == ASSUME TypeInv, Leading, LeadMoves PROVE Leading'
<1>1. /\ out \in Seq(CtrlFrames) /\ rq \in Seq(CtrlFrames)
      /\ [type |-> "METADATA"] # NoFrame
  BY MultiPCAssumption DEF TypeInv, QueuesOK
<1> USE DEF Leading, mayAnnounce
<1>2. CASE Idles
  BY <1>2 DEF Idles, first
<1>3. CASE Ends
  BY <1>3 DEF Ends, first
<1>4. CASE Goes
  BY <1>4 DEF Goes, first
<1>5. CASE Opens
  BY <1>5 DEF Opens, first
<1>6. ASSUME NEW f \in CtrlFrames, Says(f) PROVE Leading'
  <2>1. out' # <<>> /\ (first(out) => first(out')) 
        /\ (out = <<>> /\ f.type = "METADATA" => first(out'))
    BY <1>1, <1>6, FirstKept DEF Says
  <2>2. (first(out))' <=> first(out')
    BY DEF first
  <2>3. QED
    BY <1>6, <2>1, <2>2 DEF Says, first
<1>7. CASE Delivers
  <2>1. /\ out # <<>> /\ rq' = Append(rq, Head(out)) /\ Head(out) \in CtrlFrames
        /\ UNCHANGED <<hand, chan, meta, spc, offer>> /\ chan \in {"open", "closing"}
    BY <1>1, <1>7, HeadTailProperties DEF Delivers, Acks
  <2>2. /\ first(rq) => first(rq')
        /\ rq = <<>> /\ first(out) => first(rq')
    BY <1>1, <2>1, FirstKept DEF first
  <2>3. QED
    BY <2>1, <2>2 DEF first
<1>8. CASE Reads
  <2>1. ASSUME first(rq) PROVE Head(rq) # NoFrame
    <3>1. Head(rq) \in CtrlFrames /\ Head(rq).type = "METADATA"
      BY <1>1, <2>1, HeadTailProperties DEF first
    <3>2. Head(rq) = [type |-> "METADATA"]
      BY <3>1 DEF CtrlFrames
    <3>3. QED
      BY <1>1, <3>2
  <2>2. QED
    BY <1>8, <2>1 DEF Reads, Takes, first
<1>9. CASE Handles
  BY <1>9 DEF Handles, first
<1>10. QED
  BY <1>2, <1>3, <1>4, <1>5, <1>6, <1>7, <1>8, <1>9 DEF LeadMoves
LEMMA RunLeads ==
  ASSUME TypeInv, runMulti \/ \E p \in Peers : makeOffer(p)
  PROVE  LeadMoves
<1> USE DEF runOnly
<1>1. ASSUME NEW to, runMoves(to) PROVE UNCHANGED <<hand, meta>> /\ spc' = to
  BY <1>1 DEF runMoves
<1>2. ASSUME UNCHANGED <<chan, out, rq, hand, meta>>,
             spc \notin {"pre", "close", "gone"} \/ chan = "down"
      PROVE  LeadMoves
  <2>1. Goes
    BY <1>2 DEF mayAnnounce, Goes
  <2>2. QED
    BY <2>1 DEF LeadMoves
<1>3. ASSUME UNCHANGED <<chan, out, rq, hand, meta, offer>>, spc' = "close"
      PROVE  LeadMoves
  <2>1. Goes
    BY <1>3 DEF mayAnnounce, Goes
  <2>2. QED
    BY <2>1 DEF LeadMoves
<1>4. ASSUME NEW f \in CtrlFrames, send(f), UNCHANGED <<hand, meta>>,
             IF f.type = "METADATA"
               THEN spc = "pre" /\ spc' # "pre"
               ELSE \/ spc \notin {"pre", "close", "gone"}
                    \/ \E p \in Peers : offer[p] = "making",
             f.type = "TRANSFER_COMPLETE" => sentComplete',
             f.type = "ABORT" => spc = "abort"
      PROVE  LeadMoves
  BY <1>4 DEF send, Says, mayAnnounce, LeadMoves
<1>5. CASE preTransfer
  <2>1. CASE send([type |-> "METADATA"]) /\ runMoves("build")
    BY <1>1, <1>4, <1>5, <2>1, FramesExist DEF preTransfer
  <2>2. CASE sendFails /\ runMoves("abort")
    BY <1>1, <1>2, <2>2 DEF sendFails
  <2>3. CASE runMoves("close") /\ UNCHANGED ctrlVars
    BY <1>1, <1>3, <1>5, <2>3 DEF preTransfer
  <2>4. QED
    BY <1>5, <2>1, <2>2, <2>3 DEF preTransfer
<1>6. CASE buildDataPeers
  BY <1>1, <1>2, <1>6 DEF buildDataPeers
<1>7. CASE takeAnswer \/ negotiationFails \/ allOpen \/ discardChunk
  BY <1>1, <1>2, <1>7 DEF takeAnswer, negotiationFails, allOpen, discardChunk,
                          cancelHandshake, joined
<1>8. CASE collectErrors \/ flushData \/ flush
  BY <1>1, <1>2, <1>8 DEF collectErrors, flushData, flush, joined
<1>9. CASE sendTransferComplete
  BY <1>1, <1>2, <1>4, <1>9, FramesExist DEF sendTransferComplete, sendFails
<1>10. CASE sendAbort
  BY <1>1, <1>2, <1>4, <1>10, FramesExist DEF sendAbort, sendFails
<1>11. CASE closeRun
  <2>1. mayAnnounce' => mayAnnounce
    BY <1>11 DEF closeRun, mayAnnounce
  <2>2. Goes
    BY <1>11, <2>1 DEF closeRun, Goes
  <2>3. QED
    BY <2>2 DEF LeadMoves
<1>12. ASSUME NEW p \in Peers, makeOffer(p) PROVE LeadMoves
  <2>1. UNCHANGED <<hand, meta, spc>> /\ offer[p] = "making"
    BY <1>12 DEF makeOffer
  <2>2. CASE send([type |-> "ADD_PEER_OFFER", id |-> p])
    BY <1>4, <2>1, <2>2, FramesExist
  <2>3. CASE UNCHANGED ctrlVars
    <3>1. Goes
      BY <2>1, <2>3 DEF mayAnnounce, Goes
    <3>2. QED
      BY <3>1 DEF LeadMoves
  <2>4. QED
    BY <1>12, <2>2, <2>3 DEF makeOffer, sendFails
<1>13. QED
  BY <1>5, <1>6, <1>7, <1>8, <1>9, <1>10, <1>11, <1>12 DEF runMulti, negotiatePeers

LEMMA OtherLeads ==
  ASSUME \/ OnAddPeerAnswer \/ multiProduce \/ \E p \in Peers : multiWorker(p)
         \/ senderStart \/ signalingFails \/ network \/ linkLost \/ pathTimeout
  PROVE  LeadMoves
<1> USE DEF LeadMoves
<1>1. CASE OnAddPeerAnswer \/ multiProduce \/ \E p \in Peers : multiWorker(p)
  BY <1>1 DEF OnAddPeerAnswer, multiProduce, multiWorker, sendChunk,
              pipelineMoves, Idles
<1>2. CASE senderStart \/ signalingFails
  BY <1>2 DEF senderStart, acceptAnswer, startReturns, signalingFails, startEnds,
              startMoves, watcherCloses, iceFails, hangUp, Idles, Ends
<1>3. CASE linkLost
  BY <1>3 DEF linkLost, ctrlMoves, dataMoves, netMoves, Idles, Ends
<1>4. CASE channelOpens \/ ack
  BY <1>4 DEF channelOpens, ack, ctrlMoves, netMoves, Acks, Opens, Delivers
<1>5. CASE senderNotified \/ receiverNotified
  BY <1>5 DEF senderNotified, receiverNotified, ctrlMoves, netMoves, Idles
<1>6. CASE \E p \in Peers : dataOpens(p) \/ dataAck(p) \/ dataNotified(p)
  BY <1>6 DEF dataOpens, dataAck, dataNotified, dataMoves, netMoves, Idles
<1>7. CASE pathTimeout
  BY <1>7 DEF pathTimeout, receiverEnds, hangUp, Ends
<1>8. QED
  BY <1>1, <1>2, <1>3, <1>4, <1>5, <1>6, <1>7 DEF network

LEMMA ReceiverLeads == ASSUME TypeInv, receiver PROVE LeadMoves
<1> USE DEF LeadMoves, readerMoves, Quiet
<1>1. CASE announced
  BY <1>1 DEF announced, Idles
<1>2. CASE waitDone
  BY <1>2 DEF waitDone, receiverEnds, hangUp, Ends
<1>3. CASE readFrame
  BY <1>3 DEF readFrame, Takes, Reads
<1>4. CASE readEnds
  BY <1>4 DEF readEnds, Idles
<1>5. CASE OnMetadata
  <2>1. meta' # NoMeta
    <3>1. metadata # NoMeta /\ metadata.known
      BY MultiPCAssumption DEF metadata
    <3>2. QED
      BY <1>5, <3>1 DEF OnMetadata, Core!metadataAccepted, Core!metadataRejected,
                        Core!truncateFails
  <2>2. meta' \in {meta, metadata}
    BY <1>5, RouterIsQuiet
  <2>3. QED
    BY <1>5, <2>1, <2>2 DEF OnMetadata, dispatched, holds, Handles
<1>6. CASE OnAddPeerOffer \/ OnTransferComplete \/ OnAbort
  <2>1. UNCHANGED meta
    BY <1>6, RouterIsQuiet
  <2>2. QED
    BY <1>6, <2>1 DEF OnAddPeerOffer, OnTransferComplete, OnAbort, dispatched,
                      holds, Handles
<1>7. CASE failOnEarlyClose
  BY <1>7, FailIsQuiet DEF failOnEarlyClose, Idles
<1>8. CASE verify
  BY <1>8, VerifyIsQuiet DEF verify, Idles
<1>9. CASE doneBody
  BY <1>9, BodyIsQuiet DEF doneBody, cleanup, finish, Idles
<1>10. ASSUME NEW p \in Peers, negotiateReceivePeer(p) PROVE Idles
  BY <1>10, FailIsQuiet DEF negotiateReceivePeer, createPeer, acceptOffer,
                            answerOffer, negMoves, Idles
<1>11. ASSUME NEW p \in Peers,
              \/ installDataPeer(p) \/ dataReader(p)
              \/ peerWatchLooks(p) \/ failOnPeerClose(p)
       PROVE  Idles
  <2>1. UNCHANGED meta
    BY <1>11, FailIsQuiet, IngestIsQuiet
    DEF installDataPeer, dataReader, onPeerData, Core!deliver, peerReadEnds,
        peerWatchLooks, failOnPeerClose
  <2>2. QED
    BY <1>11, <2>1 DEF installDataPeer, dataReader, onPeerData, ingest, diskFails,
                       peerReadEnds, peerWatchLooks, failOnPeerClose, Idles
<1>12. QED
  BY <1>1, <1>2, <1>3, <1>4, <1>5, <1>6, <1>7, <1>8, <1>9, <1>10, <1>11
  DEF receiver, router

LEMMA StepLeads == ASSUME TypeInv, [Next]_vars PROVE LeadMoves
<1>1. CASE UNCHANGED vars
  BY <1>1 DEF vars, Idles, LeadMoves
<1>2. QED
  BY <1>1, RunLeads, OtherLeads, ReceiverLeads DEF Next
-----------------------------------------------------------------------------
(* No byte is on two data channels, and none arrives twice. *)
LEMMA FreshInit == Init => Fresh
<1> SUFFICES ASSUME Init PROVE Fresh
  OBVIOUS
<1>1. /\ arrived = {} /\ sentCells = {} /\ pipe = <<>>
      /\ \A p \in Peers : dout[p] = <<>> /\ drq[p] = <<>>
  BY DEF Init, Core!Init, all
<1>2. QED
  BY <1>1, Emptied DEF Fresh, UnderWay

(* The peers' part of Fresh, for the queues and cells after the step. *)
PeersFresh(to, from, sentSet, arrivedSet) ==
  /\ \A p \in Peers :
       /\ Disjoint(to[p]) /\ Disjoint(from[p])
       /\ CellsOf(to[p]) \cap CellsOf(from[p]) = {}
       /\ CellsOf(to[p]) \cup CellsOf(from[p]) \subseteq sentSet
       /\ (CellsOf(to[p]) \cup CellsOf(from[p])) \cap arrivedSet = {}
  /\ \A p, q \in Peers : p # q =>
       (CellsOf(to[p]) \cup CellsOf(from[p]))
         \cap (CellsOf(to[q]) \cup CellsOf(from[q])) = {}

PipeFresh(queue, sentSet, n) ==
  /\ Disjoint(queue) /\ CellsOf(queue) \cap sentSet = {}
  /\ sentSet \cup CellsOf(queue) \subseteq 0 .. n - 1

LEMMA FreshIs ==
  /\ Fresh <=> (/\ PeersFresh(dout, drq, sentCells, arrived)
                /\ PipeFresh(pipe, sentCells, produced) /\ arrived \subseteq sentCells)
  /\ Fresh' <=> (/\ PeersFresh(dout', drq', sentCells', arrived')
                 /\ PipeFresh(pipe', sentCells', produced')
                 /\ arrived' \subseteq sentCells')
<1>1. Fresh <=> (/\ PeersFresh(dout, drq, sentCells, arrived)
                 /\ PipeFresh(pipe, sentCells, produced) /\ arrived \subseteq sentCells)
  BY DEF Fresh, PeersFresh, PipeFresh, UnderWay
<1>2. Fresh' <=> (/\ PeersFresh(dout', drq', sentCells', arrived')
                  /\ PipeFresh(pipe', sentCells', produced')
                  /\ arrived' \subseteq sentCells')
  BY DEF Fresh, PeersFresh, PipeFresh, UnderWay, Disjoint, CellsOf, Core!Cells
<1>3. QED
  BY <1>1, <1>2

LEMMA Taking ==
  ASSUME NEW q \in Seq(FileChunks), q # <<>>, Disjoint(q),
         NEW S, NEW n, CellsOf(q) \cap S = {}, S \cup CellsOf(q) \subseteq 0 .. n - 1
  PROVE  /\ PipeFresh(Tail(q), S, n)
         /\ PipeFresh(Tail(q), S \cup Core!Cells(Head(q)), n)
         /\ Core!Cells(Head(q)) \cap S = {}
BY Taken DEF PipeFresh

LEMMA ProducesFresh ==
  ASSUME TypeInv, Produces, PipeFresh(pipe, sentCells, produced)
  PROVE  PipeFresh(pipe', sentCells', produced')
<1> DEFINE c == chunkAt(produced)
           len == Len(c.data)
<1>1. produced \in 0 .. Size - 1 /\ produced \in Nat /\ pipe \in Seq(FileChunks)
  <2>1. produced \in 0 .. Size /\ pipe \in Seq(FileChunks) /\ produced < Size
    BY DEF TypeInv, TypeOK, QueueTypeOK, QueuesOK, Produces
  <2>2. QED
    BY <2>1, SizeIsNat
<1>2. /\ c \in FileChunks /\ len \in Nat
      /\ Core!Cells(c) = produced .. produced + len - 1
  BY <1>1, ChunkFacts
<1>3. pipe' = Append(pipe, c) /\ produced' = produced + len /\ UNCHANGED sentCells
  BY DEF Produces
<1> HIDE DEF c, len
<1>4. /\ Core!Cells(c) \cap (0 .. produced - 1) = {}
      /\ Core!Cells(c) \subseteq 0 .. produced + len - 1
      /\ 0 .. produced - 1 \subseteq 0 .. produced + len - 1
  BY <1>1, <1>2
<1>5. CellsOf(pipe') = CellsOf(pipe) \cup Core!Cells(c)
  BY <1>1, <1>2, <1>3, Appended
<1>6. Core!Cells(c) \cap (CellsOf(pipe) \cup sentCells) = {}
  BY <1>4 DEF PipeFresh
<1>7. Disjoint(pipe')
  BY <1>1, <1>2, <1>3, <1>6, Appended DEF PipeFresh
<1>8. CellsOf(pipe') \cap sentCells = {}
  BY <1>5, <1>6 DEF PipeFresh
<1>9. sentCells' \cup CellsOf(pipe') \subseteq 0 .. produced' - 1
  <2>1. sentCells \cup CellsOf(pipe') \subseteq 0 .. produced + len - 1
    BY <1>4, <1>5 DEF PipeFresh
  <2>2. produced + len - 1 = produced' - 1
    BY <1>1, <1>2, <1>3
  <2>3. QED
    BY <1>3, <2>1, <2>2
<1>10. CellsOf(pipe') \cap sentCells' = {}
  BY <1>3, <1>8
<1>11. QED
  BY <1>7, <1>9, <1>10 DEF PipeFresh

LEMMA SendsFresh ==
  ASSUME TypeInv, Fresh, NEW p \in Peers, SendsOn(p)
  PROVE  Fresh'
<1> DEFINE c == Head(pipe)
<1>1. /\ PeersFresh(dout, drq, sentCells, arrived)
      /\ PipeFresh(pipe, sentCells, produced) /\ arrived \subseteq sentCells
  BY FreshIs
<1>2. /\ pipe # <<>> /\ pipe' = Tail(pipe) /\ UNCHANGED <<drq, arrived, produced>>
      /\ sentCells' = sentCells \cup Core!Cells(c)
      /\ dout'[p] = Append(dout[p], c)
      /\ \A q \in Peers : q # p => dout'[q] = dout[q]
  BY DEF SendsOn, TypeInv, QueuesOK
<1>3. pipe \in Seq(FileChunks) /\ dout[p] \in Seq(FileChunks)
  BY DEF TypeInv, QueuesOK
<1>4. c \in FileChunks
  BY <1>2, <1>3, Taken
<1>5. PipeFresh(pipe', sentCells', produced') /\ Core!Cells(c) \cap sentCells = {}
  BY <1>1, <1>2, <1>3, Taking DEF PipeFresh
<1> HIDE DEF c
<1>6. CellsOf(dout'[p]) = CellsOf(dout[p]) \cup Core!Cells(c)
  BY <1>2, <1>3, <1>4, Appended
<1>7. CellsOf(dout[p]) \subseteq sentCells /\ Disjoint(dout[p])
  BY <1>1 DEF PeersFresh
<1>8. Disjoint(dout'[p])
  BY <1>2, <1>3, <1>4, <1>5, <1>7, Appended
<1>9. Core!Cells(c) \cap arrived = {}
  BY <1>1, <1>5
<1>10. PeersFresh(dout', drq', sentCells', arrived')
  BY <1>1, <1>2, <1>5, <1>6, <1>8, <1>9 DEF PeersFresh
<1>11. arrived' \subseteq sentCells'
  BY <1>1, <1>2
<1>12. QED
  BY <1>5, <1>10, <1>11, FreshIs

LEMMA AcksFresh ==
  ASSUME TypeInv, Fresh, NEW p \in Peers, AcksOn(p)
  PROVE  Fresh'
<1> DEFINE c == Head(dout[p])
<1>1. /\ PeersFresh(dout, drq, sentCells, arrived)
      /\ PipeFresh(pipe, sentCells, produced) /\ arrived \subseteq sentCells
  BY FreshIs
<1>2. /\ dout[p] # <<>> /\ UNCHANGED <<pipe, arrived, produced, sentCells>>
      /\ dout'[p] = Tail(dout[p]) /\ drq'[p] = Append(drq[p], c)
      /\ \A q \in Peers : q # p => dout'[q] = dout[q] /\ drq'[q] = drq[q]
  BY DEF AcksOn, TypeInv, QueuesOK
<1>3. drq[p] \in Seq(FileChunks) /\ dout[p] \in Seq(FileChunks)
  BY DEF TypeInv, QueuesOK
<1>4. Disjoint(dout[p]) /\ Disjoint(drq[p]) /\ CellsOf(dout[p]) \cap CellsOf(drq[p]) = {}
  BY <1>1 DEF PeersFresh
<1>5. /\ c \in FileChunks
      /\ CellsOf(dout[p]) = Core!Cells(c) \cup CellsOf(dout'[p])
      /\ Disjoint(dout'[p]) /\ Core!Cells(c) \cap CellsOf(dout'[p]) = {}
  BY <1>2, <1>3, <1>4, Taken
<1> HIDE DEF c
<1>6. CellsOf(drq'[p]) = CellsOf(drq[p]) \cup Core!Cells(c)
  BY <1>2, <1>3, <1>5, Appended
<1>7. Disjoint(drq'[p])
  <2>1. Core!Cells(c) \cap CellsOf(drq[p]) = {}
    BY <1>4, <1>5
  <2>2. QED
    BY <1>2, <1>3, <1>4, <1>5, <2>1, Appended
<1>8. PeersFresh(dout', drq', sentCells', arrived')
  <2>1. \A q \in Peers : CellsOf(dout'[q]) \cup CellsOf(drq'[q])
                           = CellsOf(dout[q]) \cup CellsOf(drq[q])
    BY <1>2, <1>5, <1>6
  <2>2. CellsOf(dout'[p]) \cap CellsOf(drq'[p]) = {}
    BY <1>4, <1>5, <1>6
  <2>3. QED
    BY <1>1, <1>2, <1>5, <1>7, <2>1, <2>2 DEF PeersFresh
<1>9. QED
  BY <1>1, <1>2, <1>8, FreshIs

LEMMA DeliversFresh ==
  ASSUME TypeInv, Fresh, NEW p \in Peers, DeliversTo(p)
  PROVE  Fresh'
<1> DEFINE c == Head(drq[p])
<1>1. /\ PeersFresh(dout, drq, sentCells, arrived)
      /\ PipeFresh(pipe, sentCells, produced) /\ arrived \subseteq sentCells
  BY FreshIs
<1>2. /\ drq[p] # <<>> /\ UNCHANGED <<pipe, dout, produced, sentCells>>
      /\ drq'[p] = Tail(drq[p]) /\ arrived' = arrived \cup Core!Cells(c)
      /\ \A q \in Peers : q # p => drq'[q] = drq[q]
  BY DEF DeliversTo, TypeInv, QueuesOK
<1>3. drq[p] \in Seq(FileChunks)
  BY DEF TypeInv, QueuesOK
<1>4. /\ Disjoint(drq[p]) /\ CellsOf(dout[p]) \cap CellsOf(drq[p]) = {}
      /\ CellsOf(drq[p]) \subseteq sentCells
  BY <1>1 DEF PeersFresh
<1>5. /\ CellsOf(drq[p]) = Core!Cells(c) \cup CellsOf(drq'[p])
      /\ Disjoint(drq'[p]) /\ Core!Cells(c) \cap CellsOf(drq'[p]) = {}
  BY <1>2, <1>3, <1>4, Taken
<1> HIDE DEF c
<1>6. \A q \in Peers : q # p =>
        Core!Cells(c) \cap (CellsOf(dout[q]) \cup CellsOf(drq[q])) = {}
  BY <1>1, <1>5 DEF PeersFresh
<1>7. PeersFresh(dout', drq', sentCells', arrived')
  <2>1. \A q \in Peers : CellsOf(dout'[q]) \cup CellsOf(drq'[q])
                           \subseteq CellsOf(dout[q]) \cup CellsOf(drq[q])
    BY <1>2, <1>5
  <2>2. \A q \in Peers :
          (CellsOf(dout'[q]) \cup CellsOf(drq'[q])) \cap Core!Cells(c) = {}
    BY <1>2, <1>4, <1>5, <1>6
  <2>3. \A q \in Peers : /\ Disjoint(dout'[q]) /\ Disjoint(drq'[q])
                          /\ CellsOf(dout'[q]) \cap CellsOf(drq'[q]) = {}
    BY <1>1, <1>2, <1>4, <1>5 DEF PeersFresh
  <2>4. QED
    BY <1>1, <1>2, <2>1, <2>2, <2>3 DEF PeersFresh
<1>8. arrived' \subseteq sentCells'
  BY <1>1, <1>2, <1>4, <1>5
<1>9. QED
  BY <1>1, <1>2, <1>7, <1>8, FreshIs

LEMMA FreshNext == ASSUME TypeInv, Fresh, DataMoves PROVE Fresh'
<1>1. /\ PeersFresh(dout, drq, sentCells, arrived)
      /\ PipeFresh(pipe, sentCells, produced) /\ arrived \subseteq sentCells
  BY FreshIs
<1>2. CASE Rests
  <2>1. CASE dout' = dout
    BY <1>1, <1>2, <2>1, FreshIs DEF Rests
  <2>2. CASE dout' = all(<<>>)
    <3>1. \A p \in Peers : Disjoint(dout'[p]) /\ CellsOf(dout'[p]) = {}
      BY <2>2, Emptied DEF all
    <3>2. PeersFresh(dout', drq, sentCells, arrived)
      BY <1>1, <3>1 DEF PeersFresh
    <3>3. QED
      BY <1>1, <1>2, <3>2, FreshIs DEF Rests
  <2>3. QED
    BY <1>2, <2>1, <2>2 DEF Rests
<1>3. CASE Produces
  BY <1>1, <1>3, ProducesFresh, FreshIs DEF Produces
<1>4. CASE Drops
  <2>1. pipe \in Seq(FileChunks)
    BY DEF TypeInv, QueuesOK
  <2>2. PipeFresh(pipe', sentCells', produced')
    BY <1>1, <1>4, <2>1, Taking DEF Drops, PipeFresh
  <2>3. QED
    BY <1>1, <1>4, <2>2, FreshIs DEF Drops
<1>5. QED
  BY <1>2, <1>3, <1>4, SendsFresh, AcksFresh, DeliversFresh DEF DataMoves
-----------------------------------------------------------------------------
(* Types. *)
LEMMA QueuesInit == Init => QueuesOK /\ MetaOK
BY Emptied DEF Init, Core!Init, QueuesOK, MetaOK, all

LEMMA CtrlTyped ==
  ASSUME TypeInv, CtrlMoves
  PROVE  /\ out' \in Seq(CtrlFrames) /\ rq' \in Seq(CtrlFrames)
         /\ hand' \in CtrlFrames \cup {NoFrame}
<1>1. /\ out \in Seq(CtrlFrames) /\ rq \in Seq(CtrlFrames)
      /\ hand \in CtrlFrames \cup {NoFrame}
  BY DEF TypeInv, QueuesOK
<1>2. CASE CtrlRests
  BY <1>1, <1>2, Emptied DEF CtrlRests
<1>3. CASE Sends
  BY <1>1, <1>3, AppendProperties DEF Sends
<1>4. CASE Acks
  <2>1. Head(out) \in CtrlFrames /\ Tail(out) \in Seq(CtrlFrames)
    BY <1>1, <1>4, HeadTailProperties DEF Acks
  <2>2. QED
    BY <1>1, <1>4, <2>1, AppendProperties DEF Acks
<1>5. CASE Takes
  BY <1>1, <1>5, HeadTailProperties DEF Takes
<1>6. CASE Dispatches
  BY <1>1, <1>6 DEF Dispatches
<1>7. QED
  BY <1>2, <1>3, <1>4, <1>5, <1>6 DEF CtrlMoves

LEMMA DataTyped ==
  ASSUME TypeInv, DataMoves
  PROVE  /\ pipe' \in Seq(FileChunks) /\ produced' \in 0 .. Size
         /\ dout' \in [Peers -> Seq(FileChunks)] /\ drq' \in [Peers -> Seq(FileChunks)]
<1>1. /\ pipe \in Seq(FileChunks) /\ produced \in 0 .. Size
      /\ dout \in [Peers -> Seq(FileChunks)] /\ drq \in [Peers -> Seq(FileChunks)]
  BY DEF TypeInv, TypeOK, QueueTypeOK, QueuesOK
<1>2. CASE Rests
  BY <1>1, <1>2, Emptied DEF Rests, all
<1>3. CASE Produces
  <2> DEFINE c == chunkAt(produced)
  <2>1. produced \in 0 .. Size - 1 /\ pipe' = Append(pipe, c) /\ UNCHANGED <<dout, drq>>
        /\ produced' = produced + Len(c.data) /\ produced \in Nat /\ Size \in Nat
    BY <1>1, <1>3, SizeIsNat DEF Produces
  <2>2. c \in FileChunks /\ Len(c.data) \in Nat /\ produced + Len(c.data) <= Size
    BY <2>1, ChunkFacts
  <2>3. produced' \in 0 .. Size
    BY <2>1, <2>2
  <2>4. QED
    BY <1>1, <2>1, <2>2, <2>3, Appended
<1>4. CASE Drops
  BY <1>1, <1>4, Taken DEF Drops
<1>5. ASSUME NEW p \in Peers, SendsOn(p)
      PROVE  /\ pipe' \in Seq(FileChunks) /\ UNCHANGED <<produced, drq>>
             /\ dout' \in [Peers -> Seq(FileChunks)]
  <2>1. Head(pipe) \in FileChunks /\ Tail(pipe) \in Seq(FileChunks)
    BY <1>1, <1>5, Taken DEF SendsOn
  <2>2. Append(dout[p], Head(pipe)) \in Seq(FileChunks)
    BY <1>1, <2>1, Appended
  <2>3. QED
    BY <1>1, <1>5, <2>1, <2>2 DEF SendsOn
<1>6. ASSUME NEW p \in Peers, AcksOn(p)
      PROVE  /\ UNCHANGED <<produced, pipe>>
             /\ dout' \in [Peers -> Seq(FileChunks)] /\ drq' \in [Peers -> Seq(FileChunks)]
  <2>1. Head(dout[p]) \in FileChunks /\ Tail(dout[p]) \in Seq(FileChunks)
    BY <1>1, <1>6, Taken DEF AcksOn
  <2>2. Append(drq[p], Head(dout[p])) \in Seq(FileChunks)
    BY <1>1, <2>1, Appended
  <2>3. QED
    BY <1>1, <1>6, <2>1, <2>2 DEF AcksOn
<1>7. ASSUME NEW p \in Peers, DeliversTo(p)
      PROVE  UNCHANGED <<produced, pipe, dout>> /\ drq' \in [Peers -> Seq(FileChunks)]
  <2>1. Tail(drq[p]) \in Seq(FileChunks)
    BY <1>1, <1>7, Taken DEF DeliversTo
  <2>2. QED
    BY <1>1, <1>7, <2>1 DEF DeliversTo
<1>8. QED
  BY <1>1, <1>2, <1>3, <1>4, <1>5, <1>6, <1>7 DEF DataMoves

LEMMA MetaTyped == ASSUME TypeInv, LeadMoves PROVE MetaOK'
BY DEF TypeInv, MetaOK, metadata, LeadMoves, Idles, Ends, Goes, Opens, Says,
       Delivers, Reads, Handles
-----------------------------------------------------------------------------
(* Answers, from the negotiator that sends one to the sender that takes it. *)
AnswerRests == back' \in {back, <<>>} /\ UNCHANGED <<answers, waiting>>

Answered(p) == /\ neg[p] = "answering" /\ neg' = [neg EXCEPT ![p] = "ended"]
               /\ back' = Append(back, p)
               /\ UNCHANGED <<answers, waiting>>

AnswerArrives ==
  /\ back # <<>> /\ back' = Tail(back)
  /\ \/ UNCHANGED answers
     \/ /\ Len(answers) < Cardinality(Peers)
        /\ answers' = Append(answers, Head(back))
  /\ UNCHANGED waiting

AnswerTaken ==
  /\ answers # <<>> /\ answers' = Tail(answers) /\ UNCHANGED back
  /\ waiting' \in {waiting, waiting \ {Head(answers)}}

AnswerMoves ==
  \/ AnswerRests \/ AnswerArrives \/ AnswerTaken \/ \E p \in Peers : Answered(p)

LEMMA SenderAnswers ==
  ASSUME runMulti \/ OnAddPeerAnswer
  PROVE  AnswerRests \/ AnswerArrives \/ AnswerTaken
<1> USE DEF AnswerRests, runMoves, runOnly
<1>1. CASE preTransfer
  BY <1>1 DEF preTransfer, send, sendFails
<1>2. CASE buildDataPeers \/ allOpen \/ discardChunk \/ collectErrors \/ flushData
           \/ flush \/ closeRun
  BY <1>2 DEF buildDataPeers, allOpen, discardChunk, collectErrors, flushData,
              flush, closeRun
<1>3. CASE sendTransferComplete \/ sendAbort
  BY <1>3 DEF sendTransferComplete, sendAbort, send, sendFails
<1>4. CASE negotiationFails
  BY <1>4 DEF negotiationFails, cancelHandshake
<1>5. CASE takeAnswer
  BY <1>5 DEF takeAnswer, cancelHandshake, AnswerTaken
<1>6. CASE OnAddPeerAnswer
  BY <1>6 DEF OnAddPeerAnswer, AnswerArrives
<1>7. QED
  BY <1>1, <1>2, <1>3, <1>4, <1>5, <1>6 DEF runMulti, negotiatePeers

LEMMA OtherAnswers ==
  ASSUME \/ multiProduce \/ \E p \in Peers : makeOffer(p) \/ multiWorker(p)
         \/ senderStart \/ signalingFails \/ network \/ linkLost \/ pathTimeout
  PROVE  AnswerRests
<1> USE DEF AnswerRests
<1>1. CASE multiProduce \/ \E p \in Peers : multiWorker(p)
  BY <1>1 DEF multiProduce, multiWorker, sendChunk, pipelineMoves
<1>2. CASE \E p \in Peers : makeOffer(p)
  BY <1>2 DEF makeOffer, send, sendFails
<1>3. CASE senderStart \/ signalingFails
  BY <1>3 DEF senderStart, acceptAnswer, startReturns, signalingFails, startEnds,
              startMoves, watcherCloses, iceFails
<1>4. CASE linkLost
  BY <1>4 DEF linkLost, ctrlMoves, dataMoves, netMoves
<1>5. CASE network
  BY <1>5 DEF network, channelOpens, ack, senderNotified, receiverNotified,
              dataOpens, dataAck, dataNotified, ctrlMoves, dataMoves, netMoves
<1>6. CASE pathTimeout
  BY <1>6 DEF pathTimeout, receiverEnds
<1>7. QED
  BY <1>1, <1>2, <1>3, <1>4, <1>5, <1>6

LEMMA ReceiverAnswers ==
  ASSUME receiver
  PROVE  AnswerRests \/ \E p \in Peers : Answered(p)
<1> USE DEF AnswerRests, readerMoves
<1>1. CASE announced \/ waitDone \/ readFrame \/ readEnds \/ failOnEarlyClose
  BY <1>1 DEF announced, waitDone, receiverEnds, readFrame, readEnds, failOnEarlyClose
<1>2. CASE OnMetadata \/ OnAddPeerOffer \/ OnTransferComplete \/ OnAbort
  BY <1>2 DEF OnMetadata, OnAddPeerOffer, OnTransferComplete, OnAbort, dispatched
<1>3. CASE verify \/ doneBody
  BY <1>3 DEF verify, doneBody
<1>4. ASSUME NEW p \in Peers, negotiateReceivePeer(p) PROVE AnswerRests \/ Answered(p)
  <2>1. CASE createPeer(p) \/ acceptOffer(p)
    BY <2>1 DEF createPeer, acceptOffer, negMoves
  <2>2. CASE answerOffer(p)
    BY <2>2 DEF answerOffer, negMoves, Answered
  <2>3. QED
    BY <1>4, <2>1, <2>2 DEF negotiateReceivePeer
<1>5. ASSUME NEW p \in Peers,
             \/ installDataPeer(p) \/ dataReader(p)
             \/ peerWatchLooks(p) \/ failOnPeerClose(p)
      PROVE  AnswerRests
  BY <1>5 DEF installDataPeer, dataReader, onPeerData, ingest, diskFails,
              peerReadEnds, peerWatchLooks, failOnPeerClose
<1>6. QED
  BY <1>1, <1>2, <1>3, <1>4, <1>5 DEF receiver, router

LEMMA StepAnswers == ASSUME [Next]_vars PROVE AnswerMoves
<1>1. CASE UNCHANGED vars
  BY <1>1 DEF vars, AnswerRests, AnswerMoves
<1>2. QED
  BY <1>1, SenderAnswers, OtherAnswers, ReceiverAnswers DEF Next, AnswerMoves
LEMMA AnswersKept ==
  ASSUME AnswerMoves, NEW S, back \in Seq(S), answers \in Seq(S),
         \A p \in Peers : neg[p] = "answering" => p \in S
  PROVE  /\ back' \in Seq(S) /\ answers' \in Seq(S)
         /\ Peers \ waiting \subseteq S => Peers \ waiting' \subseteq S
         /\ Len(answers) <= Cardinality(Peers) => Len(answers') <= Cardinality(Peers)
<1>1. CASE AnswerRests
  BY <1>1, Emptied DEF AnswerRests
<1>2. ASSUME NEW p \in Peers, Answered(p)
      PROVE  back' \in Seq(S) /\ UNCHANGED <<answers, waiting>>
  BY <1>2, AppendProperties DEF Answered
<1>3. CASE AnswerArrives
  <2>1. Head(back) \in S /\ Tail(back) \in Seq(S)
    BY <1>3, HeadTailProperties DEF AnswerArrives
  <2>2. back' \in Seq(S) /\ UNCHANGED waiting
    BY <1>3, <2>1 DEF AnswerArrives
  <2>3. CASE UNCHANGED answers
    BY <2>2, <2>3
  <2>4. CASE Len(answers) < Cardinality(Peers) /\ answers' = Append(answers, Head(back))
    <3>1. answers' \in Seq(S) /\ Len(answers') = Len(answers) + 1 /\ Len(answers) \in Nat
      BY <2>1, <2>4, AppendProperties
    <3>2. Cardinality(Peers) \in Nat
      BY MultiPCAssumption, FS_CardinalityType
    <3>3. Len(answers') <= Cardinality(Peers)
      BY <2>4, <3>1, <3>2
    <3>4. QED
      BY <2>2, <3>1, <3>3
  <2>5. QED
    BY <1>3, <2>3, <2>4 DEF AnswerArrives
<1>4. CASE AnswerTaken
  <2>1. /\ Head(answers) \in S /\ Tail(answers) \in Seq(S)
        /\ Len(Tail(answers)) = Len(answers) - 1 /\ Len(answers) \in Nat
    BY <1>4, HeadTailProperties DEF AnswerTaken
  <2>2. answers' = Tail(answers) /\ UNCHANGED back
        /\ waiting' \in {waiting, waiting \ {Head(answers)}}
    BY <1>4 DEF AnswerTaken
  <2>3. Peers \ waiting \subseteq S => Peers \ waiting' \subseteq S
    BY <2>1, <2>2
  <2>4. Cardinality(Peers) \in Nat
    BY MultiPCAssumption, FS_CardinalityType
  <2>5. Len(answers) <= Cardinality(Peers) => Len(answers') <= Cardinality(Peers)
    BY <2>1, <2>2, <2>4
  <2>6. QED
    BY <2>1, <2>2, <2>3, <2>5
<1>5. QED
  BY <1>1, <1>2, <1>3, <1>4 DEF AnswerMoves

LEMMA PipeBounded == ASSUME TypeInv, DataMoves PROVE Len(pipe') <= PipeSize
<1>1. pipe \in Seq(FileChunks) /\ Len(pipe) <= PipeSize /\ PipeSize \in Nat
  BY MultiPCAssumption DEF TypeInv, TypeOK, QueueTypeOK, QueuesOK
<1>2. CASE Produces
  <2>1. produced \in 0 .. Size /\ produced < Size /\ Len(pipe) < PipeSize
        /\ pipe' = Append(pipe, chunkAt(produced))
    BY <1>2 DEF Produces, TypeInv, TypeOK, QueueTypeOK
  <2>2. produced \in 0 .. Size - 1
    BY <2>1, SizeIsNat
  <2>3. Len(pipe') = Len(pipe) + 1 /\ Len(pipe) \in Nat
    BY <1>1, <2>1, <2>2, ChunkFacts, AppendProperties
  <2>4. QED
    BY <1>1, <2>1, <2>3
<1>3. ASSUME pipe # <<>>, pipe' = Tail(pipe) PROVE Len(pipe') <= PipeSize
  <2>1. Len(pipe') = Len(pipe) - 1 /\ Len(pipe) \in Nat
    BY <1>1, <1>3, HeadTailProperties
  <2>2. QED
    BY <1>1, <2>1
<1>4. CASE pipe' = pipe
  BY <1>1, <1>4
<1>5. QED
  BY <1>2, <1>3, <1>4 DEF DataMoves, Rests, Drops, SendsOn, AcksOn, DeliversTo

LEMMA QueueTyped ==
  ASSUME TypeInv, DataMoves, AnswerMoves
  PROVE  QueueTypeOK' /\ back' \in Seq(Peers)
<1>1. back \in Seq(Peers) /\ answers \in Seq(Peers) /\ waiting \subseteq Peers
      /\ Len(answers) <= Cardinality(Peers)
  BY DEF TypeInv, TypeOK, QueueTypeOK, QueuesOK
<1>2. /\ back' \in Seq(Peers) /\ answers' \in Seq(Peers)
      /\ Len(answers') <= Cardinality(Peers)
  BY <1>1, AnswersKept
<1>3. waiting' \subseteq Peers
  BY <1>1 DEF AnswerMoves, AnswerRests, AnswerArrives, AnswerTaken, Answered
<1>4. QED
  BY <1>2, <1>3, DataTyped, PipeBounded DEF QueueTypeOK
-----------------------------------------------------------------------------
Scalars == SenderTypeOK /\ PipelineTypeOK /\ LinkTypeOK /\ ReceiverTypeOK

LEMMA ClosePeersTyped ==
  ASSUME LinkTypeOK, closePeers
  PROVE  dlink' \in [Peers -> {"none", "connecting", "open", "down", "lost"}]
         /\ peersClosed' \in BOOLEAN
BY DEF LinkTypeOK, closePeers, hungUp

LEMMA RunTyped ==
  ASSUME Scalars, runMulti \/ OnAddPeerAnswer \/ \E p \in Peers : makeOffer(p)
  PROVE  Scalars'
<1> USE DEF Scalars, SenderTypeOK, PipelineTypeOK, LinkTypeOK, ReceiverTypeOK,
            runMoves, runOnly, send, sendFails
<1>1. CASE preTransfer
  BY <1>1 DEF preTransfer
<1>2. CASE buildDataPeers
  BY <1>2 DEF buildDataPeers, all
<1>3. CASE takeAnswer
  BY <1>3, ClosePeersTyped DEF takeAnswer, cancelHandshake
<1>4. CASE negotiationFails
  BY <1>4, ClosePeersTyped DEF negotiationFails, cancelHandshake
<1>5. CASE allOpen
  BY <1>5 DEF allOpen, all
<1>6. CASE discardChunk \/ collectErrors
  BY <1>6 DEF discardChunk, collectErrors
<1>7. CASE flushData
  BY <1>7 DEF flushData
<1>8. CASE sendTransferComplete
  <2>0. sentComplete' \in {sentComplete, TRUE} /\ spc' \in {"flush", "close"}
        /\ UNCHANGED <<ctxDone, sessDone, start, peersClosed>>
        /\ UNCHANGED setupVars
    BY <1>8, Zenon DEF sendTransferComplete
  <2>1. SenderTypeOK'
    BY <2>0
  <2>2. PipelineTypeOK'
    BY <1>8 DEF sendTransferComplete
  <2>3. LinkTypeOK'
    BY <1>8 DEF sendTransferComplete
  <2>4. ReceiverTypeOK'
    BY <1>8 DEF sendTransferComplete
  <2>5. QED
    BY <2>1, <2>2, <2>3, <2>4
<1>9. CASE closeRun
  BY <1>9, ClosePeersTyped DEF closeRun
<1>10. CASE OnAddPeerAnswer
  <2>1. SenderTypeOK'
    BY <1>10 DEF OnAddPeerAnswer
  <2>2. PipelineTypeOK'
    BY <1>10 DEF OnAddPeerAnswer
  <2>3. LinkTypeOK'
    BY <1>10 DEF OnAddPeerAnswer
  <2>4. ReceiverTypeOK'
    BY <1>10 DEF OnAddPeerAnswer
  <2>5. QED
    BY <2>1, <2>2, <2>3, <2>4
<1>11. ASSUME NEW p \in Peers, makeOffer(p) PROVE Scalars'
  BY <1>11 DEF makeOffer
<1>12. CASE flush
  BY <1>12 DEF flush
<1>13. CASE sendAbort
  BY <1>13 DEF sendAbort
<1>14. QED
  BY <1>1, <1>2, <1>3, <1>4, <1>5, <1>6, <1>7, <1>8, <1>9, <1>10, <1>11, <1>12, <1>13
  DEF runMulti, negotiatePeers

LEMMA WorkTyped ==
  ASSUME Scalars, multiProduce \/ \E p \in Peers : multiWorker(p)
  PROVE  Scalars'
<1> USE DEF Scalars, SenderTypeOK, PipelineTypeOK, LinkTypeOK, ReceiverTypeOK,
            pipelineMoves
<1>1. CASE multiProduce
  BY <1>1 DEF multiProduce
<1>2. ASSUME NEW p \in Peers, sendChunk(p) PROVE Scalars'
  BY <1>2 DEF sendChunk, sendOn, sendOnFails, workerIs
<1>3. ASSUME NEW p \in Peers, multiWorker(p), ~sendChunk(p) PROVE Scalars'
  BY <1>3 DEF multiWorker, workerIs
<1>4. QED
  BY <1>1, <1>2, <1>3

LEMMA SenderTyped ==
  ASSUME Scalars, senderStart \/ signalingFails \/ linkLost \/ pathTimeout \/ waitDone
  PROVE  Scalars'
<1> USE DEF Scalars, SenderTypeOK, PipelineTypeOK, LinkTypeOK, ReceiverTypeOK,
            startMoves, hangUp
<1>1. CASE acceptAnswer
  BY <1>1 DEF acceptAnswer
<1>6. CASE startReturns \/ signalingFails
  <2>1. SenderTypeOK'
    BY <1>6 DEF startReturns, signalingFails, startEnds
  <2>2. PipelineTypeOK'
    BY <1>6 DEF startReturns, signalingFails, startEnds
  <2>3. LinkTypeOK'
    BY <1>6 DEF startReturns, signalingFails, startEnds
  <2>4. ReceiverTypeOK'
    BY <1>6 DEF startReturns, signalingFails, startEnds
  <2>5. QED
    BY <2>1, <2>2, <2>3, <2>4
<1>2. CASE watcherCloses
  BY <1>2, ClosePeersTyped DEF watcherCloses
<1>3. CASE iceFails
  BY <1>3 DEF iceFails
<1>4. CASE linkLost
  BY <1>4 DEF linkLost, ctrlMoves, dataMoves, netMoves
<1>5. CASE pathTimeout \/ waitDone
  BY <1>5 DEF pathTimeout, waitDone, receiverEnds
<1>7. QED
  BY <1>1, <1>2, <1>3, <1>4, <1>5, <1>6 DEF senderStart

LEMMA NetworkTyped == ASSUME Scalars, network PROVE Scalars'
<1> USE DEF Scalars, SenderTypeOK, PipelineTypeOK, LinkTypeOK, ReceiverTypeOK,
            ctrlMoves, dataMoves, netMoves
<1>1. CASE channelOpens \/ ack
  BY <1>1 DEF channelOpens, ack
<1>2. CASE senderNotified
  BY <1>2 DEF senderNotified
<1>6. CASE receiverNotified
  BY <1>6 DEF receiverNotified
<1>3. ASSUME NEW p \in Peers, dataOpens(p) PROVE Scalars'
  BY <1>3 DEF dataOpens
<1>4. ASSUME NEW p \in Peers, dataAck(p) \/ dataNotified(p) PROVE Scalars'
  BY <1>4 DEF dataAck, dataNotified
<1>7. QED
  BY <1>1, <1>2, <1>3, <1>4, <1>6 DEF network

LEMMA RouterTyped ==
  ASSUME Scalars, announced \/ router \/ failOnEarlyClose \/ verify \/ doneBody,
         QueuesOK
  PROVE  Scalars'
<1> USE DEF Scalars, SenderTypeOK, PipelineTypeOK, LinkTypeOK, ReceiverTypeOK
<1>1. CASE announced \/ readFrame \/ readEnds
  BY <1>1 DEF announced, readFrame, readEnds
<1>2. CASE OnMetadata
  BY <1>2 DEF OnMetadata, dispatched
<1>3. CASE OnAddPeerOffer
  BY <1>3 DEF OnAddPeerOffer, dispatched
<1>4. CASE OnTransferComplete
  <2>1. SenderTypeOK'
    BY <1>4 DEF OnTransferComplete, dispatched
  <2>2. PipelineTypeOK'
    BY <1>4 DEF OnTransferComplete, dispatched
  <2>3. LinkTypeOK'
    BY <1>4 DEF OnTransferComplete, dispatched
  <2>4. ReceiverTypeOK'
    BY <1>4 DEF OnTransferComplete, dispatched
  <2>5. QED
    BY <2>1, <2>2, <2>3, <2>4
<1>9. CASE OnAbort
  BY <1>9 DEF OnAbort, dispatched
<1>5. CASE failOnEarlyClose
  BY <1>5 DEF failOnEarlyClose
<1>6. CASE verify
  BY <1>6 DEF verify
<1>7. CASE cleanup /\ UNCHANGED <<sndVars, ctrlVars, dataReaderVars>>
  BY <1>7 DEF cleanup, hungUp
<1>8. CASE finish /\ UNCHANGED <<sndVars, ctrlVars, dataReaderVars>>
  BY <1>8 DEF finish
<1>10. QED
  BY <1>1, <1>2, <1>3, <1>4, <1>5, <1>6, <1>7, <1>8, <1>9 DEF router, doneBody

LEMMA PeerTyped ==
  ASSUME Scalars, NEW p \in Peers,
         \/ negotiateReceivePeer(p) \/ installDataPeer(p) \/ dataReader(p)
         \/ peerWatchLooks(p) \/ failOnPeerClose(p)
  PROVE  Scalars'
<1> USE DEF Scalars, SenderTypeOK, PipelineTypeOK, LinkTypeOK, ReceiverTypeOK,
            readerMoves, negMoves, closeSess, hungUp
<1>1. CASE createPeer(p)
  BY <1>1 DEF createPeer
<1>2. CASE acceptOffer(p)
  BY <1>2 DEF acceptOffer
<1>3. CASE answerOffer(p)
  BY <1>3 DEF answerOffer
<1>4. CASE installDataPeer(p)
  BY <1>4 DEF installDataPeer
<1>5. CASE onPeerData(p) \/ ingest(p) \/ diskFails(p)
  BY <1>5 DEF onPeerData, ingest, diskFails
<1>6. CASE peerReadEnds(p)
  BY <1>6 DEF peerReadEnds
<1>7. CASE peerWatchLooks(p) \/ failOnPeerClose(p)
  BY <1>7 DEF peerWatchLooks, failOnPeerClose
<1>8. QED
  BY <1>1, <1>2, <1>3, <1>4, <1>5, <1>6, <1>7 DEF negotiateReceivePeer, dataReader

LEMMA TypeInit == Init => TypeInv
<1> SUFFICES ASSUME Init PROVE TypeOK
  BY QueuesInit DEF TypeInv
<1>1. Scalars
  BY DEF Init, Scalars, SenderTypeOK, PipelineTypeOK, LinkTypeOK, ReceiverTypeOK, all
<1>2. QueueTypeOK
  <2>1. Cardinality(Peers) \in Nat /\ PipeSize \in Nat /\ Size \in Nat
    BY MultiPCAssumption, SizeIsNat, FS_CardinalityType
  <2>2. waiting = Peers /\ answers = <<>> /\ produced = 0 /\ pipe = <<>>
    BY DEF Init
  <2>3. QED
    BY <2>1, <2>2, Emptied DEF QueueTypeOK
<1>3. QED
  BY <1>1, <1>2 DEF TypeOK, Scalars

LEMMA TypeNext == ASSUME TypeInv, [Next]_vars PROVE TypeInv'
<1>1. QueueTypeOK' /\ QueuesOK' /\ MetaOK'
  BY StepData, StepCtrl, StepAnswers, StepLeads, QueueTyped, DataTyped, CtrlTyped,
     MetaTyped DEF QueuesOK
<1>2. Scalars
  BY DEF TypeInv, TypeOK, Scalars
<1>3. Scalars'
  <2>1. CASE UNCHANGED vars
    BY <1>2, <2>1 DEF vars, Scalars, SenderTypeOK, PipelineTypeOK, LinkTypeOK,
                      ReceiverTypeOK
  <2>2. QED
    BY <1>2, <2>1, RunTyped, WorkTyped, SenderTyped, NetworkTyped, RouterTyped,
       PeerTyped DEF TypeInv, Next, receiver
<1>4. QED
  BY <1>1, <1>3 DEF TypeInv, TypeOK, Scalars

(* Every variable keeps its type, whatever fails: no answer is lost in a full
   answerCh while one per peer is expected, `chunks` keeps to its capacity, and
   no read passes the end of the file. *)
THEOREM TypeCorrect == Spec => []TypeOK
<1>1. TypeInv /\ [Next]_vars => TypeInv'
  BY TypeNext
<1>2. TypeInv => TypeOK
  BY DEF TypeInv
<1>3. QED
  BY <1>1, <1>2, TypeInit, PTL DEF Spec
-----------------------------------------------------------------------------
(* A data channel is read only for a published peer. *)
PublishMoves ==
  \A p \in Peers :
    /\ p \in PublishedPeers => entry'[p] = "published"
    /\ neg'[p] \in {"accepting", "answering"} =>
         neg[p] \in {"accepting", "answering"} \/ entry'[p] = "published"
    /\ dlink'[p] = "open" => dlink[p] = "open" \/ p \notin waiting
    /\ dr'[p] # "off" => dr[p] # "off" \/ dlink[p] = "open"

Unpublishing == UNCHANGED <<entry, neg, dr>>
                  /\ \A p \in Peers : dlink'[p] = "open" => dlink[p] = "open"

LEMMA NothingPublished == ASSUME Unpublishing PROVE PublishMoves
BY DEF Unpublishing, PublishMoves, PublishedPeers

LEMMA ClosingOpensNothing ==
  ASSUME closePeers PROVE \A p \in Peers : dlink'[p] = "open" => dlink[p] = "open"
BY DEF closePeers, hungUp

LEMMA RunPublishes ==
  ASSUME \/ runMulti \/ OnAddPeerAnswer \/ multiProduce
         \/ \E p \in Peers : makeOffer(p) \/ multiWorker(p)
         \/ senderStart \/ signalingFails
  PROVE  Unpublishing
<1> USE DEF Unpublishing, runMoves, runOnly
<1>1. CASE preTransfer \/ buildDataPeers
  BY <1>1 DEF preTransfer, buildDataPeers, all
<1>2. ASSUME cancelHandshake PROVE Unpublishing
  BY <1>2, ClosingOpensNothing DEF cancelHandshake
<1>3. CASE takeAnswer \/ negotiationFails
  BY <1>2, <1>3 DEF takeAnswer, negotiationFails
<1>4. CASE allOpen \/ discardChunk \/ collectErrors
  BY <1>4 DEF allOpen, discardChunk, collectErrors
<1>5. CASE flushData \/ sendTransferComplete \/ sendAbort \/ flush
  BY <1>5 DEF flushData, sendTransferComplete, sendAbort, flush
<1>6. CASE closeRun
  BY <1>6, ClosingOpensNothing DEF closeRun
<1>7. CASE OnAddPeerAnswer \/ \E p \in Peers : makeOffer(p)
  BY <1>7 DEF OnAddPeerAnswer, makeOffer
<1>8. CASE multiProduce \/ \E p \in Peers : multiWorker(p)
  BY <1>8 DEF multiProduce, multiWorker, sendChunk, sendOn, sendOnFails, pipelineMoves
<1>9. CASE acceptAnswer \/ startReturns \/ signalingFails \/ iceFails
  BY <1>9 DEF acceptAnswer, startReturns, signalingFails, startEnds, iceFails,
              startMoves
<1>10. CASE watcherCloses
  BY <1>10, ClosingOpensNothing DEF watcherCloses, startMoves
<1>11. QED
  BY <1>1, <1>3, <1>4, <1>5, <1>6, <1>7, <1>8, <1>9, <1>10
  DEF runMulti, negotiatePeers, senderStart

LEMMA NetworkPublishes ==
  ASSUME TypeInv, network \/ linkLost PROVE PublishMoves
<1> USE NothingPublished DEF Unpublishing, netMoves, ctrlMoves, dataMoves
<1>1. CASE channelOpens \/ ack \/ senderNotified \/ receiverNotified
  BY <1>1 DEF channelOpens, ack, senderNotified, receiverNotified
<1>2. CASE linkLost
  BY <1>2 DEF linkLost, TypeInv, TypeOK, LinkTypeOK
<1>3. ASSUME NEW p \in Peers, dataOpens(p) PROVE PublishMoves
  BY <1>3 DEF dataOpens, PublishMoves, PublishedPeers, TypeInv, TypeOK, LinkTypeOK
<1>4. ASSUME NEW p \in Peers, dataAck(p) \/ dataNotified(p) PROVE PublishMoves
  BY <1>4 DEF dataAck, dataNotified
<1>5. QED
  BY <1>1, <1>2, <1>3, <1>4 DEF network

LEMMA ReceiverPublishes ==
  ASSUME TypeInv, receiver \/ pathTimeout PROVE PublishMoves
<1> USE NothingPublished DEF Unpublishing, readerMoves
<1>0. /\ entry \in [Peers -> {"none", "reserved", "published"}]
      /\ neg \in [Peers -> {"off", "creating", "accepting", "answering", "ended"}]
      /\ dr \in [Peers -> {"off", "reading", "ended"}]
      /\ dlink \in [Peers -> {"none", "connecting", "open", "down", "lost"}]
  BY DEF TypeInv, TypeOK, ReceiverTypeOK, LinkTypeOK
<1>1. CASE announced \/ waitDone \/ pathTimeout \/ readFrame \/ readEnds
  BY <1>1 DEF announced, waitDone, pathTimeout, receiverEnds, readFrame, readEnds
<1>2. CASE OnMetadata \/ OnTransferComplete \/ OnAbort
  BY <1>2 DEF OnMetadata, OnTransferComplete, OnAbort, dispatched
<1>3. CASE OnAddPeerOffer
  BY <1>0, <1>3 DEF OnAddPeerOffer, dispatched, PublishMoves, PublishedPeers
<1>4. CASE failOnEarlyClose \/ verify
  BY <1>4 DEF failOnEarlyClose, verify
<1>5. CASE doneBody
  BY <1>0, <1>5 DEF doneBody, cleanup, finish, hungUp
<1>6. ASSUME NEW p \in Peers, closeSess(p)
      PROVE  \A q \in Peers : dlink'[q] = "open" => dlink[q] = "open"
  BY <1>0, <1>6 DEF closeSess, hungUp
<1>7. ASSUME NEW p \in Peers, createPeer(p) PROVE PublishMoves
  BY <1>0, <1>7 DEF createPeer, negMoves, PublishMoves, PublishedPeers
<1>8. ASSUME NEW p \in Peers, acceptOffer(p) PROVE PublishMoves
  BY <1>0, <1>6, <1>8 DEF acceptOffer, negMoves, PublishMoves, PublishedPeers
<1>9. ASSUME NEW p \in Peers, answerOffer(p) PROVE PublishMoves
  BY <1>0, <1>6, <1>9 DEF answerOffer, negMoves, PublishMoves, PublishedPeers
<1>10. ASSUME NEW p \in Peers, installDataPeer(p) PROVE PublishMoves
  BY <1>0, <1>10 DEF installDataPeer, PublishMoves, PublishedPeers
<1>11. ASSUME NEW p \in Peers, peerReadEnds(p) PROVE PublishMoves
  BY <1>0, <1>11 DEF peerReadEnds, PublishMoves, PublishedPeers
<1>12. ASSUME NEW p \in Peers,
              \/ onPeerData(p) \/ ingest(p) \/ diskFails(p)
              \/ peerWatchLooks(p) \/ failOnPeerClose(p)
       PROVE  PublishMoves
  BY <1>12 DEF onPeerData, ingest, diskFails, peerWatchLooks, failOnPeerClose
<1>13. QED
  BY <1>1, <1>2, <1>3, <1>4, <1>5, <1>7, <1>8, <1>9, <1>10, <1>11, <1>12
  DEF receiver, router, negotiateReceivePeer, dataReader

LEMMA StepPublishes == ASSUME TypeInv, [Next]_vars PROVE PublishMoves
<1>1. CASE UNCHANGED vars
  BY <1>1, NothingPublished DEF vars, Unpublishing
<1>2. QED
  BY <1>1, RunPublishes, NetworkPublishes, ReceiverPublishes, NothingPublished DEF Next

LEMMA PublishedInit == Init => Published
BY Emptied DEF Init, Published, PublishedPeers, PeerIsPublished, all

LEMMA PublishedNext ==
  ASSUME Published, PublishMoves, AnswerMoves PROVE Published'
<1> DEFINE S == {p \in Peers : entry'[p] = "published"}
<1>1. PublishedPeers \subseteq S /\ PublishedPeers' = S
  BY DEF PublishMoves, PublishedPeers
<1>2. back \in Seq(S) /\ answers \in Seq(S) /\ Peers \ waiting \subseteq S
  BY <1>1 DEF Published
<1>3. \A p \in Peers : neg[p] = "answering" => p \in S
  BY <1>1 DEF Published
<1> HIDE DEF S
<1>4. back' \in Seq(S) /\ answers' \in Seq(S) /\ Peers \ waiting' \subseteq S
  BY <1>2, <1>3, AnswersKept
<1>5. \A p \in Peers : neg'[p] \in {"accepting", "answering"} => p \in S
  BY <1>1 DEF Published, PublishMoves, S
<1>6. waiting' \subseteq waiting
  BY DEF AnswerMoves, AnswerRests, AnswerArrives, AnswerTaken, Answered
<1>7. \A p \in Peers : dlink'[p] = "open" => p \notin waiting'
  BY <1>6 DEF Published, PublishMoves
<1>8. PeerIsPublished'
  BY <1>1, <1>2 DEF Published, PublishMoves, PeerIsPublished, PublishedPeers, S
<1>9. QED
  BY <1>1, <1>4, <1>5, <1>7, <1>8 DEF Published

LEMMA PublishedInv == Spec => []Published
<1>1. TypeInv /\ Published /\ [Next]_vars => (TypeInv /\ Published)'
  BY TypeNext, StepPublishes, StepAnswers, PublishedNext
<1>2. QED
  BY <1>1, TypeInit, PublishedInit, PTL DEF Spec

(* installDataPeer never meets a nil entry: by the time a data channel can open,
   the sender has accepted an answer, which was sent after the peer had been
   published, and no entry is ever taken back. *)
THEOREM PublishedBeforeRead == Spec => []PeerIsPublished
<1>1. Published => PeerIsPublished
  BY DEF Published
<1>2. QED
  BY <1>1, PublishedInv, PTL
-----------------------------------------------------------------------------
(* What a step may do to what was read and not yet sent. *)
Calm ==
  /\ UNCHANGED <<prod, produced, pipe, worker, sentCells>>
  /\ setUp' => setUp
  /\ spc' \in {"flushData", "complete"} => spc \in {"flushData", "complete"}
  /\ sentComplete' => sentComplete \/ spc = "complete"

WholeMoves ==
  \/ Calm \/ allOpen \/ multiProduce \/ discardChunk \/ collectErrors
  \/ \E p \in Peers : multiWorker(p)

LEMMA RunCalms ==
  ASSUME \/ preTransfer \/ buildDataPeers \/ takeAnswer \/ negotiationFails
         \/ flushData \/ sendTransferComplete \/ sendAbort \/ flush \/ closeRun
  PROVE  Calm
<1> USE DEF Calm, setUp, runMoves, runOnly
<1>1. CASE preTransfer \/ buildDataPeers
  BY <1>1 DEF preTransfer, buildDataPeers
<1>2. CASE takeAnswer \/ negotiationFails
  BY <1>2 DEF takeAnswer, negotiationFails, cancelHandshake
<1>3. CASE flushData
  BY <1>3 DEF flushData
<1>4. CASE sendTransferComplete
  BY <1>4, Zenon DEF sendTransferComplete
<1>5. CASE sendAbort \/ flush
  BY <1>5 DEF sendAbort, flush
<1>6. CASE closeRun
  BY <1>6 DEF closeRun
<1>7. QED
  BY <1>1, <1>2, <1>3, <1>4, <1>5, <1>6

LEMMA OtherCalms ==
  ASSUME \/ OnAddPeerAnswer \/ \E p \in Peers : makeOffer(p)
         \/ senderStart \/ signalingFails \/ network \/ linkLost
         \/ pathTimeout \/ receiver
  PROVE  Calm
<1>1. SUFFICES UNCHANGED <<prod, produced, pipe, worker, sentCells, spc, sentComplete>>
  BY DEF Calm, setUp
<1>2. CASE OnAddPeerAnswer \/ \E p \in Peers : makeOffer(p)
  BY <1>2 DEF OnAddPeerAnswer, makeOffer
<1>3. CASE senderStart \/ signalingFails
  BY <1>3 DEF senderStart, acceptAnswer, startReturns, signalingFails, startEnds,
              startMoves, watcherCloses, iceFails
<1>4. CASE network \/ linkLost
  BY <1>4 DEF network, channelOpens, ack, senderNotified, receiverNotified,
              dataOpens, dataAck, dataNotified, linkLost, ctrlMoves, dataMoves,
              netMoves
<1>5. CASE announced \/ waitDone \/ pathTimeout \/ readFrame \/ readEnds
  BY <1>5 DEF announced, waitDone, pathTimeout, receiverEnds, readFrame, readEnds
<1>6. CASE OnMetadata \/ OnAddPeerOffer \/ OnTransferComplete \/ OnAbort
  BY <1>6 DEF OnMetadata, OnAddPeerOffer, OnTransferComplete, OnAbort, dispatched
<1>7. CASE failOnEarlyClose \/ verify \/ doneBody
  BY <1>7 DEF failOnEarlyClose, verify, doneBody
<1>8. ASSUME NEW p \in Peers,
             \/ negotiateReceivePeer(p) \/ installDataPeer(p) \/ dataReader(p)
             \/ peerWatchLooks(p) \/ failOnPeerClose(p)
      PROVE  UNCHANGED sndVars
  BY <1>8 DEF negotiateReceivePeer, createPeer, acceptOffer, answerOffer, negMoves,
              installDataPeer, dataReader, onPeerData, ingest, diskFails,
              peerReadEnds, peerWatchLooks, failOnPeerClose, readerMoves
<1>9. QED
  BY <1>2, <1>3, <1>4, <1>5, <1>6, <1>7, <1>8 DEF receiver, router

LEMMA StepWhole == ASSUME [Next]_vars PROVE WholeMoves
<1>1. CASE UNCHANGED vars
  BY <1>1 DEF vars, Calm, setUp, WholeMoves
<1>2. QED
  BY <1>1, RunCalms, OtherCalms DEF Next, runMulti, negotiatePeers, WholeMoves

LEMMA WholeInit == Init => Whole
<1> SUFFICES ASSUME Init PROVE Whole
  OBVIOUS
<1>1. /\ prod = "off" /\ produced = 0 /\ spc = "pre" /\ ~sentComplete
      /\ \A p \in Peers : worker[p] = "off"
  BY DEF Init, all
<1>2. 0 .. 0 - 1 = {}
  OBVIOUS
<1>3. QED
  BY <1>1, <1>2 DEF Whole

\* No byte outside the file is ever sent, and none sent twice or unsent.
LEMMA SentWithin ==
  ASSUME TypeInv, Fresh, 0 .. Size - 1 \subseteq sentCells
  PROVE  sentCells = 0 .. Size - 1
<1>1. produced \in 0 .. Size /\ sentCells \subseteq 0 .. produced - 1
  BY DEF Fresh, TypeInv, TypeOK, QueueTypeOK
<1>2. 0 .. produced - 1 \subseteq 0 .. Size - 1
  BY <1>1, SizeIsNat
<1>3. QED
  BY <1>1, <1>2
LEMMA CalmWhole == ASSUME Whole, Calm PROVE Whole'
<1>1. CellsOf(pipe') = CellsOf(pipe)
  BY DEF Calm
<1>2. setUp' => prod' = "off" /\ produced' = 0
  BY DEF Whole, Calm
<1>3. (prod' = "ended" => produced' = Size)
      /\ \A p \in Peers : worker'[p] = "ended" =>
                            pipe' = <<>> /\ prod' \in {"ended", "failed"}
  BY DEF Whole, Calm
<1>4. (\A p \in Peers : worker'[p] # "failed")
        => 0 .. produced' - 1 \subseteq sentCells' \cup CellsOf(pipe')
  BY <1>1 DEF Whole, Calm
<1>5. spc' \in {"flushData", "complete"} \/ sentComplete' => sentCells' = 0 .. Size - 1
  <2>1. ASSUME spc' \in {"flushData", "complete"} PROVE sentCells' = 0 .. Size - 1
    BY <2>1 DEF Whole, Calm
  <2>2. ASSUME sentComplete' PROVE sentCells' = 0 .. Size - 1
    BY <2>2 DEF Whole, Calm
  <2>3. QED
    BY <2>1, <2>2
<1>6. (CellsOf(pipe))' = CellsOf(pipe')
  BY DEF CellsOf, Core!Cells
<1>7. QED
  BY <1>2, <1>3, <1>4, <1>5, <1>6 DEF Whole

\* Once everything was sent it stays so, because nothing more can be sent.
LEMMA SentStays ==
  ASSUME Whole, Fresh', TypeInv', sentCells \subseteq sentCells',
         UNCHANGED <<spc, sentComplete>>
  PROVE  spc' \in {"flushData", "complete"} \/ sentComplete' => sentCells' = 0 .. Size - 1
<1>1. SUFFICES ASSUME spc \in {"flushData", "complete"} \/ sentComplete
               PROVE  sentCells' = 0 .. Size - 1
  OBVIOUS
<1>2. sentCells = 0 .. Size - 1
  BY <1>1 DEF Whole
<1>3. produced' \in 0 .. Size /\ sentCells' \subseteq 0 .. produced' - 1
  BY DEF Fresh, TypeInv, TypeOK, QueueTypeOK
<1>4. \A n \in 0 .. Size : 0 .. n - 1 \subseteq 0 .. Size - 1
  BY SizeIsNat
<1>5. QED
  BY <1>2, <1>3, <1>4

LEMMA StartsWhole == ASSUME Whole, allOpen PROVE Whole'
<1>1. /\ produced = 0 /\ ~setUp' /\ prod' = "reading"
      /\ UNCHANGED <<produced, pipe, sentCells, sentComplete>>
      /\ spc' = "transfer" /\ \A p \in Peers : worker'[p] = "ready"
  BY DEF Whole, allOpen, setUp, runMoves, all
<1>2. 0 .. produced' - 1 = {}
  BY <1>1
<1>3. sentComplete' => sentCells' = 0 .. Size - 1
  BY <1>1 DEF Whole
<1>4. QED
  BY <1>1, <1>2, <1>3 DEF Whole

LEMMA ProducesWhole ==
  ASSUME TypeInv, Whole, Fresh', TypeInv', multiProduce PROVE Whole'
<1>1. /\ prod = "reading" /\ UNCHANGED <<worker, sentCells, spc, sentComplete>>
      /\ \A p \in Peers : worker'[p] # "ended"
  BY DEF Whole, multiProduce, pipelineMoves
<1>2. ~setUp'
  BY <1>1 DEF Whole, setUp
<1>3. produced \in Nat /\ produced \in 0 .. Size /\ Size \in Nat /\ pipe \in Seq(FileChunks)
  BY SizeIsNat DEF TypeInv, TypeOK, QueueTypeOK, QueuesOK
<1>4. (CellsOf(pipe))' = CellsOf(pipe')
  BY DEF CellsOf, Core!Cells
<1>5. /\ prod' = "ended" => produced' = Size
      /\ 0 .. produced - 1 \subseteq sentCells \cup CellsOf(pipe)
           => 0 .. produced' - 1 \subseteq sentCells' \cup CellsOf(pipe')
  <2>1. CASE Produces /\ prod' = IF produced + ChunkSize > Size THEN "ended" ELSE prod
    <3> DEFINE c == chunkAt(produced)
               n == Len(c.data)
    <3>1. produced \in 0 .. Size - 1
      BY <1>3, <2>1 DEF Produces
    <3>2. /\ c \in FileChunks /\ n \in Nat
          /\ produced + ChunkSize > Size => produced + n = Size
          /\ Core!Cells(c) = produced .. produced + n - 1
      BY <3>1, ChunkFacts
    <3>3. pipe' = Append(pipe, c) /\ produced' = produced + n
      BY <2>1 DEF Produces
    <3> HIDE DEF c, n
    <3>4. CellsOf(pipe') = CellsOf(pipe) \cup Core!Cells(c)
      BY <1>3, <3>2, <3>3, Appended
    <3>5. 0 .. produced' - 1 \subseteq (0 .. produced - 1) \cup Core!Cells(c)
      BY <1>3, <3>2, <3>3
    <3>6. prod' = "ended" => produced' = Size
      BY <1>1, <2>1, <3>2, <3>3
    <3>7. QED
      BY <1>1, <3>4, <3>5, <3>6
  <2>2. CASE UNCHANGED <<pipe, produced>> /\ (prod' = "ended" => produced = Size)
    BY <1>1, <2>2
  <2>3. QED
    BY <2>1, <2>2 DEF multiProduce, Produces, pipelineMoves
<1>6. spc' \in {"flushData", "complete"} \/ sentComplete' => sentCells' = 0 .. Size - 1
  BY <1>1, SentStays
<1>7. QED
  BY <1>1, <1>2, <1>4, <1>5, <1>6 DEF Whole

LEMMA WorksWhole ==
  ASSUME TypeInv, Whole, Fresh', TypeInv', NEW p \in Peers, multiWorker(p)
  PROVE  Whole'
<1>1. /\ UNCHANGED <<prod, produced, spc, sentComplete>>
      /\ worker \in [Peers -> {"off", "ready", "drain", "ended", "failed"}]
      /\ pipe \in Seq(FileChunks)
  BY DEF multiWorker, sendChunk, pipelineMoves, TypeInv, TypeOK, PipelineTypeOK, QueuesOK
<1>2. (CellsOf(pipe))' = CellsOf(pipe')
  BY DEF CellsOf, Core!Cells
<1>3. /\ (setUp' => prod' = "off" /\ produced' = 0)
      /\ (prod' = "ended" => produced' = Size)
  BY <1>1 DEF Whole, setUp
<1>4. CASE sendChunk(p)
  <2>1. pipe # <<>> /\ pipe' = Tail(pipe)
        /\ CellsOf(pipe) = Core!Cells(Head(pipe)) \cup CellsOf(pipe')
    BY <1>1, <1>4, Taken DEF sendChunk
  <2>2. /\ \A q \in Peers : q # p => worker'[q] = worker[q]
        /\ worker'[p] \in {"ready", "drain", "failed"}
        /\ worker[p] = "ready"
    BY <1>1, <1>4 DEF sendChunk, workerIs
  <2>3. \A q \in Peers : worker'[q] # "ended"
    BY <2>1, <2>2 DEF Whole
  <2>4. /\ sentCells \subseteq sentCells'
        /\ worker'[p] = "failed" \/ sentCells' = sentCells \cup Core!Cells(Head(pipe))
    BY <1>1, <1>4 DEF sendChunk, workerIs
  <2>5. ASSUME \A q \in Peers : worker'[q] # "failed"
        PROVE  0 .. produced' - 1 \subseteq sentCells' \cup CellsOf(pipe')
    <3>1. \A q \in Peers : worker[q] # "failed"
      BY <2>2, <2>5
    <3>2. 0 .. produced - 1 \subseteq sentCells \cup CellsOf(pipe)
      BY <3>1 DEF Whole
    <3>3. QED
      BY <1>1, <2>1, <2>4, <2>5, <3>2
  <2>6. spc' \in {"flushData", "complete"} \/ sentComplete' => sentCells' = 0 .. Size - 1
    BY <1>1, <2>4, SentStays
  <2>7. QED
    BY <1>2, <1>3, <2>3, <2>5, <2>6 DEF Whole
<1>5. CASE ~sendChunk(p)
  <2>1. UNCHANGED <<pipe, sentCells>>
    BY <1>5 DEF multiWorker
  <2>2. /\ \A q \in Peers : q # p => worker'[q] = worker[q]
        /\ worker[p] # "failed"
        /\ worker'[p] = "ended" => pipe = <<>> /\ prod \in {"ended", "failed"}
    BY <1>1, <1>5 DEF multiWorker, workerIs
  <2>3. \A q \in Peers : worker'[q] = "ended" =>
                           pipe' = <<>> /\ prod' \in {"ended", "failed"}
    BY <1>1, <2>1, <2>2 DEF Whole
  <2>4. (\A q \in Peers : worker'[q] # "failed")
          => 0 .. produced' - 1 \subseteq sentCells' \cup CellsOf(pipe')
    BY <1>1, <2>1, <2>2 DEF Whole
  <2>5. spc' \in {"flushData", "complete"} \/ sentComplete' => sentCells' = 0 .. Size - 1
    BY <1>1, <2>1, SentStays
  <2>6. QED
    BY <1>2, <1>3, <2>3, <2>4, <2>5 DEF Whole
<1>6. QED
  BY <1>4, <1>5

\* runMulti throws a chunk away only when every worker failed.
LEMMA DiscardsWhole == ASSUME Whole, discardChunk PROVE Whole'
<1>1. /\ \A p \in Peers : worker'[p] \in {"ended", "failed"} /\ worker[p] = worker'[p]
      /\ pipe # <<>> /\ UNCHANGED <<prod, produced, sentCells, sentComplete>>
      /\ spc' = "transfer"
  BY DEF discardChunk, joined, runMoves
<1>2. \A p \in Peers : worker'[p] = "failed"
  BY <1>1 DEF Whole
<1>3. \E p \in Peers : worker'[p] = "failed"
  BY <1>2, MultiPCAssumption
<1>4. sentComplete' => sentCells' = 0 .. Size - 1
  BY <1>1 DEF Whole
<1>5. ~setUp' /\ (prod' = "ended" => produced' = Size)
  BY <1>1 DEF Whole, setUp
<1>6. QED
  BY <1>1, <1>2, <1>3, <1>4, <1>5 DEF Whole

LEMMA CollectsWhole ==
  ASSUME TypeInv, Fresh, Whole, collectErrors PROVE Whole'
<1>1. /\ pipe = <<>> /\ UNCHANGED <<prod, produced, pipe, worker, sentCells, sentComplete>>
      /\ spc' \in {"abort", "flushData"}
      /\ spc' = "flushData" => prod = "ended" /\ \A p \in Peers : worker[p] # "failed"
  BY DEF collectErrors, joined, runOnly, runMoves
<1>2. ASSUME spc' = "flushData" PROVE sentCells = 0 .. Size - 1
  <2>1. produced = Size /\ 0 .. produced - 1 \subseteq sentCells \cup CellsOf(pipe)
    BY <1>1, <1>2 DEF Whole
  <2>2. 0 .. Size - 1 \subseteq sentCells
    BY <1>1, <2>1, Emptied
  <2>3. QED
    BY <2>2, SentWithin
<1>3. CellsOf(pipe') = CellsOf(pipe) /\ (CellsOf(pipe))' = CellsOf(pipe')
  BY <1>1 DEF CellsOf, Core!Cells
<1>4. ~setUp'
  BY <1>1 DEF setUp
<1>5. spc' \in {"flushData", "complete"} \/ sentComplete' => sentCells' = 0 .. Size - 1
  <2>1. sentComplete => sentCells = 0 .. Size - 1
    BY DEF Whole
  <2>2. QED
    BY <1>1, <1>2, <2>1
<1>6. /\ (prod' = "ended" => produced' = Size)
      /\ \A p \in Peers : worker'[p] = "ended" =>
                            pipe' = <<>> /\ prod' \in {"ended", "failed"}
      /\ (\A p \in Peers : worker'[p] # "failed")
           => 0 .. produced' - 1 \subseteq sentCells' \cup CellsOf(pipe')
  BY <1>1, <1>3 DEF Whole
<1>7. QED
  BY <1>3, <1>4, <1>5, <1>6 DEF Whole

LEMMA WholeNext ==
  ASSUME TypeInv, Fresh, Whole, [Next]_vars, TypeInv', Fresh'
  PROVE  Whole'
BY StepWhole, CalmWhole, StartsWhole, ProducesWhole, WorksWhole, DiscardsWhole,
   CollectsWhole DEF WholeMoves

(* The invariant of the sender's pipeline and of what it has under way. *)
LEMMA TransitInv == Spec => [](TypeInv /\ Fresh /\ Whole /\ Leading)
<1>1. Init => TypeInv /\ Fresh /\ Whole /\ Leading
  BY TypeInit, FreshInit, WholeInit, LeadingInit
<1>2. ASSUME TypeInv /\ Fresh /\ Whole /\ Leading, [Next]_vars
      PROVE  (TypeInv /\ Fresh /\ Whole /\ Leading)'
  <2>1. TypeInv' /\ Fresh' /\ Leading'
    BY <1>2, TypeNext, StepData, FreshNext, StepLeads, LeadingNext
  <2>2. QED
    BY <1>2, <2>1, WholeNext
<1>3. QED
  BY <1>1, <1>2, PTL DEF Spec

(* TRANSFER_COMPLETE says that every byte of the file was accepted by some data
   channel: a worker that fails, a chunk that is thrown away or a file that ends
   early each turn the transfer into an abort, in whatever order they meet. *)
THEOREM CompleteIsSent == Spec => []CompleteMeansSent
<1>1. Whole => CompleteMeansSent
  BY DEF Whole, CompleteMeansSent
<1>2. QED
  BY <1>1, TransitInv, PTL
-----------------------------------------------------------------------------
(* transferCore as the whole transfer uses it, and its theorems. *)
CoreProofs == INSTANCE TransferCore_proofs
                WITH Readers <- Peers, Verifiers <- {Verifier}, Wrap <- Size + 2,
                     Chunks <- FileChunks, Metas <- {metadata}, HasPath <- TRUE,
                     ExactlyOnce <- TRUE, MaxBytes <- Size + ChunkSize,
                     result <- IF result \in teardownErrors \cup
                                    {"abort", "peer-setup", "send-answer"}
                               THEN "client" ELSE result

clientErrors == teardownErrors \cup {"abort", "peer-setup", "send-answer"}

\* The assumptions of TransferCore hold of what the sender sends.
LEMMA CoreAssumptions ==
  /\ Size + 2 \in Nat \ {0} /\ Zero \in Byte /\ TRUE \in BOOLEAN
  /\ \A c \in FileChunks : /\ c.at \in 0 .. (Size + 2) - 1
                           /\ c.data \in Seq(Byte)
                           /\ Len(c.data) < Size + 2
  /\ NoChunk \notin FileChunks
  /\ \A m \in {metadata} : /\ m.known \in BOOLEAN
                           /\ m.size \in 0 .. (Size + 2) - 1
                           /\ m.sha \in [0 .. m.size - 1 -> Byte]
  /\ NoMeta \notin {metadata}
<1>1. Size \in Nat /\ Size + 2 \in Nat \ {0} /\ Source \in Seq(Byte)
  BY SizeIsNat, MultiPCAssumption
<1>2. ASSUME NEW c \in FileChunks
      PROVE  /\ c.at \in 0 .. (Size + 2) - 1 /\ c.data \in Seq(Byte)
             /\ Len(c.data) < Size + 2
  <2>1. PICK o \in 0 .. Size - 1 : c = chunkAt(o)
    BY DEF FileChunks
  <2> DEFINE n == Len(c.data)
  <2>2. c.at = o /\ c.data \in Seq(Byte) /\ n \in Nat /\ o + n <= Size
    BY <2>1, ChunkFacts
  <2> HIDE DEF n
  <2>3. o \in 0 .. (Size + 2) - 1 /\ n < Size + 2
    BY <1>1, <2>2
  <2>4. QED
    BY <2>2, <2>3 DEF n
<1>3. /\ metadata.known = TRUE /\ metadata.size = Size
      /\ metadata.sha = [o \in 0 .. Size - 1 |-> Source[o + 1]]
  BY DEF metadata
<1>4. metadata.size \in 0 .. (Size + 2) - 1
  BY <1>1, <1>3
<1>5. metadata.sha \in [0 .. metadata.size - 1 -> Byte]
  <2>1. \A o \in 0 .. Size - 1 : Source[o + 1] \in Byte
    BY <1>1 DEF Size
  <2>2. QED
    BY <1>3, <2>1, Zenon
<1>6. QED
  BY <1>1, <1>2, <1>3, <1>4, <1>5, MultiPCAssumption

LEMMA CoreSafety == CoreProofs!Spec => [](CoreProofs!TypeInv /\ CoreProofs!IInv)
BY CoreAssumptions, CoreProofs!Safety DEF CoreProofs!Offsets

LEMMA CoreSuccess == CoreProofs!Spec => []CoreProofs!OkMeansIntact
BY CoreAssumptions, CoreProofs!SuccessIsTrue DEF CoreProofs!Offsets
-----------------------------------------------------------------------------
(* Every step is a step of the core, as a sender that sends nothing twice drives
   it, or leaves it alone. *)
CoreStep == [Honest!Next]_(Honest!vars)

USE DEF Honest!vars, Honest!data, Honest!fileState, Honest!gateState, Honest!history

LEMMA CoreRests == ASSUME UNCHANGED coreVars PROVE CoreStep
BY DEF CoreStep

LEMMA CoreFails == ASSUME NEW why \in clientErrors, failCore(why) PROVE CoreStep
<1>1. CASE gate = "free"
  <2>1. Honest!clientFails("client")
    BY <1>1 DEF failCore, Core!clientFails, Core!fail, Honest!clientFails,
                Honest!fail, clientErrors
  <2>2. QED
    BY <2>1 DEF CoreStep, Honest!Next
<1>2. CASE gate # "free"
  BY <1>2, CoreRests DEF failCore
<1>3. QED
  BY <1>1, <1>2

\* A failure of the core's own is recorded as it is.
LEMMA CoreReason ==
  ASSUME NEW why, Core!fail(why), why \notin clientErrors
  PROVE  Honest!fail(why)
BY DEF Core!fail, Honest!fail, clientErrors

LEMMA MetadataStep == ASSUME OnMetadata PROVE CoreStep
<1>1. Honest!handleMetadata(metadata)
  BY CoreReason
  DEF OnMetadata, clientErrors, teardownErrors, Honest!handleMetadata,
      Core!metadataAccepted, Honest!metadataAccepted,
      Core!metadataRejected, Honest!metadataRejected,
      Core!truncateFails, Honest!truncateFails
<1>2. QED
  BY <1>1 DEF CoreStep, Honest!Next

LEMMA DeliverStep ==
  ASSUME TypeInv, Fresh, NEW p \in Peers, onPeerData(p) PROVE CoreStep
<1>1. drq[p] \in Seq(FileChunks) /\ drq[p] # <<>>
  BY DEF onPeerData, TypeInv, QueuesOK
<1>2. /\ Head(drq[p]) \in FileChunks
      /\ CellsOf(drq[p]) = Core!Cells(Head(drq[p])) \cup CellsOf(Tail(drq[p]))
  BY <1>1, Taken
<1>3. Core!Cells(Head(drq[p])) \cap arrived = {}
  BY <1>2 DEF Fresh, UnderWay
<1>4. Honest!deliver(p, Head(drq[p]))
  BY <1>3 DEF onPeerData, Core!deliver, Honest!deliver, Core!Cells, Honest!Cells
<1>5. QED
  BY <1>2, <1>4 DEF CoreStep, Honest!Next

LEMMA IngestStep ==
  ASSUME NEW p \in Peers, ingest(p) \/ diskFails(p) PROVE CoreStep
<1>1. ASSUME NEW why, Core!readerFails(p, why), why \notin clientErrors
      PROVE  Honest!readerFails(p, why)
  BY <1>1, CoreReason DEF Core!readerFails, Honest!readerFails
<1>2. \A why \in {"decode", "dataBeforeMetadata", "outOfBounds", "write"} :
        why \notin clientErrors
  BY Zenon DEF clientErrors, teardownErrors
<1>3. Honest!readerStep(p)
  <2> USE DEF Honest!readerStep
  <2>1. CASE Core!decodeFails(p) \/ Core!dataBeforeMetadata(p)
    BY <1>1, <1>2, <2>1 DEF Core!decodeFails, Core!dataBeforeMetadata,
                            Honest!decodeFails, Honest!dataBeforeMetadata
  <2>2. CASE Core!dataOutOfBounds(p) \/ Core!writeFails(p)
    BY <1>1, <1>2, <2>2 DEF Core!dataOutOfBounds, Core!writeFails, Core!inBounds,
                            Core!plus64, Honest!dataOutOfBounds, Honest!writeFails,
                            Honest!inBounds, Honest!plus64
  <2>3. CASE Core!writeChunk(p)
    BY <2>3 DEF Core!writeChunk, Core!inBounds, Core!plus64, Core!writeAt,
                Core!Cells, Core!Offsets, Honest!writeChunk, Honest!inBounds,
                Honest!plus64, Honest!writeAt, Honest!Cells, Honest!Offsets
  <2>4. CASE Core!countBytes(p)
    BY <2>4 DEF Core!countBytes, Core!Cells, Honest!countBytes, Honest!Cells
  <2>5. QED
    BY <2>1, <2>2, <2>3, <2>4 DEF ingest, diskFails
<1>4. QED
  BY <1>3 DEF CoreStep, Honest!Next

LEMMA VerifyStep == ASSUME verify PROVE CoreStep
<1>1. "excess" \notin clientErrors /\ "timeout" \notin clientErrors
  BY DEF clientErrors, teardownErrors
<1>2. Honest!verifierStep(Verifier)
  BY <1>1, CoreReason
  DEF verify, Honest!verifierStep, Core!seeAllBytes, Honest!seeAllBytes,
      Core!seeDone, Honest!seeDone, Core!done, Honest!done,
      Core!verifyTimeout, Honest!verifyTimeout, Core!claimVerify,
      Honest!claimVerify, Core!verifierFails, Honest!verifierFails,
      Core!verifierMoves, Honest!verifierMoves
<1>3. QED
  BY <1>2 DEF CoreStep, Honest!Next

LEMMA BodyStep == ASSUME doneBody PROVE CoreStep
<1> USE DEF Core!rest, Honest!rest, Core!bodyMoves, Honest!bodyMoves,
            Core!abortWith, Honest!abortWith, Core!matches, Honest!matches,
            Honest!doneBody, teardownErrors
<1>1. CASE Core!cleanup
  <2>1. Honest!doneBody
    BY <1>1 DEF Core!cleanup, Honest!cleanup
  <2>2. QED
    BY <2>1 DEF CoreStep, Honest!Next
<1>2. CASE finish
  <2>1. Honest!doneBody
    <3>1. CASE Core!sync \/ Core!syncFails
      BY <3>1 DEF Core!sync, Core!syncFails, Honest!sync, Honest!syncFails
    <3>2. CASE Core!verifyIntegrity \/ Core!integrityFails \/ Core!hashFails
      BY <3>2 DEF Core!verifyIntegrity, Core!integrityFails, Core!hashFails,
                  Honest!verifyIntegrity, Honest!integrityFails, Honest!hashFails
    <3>3. CASE Core!sinkClose \/ Core!abortClose
      BY <3>3 DEF Core!sinkClose, Core!abortClose, Honest!sinkClose,
                  Honest!abortClose
    <3>4. CASE Core!abortRemove \/ Core!closeDone
      BY <3>4 DEF Core!abortRemove, Core!closeDone, Honest!abortRemove,
                  Honest!closeDone
    <3>5. QED
      BY <1>2, <3>1, <3>2, <3>3, <3>4 DEF finish
  <2>2. QED
    BY <2>1 DEF CoreStep, Honest!Next
<1>3. QED
  BY <1>1, <1>2 DEF doneBody, cleanup

\* METADATA has been dispatched when TRANSFER_COMPLETE is.
LEMMA CompleteStep == ASSUME Leading, OnTransferComplete PROVE CoreStep
<1>1. meta # NoMeta
  BY DEF OnTransferComplete, holds, Leading
<1>2. Honest!startVerify(Verifier)
  BY <1>1 DEF OnTransferComplete, Core!verifyStarts, Core!verifierMoves,
              Honest!startVerify, Honest!verifyStarts, Honest!verifierMoves
<1>3. QED
  BY <1>2 DEF CoreStep, Honest!Next

LEMMA PeerStep ==
  ASSUME TypeInv, Fresh, NEW p \in Peers,
         \/ negotiateReceivePeer(p) \/ installDataPeer(p) \/ dataReader(p)
         \/ peerWatchLooks(p) \/ failOnPeerClose(p)
  PROVE  CoreStep
<1>1. {"peer-setup", "send-answer", "peer-OnFrames", "data-peer-closed"}
        \subseteq clientErrors
  BY DEF clientErrors, teardownErrors
<1>2. CASE negotiateReceivePeer(p)
  BY <1>1, <1>2, CoreRests, CoreFails
  DEF negotiateReceivePeer, createPeer, acceptOffer, answerOffer
<1>3. CASE installDataPeer(p) \/ peerWatchLooks(p) \/ failOnPeerClose(p)
  BY <1>1, <1>3, CoreRests, CoreFails
  DEF installDataPeer, peerWatchLooks, failOnPeerClose
<1>4. CASE dataReader(p)
  BY <1>1, <1>4, CoreRests, CoreFails, DeliverStep, IngestStep
  DEF dataReader, peerReadEnds
<1>5. QED
  BY <1>2, <1>3, <1>4

LEMMA SenderRests ==
  ASSUME \/ runMulti \/ OnAddPeerAnswer \/ multiProduce
         \/ \E p \in Peers : makeOffer(p) \/ multiWorker(p)
         \/ senderStart \/ signalingFails \/ network \/ linkLost \/ pathTimeout
  PROVE  UNCHANGED coreVars
<1> USE DEF runMoves, runOnly
<1>1. CASE preTransfer \/ buildDataPeers \/ takeAnswer \/ negotiationFails \/ allOpen
  BY <1>1 DEF preTransfer, buildDataPeers, takeAnswer, negotiationFails, allOpen,
              cancelHandshake
<1>2. CASE discardChunk \/ collectErrors \/ flushData
  BY <1>2 DEF discardChunk, collectErrors, flushData
<1>3. CASE sendTransferComplete \/ sendAbort \/ flush \/ closeRun
  BY <1>3 DEF sendTransferComplete, sendAbort, flush, closeRun
<1>4. CASE OnAddPeerAnswer \/ \E p \in Peers : makeOffer(p)
  BY <1>4 DEF OnAddPeerAnswer, makeOffer
<1>5. CASE multiProduce \/ \E p \in Peers : multiWorker(p)
  BY <1>5 DEF multiProduce, multiWorker, sendChunk, pipelineMoves
<1>6. CASE senderStart \/ signalingFails
  BY <1>6 DEF senderStart, acceptAnswer, startReturns, signalingFails, startEnds,
              startMoves, watcherCloses, iceFails
<1>7. CASE network \/ linkLost
  BY <1>7 DEF network, channelOpens, ack, senderNotified, receiverNotified,
              dataOpens, dataAck, dataNotified, linkLost, ctrlMoves, dataMoves,
              netMoves
<1>8. CASE pathTimeout
  BY <1>8 DEF pathTimeout, receiverEnds
<1>9. QED
  BY <1>1, <1>2, <1>3, <1>4, <1>5, <1>6, <1>7, <1>8 DEF runMulti, negotiatePeers

LEMMA StepIsCore ==
  ASSUME TypeInv, Fresh, Leading, [Next]_vars PROVE CoreStep
<1>1. {"abort", "control-closed"} \subseteq clientErrors
  BY DEF clientErrors, teardownErrors
<1>2. CASE announced \/ waitDone \/ readFrame \/ readEnds \/ OnAddPeerOffer
  <2>1. UNCHANGED coreVars
    BY <1>2 DEF announced, waitDone, receiverEnds, readFrame, readEnds, OnAddPeerOffer
  <2>2. QED
    BY <2>1, CoreRests
<1>3. CASE OnAbort \/ failOnEarlyClose
  BY <1>1, <1>3, CoreFails DEF OnAbort, failOnEarlyClose
<1>4. CASE UNCHANGED vars
  <2>1. UNCHANGED coreVars
    BY <1>4 DEF vars
  <2>2. QED
    BY <2>1, CoreRests
<1>5. QED
  BY <1>2, <1>3, <1>4, SenderRests, CoreRests, MetadataStep, CompleteStep,
     VerifyStep, BodyStep, PeerStep DEF Next, receiver, router

(* However many data channels share the file, however their chunks interleave
   and whatever fails, the transfer takes transferCore only through steps its
   own specification allows for a sender that sends no byte twice. *)
THEOREM UsesCoreAsMeant == Spec => ImplementsCore
<1>1. Init => Honest!Init
  BY DEF Init, Core!Init, Honest!Init, Core!Offsets, Honest!Offsets, teardownErrors
<1>2. ASSUME TypeInv /\ Fresh /\ Whole /\ Leading, [Next]_vars
      PROVE  [Honest!Next]_(Honest!vars)
  BY <1>2, StepIsCore DEF CoreStep
<1>3. QED
  BY <1>1, <1>2, TransitInv, PTL DEF Spec, ImplementsCore, Honest!Spec

\* The same module under two names, definition by definition.
LEMMA SameCore == Honest!Spec => CoreProofs!Spec
<1>1. Honest!Init => CoreProofs!Init
  BY DEF Honest!Init, CoreProofs!Init, Honest!Offsets, CoreProofs!Offsets
<1>2. [Honest!Next]_(Honest!vars) => [CoreProofs!Next]_(CoreProofs!vars)
  BY Zenon
  DEF Honest!Next, Honest!clientFails, Honest!fail, Honest!handleMetadata,
      Honest!metadataRejected, Honest!metadataAccepted,
      Honest!truncateFails, Honest!deliver, Honest!readerStep,
      Honest!decodeFails, Honest!dataBeforeMetadata, Honest!dataOutOfBounds,
      Honest!writeFails, Honest!writeChunk, Honest!countBytes,
      Honest!readerFails, Honest!inBounds, Honest!plus64, Honest!writeAt,
      Honest!Cells, Honest!Offsets, Honest!startVerify,
      Honest!verifyBeforeMetadata, Honest!verifyStarts, Honest!verifierStep,
      Honest!seeAllBytes, Honest!seeDone, Honest!verifyTimeout,
      Honest!claimVerify, Honest!verifierFails, Honest!verifierMoves,
      Honest!done, Honest!doneBody, Honest!cleanup, Honest!sync,
      Honest!syncFails, Honest!verifyIntegrity, Honest!integrityFails,
      Honest!hashFails, Honest!sinkClose, Honest!abortClose,
      Honest!abortRemove, Honest!closeDone, Honest!bodyMoves,
      Honest!abortWith, Honest!matches, Honest!rest, Honest!data,
      Honest!fileState, Honest!gateState, Honest!history, Honest!vars,
      CoreProofs!Next, CoreProofs!clientFails, CoreProofs!fail,
      CoreProofs!handleMetadata, CoreProofs!metadataRejected,
      CoreProofs!metadataAccepted, CoreProofs!truncateFails,
      CoreProofs!deliver, CoreProofs!readerStep, CoreProofs!decodeFails,
      CoreProofs!dataBeforeMetadata, CoreProofs!dataOutOfBounds,
      CoreProofs!writeFails, CoreProofs!writeChunk, CoreProofs!countBytes,
      CoreProofs!readerFails, CoreProofs!inBounds, CoreProofs!plus64,
      CoreProofs!writeAt, CoreProofs!Cells, CoreProofs!Offsets,
      CoreProofs!startVerify, CoreProofs!verifyBeforeMetadata,
      CoreProofs!verifyStarts, CoreProofs!verifierStep,
      CoreProofs!seeAllBytes, CoreProofs!seeDone, CoreProofs!verifyTimeout,
      CoreProofs!claimVerify, CoreProofs!verifierFails,
      CoreProofs!verifierMoves, CoreProofs!done, CoreProofs!doneBody,
      CoreProofs!cleanup, CoreProofs!sync, CoreProofs!syncFails,
      CoreProofs!verifyIntegrity, CoreProofs!integrityFails,
      CoreProofs!hashFails, CoreProofs!sinkClose, CoreProofs!abortClose,
      CoreProofs!abortRemove, CoreProofs!closeDone, CoreProofs!bodyMoves,
      CoreProofs!abortWith, CoreProofs!matches, CoreProofs!rest,
      CoreProofs!data, CoreProofs!fileState, CoreProofs!gateState,
      CoreProofs!history, CoreProofs!vars
<1>3. QED
  BY <1>1, <1>2, PTL DEF Honest!Spec, CoreProofs!Spec

LEMMA TypeAlways == Spec => []TypeInv
BY TransitInv, PTL

(* A receiver that reports success holds, in a closed file, exactly the sender's
   bytes, by whichever channels and in whichever order they came. *)
THEOREM Faithful == Spec => []SuccessIsFaithful
<1>1. ASSUME TypeInv, CoreProofs!OkMeansIntact PROVE SuccessIsFaithful
  <2>1. SUFFICES ASSUME Core!done, result = "nil"
                 PROVE  /\ Core!Intact
                        /\ \A o \in 0 .. Size - 1 : contents[o] = Source[o + 1]
    BY DEF SuccessIsFaithful
  <2>2. Core!Intact
    BY <1>1, <2>1
    DEF CoreProofs!OkMeansIntact, CoreProofs!Intact, CoreProofs!done,
        CoreProofs!matches, Core!Intact, Core!done, Core!matches, teardownErrors
  <2>3. meta = metadata /\ \A o \in 0 .. meta.size - 1 : contents[o] = meta.sha[o]
    BY <1>1, <2>2 DEF TypeInv, MetaOK, Core!Intact, Core!matches
  <2>4. meta.size = Size /\ meta.sha = [o \in 0 .. Size - 1 |-> Source[o + 1]]
    BY <2>3 DEF metadata
  <2>5. QED
    BY <2>2, <2>3, <2>4
<1>2. QED
  BY <1>1, TypeAlways, UsesCoreAsMeant, SameCore, CoreSuccess, PTL DEF ImplementsCore
-----------------------------------------------------------------------------
(* No fault is undone, doneOnce runs once, and a receiver that gave up has. *)
Grows ==
  /\ causes \subseteq causes'
  /\ gate # "free" => gate' # "free"
  /\ rmain = "gaveUp" => rmain' = "gaveUp"

LEMMA ReceiverRests == ASSUME receiver PROVE UNCHANGED sndVars
<1>1. CASE announced \/ waitDone \/ readFrame \/ readEnds
  BY <1>1 DEF announced, waitDone, receiverEnds, readFrame, readEnds
<1>2. CASE OnMetadata \/ OnAddPeerOffer \/ OnTransferComplete \/ OnAbort
  BY <1>2 DEF OnMetadata, OnAddPeerOffer, OnTransferComplete, OnAbort, dispatched
<1>3. CASE failOnEarlyClose \/ verify \/ doneBody
  BY <1>3 DEF failOnEarlyClose, verify, doneBody
<1>4. ASSUME NEW p \in Peers,
             \/ negotiateReceivePeer(p) \/ installDataPeer(p) \/ dataReader(p)
             \/ peerWatchLooks(p) \/ failOnPeerClose(p)
      PROVE  UNCHANGED sndVars
  BY <1>4 DEF negotiateReceivePeer, createPeer, acceptOffer, answerOffer, negMoves,
              installDataPeer, dataReader, onPeerData, ingest, diskFails,
              peerReadEnds, peerWatchLooks, failOnPeerClose, readerMoves
<1>5. QED
  BY <1>1, <1>2, <1>3, <1>4 DEF receiver, router

LEMMA InjectGrows == /\ \A f : inject(f) => causes \subseteq causes'
                     /\ \A b : timerFires(b) => causes \subseteq causes'
BY DEF inject, timerFires

LEMMA SenderGrows ==
  ASSUME \/ runMulti \/ OnAddPeerAnswer \/ multiProduce
         \/ \E p \in Peers : makeOffer(p) \/ multiWorker(p)
         \/ senderStart \/ signalingFails
  PROVE  Grows
<1>1. UNCHANGED coreVars
  BY SenderRests
<1>2. SUFFICES causes \subseteq causes' /\ UNCHANGED rmain
  BY <1>1 DEF Grows
<1> USE InjectGrows DEF runMoves, runOnly
<1>3. CASE preTransfer \/ buildDataPeers \/ allOpen
  BY <1>3 DEF preTransfer, buildDataPeers, allOpen
<1>4. CASE takeAnswer \/ negotiationFails
  BY <1>4 DEF takeAnswer, negotiationFails, cancelHandshake
<1>5. CASE discardChunk \/ collectErrors \/ flushData
  BY <1>5 DEF discardChunk, collectErrors, flushData
<1>6. CASE sendTransferComplete \/ sendAbort \/ flush \/ closeRun
  BY <1>6 DEF sendTransferComplete, sendAbort, flush, closeRun
<1>7. CASE OnAddPeerAnswer \/ \E p \in Peers : makeOffer(p)
  BY <1>7 DEF OnAddPeerAnswer, makeOffer
<1>8. CASE multiProduce \/ \E p \in Peers : multiWorker(p)
  BY <1>8 DEF multiProduce, multiWorker, sendChunk, pipelineMoves
<1>9. CASE senderStart \/ signalingFails
  BY <1>9 DEF senderStart, acceptAnswer, startReturns, signalingFails, startEnds,
              startMoves, watcherCloses, iceFails
<1>10. QED
  BY <1>3, <1>4, <1>5, <1>6, <1>7, <1>8, <1>9 DEF runMulti, negotiatePeers

LEMMA NetworkGrows == ASSUME network \/ linkLost \/ pathTimeout PROVE Grows
<1>1. UNCHANGED coreVars
  BY SenderRests
<1>2. SUFFICES causes \subseteq causes' /\ (rmain = "gaveUp" => rmain' = "gaveUp")
  BY <1>1 DEF Grows
<1> USE InjectGrows
<1>3. CASE network
  BY <1>3 DEF network, channelOpens, ack, senderNotified, receiverNotified,
              dataOpens, dataAck, dataNotified, ctrlMoves, dataMoves, netMoves
<1>4. CASE linkLost
  BY <1>4 DEF linkLost, ctrlMoves, dataMoves, netMoves
<1>5. CASE pathTimeout
  BY <1>5 DEF pathTimeout, receiverEnds
<1>6. QED
  BY <1>3, <1>4, <1>5

LEMMA FailGrows ==
  ASSUME NEW why, failCore(why) PROVE gate' # "free" /\ (gate # "free" => UNCHANGED coreVars)
BY DEF failCore, Core!clientFails, Core!fail

LEMMA FailedGate == ASSUME NEW why, Core!fail(why) PROVE gate' # "free"
BY DEF Core!fail

LEMMA ReceiverGrows == ASSUME receiver PROVE Grows
<1> USE InjectGrows DEF Grows, readerMoves
<1>1. CASE announced \/ waitDone \/ readFrame \/ readEnds
  BY <1>1 DEF announced, waitDone, receiverEnds, readFrame, readEnds
<1>2. CASE OnMetadata
  BY <1>2, FailedGate DEF OnMetadata, Core!metadataAccepted, Core!metadataRejected,
              Core!truncateFails, dispatched
<1>3. CASE OnAddPeerOffer \/ OnTransferComplete \/ OnAbort
  BY <1>3, FailGrows DEF OnAddPeerOffer, OnTransferComplete, OnAbort,
              Core!verifyStarts, Core!verifierMoves, dispatched
<1>4. CASE failOnEarlyClose
  BY <1>4, FailGrows DEF failOnEarlyClose
<1>5. CASE verify
  BY <1>5, FailedGate DEF verify, Core!seeAllBytes, Core!seeDone, Core!claimVerify,
              Core!verifyTimeout, Core!verifierFails, Core!verifierMoves
<1>6. CASE doneBody
  <2>1. CASE cleanup
    BY <2>1 DEF cleanup, Core!cleanup
  <2>2. CASE finish /\ UNCHANGED dataReaderVars
    BY <2>2 DEF finish, Core!sync, Core!syncFails, Core!verifyIntegrity,
                Core!integrityFails, Core!hashFails, Core!sinkClose,
                Core!abortClose, Core!abortRemove, Core!closeDone, Core!bodyMoves,
                Core!abortWith, Core!rest
  <2>3. QED
    BY <1>6, <2>1, <2>2 DEF doneBody
<1>7. ASSUME NEW p \in Peers, negotiateReceivePeer(p) PROVE Grows
  BY <1>7, FailGrows DEF negotiateReceivePeer, createPeer, acceptOffer,
                           answerOffer, negMoves
<1>8. ASSUME NEW p \in Peers, ingest(p) \/ diskFails(p) PROVE Grows
  BY <1>8, FailedGate
  DEF ingest, diskFails, Core!decodeFails, Core!dataBeforeMetadata,
      Core!dataOutOfBounds, Core!writeFails, Core!readerFails, Core!writeChunk,
      Core!countBytes
<1>9. ASSUME NEW p \in Peers,
             \/ installDataPeer(p) \/ onPeerData(p) \/ peerReadEnds(p)
             \/ peerWatchLooks(p) \/ failOnPeerClose(p)
      PROVE  Grows
  BY <1>9, FailGrows DEF installDataPeer, onPeerData, Core!deliver, peerReadEnds,
              peerWatchLooks, failOnPeerClose
<1>10. QED
  BY <1>1, <1>2, <1>3, <1>4, <1>5, <1>6, <1>7, <1>8, <1>9
  DEF receiver, router, dataReader

LEMMA StepGrows == ASSUME [Next]_vars PROVE Grows
<1>1. CASE UNCHANGED vars
  BY <1>1 DEF vars, Grows
<1>2. QED
  BY <1>1, SenderGrows, NetworkGrows, ReceiverGrows DEF Next
-----------------------------------------------------------------------------
(* What the core's theorems say of its counter. *)
Counting ==
  /\ contents \in [Core!Offsets -> Byte] /\ counted \in SUBSET Nat
  /\ rd \in [Peers -> {"idle", "ingest", "count", "stopped"}]
  /\ chunk \in [Peers -> FileChunks \cup {NoChunk}]
  /\ vf \in [{Verifier} -> {"off", "waiting", "claiming", "stopped"}]
  /\ bytesWritten = Cardinality(counted) /\ allBytes \in BOOLEAN
  /\ \A p \in Peers : rd[p] \in {"ingest", "count"} => chunk[p] \in FileChunks
  /\ meta = NoMeta => counted = {}
  /\ meta # NoMeta => counted \subseteq 0 .. meta.size - 1
  /\ allBytes => meta # NoMeta /\ counted = 0 .. meta.size - 1
  /\ gate \in {"verifying", "syncing", "hashing"} => allBytes
  /\ gate = "free" => sinkOpen /\ result = "nil"

LEMMA SameCardinality == ASSUME NEW S PROVE CoreProofs!Cardinality(S) = Cardinality(S)
BY Zenon DEF CoreProofs!Cardinality, Cardinality

LEMMA CountingInv == Spec => []Counting
<1>1. ASSUME CoreProofs!TypeInv, CoreProofs!IInv PROVE Counting
  <2> USE <1>1
  <2>1. /\ contents \in [Core!Offsets -> Byte] /\ counted \in SUBSET Nat
        /\ rd \in [Peers -> {"idle", "ingest", "count", "stopped"}]
        /\ chunk \in [Peers -> FileChunks \cup {NoChunk}]
        /\ vf \in [{Verifier} -> {"off", "waiting", "claiming", "stopped"}]
        /\ allBytes \in BOOLEAN
    BY Zenon DEF CoreProofs!TypeInv, CoreProofs!TypeOK, Core!Offsets, CoreProofs!Offsets
  <2>2. \A p \in Peers : rd[p] \in {"ingest", "count"} => chunk[p] \in FileChunks
    BY DEF CoreProofs!IInv, CoreProofs!Holding
  <2>3. /\ bytesWritten = Cardinality(counted)
        /\ meta = NoMeta => counted = {}
        /\ meta # NoMeta => counted \subseteq 0 .. meta.size - 1
    BY SameCardinality DEF CoreProofs!IInv, CoreProofs!Accounting
  <2>4. allBytes => meta # NoMeta /\ counted = 0 .. meta.size - 1
    BY DEF CoreProofs!IInv, CoreProofs!AllBytesMeansCovered
  <2>5. gate \in {"verifying", "syncing", "hashing"} => allBytes
    BY DEF CoreProofs!IInv, CoreProofs!Awaited
  <2>6. gate = "free" => sinkOpen /\ result = "nil"
    BY DEF CoreProofs!IInv, CoreProofs!GateInv, teardownErrors
  <2>7. QED
    BY <2>1, <2>2, <2>3, <2>4, <2>5, <2>6 DEF Counting
<1>2. QED
  BY <1>1, UsesCoreAsMeant, SameCore, CoreSafety, PTL DEF ImplementsCore
-----------------------------------------------------------------------------
(* What a step may do to the readers and to what they have taken. *)
DeliversChunk(p) ==
  /\ dr[p] = "reading" /\ rd[p] = "idle" /\ drq[p] # <<>>
  /\ rd' = [rd EXCEPT ![p] = "ingest"]
  /\ chunk' = [chunk EXCEPT ![p] = Head(drq[p])]
  /\ arrived' = arrived \cup Core!Cells(Head(drq[p]))
  /\ UNCHANGED <<contents, counted, meta, allBytes>>

Refuses(p) ==
  /\ rd[p] = "ingest"
  /\ rd' = [rd EXCEPT ![p] = "stopped"]
  /\ chunk' = [chunk EXCEPT ![p] = NoChunk]
  /\ gate' # "free"
  /\ UNCHANGED <<contents, counted, arrived, meta, allBytes>>

Writes(p) ==
  /\ rd[p] = "ingest" /\ meta # NoMeta
  /\ rd' = [rd EXCEPT ![p] = "count"]
  /\ Core!writeAt(chunk[p])
  /\ UNCHANGED <<chunk, counted, arrived, meta, allBytes>>

Counts(p) ==
  /\ rd[p] = "count"
  /\ rd' = [rd EXCEPT ![p] = "idle"]
  /\ chunk' = [chunk EXCEPT ![p] = NoChunk]
  /\ counted' = counted \cup Core!Cells(chunk[p])
  /\ bytesWritten' >= meta.size => allBytes'
  /\ allBytes => allBytes'
  /\ UNCHANGED <<contents, arrived, meta>>

Waits ==
  /\ UNCHANGED <<rd, chunk, contents, counted, arrived>>
  /\ allBytes => allBytes'
  /\ meta' # meta => /\ meta = NoMeta
                     /\ gate' # "free" \/ (meta'.size = 0 => allBytes')

ReaderKinds(p) == DeliversChunk(p) \/ Refuses(p) \/ Writes(p) \/ Counts(p)

CoreKinds == (Waits \/ \E p \in Peers : ReaderKinds(p))
               /\ (vf'[Verifier] # "off" =>
                     vf[Verifier] # "off" \/ (hand # NoFrame /\ hand.type = "TRANSFER_COMPLETE"))

LEMMA FailWaits ==
  ASSUME NEW why, failCore(why)
  PROVE  UNCHANGED <<rd, chunk, contents, counted, arrived, allBytes, meta, vf>>
BY DEF failCore, Core!clientFails

LEMMA StepCore == ASSUME [Next]_vars PROVE CoreKinds
<1> USE DEF CoreKinds
<1>1. ASSUME UNCHANGED <<rd, chunk, contents, counted, arrived, allBytes, meta, vf>>
      PROVE  CoreKinds
  BY <1>1, Zenon DEF Waits
<1>2. CASE ~receiver
  <2>1. UNCHANGED coreVars
    BY <1>2, SenderRests DEF Next, vars
  <2>2. QED
    BY <1>1, <2>1
<1>3. CASE announced \/ waitDone \/ readFrame \/ readEnds \/ OnAddPeerOffer
  <2>1. UNCHANGED coreVars
    BY <1>3 DEF announced, waitDone, receiverEnds, readFrame, readEnds, OnAddPeerOffer
  <2>2. QED
    BY <1>1, <2>1
<1>4. CASE OnMetadata
  <2>1. CASE Core!metadataAccepted(metadata)
    BY <1>4, <2>1 DEF Core!metadataAccepted, Waits
  <2>2. CASE Core!metadataRejected(metadata)
    BY <1>4, <2>2 DEF Core!metadataRejected, Waits
  <2>3. CASE Core!truncateFails(metadata)
    BY <1>4, <2>3, FailedGate DEF Core!truncateFails, Waits
  <2>4. QED
    BY <1>4, <2>1, <2>2, <2>3 DEF OnMetadata
<1>5. CASE OnTransferComplete
  BY <1>5, FailWaits DEF OnTransferComplete, holds, Core!verifyStarts, Core!verifierMoves, Waits
<1>6. CASE OnAbort \/ failOnEarlyClose
  BY <1>1, <1>6, FailWaits DEF OnAbort, failOnEarlyClose
<1>7. CASE verify
  BY <1>7 DEF verify, Core!seeAllBytes, Core!seeDone, Core!claimVerify,
              Core!verifyTimeout, Core!verifierFails, Core!verifierMoves, Waits
<1>8. CASE doneBody
  <2>1. CASE cleanup
    BY <1>1, <2>1 DEF cleanup, Core!cleanup, Core!rest
  <2>2. CASE finish
    BY <1>1, <2>2 DEF finish, Core!sync, Core!syncFails, Core!verifyIntegrity,
                Core!integrityFails, Core!hashFails, Core!sinkClose,
                Core!abortClose, Core!abortRemove, Core!closeDone, Core!bodyMoves,
                Core!abortWith, Core!rest
  <2>3. QED
    BY <1>8, <2>1, <2>2 DEF doneBody
<1>9. ASSUME NEW p \in Peers, negotiateReceivePeer(p) PROVE CoreKinds
  BY <1>1, <1>9, FailWaits DEF negotiateReceivePeer, createPeer, acceptOffer, answerOffer
<1>10. ASSUME NEW p \in Peers,
              \/ installDataPeer(p) \/ peerReadEnds(p)
              \/ peerWatchLooks(p) \/ failOnPeerClose(p)
       PROVE  CoreKinds
  BY <1>1, <1>10, FailWaits DEF installDataPeer, peerReadEnds, peerWatchLooks, failOnPeerClose
<1>11. ASSUME NEW p \in Peers, onPeerData(p) PROVE CoreKinds
  BY <1>11 DEF onPeerData, Core!deliver, DeliversChunk, ReaderKinds
<1>12. ASSUME NEW p \in Peers, ingest(p) \/ diskFails(p) PROVE CoreKinds
  <2>1. ASSUME \/ Core!decodeFails(p) \/ Core!dataBeforeMetadata(p)
               \/ Core!dataOutOfBounds(p) \/ Core!writeFails(p)
        PROVE  CoreKinds
    BY <2>1, FailedGate
    DEF Core!decodeFails, Core!dataBeforeMetadata, Core!dataOutOfBounds,
        Core!writeFails, Core!readerFails, Refuses, ReaderKinds
  <2>2. CASE Core!writeChunk(p)
    BY <2>2 DEF Core!writeChunk, Writes, ReaderKinds
  <2>3. CASE Core!countBytes(p)
    <3>1. UNCHANGED vf
      BY <2>3 DEF Core!countBytes
    <3>2. Counts(p)
      BY <2>3 DEF Core!countBytes, Counts
    <3>3. QED
      BY <3>1, <3>2 DEF ReaderKinds
  <2>4. QED
    BY <1>12, <2>1, <2>2, <2>3 DEF ingest, diskFails
<1>13. QED
  BY <1>2, <1>3, <1>4, <1>5, <1>6, <1>7, <1>8, <1>9, <1>10, <1>11, <1>12
  DEF receiver, router, dataReader
-----------------------------------------------------------------------------
(* The frames of a queue, and where METADATA may be in it. *)
Types(q) == {q[i].type : i \in 1 .. Len(q)}

Ordered(q) == \A i \in 1 .. Len(q) : q[i].type = "METADATA" => i = 1

frames == Types(out) \cup Types(rq) \cup (IF hand = NoFrame THEN {} ELSE {hand.type})

LEMMA OrderAppended ==
  ASSUME NEW q \in Seq(CtrlFrames), NEW f \in CtrlFrames
  PROVE  /\ Append(q, f) # <<>>
         /\ Types(Append(q, f)) = Types(q) \cup {f.type}
         /\ Ordered(q) /\ (f.type = "METADATA" => q = <<>>) => Ordered(Append(q, f))
<1> DEFINE n == Len(q)
           r == Append(q, f)
<1>1. /\ n \in Nat /\ r \in Seq(CtrlFrames) /\ Len(r) = n + 1
      /\ \A i \in 1 .. n : r[i] = q[i]
      /\ r[n + 1] = f
  BY AppendProperties
<1>2. \A i \in 1 .. Len(r) : i \in 1 .. n \/ i = n + 1
  BY <1>1
<1>3. \A i \in 1 .. n : i \in 1 .. Len(r)
  BY <1>1
<1>4. n + 1 \in 1 .. Len(r) /\ r # <<>>
  BY <1>1, Emptied
<1>5. q = <<>> => n = 0
  BY Emptied
<1> HIDE DEF r, n
<1>6. Types(r) = {r[i].type : i \in 1 .. Len(r)}
  BY DEF Types
<1>7. Types(q) = {q[i].type : i \in 1 .. n}
  BY DEF Types, n
<1>8. Types(r) = Types(q) \cup {f.type}
  BY <1>1, <1>2, <1>3, <1>4, <1>6, <1>7
<1>9. ASSUME Ordered(q), f.type = "METADATA" => q = <<>> PROVE Ordered(r)
  <2>1. \A i \in 1 .. n : q[i].type = "METADATA" => i = 1
    BY <1>9 DEF Ordered, n
  <2>2. QED
    BY <1>1, <1>2, <1>5, <1>9, <2>1 DEF Ordered
<1>10. QED
  BY <1>4, <1>8, <1>9 DEF r

LEMMA OrderTaken ==
  ASSUME NEW q \in Seq(CtrlFrames), q # <<>>
  PROVE  /\ Head(q) \in CtrlFrames
         /\ Types(q) = {Head(q).type} \cup Types(Tail(q))
         /\ Ordered(q) => Ordered(Tail(q)) /\ "METADATA" \notin Types(Tail(q))
<1> DEFINE n == Len(q)
           t == Tail(q)
<1>1. /\ n \in Nat \ {0} /\ t \in Seq(CtrlFrames) /\ Len(t) = n - 1
      /\ \A i \in 1 .. Len(t) : t[i] = q[i + 1]
      /\ Head(q) = q[1] /\ q[1] \in CtrlFrames
  BY HeadTailProperties
<1>2. \A i \in 1 .. n : i # 1 => i - 1 \in 1 .. Len(t) /\ q[i] = t[i - 1]
  BY <1>1
<1>3. \A i \in 1 .. Len(t) : i + 1 \in 1 .. n /\ i + 1 # 1
  BY <1>1
<1>4. 1 \in 1 .. n
  BY <1>1
<1> HIDE DEF t, n
<1>5. Types(t) = {t[i].type : i \in 1 .. Len(t)}
  BY DEF Types
<1>6. Types(q) = {q[i].type : i \in 1 .. n}
  BY DEF Types, n
<1>7. Types(q) = {Head(q).type} \cup Types(t)
  <2>1. \A i \in 1 .. n : q[i].type \in {Head(q).type} \cup Types(t)
    BY <1>1, <1>2, <1>5
  <2>2. \A i \in 1 .. Len(t) : t[i].type \in Types(q)
    BY <1>1, <1>3, <1>6
  <2>3. Head(q).type \in Types(q)
    BY <1>1, <1>4, <1>6
  <2>4. QED
    BY <1>5, <1>6, <2>1, <2>2, <2>3
<1>8. ASSUME Ordered(q) PROVE Ordered(t) /\ "METADATA" \notin Types(t)
  <2>1. \A i \in 1 .. n : q[i].type = "METADATA" => i = 1
    BY <1>8 DEF Ordered, n
  <2>2. \A i \in 1 .. Len(t) : t[i].type # "METADATA"
    BY <1>1, <1>3, <2>1
  <2>3. QED
    BY <1>5, <2>2 DEF Ordered
<1>9. QED
  BY <1>1, <1>7, <1>8 DEF t

LEMMA OrderEmptied == Types(<<>>) = {} /\ Ordered(<<>>)
BY Emptied DEF Types, Ordered
-----------------------------------------------------------------------------
(* How far the sender gets in a step. *)
pumping == spc \in {"transfer", "flushData", "complete"}

Flows ==
  /\ spc' = "pre" => spc = "pre"
  /\ spc' \in {"pre", "build"} =>
       spc \in {"pre", "build"} /\ (UNCHANGED offer \/ \E p \in Peers : offer[p] = "making")
  /\ spc \in {"flush", "close", "gone"} => spc' \in {"flush", "close", "gone"}
  /\ spc \in {"abort", "flush", "close", "gone"} => spc' \in {"abort", "flush", "close", "gone"}
  /\ spc \in {"close", "gone"} => spc' \in {spc, "gone"}
  /\ spc = "pre" /\ chan = "dead" => spc' \in {"pre", "close"}
  /\ setUp' \/ pumping' => setUp \/ pumping
  /\ spc' = "complete" => spc = "complete" \/ flushData
  /\ sentComplete => sentComplete'
  /\ sentComplete' => sentComplete \/ (spc = "complete" /\ spc' = "flush")
  /\ pumping' => pumping \/ (waiting = {} /\ opened = Peers)
  /\ opened \subseteq opened' /\ waiting' \subseteq waiting

LEMMA RunFlows == ASSUME TypeInv, runMulti PROVE Flows
<1> USE DEF Flows, pumping, setUp, runMoves, runOnly
<1>0. sentComplete \in BOOLEAN
  BY DEF TypeInv, TypeOK, SenderTypeOK
<1>1. CASE preTransfer
  BY <1>1 DEF preTransfer
<1>2. CASE buildDataPeers
  BY <1>2 DEF buildDataPeers
<1>3. CASE takeAnswer
  BY <1>3 DEF takeAnswer, cancelHandshake
<1>4. CASE negotiationFails
  BY <1>4 DEF negotiationFails, cancelHandshake
<1>5. CASE allOpen
  BY <1>5 DEF allOpen
<1>6. CASE discardChunk
  BY <1>6 DEF discardChunk, joined
<1>7. CASE collectErrors
  BY <1>7 DEF collectErrors, joined
<1>8. CASE flushData
  BY <1>8 DEF flushData
<1>9. CASE sendTransferComplete
  <2>1. spc = "complete" /\ UNCHANGED <<offer, waiting, opened>>
    BY <1>9, Zenon DEF sendTransferComplete
  <2>2. \/ spc' = "flush" /\ sentComplete' = TRUE
        \/ spc' = "close" /\ UNCHANGED sentComplete
    BY <1>9, Zenon DEF sendTransferComplete
  <2>3. QED
    BY <1>0, <2>1, <2>2
<1>10. CASE sendAbort \/ flush
  BY <1>10 DEF sendAbort, flush
<1>11. CASE closeRun
  BY <1>11 DEF closeRun
<1>12. QED
  BY <1>1, <1>2, <1>3, <1>4, <1>5, <1>6, <1>7, <1>8, <1>9, <1>10, <1>11
  DEF runMulti, negotiatePeers

LEMMA OtherFlows ==
  ASSUME \/ OnAddPeerAnswer \/ multiProduce
         \/ \E p \in Peers : makeOffer(p) \/ multiWorker(p)
         \/ senderStart \/ signalingFails \/ network \/ linkLost \/ pathTimeout
         \/ receiver
  PROVE  Flows
<1>1. SUFFICES /\ UNCHANGED <<spc, sentComplete, waiting>> /\ opened \subseteq opened'
               /\ UNCHANGED offer \/ \E p \in Peers : offer[p] = "making"
  BY Zenon DEF Flows, pumping, setUp
<1>2. CASE OnAddPeerAnswer \/ \E p \in Peers : makeOffer(p)
  BY <1>2 DEF OnAddPeerAnswer, makeOffer
<1>3. CASE multiProduce \/ \E p \in Peers : multiWorker(p)
  BY <1>3 DEF multiProduce, multiWorker, sendChunk, pipelineMoves
<1>4. CASE senderStart \/ signalingFails
  BY <1>4 DEF senderStart, acceptAnswer, startReturns, signalingFails, startEnds,
              startMoves, watcherCloses, iceFails
<1>5. CASE network \/ linkLost
  BY <1>5 DEF network, channelOpens, ack, senderNotified, receiverNotified,
              dataOpens, dataAck, dataNotified, linkLost, ctrlMoves, dataMoves,
              netMoves
<1>6. CASE pathTimeout
  BY <1>6 DEF pathTimeout, receiverEnds
<1>7. CASE receiver
  BY <1>7, ReceiverRests
<1>8. QED
  BY <1>2, <1>3, <1>4, <1>5, <1>6, <1>7

LEMMA StepFlows == ASSUME TypeInv, [Next]_vars PROVE Flows
<1>1. CASE UNCHANGED vars
  BY <1>1, Zenon DEF vars, Flows, pumping, setUp
<1>2. QED
  BY <1>1, RunFlows, OtherFlows DEF Next
-----------------------------------------------------------------------------
(* METADATA is sent once, and TRANSFER_COMPLETE read only if it was sent. *)
Once ==
  /\ spc = "pre" => meta = NoMeta /\ hand = NoFrame /\ rq = <<>> /\ out = <<>>
  /\ spc \in {"pre", "build"} => \A p \in Peers : offer[p] = "off"
  /\ Ordered(out) /\ Ordered(rq)
  /\ "METADATA" \in Types(out) => rq = <<>> /\ hand = NoFrame /\ meta = NoMeta
  /\ "METADATA" \in Types(rq) => hand = NoFrame /\ meta = NoMeta
  /\ hand # NoFrame /\ hand.type = "METADATA" => meta = NoMeta

Told ==
  /\ "TRANSFER_COMPLETE" \in frames \/ vf[Verifier] # "off" => sentComplete
  /\ sentComplete => spc \in {"flush", "close", "gone"}
  /\ pumping \/ sentComplete => waiting = {} /\ opened = Peers

LEMMA OnceInit == Init => Once /\ Told
BY OrderEmptied DEF Init, Core!Init, Once, Told, frames, pumping, all

\* A step puts at most one frame on the control channel.
LEMMA FramesMove ==
  ASSUME TypeInv, LeadMoves
  PROVE  \/ frames' \subseteq frames
         \/ \E f \in CtrlFrames : Says(f) /\ frames' = frames \cup {f.type}
<1>0. out \in Seq(CtrlFrames) /\ rq \in Seq(CtrlFrames)
  BY DEF TypeInv, QueuesOK
<1>1. frames' = Types(out') \cup Types(rq') \cup (IF hand' = NoFrame THEN {} ELSE {hand'.type})
  BY DEF frames, Types
<1>2. CASE Idles \/ Ends \/ Goes \/ Opens \/ Handles
  BY <1>1, <1>2, OrderEmptied DEF frames, Idles, Ends, Goes, Opens, Handles
<1>3. CASE Delivers
  <2>1. /\ Head(out) \in CtrlFrames
        /\ Types(out) = {Head(out).type} \cup Types(out')
        /\ Types(rq') = Types(rq) \cup {Head(out).type}
    BY <1>0, <1>3, OrderTaken, OrderAppended DEF Delivers, Acks
  <2>2. QED
    BY <1>1, <1>3, <2>1 DEF frames, Delivers, Acks
<1>4. CASE Reads
  <2>1. Types(rq) = {Head(rq).type} \cup Types(rq')
    BY <1>0, <1>4, OrderTaken DEF Reads, Takes
  <2>2. QED
    BY <1>1, <1>4, <2>1 DEF frames, Reads, Takes
<1>5. ASSUME NEW f \in CtrlFrames, Says(f) PROVE frames' = frames \cup {f.type}
  <2>1. Types(out') = Types(out) \cup {f.type}
    BY <1>0, <1>5, OrderAppended DEF Says
  <2>2. QED
    BY <1>1, <1>5, <2>1 DEF frames, Says
<1>6. QED
  BY <1>2, <1>3, <1>4, <1>5 DEF LeadMoves

LEMMA OnceNext == ASSUME TypeInv, Once, LeadMoves, Flows PROVE Once'
<1>0. /\ out \in Seq(CtrlFrames) /\ rq \in Seq(CtrlFrames)
  BY DEF TypeInv, QueuesOK
<1> DEFINE P1 == spc' = "pre" => meta' = NoMeta /\ hand' = NoFrame /\ rq' = <<>> /\ out' = <<>>
           P2 == /\ Ordered(out') /\ Ordered(rq')
                 /\ "METADATA" \in Types(out') => rq' = <<>> /\ hand' = NoFrame /\ meta' = NoMeta
                 /\ "METADATA" \in Types(rq') => hand' = NoFrame /\ meta' = NoMeta
                 /\ hand' # NoFrame /\ hand'.type = "METADATA" => meta' = NoMeta
<1>1. spc' \in {"pre", "build"} => \A p \in Peers : offer'[p] = "off"
  BY DEF Once, Flows
<1>2. SUFFICES P1 /\ P2
  BY <1>1 DEF Once, Ordered, Types
<1>3. CASE Idles \/ Ends \/ Goes \/ Opens
  BY <1>3, OrderEmptied DEF Idles, Ends, Goes, Opens, Once, Flows
<1>4. CASE Handles
  BY <1>4 DEF Handles, Once, Flows
<1>5. CASE Delivers
  <2>1. out # <<>> /\ rq' = Append(rq, Head(out)) /\ out' = Tail(out)
        /\ UNCHANGED <<hand, meta>>
    BY <1>5 DEF Delivers, Acks
  <2>2. /\ Head(out) \in CtrlFrames
        /\ Types(out) = {Head(out).type} \cup Types(out')
        /\ Ordered(out') /\ "METADATA" \notin Types(out')
    BY <1>0, <2>1, OrderTaken DEF Once
  <2>3. Head(out).type = "METADATA" => rq = <<>> /\ hand = NoFrame /\ meta = NoMeta
    BY <2>2 DEF Once
  <2>4. Types(rq') = Types(rq) \cup {Head(out).type} /\ Ordered(rq')
    BY <1>0, <2>1, <2>2, <2>3, OrderAppended DEF Once
  <2>5. P1
    BY <2>1 DEF Once, Flows
  <2>6. P2
    BY <2>1, <2>2, <2>3, <2>4 DEF Once
  <2>7. QED
    BY <2>5, <2>6
<1>6. CASE Reads
  <2>1. rq # <<>> /\ hand = NoFrame /\ hand' = Head(rq) /\ rq' = Tail(rq)
        /\ UNCHANGED <<out, meta>>
    BY <1>6 DEF Reads, Takes
  <2>2. /\ Types(rq) = {Head(rq).type} \cup Types(rq')
        /\ Ordered(rq') /\ "METADATA" \notin Types(rq')
    BY <1>0, <2>1, OrderTaken DEF Once
  <2>3. P1
    BY <2>1 DEF Once, Flows
  <2>4. P2
    BY <2>1, <2>2 DEF Once
  <2>5. QED
    BY <2>3, <2>4
<1>7. ASSUME NEW f \in CtrlFrames, Says(f) PROVE P1 /\ P2
  <2>1. out' = Append(out, f) /\ UNCHANGED <<rq, hand, meta>>
        /\ IF f.type = "METADATA" THEN spc = "pre" /\ spc' # "pre" ELSE mayAnnounce
    BY <1>7 DEF Says
  <2>2. P1
    BY <2>1 DEF Once, Flows, mayAnnounce
  <2>3. f.type = "METADATA" => out = <<>> /\ rq = <<>> /\ hand = NoFrame /\ meta = NoMeta
    BY <2>1 DEF Once
  <2>4. Types(out') = Types(out) \cup {f.type} /\ Ordered(out')
    BY <1>0, <2>1, <2>3, OrderAppended DEF Once
  <2>5. P2
    BY <2>1, <2>3, <2>4 DEF Once
  <2>6. QED
    BY <2>2, <2>5
<1>8. QED
  BY <1>3, <1>4, <1>5, <1>6, <1>7 DEF LeadMoves

LEMMA ToldNext ==
  ASSUME TypeInv, TypeInv', Told, LeadMoves, CoreKinds, Flows PROVE Told'
<1>1. sentComplete' \in BOOLEAN /\ opened' \subseteq Peers
  BY DEF TypeInv, TypeOK, SenderTypeOK
<1>2. sentComplete => sentComplete'
  BY DEF Flows
<1>3. ASSUME "TRANSFER_COMPLETE" \in frames' PROVE sentComplete'
  <2>1. CASE "TRANSFER_COMPLETE" \in frames
    BY <1>2, <2>1 DEF Told
  <2>2. CASE "TRANSFER_COMPLETE" \notin frames
    BY <1>3, <2>2, FramesMove DEF Says
  <2>3. QED
    BY <2>1, <2>2
<1>4. ASSUME vf'[Verifier] # "off" PROVE sentComplete'
  BY <1>2, <1>4 DEF CoreKinds, Told, frames
<1>5. sentComplete' => spc' \in {"flush", "close", "gone"}
  BY DEF Told, Flows
<1>6. ASSUME pumping' \/ sentComplete' PROVE waiting' = {} /\ opened' = Peers
  <2>1. waiting = {} /\ opened = Peers
    BY <1>6 DEF Told, Flows, pumping
  <2>2. QED
    BY <1>1, <2>1 DEF Flows
<1>7. QED
  BY <1>3, <1>4, <1>5, <1>6 DEF Told
-----------------------------------------------------------------------------
(* No peer answers twice: its negotiator runs once, and each answer on the way
   is that of a peer the sender still waits for. *)
Named(q) == {q[i] : i \in 1 .. Len(q)}

Unrepeated(q) == \A i, j \in 1 .. Len(q) : i # j => q[i] # q[j]

Answering ==
  /\ Unrepeated(answers) /\ Unrepeated(back)
  /\ Named(answers) \cap Named(back) = {}
  /\ Named(answers) \cup Named(back) \subseteq waiting
  /\ \A p \in Peers : /\ neg[p] # "ended" => p \in waiting \ (Named(answers) \cup Named(back))
                      /\ entry[p] = "none" => neg[p] = "off"
                      /\ entry[p] # "none" => meta # NoMeta

LEMMA NameAppended ==
  ASSUME NEW q \in Seq(Peers), NEW p \in Peers
  PROVE  /\ Named(Append(q, p)) = Named(q) \cup {p}
         /\ Unrepeated(q) /\ p \notin Named(q) => Unrepeated(Append(q, p))
<1> DEFINE n == Len(q)
           r == Append(q, p)
<1>1. /\ n \in Nat /\ Len(r) = n + 1
      /\ \A i \in 1 .. n : r[i] = q[i]
      /\ r[n + 1] = p
  BY AppendProperties
<1>2. \A i \in 1 .. Len(r) : i \in 1 .. n \/ i = n + 1
  BY <1>1
<1>3. \A i \in 1 .. n : i \in 1 .. Len(r)
  BY <1>1
<1>4. n + 1 \in 1 .. Len(r)
  BY <1>1
<1>5. Named(q) = {q[i] : i \in 1 .. n}
  BY DEF Named
<1> HIDE DEF r
<1>6. Named(r) = {r[i] : i \in 1 .. Len(r)}
  BY DEF Named
<1>7. Unrepeated(q) => \A i, j \in 1 .. n : i # j => q[i] # q[j]
  BY DEF Unrepeated
<1> HIDE DEF n
<1>8. Named(r) = Named(q) \cup {p}
  BY <1>1, <1>2, <1>3, <1>4, <1>5, <1>6
<1>9. Unrepeated(q) /\ p \notin Named(q) => Unrepeated(r)
  BY <1>1, <1>2, <1>5, <1>7 DEF Unrepeated
<1>10. QED
  BY <1>8, <1>9 DEF r

LEMMA NameTaken ==
  ASSUME NEW q \in Seq(Peers), q # <<>>
  PROVE  /\ Head(q) \in Peers /\ Tail(q) \in Seq(Peers)
         /\ Named(q) = {Head(q)} \cup Named(Tail(q))
         /\ Unrepeated(q) => Unrepeated(Tail(q)) /\ Head(q) \notin Named(Tail(q))
<1> DEFINE n == Len(q)
           t == Tail(q)
<1>1. /\ n \in Nat \ {0} /\ t \in Seq(Peers) /\ Len(t) = n - 1
      /\ \A i \in 1 .. Len(t) : t[i] = q[i + 1]
      /\ Head(q) = q[1] /\ q[1] \in Peers
  BY HeadTailProperties
<1>2. \A i \in 1 .. n : i # 1 => i - 1 \in 1 .. Len(t) /\ q[i] = t[i - 1]
  BY <1>1
<1>3. \A i \in 1 .. Len(t) : i + 1 \in 1 .. n /\ i + 1 # 1
  BY <1>1
<1>4. 1 \in 1 .. n
  BY <1>1
<1>5. Named(q) = {q[i] : i \in 1 .. n}
  BY DEF Named
<1>6. Unrepeated(q) => \A i, j \in 1 .. n : i # j => q[i] # q[j]
  BY DEF Unrepeated
<1> HIDE DEF t, n
<1>7. Named(t) = {t[i] : i \in 1 .. Len(t)}
  BY DEF Named
<1>8. Named(q) = {Head(q)} \cup Named(t)
  <2>1. \A i \in 1 .. n : q[i] \in {Head(q)} \cup Named(t)
    BY <1>1, <1>2, <1>7
  <2>2. \A i \in 1 .. Len(t) : t[i] \in Named(q)
    BY <1>1, <1>3, <1>5
  <2>3. Head(q) \in Named(q)
    BY <1>1, <1>4, <1>5
  <2>4. QED
    BY <1>5, <1>7, <2>1, <2>2, <2>3
<1>9. ASSUME Unrepeated(q) PROVE Unrepeated(t) /\ Head(q) \notin Named(t)
  <2>1. \A i, j \in 1 .. n : i # j => q[i] # q[j]
    BY <1>6, <1>9
  <2>2. \A i, j \in 1 .. Len(t) : i # j => i + 1 # j + 1
    BY <1>1
  <2>3. \A i, j \in 1 .. Len(t) : i # j => t[i] # t[j]
    BY <1>1, <1>3, <2>1, <2>2
  <2>4. \A i \in 1 .. Len(t) : t[i] # q[1]
    BY <1>1, <1>3, <1>4, <2>1
  <2>5. QED
    BY <1>1, <1>7, <2>3, <2>4 DEF Unrepeated
<1>10. QED
  BY <1>1, <1>8, <1>9 DEF t

LEMMA NameEmptied == Named(<<>>) = {} /\ Unrepeated(<<>>)
BY Emptied DEF Named, Unrepeated

LEMMA CountOf == ASSUME NEW n \in Nat PROVE IsFiniteSet(1 .. n) /\ Cardinality(1 .. n) = n
<1>1. 1 \in Int /\ n \in Int /\ (IF 1 > n THEN 0 ELSE n - 1 + 1) = n
  OBVIOUS
<1>2. QED
  BY <1>1, FS_Interval

\* answerCh has room for an answer of every peer.
LEMMA RoomForAnswers ==
  ASSUME TypeInv, Answering, back # <<>>
  PROVE  Len(answers) < Cardinality(Peers)
<1> DEFINE n == Len(answers)
           T == Peers \ {Head(back)}
<1>1. answers \in Seq(Peers) /\ back \in Seq(Peers) /\ n \in Nat
  BY DEF TypeInv, TypeOK, QueueTypeOK, QueuesOK
<1>2. Head(back) \in Peers /\ Head(back) \in Named(back)
  BY <1>1, NameTaken
<1>3. \A i \in 1 .. n : answers[i] \in T
  <2>1. \A i \in 1 .. n : answers[i] \in Peers
    BY <1>1
  <2>2. \A i \in 1 .. n : answers[i] \in Named(answers)
    BY DEF Named
  <2>3. Head(back) \notin Named(answers)
    BY <1>2 DEF Answering
  <2>4. QED
    BY <2>1, <2>2, <2>3
<1>4. answers = [i \in 1 .. n |-> answers[i]]
  BY <1>1
<1>5. answers \in [1 .. n -> T]
  BY <1>3, <1>4
<1>6. /\ IsFiniteSet(Peers) /\ IsFiniteSet(T) /\ Cardinality(Peers) \in Nat
      /\ Cardinality(T) = Cardinality(Peers) - 1
  BY <1>2, MultiPCAssumption, FS_CardinalityType, FS_RemoveElement
<1>7. IsFiniteSet(1 .. n) /\ Cardinality(1 .. n) = n
  BY <1>1, CountOf
<1>8. \A i, j \in 1 .. n : i # j => answers[i] # answers[j]
  BY DEF Answering, Unrepeated
<1> HIDE DEF n, T
<1>9. ~(Cardinality(T) < n)
  BY <1>5, <1>6, <1>7, <1>8, FS_PigeonHole
<1>10. n < Cardinality(Peers)
  BY <1>1, <1>6, <1>9
<1>11. QED
  BY <1>10 DEF n
-----------------------------------------------------------------------------
(* How the negotiators of a step move. *)
NegMoves ==
  /\ \A p \in Peers : /\ neg[p] = "ended" => neg'[p] = "ended"
                      /\ entry'[p] = "none" =>
                           entry[p] = "none" /\ (neg'[p] = neg[p] \/ neg[p] # "off")
  /\ \/ \A p \in Peers : entry'[p] # "none" => entry[p] # "none" \/ neg[p] # "off"
     \/ hand # NoFrame /\ hand.type = "ADD_PEER_OFFER"

LEMMA StepNegs == ASSUME TypeInv, Answering, [Next]_vars PROVE NegMoves
<1>0. /\ entry \in [Peers -> {"none", "reserved", "published"}]
      /\ neg \in [Peers -> {"off", "creating", "accepting", "answering", "ended"}]
  BY DEF TypeInv, TypeOK, ReceiverTypeOK
<1>1. ASSUME UNCHANGED <<entry, neg>> PROVE NegMoves
  BY <1>1 DEF NegMoves
<1>2. CASE ~receiver
  <2>1. UNCHANGED <<entry, neg>>
    <3>1. CASE UNCHANGED vars
      BY <3>1 DEF vars
    <3>2. CASE network \/ linkLost
      BY <3>2 DEF network, channelOpens, ack, senderNotified, receiverNotified,
              dataOpens, dataAck, dataNotified, linkLost, ctrlMoves, dataMoves, netMoves
    <3>3. CASE pathTimeout
      BY <3>3 DEF pathTimeout, receiverEnds
    <3>4. QED
      BY <1>2, <3>1, <3>2, <3>3, RunPublishes DEF Next, Unpublishing
  <2>2. QED
    BY <1>1, <2>1
<1>3. CASE announced \/ waitDone \/ readFrame \/ readEnds \/ OnMetadata
           \/ OnTransferComplete \/ OnAbort \/ failOnEarlyClose \/ verify \/ doneBody
  <2>1. CASE announced \/ waitDone \/ readFrame \/ readEnds
    BY <1>1, <2>1 DEF announced, waitDone, receiverEnds, readFrame, readEnds
  <2>2. CASE OnMetadata \/ OnTransferComplete \/ OnAbort
    BY <1>1, <2>2 DEF OnMetadata, OnTransferComplete, OnAbort
  <2>3. CASE failOnEarlyClose \/ verify \/ doneBody
    BY <1>1, <2>3 DEF failOnEarlyClose, verify, doneBody, cleanup, finish
  <2>4. QED
    BY <1>3, <2>1, <2>2, <2>3
<1>4. CASE OnAddPeerOffer
  <2>1. hand # NoFrame /\ hand.type = "ADD_PEER_OFFER" /\ hand \in CtrlFrames
    BY <1>4 DEF OnAddPeerOffer, holds, TypeInv, QueuesOK
  <2>2. hand.id \in Peers
    BY <2>1 DEF CtrlFrames
  <2>3. \/ UNCHANGED <<entry, neg>>
        \/ /\ entry[hand.id] = "none"
           /\ entry' = [entry EXCEPT ![hand.id] = "reserved"]
           /\ neg' = [neg EXCEPT ![hand.id] = "creating"]
    BY <1>4 DEF OnAddPeerOffer
  <2>4. ASSUME entry[hand.id] = "none",
               entry' = [entry EXCEPT ![hand.id] = "reserved"],
               neg' = [neg EXCEPT ![hand.id] = "creating"]
        PROVE  NegMoves
    <3>1. neg[hand.id] = "off"
      BY <2>2, <2>4 DEF Answering
    <3>2. \A p \in Peers : IF p = hand.id THEN entry'[p] = "reserved"
                            ELSE entry'[p] = entry[p] /\ neg'[p] = neg[p]
      BY <1>0, <2>2, <2>4
    <3>3. QED
      BY <2>1, <3>1, <3>2 DEF NegMoves
  <2>5. QED
    BY <1>1, <2>3, <2>4
<1>5. ASSUME NEW p \in Peers, negotiateReceivePeer(p) PROVE NegMoves
  <2>1. /\ neg[p] \in {"creating", "accepting", "answering"}
        /\ \E to \in {"accepting", "answering", "ended"} : neg' = [neg EXCEPT ![p] = to]
        /\ entry' \in {entry, [entry EXCEPT ![p] = "published"]}
    BY <1>5 DEF negotiateReceivePeer, createPeer, acceptOffer, answerOffer, negMoves
  <2>2. PICK to \in {"accepting", "answering", "ended"} : neg' = [neg EXCEPT ![p] = to]
    BY <2>1
  <2>3. \A q \in Peers : neg'[q] = IF q = p THEN to ELSE neg[q]
    BY <1>0, <2>2
  <2>4. \A q \in Peers : neg[q] = "ended" => neg'[q] = "ended"
    BY <2>1, <2>3
  <2>5. \A q \in Peers : entry'[q] = "none" =>
          entry[q] = "none" /\ (neg'[q] = neg[q] \/ neg[q] # "off")
    BY <1>0, <2>1, <2>3
  <2>6. \A q \in Peers : entry'[q] # "none" => entry[q] # "none" \/ neg[q] # "off"
    BY <1>0, <2>1
  <2>7. QED
    BY <2>4, <2>5, <2>6 DEF NegMoves
<1>6. ASSUME NEW p \in Peers,
             \/ installDataPeer(p) \/ dataReader(p)
             \/ peerWatchLooks(p) \/ failOnPeerClose(p)
      PROVE  NegMoves
  BY <1>1, <1>6 DEF installDataPeer, dataReader, onPeerData, ingest, diskFails,
              peerReadEnds, peerWatchLooks, failOnPeerClose, readerMoves
<1>7. QED
  BY <1>2, <1>3, <1>4, <1>5, <1>6 DEF receiver, router

LEMMA AnsweringInit == Init => Answering
BY NameEmptied DEF Init, Core!Init, Answering, all

LEMMA AnsweringNext ==
  ASSUME TypeInv, Leading, Answering, AnswerMoves, NegMoves, LeadMoves, CoreKinds
  PROVE  Answering'
<1>0. answers \in Seq(Peers) /\ back \in Seq(Peers) /\ waiting \subseteq Peers
  BY DEF TypeInv, TypeOK, QueueTypeOK, QueuesOK
<1> DEFINE busy == Named(answers) \cup Named(back)
           busyNext == Named(answers') \cup Named(back')
<1>1. /\ Unrepeated(answers') /\ Unrepeated(back')
      /\ Named(answers') \cap Named(back') = {}
      /\ busyNext \subseteq waiting'
      /\ \A p \in Peers : neg'[p] # "ended" => p \in waiting' \ busyNext
  <2>1. CASE AnswerRests
    BY <2>1, NameEmptied DEF AnswerRests, Answering, NegMoves
  <2>2. ASSUME NEW p \in Peers, Answered(p)
        PROVE  <1>1!:
    <3>1. /\ Named(back') = Named(back) \cup {p}
          /\ p \notin Named(back) => Unrepeated(back')
      BY <1>0, <2>2, NameAppended DEF Answered, Answering
    <3>2. p \in waiting \ busy
      BY <2>2 DEF Answered, Answering
    <3>3. neg'[p] = "ended"
      BY <2>2 DEF Answered, TypeInv, TypeOK, ReceiverTypeOK
    <3>4. UNCHANGED <<answers, waiting>>
      BY <2>2 DEF Answered
    <3>5. QED
      BY <3>1, <3>2, <3>3, <3>4 DEF Answering, NegMoves
  <2>3. CASE AnswerArrives
    <3>1. /\ back # <<>> /\ back' = Tail(back) /\ UNCHANGED waiting
          /\ UNCHANGED answers \/ answers' = Append(answers, Head(back))
      BY <2>3 DEF AnswerArrives
    <3>2. /\ Head(back) \in Peers
          /\ Named(back) = {Head(back)} \cup Named(back')
          /\ Unrepeated(back') /\ Head(back) \notin Named(back')
      BY <1>0, <3>1, NameTaken DEF Answering
    <3>3. CASE UNCHANGED answers
      BY <3>1, <3>2, <3>3 DEF Answering, NegMoves
    <3>4. CASE answers' = Append(answers, Head(back))
      <4>1. Named(answers') = Named(answers) \cup {Head(back)} /\ Unrepeated(answers')
        BY <1>0, <3>2, <3>4, NameAppended DEF Answering
      <4>2. QED
        BY <3>1, <3>2, <4>1 DEF Answering, NegMoves
    <3>5. QED
      BY <3>1, <3>3, <3>4
  <2>4. CASE AnswerTaken
    <3>1. /\ answers # <<>> /\ answers' = Tail(answers) /\ UNCHANGED back
          /\ waiting' \in {waiting, waiting \ {Head(answers)}}
      BY <2>4 DEF AnswerTaken
    <3>2. /\ Named(answers) = {Head(answers)} \cup Named(answers')
          /\ Unrepeated(answers') /\ Head(answers) \notin Named(answers')
      BY <1>0, <3>1, NameTaken DEF Answering
    <3>3. Head(answers) \notin Named(back)
      BY <3>2 DEF Answering
    <3>4. \A p \in Peers : neg'[p] # "ended" => p # Head(answers) /\ p \in waiting \ busy
      BY <3>2 DEF Answering, NegMoves
    <3>5. QED
      BY <3>1, <3>2, <3>3, <3>4 DEF Answering
  <2>5. QED
    BY <2>1, <2>2, <2>3, <2>4 DEF AnswerMoves
<1>2. \A p \in Peers : entry'[p] = "none" => neg'[p] = "off"
  BY DEF NegMoves, Answering
<1>3. \A p \in Peers : entry'[p] # "none" => meta' # NoMeta
  <2>1. meta # NoMeta => meta' # NoMeta
    BY DEF CoreKinds, Waits, ReaderKinds, DeliversChunk, Refuses, Writes, Counts
  <2>2. hand # NoFrame /\ hand.type = "ADD_PEER_OFFER" => meta # NoMeta
    BY DEF Leading
  <2>3. QED
    BY <2>1, <2>2 DEF NegMoves, Answering
<1>4. QED
  BY <1>1, <1>2, <1>3 DEF Answering, Named, Unrepeated
-----------------------------------------------------------------------------
(* Nothing runs at the receiver before the control channel is announced, a
   reader and a watcher only where a data channel was installed, and no session
   is closed before the transfer's outcome is claimed. *)
Started ==
  /\ rmain \in {"init", "gaveUp"} =>
       /\ rpc = "off" /\ cwatch = "off" /\ hand = NoFrame /\ vf[Verifier] = "off"
       /\ \A p \in Peers : entry[p] = "none"
  /\ rpc = "off" => hand = NoFrame
  /\ \A p \in Peers : /\ dw[p] # "off" => dr[p] # "off"
                      /\ dw[p] = "looked" => dclosed[p]
                      /\ dr[p] = "off" => rd[p] = "idle"
                      /\ sessClosed[p] => gate # "free"

running == \/ rpc # "off" \/ hand # NoFrame \/ cwatch # "off" \/ vf[Verifier] # "off"
           \/ \E p \in Peers : entry[p] # "none" \/ neg[p] # "off"

Boots ==
  /\ rmain' \in {"init", "gaveUp"} =>
       \/ UNCHANGED <<rpc, cwatch, hand, vf, entry>> /\ rmain \in {"init", "gaveUp"}
       \/ UNCHANGED rmain /\ running
  /\ rpc' = "off" => rpc = "off" /\ hand' \in {hand, NoFrame}

Watches ==
  \A p \in Peers : /\ dr[p] # "off" => dr'[p] # "off"
                   /\ dw'[p] # "off" => dw[p] # "off" \/ dr'[p] # "off"
                   /\ dw'[p] = "looked" => dw[p] = "looked" \/ dclosed[p]
                   /\ dclosed[p] => dclosed'[p]
                   /\ sessClosed'[p] => sessClosed[p] \/ gate' # "free"

Slumbers == /\ UNCHANGED <<rmain, rpc, cwatch, hand, vf, entry>>
            /\ UNCHANGED <<dr, dw, dclosed, sessClosed>>

LEMMA SenderSlumbers ==
  ASSUME \/ runMulti \/ OnAddPeerAnswer \/ multiProduce
         \/ \E p \in Peers : makeOffer(p) \/ multiWorker(p)
         \/ senderStart \/ signalingFails
  PROVE  UNCHANGED <<coreVars, rcvVars, dclosed>>
<1> USE DEF runMoves, runOnly
<1>0. UNCHANGED coreVars
  BY SenderRests
<1>1. CASE preTransfer \/ buildDataPeers
  BY <1>0, <1>1 DEF preTransfer, buildDataPeers
<1>2. CASE takeAnswer \/ negotiationFails \/ allOpen
  BY <1>0, <1>2 DEF takeAnswer, negotiationFails, allOpen, cancelHandshake, closePeers
<1>3. CASE discardChunk \/ collectErrors \/ flushData
  BY <1>0, <1>3 DEF discardChunk, collectErrors, flushData
<1>4. CASE sendTransferComplete \/ sendAbort \/ flush \/ closeRun
  BY <1>0, <1>4 DEF sendTransferComplete, sendAbort, flush, closeRun, closePeers
<1>5. CASE OnAddPeerAnswer \/ \E p \in Peers : makeOffer(p)
  BY <1>0, <1>5 DEF OnAddPeerAnswer, makeOffer
<1>6. CASE multiProduce \/ \E p \in Peers : multiWorker(p)
  BY <1>0, <1>6 DEF multiProduce, multiWorker, sendChunk, sendOn, sendOnFails, pipelineMoves
<1>7. CASE senderStart \/ signalingFails
  BY <1>0, <1>7 DEF senderStart, acceptAnswer, startReturns, signalingFails, startEnds,
              startMoves, watcherCloses, closePeers, iceFails
<1>8. QED
  BY <1>1, <1>2, <1>3, <1>4, <1>5, <1>6, <1>7 DEF runMulti, negotiatePeers

LEMMA StepBoots == ASSUME TypeInv, [Next]_vars PROVE Boots /\ Watches
<1>0. /\ dr \in [Peers -> {"off", "reading", "ended"}]
      /\ dw \in [Peers -> {"off", "waiting", "looked", "gone"}]
  BY DEF TypeInv, TypeOK, ReceiverTypeOK
<1>1. ASSUME UNCHANGED <<rmain, rpc, cwatch, hand, vf, entry>> PROVE Boots
  BY <1>1 DEF Boots
<1>2. ASSUME UNCHANGED <<dr, dw, dclosed, sessClosed>> PROVE Watches
  BY <1>2 DEF Watches
<1>3. CASE UNCHANGED vars
  BY <1>1, <1>2, <1>3 DEF vars
<1>4. CASE \/ runMulti \/ OnAddPeerAnswer \/ multiProduce
           \/ \E p \in Peers : makeOffer(p) \/ multiWorker(p)
           \/ senderStart \/ signalingFails
  BY <1>1, <1>2, <1>4, SenderSlumbers
<1>5. CASE network \/ linkLost
  <2>1. CASE channelOpens \/ ack \/ senderNotified \/ receiverNotified \/ linkLost
    BY <1>1, <1>2, <2>1 DEF channelOpens, ack, senderNotified, receiverNotified,
       linkLost, ctrlMoves, dataMoves, netMoves
  <2>2. ASSUME NEW p \in Peers, dataOpens(p) \/ dataAck(p) PROVE Boots /\ Watches
    BY <1>1, <1>2, <2>2 DEF dataOpens, dataAck, dataMoves, netMoves
  <2>3. ASSUME NEW p \in Peers, dataNotified(p) PROVE Boots /\ Watches
    <3>1. UNCHANGED <<rmain, rpc, cwatch, hand, vf, entry, dr, dw, sessClosed>>
      BY <2>3 DEF dataNotified, dataMoves, netMoves
    <3>2. \A q \in Peers : dclosed[q] => dclosed'[q]
      BY <2>3 DEF dataNotified
    <3>3. QED
      BY <1>1, <3>1, <3>2 DEF Watches
  <2>4. QED
    BY <1>5, <2>1, <2>2, <2>3 DEF network
<1>6. CASE pathTimeout \/ announced \/ waitDone
  BY <1>2, <1>6 DEF pathTimeout, announced, waitDone, receiverEnds, Boots
<1>7. CASE router
  <2>1. running
    BY <1>7 DEF router, running, readFrame, readEnds, OnMetadata, OnAddPeerOffer,
                OnTransferComplete, OnAbort, holds
  <2>2. UNCHANGED <<rmain, dr, dw, dclosed, sessClosed>>
    BY <1>7 DEF router, readFrame, readEnds, OnMetadata, OnAddPeerOffer,
                OnTransferComplete, OnAbort, dispatched
  <2>3. rpc' = "off" => rpc = "off" /\ hand' \in {hand, NoFrame}
    BY <1>7 DEF router, readFrame, readEnds, OnMetadata, OnAddPeerOffer,
                OnTransferComplete, OnAbort, dispatched
  <2>4. QED
    BY <1>2, <2>1, <2>2, <2>3 DEF Boots
<1>8. CASE failOnEarlyClose
  BY <1>2, <1>8 DEF failOnEarlyClose, Boots, running
<1>9. CASE verify
  <2>1. running
    BY <1>9 DEF verify, running, Core!seeAllBytes, Core!seeDone, Core!claimVerify,
                Core!verifyTimeout
  <2>2. UNCHANGED <<rmain, rpc, hand, dr, dw, dclosed, sessClosed>>
    BY <1>9 DEF verify
  <2>3. QED
    BY <1>2, <2>1, <2>2 DEF Boots
<1>10. CASE doneBody
  <2>1. CASE cleanup
    <3>1. gate' # "free"
      BY <2>1 DEF cleanup, Core!cleanup
    <3>2. UNCHANGED <<dr, dw, dclosed, rmain, rpc, cwatch, hand, vf, entry>>
      BY <1>10, <2>1 DEF doneBody, cleanup, Core!cleanup, Core!rest, finish
    <3>3. QED
      BY <1>1, <3>1, <3>2 DEF Watches
  <2>2. CASE finish
    <3>1. UNCHANGED vf
      BY <2>2 DEF finish, Core!sync, Core!syncFails, Core!verifyIntegrity,
                Core!integrityFails, Core!hashFails, Core!sinkClose,
                Core!abortClose, Core!abortRemove, Core!closeDone, Core!bodyMoves,
                Core!abortWith, Core!rest
    <3>2. QED
      BY <1>1, <1>2, <1>10, <2>2, <3>1 DEF doneBody, finish
  <2>3. QED
    BY <1>10, <2>1, <2>2 DEF doneBody
<1>11. ASSUME NEW p \in Peers, negotiateReceivePeer(p) PROVE Boots /\ Watches
  <2>1. running
    BY <1>11 DEF negotiateReceivePeer, createPeer, acceptOffer, answerOffer, running
  <2>2. UNCHANGED <<rmain, rpc, hand, dr, dw, dclosed>>
    BY <1>11 DEF negotiateReceivePeer, createPeer, acceptOffer, answerOffer, negMoves, closeSess
  <2>3. UNCHANGED sessClosed \/ gate' # "free"
    <3>1. CASE createPeer(p) \/ acceptOffer(p)
      BY <3>1, FailGrows DEF createPeer, acceptOffer
    <3>2. CASE answerOffer(p)
      BY <3>2, FailGrows DEF answerOffer, Core!done
    <3>3. QED
      BY <1>11, <3>1, <3>2 DEF negotiateReceivePeer
  <2>4. QED
    BY <2>1, <2>2, <2>3 DEF Boots, Watches
<1>12. ASSUME NEW p \in Peers, onPeerData(p) \/ ingest(p) \/ diskFails(p) PROVE Boots /\ Watches
  <2>1. UNCHANGED <<dr, dw, dclosed, sessClosed, rmain, rpc, cwatch, hand, entry>>
    BY <1>12 DEF onPeerData, ingest, diskFails, readerMoves
  <2>2. UNCHANGED vf
    BY <1>12 DEF onPeerData, ingest, diskFails, Core!deliver, Core!decodeFails,
       Core!dataBeforeMetadata, Core!dataOutOfBounds, Core!writeFails,
       Core!readerFails, Core!writeChunk, Core!countBytes
  <2>3. QED
    BY <1>1, <1>2, <2>1, <2>2
<1>13. ASSUME NEW p \in Peers,
              installDataPeer(p) \/ peerReadEnds(p) \/ peerWatchLooks(p) \/ failOnPeerClose(p)
       PROVE  Boots /\ Watches
  <2>1. UNCHANGED <<dclosed, sessClosed, rmain, rpc, cwatch, hand, entry, vf>>
    BY <1>13, FailWaits DEF installDataPeer, peerReadEnds, peerWatchLooks,
                            failOnPeerClose, readerMoves
  <2>2. Watches
    BY <1>0, <1>13, <2>1 DEF installDataPeer, peerReadEnds, peerWatchLooks,
                            failOnPeerClose, Watches
  <2>3. QED
    BY <1>1, <2>1, <2>2
<1>14. QED
  BY <1>3, <1>4, <1>5, <1>6, <1>7, <1>8, <1>9, <1>10, <1>11, <1>12, <1>13
  DEF Next, receiver, dataReader

LEMMA StartedInit == Init => Started
BY DEF Init, Core!Init, Started, all

LEMMA StartedNext ==
  ASSUME TypeInv, Counting, Answering, Started, Boots, Watches, Grows, CoreKinds
  PROVE  Started'
<1>1. rmain \in {"init", "gaveUp"} => ~running
  BY DEF Started, Answering, running
<1>2. rmain' \in {"init", "gaveUp"} =>
       /\ rpc' = "off" /\ cwatch' = "off" /\ hand' = NoFrame /\ vf'[Verifier] = "off"
       /\ \A p \in Peers : entry'[p] = "none"
  BY <1>1 DEF Boots, Started
<1>3. rpc' = "off" => hand' = NoFrame
  BY DEF Boots, Started
<1>4. \A p \in Peers : /\ dw'[p] # "off" => dr'[p] # "off"
                       /\ dw'[p] = "looked" => dclosed'[p]
                       /\ sessClosed'[p] => gate' # "free"
  BY DEF Watches, Started, Grows
<1>5. \A p \in Peers : rd'[p] # "idle" => rd[p] # "idle" \/ dr[p] # "off"
  BY DEF CoreKinds, Waits, ReaderKinds, DeliversChunk, Refuses, Writes, Counts, Counting
<1>6. \A p \in Peers : dr'[p] = "off" => rd'[p] = "idle"
  BY <1>5 DEF Watches, Started
<1>7. QED
  BY <1>2, <1>3, <1>4, <1>6 DEF Started
-----------------------------------------------------------------------------
(* While no link was lost or reported out and no timer fired, nothing is torn
   down before the sender's closeRun, unless the user's answer proved unusable. *)
calm ==
  gate = "free" /\ rmain # "gaveUp" /\ causes \cap {"timer", "link", "ice"} = {}

torn == \/ ctxDone \/ sessDone \/ closedS \/ closedR
        \/ chan \in {"closing", "down", "lost", "dead"}

stillborn == /\ spc \in {"pre", "close"} /\ chan = "dead" /\ "signaling" \in causes
             /\ ~sessDone /\ ~closedS /\ ~closedR

Standing ==
  /\ start = "signaling" => chan \in {"connecting", "dead"}
  /\ calm /\ torn => spc = "gone" \/ stillborn

LEMMA CalmBefore == ASSUME Grows, calm' PROVE calm
BY DEF Grows, calm

LEMMA LinkInjected ==
  ASSUME NEW f \in {"timer", "link", "ice"}, inject(f) PROVE ~calm'
BY DEF inject, calm

\* Steps after which the session is no nearer its end.
Bends ==
  /\ UNCHANGED <<chan, ctxDone, sessDone, closedS, closedR>>
  /\ start' = "signaling" => start = "signaling"

LEMMA StandingKept ==
  ASSUME TypeInv, Standing, Grows, Flows, Bends PROVE Standing'
<1>1. SUFFICES ASSUME calm', torn' PROVE spc' = "gone" \/ stillborn'
  BY DEF Standing, Bends
<1>2. calm /\ torn
  BY <1>1, CalmBefore DEF torn, Bends
<1>3. spc = "gone" \/ stillborn
  BY <1>2 DEF Standing
<1>4. CASE spc = "gone"
  BY <1>4 DEF Flows
<1>5. CASE stillborn
  BY <1>5 DEF stillborn, Bends, Flows, Grows
<1>6. QED
  BY <1>3, <1>4, <1>5

LEMMA RunBends ==
  ASSUME \/ preTransfer \/ buildDataPeers \/ negotiatePeers \/ discardChunk
         \/ collectErrors \/ flushData \/ sendTransferComplete \/ sendAbort \/ flush
  PROVE  Bends
<1> USE DEF Bends, runMoves, runOnly
<1>1. CASE preTransfer \/ sendTransferComplete \/ sendAbort
  BY <1>1 DEF preTransfer, sendTransferComplete, sendAbort, send, sendFails
<1>2. CASE buildDataPeers \/ discardChunk \/ collectErrors \/ flushData \/ flush
  BY <1>2 DEF buildDataPeers, discardChunk, collectErrors, flushData, flush
<1>3. CASE negotiatePeers
  BY <1>3 DEF negotiatePeers, takeAnswer, negotiationFails, allOpen, cancelHandshake
<1>4. QED
  BY <1>1, <1>2, <1>3

LEMMA WorkBends ==
  ASSUME \/ multiProduce \/ acceptAnswer
         \/ \E p \in Peers : makeOffer(p) \/ multiWorker(p)
  PROVE  Bends
<1> USE DEF Bends
<1>1. CASE multiProduce \/ \E p \in Peers : multiWorker(p)
  BY <1>1 DEF multiProduce, multiWorker, sendChunk, pipelineMoves
<1>2. CASE acceptAnswer
  BY <1>2 DEF acceptAnswer
<1>3. CASE \E p \in Peers : makeOffer(p)
  BY <1>3 DEF makeOffer, send, sendFails
<1>4. QED
  BY <1>1, <1>2, <1>3

LEMMA ReceiverBends ==
  ASSUME receiver, ~waitDone PROVE Bends
<1>0. SUFFICES UNCHANGED <<chan, closedS, closedR>>
  BY ReceiverRests DEF Bends
<1>1. CASE announced \/ router
  BY <1>1 DEF announced, router, readFrame, readEnds, OnMetadata, OnAddPeerOffer,
              OnTransferComplete, OnAbort, dispatched
<1>2. CASE failOnEarlyClose \/ verify \/ doneBody
  BY <1>2 DEF failOnEarlyClose, verify, doneBody
<1>3. ASSUME NEW p \in Peers,
             \/ negotiateReceivePeer(p) \/ installDataPeer(p) \/ dataReader(p)
             \/ peerWatchLooks(p) \/ failOnPeerClose(p)
      PROVE  UNCHANGED <<chan, closedS, closedR>>
  BY <1>3 DEF negotiateReceivePeer, createPeer, acceptOffer, answerOffer, negMoves,
              installDataPeer, dataReader, onPeerData, ingest, diskFails,
              peerReadEnds, peerWatchLooks, failOnPeerClose, readerMoves
<1>4. QED
  BY <1>1, <1>2, <1>3 DEF receiver

LEMMA StandingInit == Init => Standing
BY DEF Init, Standing, torn

LEMMA NetworkStands ==
  ASSUME TypeInv, Standing, Grows, Flows, network \/ linkLost PROVE Standing'
<1>1. ASSUME NEW p \in Peers, dataOpens(p) \/ dataAck(p) \/ dataNotified(p) PROVE Bends
  BY <1>1 DEF dataOpens, dataAck, dataNotified, dataMoves, netMoves, Bends
<1>2. CASE channelOpens
  <2>1. /\ chan' = "open" /\ start = "waiting" /\ chan = "connecting"
        /\ UNCHANGED <<start, ctxDone, sessDone, closedS, closedR, spc, gate, rmain, causes>>
    BY <1>2 DEF channelOpens, ctrlMoves, netMoves
  <2>2. QED
    BY <2>1 DEF Standing, calm, torn, stillborn
<1>3. CASE ack
  BY <1>3, StandingKept DEF ack, ctrlMoves, netMoves, Bends
<1>4. CASE senderNotified \/ receiverNotified
  <2>1. /\ chan \in {"down", "closing"}
        /\ UNCHANGED <<start, chan, spc>>
    BY <1>4 DEF senderNotified, receiverNotified, ctrlHungUp, ctrlMoves, netMoves
  <2>2. calm' => spc = "gone"
    BY <2>1, CalmBefore DEF Standing, torn, stillborn
  <2>3. QED
    BY <2>1, <2>2 DEF Standing
<1>5. CASE linkLost
  <2>1. ~calm'
    BY <1>5, LinkInjected DEF linkLost
  <2>2. start' = "signaling" => chan' \in {"connecting", "dead"}
    BY <1>5 DEF linkLost, ctrlMoves, dataMoves, netMoves, Standing
  <2>3. QED
    BY <2>1, <2>2 DEF Standing
<1>6. QED
  BY <1>1, <1>2, <1>3, <1>4, <1>5, StandingKept DEF network

LEMMA StandingNext ==
  ASSUME TypeInv, Leading, Answering, Standing, Grows, Flows, [Next]_vars
  PROVE  Standing'
<1>1. CASE UNCHANGED vars
  BY <1>1, StandingKept DEF vars, Bends
<1>2. CASE closeRun
  <2>1. spc' = "gone" /\ UNCHANGED start
        /\ chan' = IF chan = "open" THEN "closing" ELSE chan
    BY <1>2 DEF closeRun
  <2>2. QED
    BY <2>1 DEF Standing
<1>3. CASE OnAddPeerAnswer
  <2>1. back # <<>>
    BY <1>3 DEF OnAddPeerAnswer
  <2>2. Len(answers) < Cardinality(Peers)
    BY <2>1, RoomForAnswers
  <2>3. Bends
    BY <1>3, <2>2 DEF OnAddPeerAnswer, Bends
  <2>4. QED
    BY <2>3, StandingKept
<1>4. CASE signalingFails
  <2>1. /\ start = "signaling" /\ start' = "failed" /\ "signaling" \in causes'
        /\ chan' = "dead"
        /\ UNCHANGED <<sessDone, closedS, closedR, spc, gate, rmain>>
    BY <1>4 DEF signalingFails, startEnds, startMoves, hangUp, inject, Standing
  <2>2. ASSUME calm' PROVE spc' = "gone" \/ stillborn'
    <3>1. CASE torn
      BY <2>1, <2>2, <3>1, CalmBefore DEF Standing, stillborn
    <3>2. CASE ~torn
      <4>1. chan = "connecting"
        BY <2>1, <3>2 DEF torn, Standing
      <4>2. spc \in {"pre", "close", "gone"}
        BY <4>1 DEF Leading, mayAnnounce
      <4>3. QED
        BY <2>1, <3>2, <4>2 DEF stillborn, torn
    <3>3. QED
      BY <3>1, <3>2
  <2>3. QED
    BY <2>1, <2>2 DEF Standing
<1>5. CASE startReturns \/ watcherCloses
  <2>1. sessDone \/ closedS
    BY <1>5 DEF startReturns, watcherCloses
  <2>2. UNCHANGED spc /\ start' # "signaling"
    BY <1>5 DEF startReturns, watcherCloses, startEnds, startMoves
  <2>3. calm' => spc = "gone"
    BY <2>1, CalmBefore DEF Standing, torn, stillborn
  <2>4. QED
    BY <2>2, <2>3 DEF Standing
<1>6. CASE iceFails
  <2>1. UNCHANGED <<spc, chan, sessDone, closedS, closedR, start>>
    BY <1>6 DEF iceFails, startMoves
  <2>2. ASSUME calm' PROVE spc' = "gone" \/ stillborn'
    <3>1. chan \in {"down", "lost", "dead"} /\ UNCHANGED causes
      BY <1>6, <2>2, LinkInjected DEF iceFails
    <3>2. spc = "gone" \/ stillborn
      BY <2>2, <3>1, CalmBefore DEF Standing, torn
    <3>3. QED
      BY <2>1, <3>1, <3>2 DEF stillborn
  <2>3. QED
    BY <2>1, <2>2 DEF Standing
<1>7. CASE pathTimeout \/ waitDone
  <2>1. UNCHANGED start /\ chan' \in {"dead", "down"}
        /\ (chan \in {"connecting", "dead"} => chan' = "dead")
    BY <1>7 DEF pathTimeout, waitDone, receiverEnds, hangUp
  <2>2. ~calm'
    BY <1>7 DEF pathTimeout, waitDone, receiverEnds, calm, Core!done
  <2>3. QED
    BY <2>1, <2>2 DEF Standing
<1>8. CASE network \/ linkLost
  BY <1>8, NetworkStands
<1>9. CASE receiver /\ ~waitDone
  BY <1>9, ReceiverBends, StandingKept
<1>10. QED
  BY <1>1, <1>2, <1>3, <1>4, <1>5, <1>6, <1>7, <1>8, <1>9,
     RunBends, WorkBends, StandingKept
  DEF Next, runMulti, senderStart
-----------------------------------------------------------------------------
(* Meanwhile no data link is down unless the sender closed its peers, and it
   does so when it gives the transfer up or after everything else. *)
Peaceful ==
  /\ \A p \in Peers : dlink[p] # "lost" /\ (dlink[p] = "down" => peersClosed)
  /\ \A p \in opened : dlink[p] = "open" \/ peersClosed
  /\ peersClosed => spc = "gone" \/ (spc \in {"abort", "flush", "close"} /\ ~sentComplete)

Lines ==
  /\ \A p \in opened : dlink[p] # "none"
  /\ spc \in {"pre", "build"} => \A p \in Peers : dlink[p] = "none"
  /\ calm => Peaceful

(* What a step may do to the links. *)
LineRests == UNCHANGED <<dlink, opened, peersClosed>>

LineBuilt == /\ spc = "build" /\ spc' = "negotiate"
             /\ \A p \in Peers : dlink'[p] = "connecting"
             /\ UNCHANGED <<opened, peersClosed>>

LineClosed == /\ closePeers /\ UNCHANGED opened
              /\ \/ spc = "negotiate" /\ spc' = "abort"
                 \/ spc = "close" /\ spc' = "gone"
                 \/ closedS /\ UNCHANGED spc

LineOpened(p) == /\ dlink[p] = "connecting"
                 /\ dlink' = [dlink EXCEPT ![p] = "open"]
                 /\ opened' = opened \cup {p}
                 /\ UNCHANGED <<peersClosed, spc>>

LineCut == /\ ~calm' /\ UNCHANGED <<opened, spc>>
           /\ \A p \in Peers : dlink'[p] = "none" <=> dlink[p] = "none"

LineMoves == \/ LineRests \/ LineBuilt \/ LineClosed \/ LineCut
             \/ \E p \in Peers : LineOpened(p)

LEMMA RunLines ==
  ASSUME \/ runMulti \/ OnAddPeerAnswer \/ multiProduce
         \/ \E p \in Peers : makeOffer(p) \/ multiWorker(p)
         \/ senderStart \/ signalingFails
  PROVE  LineRests \/ LineBuilt \/ LineClosed
<1> USE DEF LineRests, runMoves, runOnly
<1>1. CASE preTransfer \/ allOpen \/ discardChunk \/ collectErrors
  BY <1>1 DEF preTransfer, allOpen, discardChunk, collectErrors
<1>2. CASE buildDataPeers
  BY <1>2 DEF buildDataPeers, LineBuilt, all
<1>3. ASSUME cancelHandshake, spc = "negotiate" PROVE LineClosed
  BY <1>3 DEF cancelHandshake, LineClosed
<1>4. CASE takeAnswer \/ negotiationFails
  BY <1>3, <1>4 DEF takeAnswer, negotiationFails
<1>5. CASE flushData \/ sendTransferComplete \/ sendAbort \/ flush
  BY <1>5 DEF flushData, sendTransferComplete, sendAbort, flush
<1>6. CASE closeRun
  BY <1>6 DEF closeRun, LineClosed
<1>7. CASE OnAddPeerAnswer \/ \E p \in Peers : makeOffer(p)
  BY <1>7 DEF OnAddPeerAnswer, makeOffer
<1>8. CASE multiProduce \/ \E p \in Peers : multiWorker(p)
  BY <1>8 DEF multiProduce, multiWorker, sendChunk, sendOn, sendOnFails, pipelineMoves
<1>9. CASE acceptAnswer \/ startReturns \/ signalingFails \/ iceFails
  BY <1>9 DEF acceptAnswer, startReturns, signalingFails, startEnds, iceFails, startMoves
<1>10. CASE watcherCloses
  BY <1>10 DEF watcherCloses, startMoves, LineClosed
<1>11. QED
  BY <1>1, <1>2, <1>4, <1>5, <1>6, <1>7, <1>8, <1>9, <1>10
  DEF runMulti, negotiatePeers, senderStart

LEMMA NetworkLines ==
  ASSUME TypeInv, network \/ linkLost PROVE LineMoves
<1>0. dlink \in [Peers -> {"none", "connecting", "open", "down", "lost"}]
  BY DEF TypeInv, TypeOK, LinkTypeOK
<1> USE DEF LineMoves, ctrlMoves, dataMoves, netMoves
<1>1. CASE channelOpens \/ ack \/ senderNotified \/ receiverNotified
  BY <1>1 DEF channelOpens, ack, senderNotified, receiverNotified, LineRests
<1>2. ASSUME NEW p \in Peers, dataOpens(p) \/ dataAck(p) \/ dataNotified(p) PROVE LineMoves
  BY <1>2 DEF dataOpens, dataAck, dataNotified, LineRests, LineOpened
<1>3. CASE linkLost
  <2>1. ~calm'
    BY <1>3, LinkInjected DEF linkLost
  <2>2. CASE \E p \in Peers : dlink[p] = "open" /\ dlink' = [dlink EXCEPT ![p] = "lost"]
                              /\ dataMoves /\ UNCHANGED opened
    BY <1>0, <2>1, <2>2 DEF LineCut
  <2>3. QED
    BY <1>3, <2>2 DEF linkLost, LineRests
<1>4. QED
  BY <1>1, <1>2, <1>3 DEF network

LEMMA ReceiverLines ==
  ASSUME TypeInv, receiver \/ pathTimeout PROVE LineRests \/ LineCut
<1>0. dlink \in [Peers -> {"none", "connecting", "open", "down", "lost"}]
  BY DEF TypeInv, TypeOK, LinkTypeOK
<1>r. UNCHANGED sndVars
  BY ReceiverRests DEF pathTimeout, receiverEnds
<1> USE DEF LineRests
<1>1. CASE announced \/ waitDone \/ pathTimeout \/ router
  <2>1. CASE announced \/ waitDone \/ pathTimeout
    BY <2>1 DEF announced, waitDone, pathTimeout, receiverEnds
  <2>2. CASE router
    BY <2>2, <1>r DEF router, readFrame, readEnds, OnMetadata, OnAddPeerOffer,
                OnTransferComplete, OnAbort, dispatched
  <2>3. QED
    BY <1>1, <2>1, <2>2
<1>2. CASE failOnEarlyClose \/ verify
  BY <1>2 DEF failOnEarlyClose, verify
<1>3. CASE doneBody
  <2>1. CASE cleanup
    <3>1. gate' # "free"
      BY <2>1 DEF cleanup, Core!cleanup
    <3>2. \A p \in Peers : dlink'[p] = "none" <=> dlink[p] = "none"
      BY <1>0, <2>1 DEF cleanup, hungUp
    <3>3. QED
      BY <1>r, <3>1, <3>2 DEF LineCut, calm
  <2>2. CASE finish
    BY <1>r, <2>2 DEF finish
  <2>3. QED
    BY <1>3, <2>1, <2>2 DEF doneBody
<1>4. ASSUME NEW p \in Peers, closeSess(p), gate' # "free" PROVE LineCut
  <2>1. \A q \in Peers : dlink'[q] = "none" <=> dlink[q] = "none"
    BY <1>0, <1>4 DEF closeSess, hungUp
  <2>2. QED
    BY <1>r, <1>4, <2>1 DEF LineCut, calm
<1>5. ASSUME NEW p \in Peers, negotiateReceivePeer(p) PROVE LineRests \/ LineCut
  <2>1. CASE createPeer(p)
    BY <1>r, <2>1 DEF createPeer
  <2>2. CASE acceptOffer(p)
    BY <1>r, <1>4, <2>2, FailGrows DEF acceptOffer
  <2>3. CASE answerOffer(p)
    BY <1>r, <1>4, <2>3, FailGrows DEF answerOffer, Core!done
  <2>4. QED
    BY <1>5, <2>1, <2>2, <2>3 DEF negotiateReceivePeer
<1>6. ASSUME NEW p \in Peers,
             \/ installDataPeer(p) \/ dataReader(p) \/ peerWatchLooks(p) \/ failOnPeerClose(p)
      PROVE  LineRests
  BY <1>r, <1>6 DEF installDataPeer, dataReader, onPeerData, ingest, diskFails,
              peerReadEnds, peerWatchLooks, failOnPeerClose, readerMoves
<1>7. QED
  BY <1>1, <1>2, <1>3, <1>5, <1>6 DEF receiver

LEMMA StepLines == ASSUME TypeInv, [Next]_vars PROVE LineMoves
<1>1. CASE UNCHANGED vars
  BY <1>1 DEF vars, LineRests, LineMoves
<1>2. QED
  BY <1>1, RunLines, NetworkLines, ReceiverLines DEF Next, LineMoves

LEMMA LinesInit == Init => Lines
BY DEF Init, Lines, Peaceful, all

LEMMA LinesNext ==
  ASSUME TypeInv, Told, Standing, Lines, Grows, Flows, LineMoves, TypeInv'
  PROVE  Lines'
<1>0. /\ dlink \in [Peers -> {"none", "connecting", "open", "down", "lost"}]
      /\ opened \subseteq Peers
  BY DEF TypeInv, TypeOK, LinkTypeOK, SenderTypeOK
<1>1. ASSUME peersClosed => spc = "gone" \/ (spc \in {"abort", "flush", "close"} /\ ~sentComplete)
      PROVE  peersClosed => spc' = "gone" \/ (spc' \in {"abort", "flush", "close"} /\ ~sentComplete')
  BY <1>1 DEF Flows
<1>2. CASE LineRests
  <2>1. calm' => Peaceful'
    BY <1>1, <1>2, CalmBefore DEF LineRests, Lines, Peaceful
  <2>2. QED
    BY <1>2, <2>1 DEF LineRests, Lines, Flows
<1>3. CASE LineBuilt
  <2>1. opened = {}
    BY <1>0, <1>3 DEF LineBuilt, Lines
  <2>2. calm' => ~peersClosed
    BY <1>3, CalmBefore DEF LineBuilt, Lines, Peaceful
  <2>3. calm' => Peaceful'
    BY <1>3, <2>1, <2>2 DEF LineBuilt, Peaceful
  <2>4. QED
    BY <1>3, <2>1, <2>3 DEF LineBuilt, Lines
<1>4. CASE LineClosed
  <2>1. \A p \in Peers : dlink'[p] = hungUp(dlink[p])
    BY <1>4 DEF LineClosed, closePeers
  <2>2. \A p \in Peers : dlink[p] # "none" => peersClosed'
    BY <1>4 DEF LineClosed, closePeers, all
  <2>3. \A p \in Peers : dlink'[p] = "none" <=> dlink[p] = "none"
    BY <2>1 DEF hungUp
  <2>4. spc' \in {"pre", "build"} => spc \in {"pre", "build"}
    BY DEF Flows
  <2>5. ASSUME calm' PROVE Peaceful'
    <3>1. \A p \in Peers : dlink'[p] # "lost" /\ (dlink'[p] = "down" => peersClosed')
      BY <2>1, <2>2, <1>0, <2>5, CalmBefore DEF hungUp, Lines, Peaceful
    <3>2. \A p \in opened' : peersClosed'
      BY <1>0, <1>4, <2>2 DEF LineClosed, Lines
    <3>3. CASE spc = "negotiate" /\ spc' = "abort"
      BY <3>1, <3>2, <3>3 DEF Peaceful, Told, Flows
    <3>4. CASE spc = "close" /\ spc' = "gone"
      BY <3>1, <3>2, <3>4 DEF Peaceful
    <3>5. CASE closedS /\ UNCHANGED spc
      <4>1. spc = "gone"
        BY <2>5, <3>5, CalmBefore DEF Standing, torn, stillborn
      <4>2. QED
        BY <3>1, <3>2, <3>5, <4>1 DEF Peaceful
    <3>6. QED
      BY <1>4, <3>3, <3>4, <3>5 DEF LineClosed
  <2>6. QED
    BY <1>0, <1>4, <2>3, <2>4, <2>5 DEF LineClosed, Lines
<1>5. CASE LineCut
  BY <1>0, <1>5 DEF LineCut, Lines
<1>6. ASSUME NEW p \in Peers, LineOpened(p) PROVE Lines'
  <2>1. \A q \in Peers : dlink'[q] = IF q = p THEN "open" ELSE dlink[q]
    BY <1>0, <1>6 DEF LineOpened
  <2>2. opened' = opened \cup {p} /\ UNCHANGED <<peersClosed, spc>> /\ dlink[p] = "connecting"
    BY <1>6 DEF LineOpened
  <2>3. calm' => Peaceful'
    BY <1>0, <1>1, <2>1, <2>2, CalmBefore DEF Lines, Peaceful
  <2>4. QED
    BY <1>0, <2>1, <2>2, <2>3 DEF Lines
<1>7. QED
  BY <1>2, <1>3, <1>4, <1>5, <1>6 DEF LineMoves
-----------------------------------------------------------------------------
(* What the workers sent is on its way to the readers or with them. *)
sentOut == spc = "complete" \/ sentComplete

onTheWay(o) == o \in arrived \/ \E p \in Peers : o \in CellsOf(dout[p]) \cup CellsOf(drq[p])

Handed ==
  /\ spc = "flushData" \/ sentOut => \A p \in Peers : worker[p] \in {"ended", "failed"}
  /\ calm /\ sentOut => \A p \in Peers : dout[p] = <<>>
  /\ calm /\ (setUp \/ pumping \/ sentComplete) => \A o \in sentCells : onTheWay(o)

LEMMA HandedInit == Init => Handed
BY DEF Init, Handed, sentOut

LEMMA WorkersHanded ==
  ASSUME TypeInv, Told, Handed, WholeMoves
  PROVE  spc' = "flushData" \/ sentOut' => \A p \in Peers : worker'[p] \in {"ended", "failed"}
<1> USE DEF sentOut
<1>1. CASE Calm
  BY <1>1 DEF Calm, Handed
<1>2. CASE allOpen
  BY <1>2 DEF allOpen, runMoves, Told
<1>3. CASE multiProduce
  BY <1>3 DEF multiProduce, pipelineMoves, Handed
<1>4. CASE discardChunk
  BY <1>4 DEF discardChunk, joined, runMoves, Told
<1>5. CASE collectErrors
  BY <1>5 DEF collectErrors, joined, runOnly, runMoves
<1>6. ASSUME NEW p \in Peers, multiWorker(p)
      PROVE  ~(spc' = "flushData" \/ sentOut')
  <2>1. worker[p] \in {"ready", "drain"}
    BY <1>6 DEF multiWorker, sendChunk
  <2>2. UNCHANGED <<spc, sentComplete>>
    BY <1>6 DEF multiWorker, sendChunk, pipelineMoves
  <2>3. QED
    BY <2>1, <2>2 DEF Handed
<1>7. QED
  BY <1>1, <1>2, <1>3, <1>4, <1>5, <1>6 DEF WholeMoves

\* The buffers are flushed by the time TRANSFER_COMPLETE is sent.
LEMMA BuffersHanded ==
  ASSUME TypeInv, Told, Lines, Handed, Grows, Flows, DataMoves, calm', sentOut'
  PROVE  \A p \in Peers : dout'[p] = <<>>
<1>0. dout \in [Peers -> Seq(FileChunks)]
  BY DEF TypeInv, QueuesOK
<1>1. CASE flushData
  <2>1. spc = "flushData" /\ UNCHANGED dout
        /\ (dout = all(<<>>) \/ timerFires(\A p \in Peers : dlink[p] = "open"))
    BY <1>1 DEF flushData, runOnly
  <2>2. ~(\A p \in Peers : dlink[p] = "open") => dout = all(<<>>)
    <3>1. opened = Peers
      BY <2>1 DEF Told, pumping
    <3>2. \A p \in Peers : dlink[p] = "open"
      BY <2>1, <3>1, CalmBefore DEF Lines, Peaceful
    <3>3. QED
      BY <3>2
  <2>3. dout = all(<<>>)
    BY <2>1, <2>2, LinkInjected DEF timerFires
  <2>4. QED
    BY <2>1, <2>3 DEF all
<1>2. CASE ~flushData
  <2>1. calm /\ sentOut
    BY <1>2, CalmBefore DEF Flows, sentOut
  <2>2. \A p \in Peers : dout[p] = <<>> /\ worker[p] # "ready"
    BY <2>1 DEF Handed
  <2>3. UNCHANGED dout \/ dout' = all(<<>>)
    BY <2>2 DEF DataMoves, Rests, Produces, Drops, SendsOn, AcksOn, DeliversTo
  <2>4. QED
    BY <2>2, <2>3 DEF all
<1>3. QED
  BY <1>1, <1>2

LEMMA BytesHanded ==
  ASSUME TypeInv, Fresh, Whole, Told, Standing, Handed, Grows, Flows, DataMoves,
         calm', setUp' \/ pumping' \/ sentComplete'
  PROVE  \A o \in sentCells' : onTheWay(o)'
<1>0. /\ dout \in [Peers -> Seq(FileChunks)] /\ drq \in [Peers -> Seq(FileChunks)]
      /\ pipe \in Seq(FileChunks)
  BY DEF TypeInv, QueuesOK
<1>1. calm /\ (setUp \/ pumping \/ sentComplete)
  BY CalmBefore DEF Flows, pumping
<1>2. \A o \in sentCells : onTheWay(o)
  BY <1>1 DEF Handed
<1>3. ASSUME NEW o \in sentCells',
             o \in arrived' \/ \E p \in Peers : o \in CellsOf(dout'[p]) \cup CellsOf(drq'[p])
      PROVE  onTheWay(o)'
  BY <1>3 DEF onTheWay, CellsOf, Core!Cells
<1>4. SUFFICES ASSUME NEW o \in sentCells'
               PROVE  \/ o \in arrived'
                      \/ \E p \in Peers : o \in CellsOf(dout'[p]) \cup CellsOf(drq'[p])
  BY <1>3
<1>5. o \in sentCells => o \in arrived \/ \E p \in Peers : o \in CellsOf(dout[p]) \cup CellsOf(drq[p])
  BY <1>2 DEF onTheWay
<1>6. CASE Rests
  <2>1. UNCHANGED <<sentCells, drq, arrived>>
    BY <1>6 DEF Rests
  <2>2. CASE UNCHANGED dout
    BY <1>5, <2>1, <2>2
  <2>3. CASE dout' = all(<<>>) /\ (spc \in {"negotiate", "close"} \/ closedS)
    <3>1. CASE spc = "negotiate"
      <4>1. sentCells = {}
        BY <3>1, SizeIsNat DEF Whole, Fresh, setUp
      <4>2. QED
        BY <2>1, <4>1
    <3>2. CASE spc = "close" \/ closedS
      <4>1. spc \in {"close", "gone"}
        BY <1>1, <3>2 DEF Standing, torn, stillborn
      <4>2. sentComplete
        BY <1>1, <4>1 DEF setUp, pumping
      <4>3. \A p \in Peers : dout[p] = <<>> /\ dout'[p] = <<>>
        BY <1>1, <2>3, <4>2 DEF Handed, sentOut, all
      <4>4. QED
        BY <1>5, <2>1, <4>3
    <3>3. QED
      BY <2>3, <3>1, <3>2
  <2>4. QED
    BY <1>6, <2>2, <2>3 DEF Rests
<1>7. CASE Produces \/ Drops
  BY <1>5, <1>7 DEF Produces, Drops
<1>8. ASSUME NEW p \in Peers, SendsOn(p)
      PROVE  o \in arrived' \/ \E q \in Peers : o \in CellsOf(dout'[q]) \cup CellsOf(drq'[q])
  <2>1. /\ pipe # <<>> /\ UNCHANGED <<drq, arrived>>
        /\ sentCells' = sentCells \cup Core!Cells(Head(pipe))
        /\ dout'[p] = Append(dout[p], Head(pipe))
        /\ \A q \in Peers : q # p => dout'[q] = dout[q]
    BY <1>0, <1>8 DEF SendsOn
  <2>2. CellsOf(dout'[p]) = CellsOf(dout[p]) \cup Core!Cells(Head(pipe))
    BY <1>0, <2>1, Appended, Taken
  <2>3. QED
    BY <1>5, <2>1, <2>2
<1>9. ASSUME NEW p \in Peers, AcksOn(p)
      PROVE  o \in arrived' \/ \E q \in Peers : o \in CellsOf(dout'[q]) \cup CellsOf(drq'[q])
  <2>1. /\ dout[p] # <<>> /\ UNCHANGED <<sentCells, arrived>>
        /\ drq'[p] = Append(drq[p], Head(dout[p])) /\ dout'[p] = Tail(dout[p])
        /\ \A q \in Peers : q # p => dout'[q] = dout[q] /\ drq'[q] = drq[q]
    BY <1>0, <1>9 DEF AcksOn
  <2>2. /\ CellsOf(dout[p]) = Core!Cells(Head(dout[p])) \cup CellsOf(dout'[p])
        /\ CellsOf(drq'[p]) = CellsOf(drq[p]) \cup Core!Cells(Head(dout[p]))
    <3>1. Head(dout[p]) \in FileChunks
          /\ CellsOf(dout[p]) = Core!Cells(Head(dout[p])) \cup CellsOf(Tail(dout[p]))
      BY <1>0, <2>1, Taken
    <3>2. QED
      BY <1>0, <2>1, <3>1, Appended
  <2>3. QED
    BY <1>5, <2>1, <2>2
<1>10. ASSUME NEW p \in Peers, DeliversTo(p)
       PROVE  o \in arrived' \/ \E q \in Peers : o \in CellsOf(dout'[q]) \cup CellsOf(drq'[q])
  <2>1. /\ drq[p] # <<>> /\ UNCHANGED <<sentCells, dout>>
        /\ arrived' = arrived \cup Core!Cells(Head(drq[p])) /\ drq'[p] = Tail(drq[p])
        /\ \A q \in Peers : q # p => drq'[q] = drq[q]
    BY <1>0, <1>10 DEF DeliversTo
  <2>2. CellsOf(drq[p]) = Core!Cells(Head(drq[p])) \cup CellsOf(drq'[p])
    BY <1>0, <2>1, Taken
  <2>3. QED
    BY <1>5, <2>1, <2>2
<1>11. QED
  BY <1>6, <1>7, <1>8, <1>9, <1>10 DEF DataMoves

LEMMA HandedNext ==
  ASSUME TypeInv, Fresh, Whole, Told, Standing, Lines, Handed,
         WholeMoves, Grows, Flows, DataMoves
  PROVE  Handed'
BY WorkersHanded, BuffersHanded, BytesHanded DEF Handed
-----------------------------------------------------------------------------
(* What arrived is counted or in a reader's hand, what is counted is the file's,
   and a count of the whole file has closed allBytesCh. *)
inHand(o) == \E p \in Peers : rd[p] \in {"ingest", "count"} /\ o \in Core!Cells(chunk[p])

stored(o) == contents[o] = Source[o + 1]

Ingested ==
  /\ gate = "free" => \A o \in arrived : o \in counted \/ inHand(o)
  /\ gate = "free" /\ meta # NoMeta /\ counted = 0 .. Size - 1 => allBytes
  /\ \A o \in counted : stored(o)
  /\ \A p \in Peers : /\ rd[p] = "count" => \A o \in Core!Cells(chunk[p]) : stored(o)
                      /\ rd[p] # "idle" => meta # NoMeta
                      /\ rd[p] = "stopped" => gate # "free"
  /\ vf[Verifier] # "off" => meta # NoMeta

LEMMA IngestedInit == Init => Ingested
BY DEF Init, Core!Init, Ingested, inHand

\* A chunk of the pipeline holds the file's bytes at their offsets.
LEMMA ChunkCopies ==
  ASSUME NEW c \in FileChunks
  PROVE  /\ c.at \in 0 .. Size - 1 /\ Len(c.data) \in Nat /\ c.at + Len(c.data) <= Size
         /\ Core!Cells(c) \subseteq 0 .. Size - 1
         /\ \A o \in Core!Cells(c) : c.data[o - c.at + 1] = Source[o + 1]
<1>1. PICK a \in 0 .. Size - 1 : c = chunkAt(a)
  BY DEF FileChunks
<1> DEFINE to == IF a + ChunkSize <= Size THEN a + ChunkSize ELSE Size
           d == SubSeq(Source, a + 1, to)
<1>2. Source \in Seq(Byte) /\ Size \in Nat /\ ChunkSize \in Nat \ {0}
  BY MultiPCAssumption DEF Size
<1>3. to \in Nat /\ to <= Size /\ a + 1 <= to /\ a \in Nat
  BY <1>2
<1>4. \A i \in a + 1 .. to : Source[i] \in Byte
  BY <1>2, <1>3 DEF Size
<1>5. c.at = a /\ c.data = d
  BY <1>1 DEF chunkAt
<1> HIDE DEF to
<1>6. /\ Len(d) = to - (a + 1) + 1
      /\ \A i \in 1 .. to - (a + 1) + 1 : d[i] = Source[(a + 1) + i - 1]
  BY <1>3, <1>4, SubSeqProperties
<1> HIDE DEF d
<1>7. Core!Cells(c) = a .. a + Len(d) - 1
  BY <1>5 DEF Core!Cells
<1>8. a + Len(d) - 1 = to - 1 /\ Len(d) \in Nat /\ a + Len(d) <= Size
  BY <1>2, <1>3, <1>6
<1>9. \A o \in Core!Cells(c) : o - a + 1 \in 1 .. to - (a + 1) + 1 /\ (a + 1) + (o - a + 1) - 1 = o + 1
  BY <1>3, <1>7, <1>8
<1>10. \A o \in Core!Cells(c) : d[o - a + 1] = Source[o + 1]
  BY <1>6, <1>9
<1>11. Core!Cells(c) \subseteq 0 .. Size - 1
  BY <1>2, <1>3, <1>7, <1>8
<1>12. QED
  BY <1>5, <1>8, <1>10, <1>11

LEMMA OffsetsCount ==
  /\ Size \in Nat /\ 0 .. Size - 1 \subseteq Core!Offsets
  /\ IsFiniteSet(0 .. Size - 1) /\ Cardinality(0 .. Size - 1) = Size
  /\ 0 .. Size - 1 = {} => Size = 0
<1>1. Size \in Nat
  BY SizeIsNat
<1>2. 0 \in Int /\ Size - 1 \in Int /\ (IF 0 > Size - 1 THEN 0 ELSE (Size - 1) - 0 + 1) = Size
  BY <1>1
<1>3. IsFiniteSet(0 .. Size - 1) /\ Cardinality(0 .. Size - 1) = Size
  BY <1>2, FS_Interval
<1>4. 0 .. Size - 1 \subseteq Core!Offsets
  BY <1>1 DEF Core!Offsets
<1>5. Size # 0 => 0 \in 0 .. Size - 1
  BY <1>1
<1>6. QED
  BY <1>1, <1>3, <1>4, <1>5

LEMMA MetaIs == ASSUME TypeInv, meta # NoMeta PROVE meta.size = Size
BY DEF TypeInv, MetaOK, metadata

LEMMA IngestedNext ==
  ASSUME TypeInv, TypeInv', Counting, Counting', Leading, Published, Answering,
         Ingested, Grows, CoreKinds
  PROVE  Ingested'
<1>0. /\ rd \in [Peers -> {"idle", "ingest", "count", "stopped"}]
      /\ chunk \in [Peers -> FileChunks \cup {NoChunk}]
  BY DEF Counting
<1>1. gate' = "free" => gate = "free"
  BY DEF Grows
<1>2. counted \subseteq 0 .. Size - 1
  BY MetaIs DEF Counting
<1>3. counted' \subseteq 0 .. Size - 1
  BY <1>2 DEF Counting, TypeInv, MetaOK, metadata
<1>4. vf'[Verifier] # "off" => meta' # NoMeta
  <2>1. meta # NoMeta => meta' # NoMeta
    BY DEF CoreKinds, Waits, ReaderKinds, DeliversChunk, Refuses, Writes, Counts
  <2>2. QED
    BY <2>1 DEF CoreKinds, Ingested, Leading
<1> DEFINE Free == gate' = "free" =>
             \A o \in arrived' : \/ o \in counted'
                                 \/ \E p \in Peers : rd'[p] \in {"ingest", "count"}
                                                      /\ o \in Core!Cells(chunk'[p])
           Full == gate' = "free" /\ meta' # NoMeta /\ counted' = 0 .. Size - 1 => allBytes'
           Held == /\ \A o \in counted' : contents'[o] = Source[o + 1]
                   /\ \A p \in Peers :
                        /\ rd'[p] = "count" =>
                             \A o \in Core!Cells(chunk'[p]) : contents'[o] = Source[o + 1]
                        /\ rd'[p] # "idle" => meta' # NoMeta
                        /\ rd'[p] = "stopped" => gate' # "free"
<1>5. SUFFICES Free /\ Full /\ Held
  BY <1>4 DEF Ingested, inHand, stored, Core!Cells
<1>6. /\ gate = "free" =>
           \A o \in arrived : \/ o \in counted
                              \/ \E p \in Peers : rd[p] \in {"ingest", "count"}
                                                   /\ o \in Core!Cells(chunk[p])
      /\ \A o \in counted : contents[o] = Source[o + 1]
      /\ \A p \in Peers : /\ rd[p] = "count" =>
                               \A o \in Core!Cells(chunk[p]) : contents[o] = Source[o + 1]
                          /\ rd[p] # "idle" => meta # NoMeta
                          /\ rd[p] = "stopped" => gate # "free"
      /\ gate = "free" /\ meta # NoMeta /\ counted = 0 .. Size - 1 => allBytes
  BY DEF Ingested, inHand, stored
<1>7. ASSUME NEW p \in Peers, DeliversChunk(p) PROVE Free /\ Full /\ Held
  <2>1. meta # NoMeta
    BY <1>7 DEF DeliversChunk, Published, PeerIsPublished, Answering
  <2>2. /\ rd[p] = "idle" /\ rd'[p] = "ingest" /\ chunk'[p] = Head(drq[p])
        /\ \A q \in Peers : q # p => rd'[q] = rd[q] /\ chunk'[q] = chunk[q]
        /\ arrived' = arrived \cup Core!Cells(Head(drq[p]))
        /\ UNCHANGED <<contents, counted, meta, allBytes>>
    BY <1>0, <1>7 DEF DeliversChunk
  <2>3. Free
    BY <1>1, <1>6, <2>2
  <2>4. Full /\ Held
    BY <1>1, <1>6, <2>1, <2>2 DEF Grows
  <2>5. QED
    BY <2>3, <2>4
<1>8. ASSUME NEW p \in Peers, Refuses(p) PROVE Free /\ Full /\ Held
  <2>1. /\ rd[p] = "ingest" /\ rd'[p] = "stopped" /\ gate' # "free"
        /\ \A q \in Peers : q # p => rd'[q] = rd[q] /\ chunk'[q] = chunk[q]
        /\ UNCHANGED <<contents, counted, meta>>
    BY <1>0, <1>8 DEF Refuses
  <2>2. QED
    BY <1>6, <2>1
<1>9. ASSUME NEW p \in Peers, Writes(p) PROVE Free /\ Full /\ Held
  <2>1. /\ rd[p] = "ingest" /\ rd'[p] = "count" /\ UNCHANGED chunk /\ meta # NoMeta
        /\ \A q \in Peers : q # p => rd'[q] = rd[q]
        /\ UNCHANGED <<counted, arrived, meta, allBytes>>
    BY <1>0, <1>9 DEF Writes
  <2>2. chunk[p] \in FileChunks
    BY <2>1 DEF Counting
  <2>3. \A o \in Core!Offsets : contents'[o] =
          IF o \in Core!Cells(chunk[p]) THEN chunk[p].data[o - chunk[p].at + 1] ELSE contents[o]
    BY <1>9 DEF Writes, Core!writeAt
  <2>4. \A o \in 0 .. Size - 1 : IF o \in Core!Cells(chunk[p])
                                 THEN contents'[o] = Source[o + 1]
                                 ELSE contents'[o] = contents[o]
    BY <2>2, <2>3, ChunkCopies, OffsetsCount
  <2>5. \A q \in Peers : rd'[q] = "count" => Core!Cells(chunk[q]) \subseteq 0 .. Size - 1
    <3>1. \A q \in Peers : rd'[q] = "count" => chunk[q] \in FileChunks
      BY <2>1, <2>2 DEF Counting
    <3>2. QED
      BY <3>1, ChunkCopies
  <2>6. Free /\ Full
    BY <1>1, <1>6, <2>1
  <2>7. Held
    BY <1>2, <1>6, <2>1, <2>4, <2>5 DEF Grows
  <2>8. QED
    BY <2>6, <2>7
<1>10. ASSUME NEW p \in Peers, Counts(p) PROVE Free /\ Full /\ Held
  <2>1. /\ rd[p] = "count" /\ rd'[p] = "idle"
        /\ \A q \in Peers : q # p => rd'[q] = rd[q] /\ chunk'[q] = chunk[q]
        /\ counted' = counted \cup Core!Cells(chunk[p])
        /\ bytesWritten' >= meta.size => allBytes'
        /\ UNCHANGED <<contents, arrived, meta>>
    BY <1>0, <1>10 DEF Counts
  <2>2. Free /\ Held
    BY <1>1, <1>6, <2>1 DEF Grows
  <2>3. ASSUME counted' = 0 .. Size - 1, meta' # NoMeta PROVE allBytes'
    <3>1. bytesWritten' = Size /\ meta.size = Size
      BY <2>1, <2>3, OffsetsCount, MetaIs DEF Counting
    <3>2. QED
      BY <2>1, <3>1, OffsetsCount
  <2>4. QED
    BY <2>2, <2>3
<1>11. CASE Waits
  <2>1. /\ UNCHANGED <<rd, chunk, contents, counted, arrived>>
        /\ allBytes => allBytes'
        /\ meta' # meta => /\ meta = NoMeta
                           /\ gate' # "free" \/ (meta'.size = 0 => allBytes')
    BY <1>11 DEF Waits
  <2>2. Free /\ Held
    BY <1>1, <1>6, <2>1 DEF Grows
  <2>3. ASSUME gate' = "free", counted' = 0 .. Size - 1, meta' # NoMeta PROVE allBytes'
    <3>1. CASE meta' = meta
      BY <1>1, <1>6, <2>1, <2>3, <3>1
    <3>2. CASE meta' # meta
      <4>1. counted = {} /\ meta' = metadata
        BY <2>1, <2>3, <3>2 DEF Counting, TypeInv, MetaOK
      <4>2. meta'.size = 0
        BY <2>1, <2>3, <4>1, OffsetsCount DEF metadata
      <4>3. QED
        BY <2>1, <2>3, <3>2, <4>2
    <3>3. QED
      BY <3>1, <3>2
  <2>4. QED
    BY <2>2, <2>3
<1>12. QED
  BY <1>7, <1>8, <1>9, <1>10, <1>11 DEF CoreKinds, ReaderKinds
-----------------------------------------------------------------------------
(* Without a fault the sender neither gives up nor fails anywhere, and a data
   channel closes only after it has gone. *)
faultless == causes = {} /\ gate = "free" /\ rmain # "gaveUp"

Unfailed ==
  /\ spc # "abort" /\ prod # "failed"
  /\ spc \in {"flush", "close", "gone"} => sentComplete
  /\ spc = "negotiate" => \A p \in Peers : offer[p] # "failed"
  /\ spc = "transfer" => \A p \in Peers : worker[p] # "failed"

Faultless ==
  faultless => /\ Unfailed
               /\ "ABORT" \notin frames
               /\ \A p \in Peers : dclosed[p] => spc = "gone"

LEMMA FaultlessInit == Init => Faultless
BY OrderEmptied DEF Init, Faultless, Unfailed, frames, all

LEMMA FaultlessBefore == ASSUME Grows, faultless' PROVE faultless
BY DEF Grows, faultless

LEMMA NothingInjected ==
  ASSUME faultless'
  PROVE  \A f : ~inject(f) /\ ~timerFires(TRUE)
BY DEF faultless, inject, timerFires

\* Then whatever is torn down was torn down after the sender had gone.
LEMMA NothingTorn ==
  ASSUME TypeInv, Standing, Lines, Faultless, faultless
  PROVE  /\ Unfailed
         /\ torn \/ peersClosed => spc = "gone"
         /\ \A p \in Peers : dlink[p] # "lost" /\ (dlink[p] = "down" => spc = "gone")
         /\ \A p \in opened : dlink[p] = "open" \/ spc = "gone"
<1>1. calm /\ ~stillborn
  BY DEF faultless, calm, stillborn
<1>2. Unfailed /\ Peaceful
  BY <1>1 DEF Faultless, Lines
<1>3. torn => spc = "gone"
  BY <1>1 DEF Standing
<1>4. peersClosed => spc = "gone"
  BY <1>2 DEF Peaceful, Unfailed
<1>5. QED
  BY <1>2, <1>3, <1>4 DEF Peaceful

LEMMA RunUnfailed ==
  ASSUME TypeInv, Leading, Answering, Standing, Lines, Faultless, Grows, Flows, faultless', runMulti
  PROVE  Unfailed'
<1>1. faultless /\ \A f : ~inject(f)
  BY FaultlessBefore, NothingInjected
<1>2. /\ Unfailed /\ (torn \/ peersClosed => spc = "gone")
      /\ \A p \in Peers : dlink[p] = "down" => spc = "gone"
  BY <1>1, NothingTorn
<1>3. chan = "down" \/ ctxDone => spc = "gone"
  BY <1>2 DEF torn
<1> USE DEF Unfailed, runMoves, runOnly
<1>4. CASE preTransfer
  BY <1>1, <1>2, <1>3, <1>4 DEF preTransfer, sendFails
<1>5. CASE buildDataPeers
  BY <1>1, <1>2, <1>5 DEF buildDataPeers, all
<1>6. CASE takeAnswer
  <2>1. answers \in Seq(Peers)
    BY DEF TypeInv, TypeOK, QueueTypeOK
  <2>2. Head(answers) \in waiting /\ spc = "negotiate"
    BY <1>6, <2>1, NameTaken DEF takeAnswer, Answering
  <2>3. runMoves("negotiate") /\ UNCHANGED <<offer, prod, worker>>
    BY <1>1, <1>2, <1>6, <2>2 DEF takeAnswer
  <2>4. QED
    BY <1>2, <2>2, <2>3
<1>7. CASE negotiationFails
  <2>1. chan \in {"connecting", "open", "closing", "down", "lost", "dead"}
    BY DEF TypeInv, TypeOK, LinkTypeOK
  <2>2. spc = "negotiate" /\ chan = "open"
    BY <1>2, <1>7, <2>1 DEF negotiationFails, torn, Leading, mayAnnounce
  <2>3. QED
    BY <1>1, <1>2, <1>3, <1>7, <2>2 DEF negotiationFails, timerFires
<1>8. CASE allOpen
  BY <1>8 DEF allOpen, all
<1>9. CASE discardChunk
  BY <1>2, <1>9 DEF discardChunk, joined
<1>10. CASE collectErrors
  BY <1>2, <1>10 DEF collectErrors, joined
<1>11. CASE flushData
  BY <1>2, <1>11 DEF flushData
<1>12. CASE sendTransferComplete
  <2>1. spc = "complete" /\ UNCHANGED <<offer, prod, worker>>
    BY <1>12, Zenon DEF sendTransferComplete
  <2>2. chan = "down" \/ (spc' = "flush" /\ sentComplete' = TRUE)
    BY <1>12, Zenon DEF sendTransferComplete, sendFails
  <2>3. QED
    BY <1>2, <1>3, <2>1, <2>2
<1>13. CASE sendAbort
  BY <1>2, <1>13 DEF sendAbort
<1>14. CASE flush
  BY <1>2, <1>14 DEF flush
<1>15. CASE closeRun
  BY <1>2, <1>15 DEF closeRun
<1>16. QED
  BY <1>4, <1>5, <1>6, <1>7, <1>8, <1>9, <1>10, <1>11, <1>12, <1>13, <1>14, <1>15
  DEF runMulti, negotiatePeers

LEMMA OtherUnfailed ==
  ASSUME TypeInv, Standing, Lines, Faultless, Grows, faultless',
         \/ OnAddPeerAnswer \/ multiProduce
         \/ \E p \in Peers : makeOffer(p) \/ multiWorker(p)
         \/ senderStart \/ signalingFails \/ network \/ linkLost \/ pathTimeout
         \/ receiver \/ UNCHANGED vars
  PROVE  Unfailed'
<1>1. faultless /\ \A f : ~inject(f)
  BY FaultlessBefore, NothingInjected
<1>2. /\ Unfailed /\ (torn \/ peersClosed => spc = "gone")
      /\ \A p \in Peers : dlink[p] = "down" => spc = "gone"
  BY <1>1, NothingTorn
<1>3. chan = "down" \/ ctxDone => spc = "gone"
  BY <1>2 DEF torn
<1>0. /\ offer \in [Peers -> {"off", "making", "sent", "failed"}]
      /\ worker \in [Peers -> {"off", "ready", "drain", "ended", "failed"}]
  BY DEF TypeInv, TypeOK, SenderTypeOK, PipelineTypeOK
<1> USE DEF Unfailed
<1>4. ASSUME UNCHANGED <<spc, prod, offer, worker, sentComplete>> PROVE Unfailed'
  BY <1>2, <1>4
<1>5. CASE OnAddPeerAnswer \/ senderStart \/ signalingFails
  BY <1>4, <1>5 DEF OnAddPeerAnswer, senderStart, acceptAnswer, startReturns,
              signalingFails, startEnds, startMoves, watcherCloses, iceFails
<1>6. CASE multiProduce
  <2>1. UNCHANGED <<spc, offer, worker, sentComplete>> /\ prod' \in {prod, "ended"}
    BY <1>1, <1>6 DEF multiProduce, pipelineMoves
  <2>2. QED
    BY <1>2, <2>1
<1>7. ASSUME NEW p \in Peers, makeOffer(p) PROVE Unfailed'
  <2>1. UNCHANGED <<spc, prod, worker, sentComplete>>
    BY <1>7 DEF makeOffer
  <2>2. offer' = [offer EXCEPT ![p] = "sent"] \/ spc = "gone"
    BY <1>1, <1>2, <1>3, <1>7 DEF makeOffer, sendFails
  <2>3. QED
    BY <1>0, <1>2, <2>1, <2>2
<1>8. ASSUME NEW p \in Peers, multiWorker(p) PROVE Unfailed'
  <2>1. UNCHANGED <<spc, prod, offer, sentComplete>>
    BY <1>8 DEF multiWorker, sendChunk, pipelineMoves
  <2>2. (\E to \in {"ready", "drain", "ended"} : worker' = [worker EXCEPT ![p] = to]) \/ spc = "gone"
    BY <1>2, <1>3, <1>8 DEF multiWorker, sendChunk, sendOnFails, workerIs
  <2>3. QED
    BY <1>0, <1>2, <2>1, <2>2
<1>9. CASE network \/ linkLost
  BY <1>4, <1>9 DEF network, channelOpens, ack, senderNotified, receiverNotified,
              dataOpens, dataAck, dataNotified, linkLost, ctrlMoves, dataMoves,
              netMoves
<1>10. CASE pathTimeout \/ receiver \/ UNCHANGED vars
  BY <1>4, <1>10, ReceiverRests DEF pathTimeout, receiverEnds, vars
<1>11. QED
  BY <1>5, <1>6, <1>7, <1>8, <1>9, <1>10

\* A data channel closes at the receiver only when its link is down.
LEMMA ClosesDown ==
  ASSUME TypeInv, [Next]_vars
  PROVE  \A p \in Peers : dclosed'[p] => dclosed[p] \/ dlink[p] = "down"
<1>1. ASSUME UNCHANGED dclosed PROVE \A p \in Peers : dclosed'[p] => dclosed[p]
  BY <1>1
<1>2. CASE network \/ linkLost
  <2>1. CASE channelOpens \/ ack \/ senderNotified \/ receiverNotified \/ linkLost
    BY <2>1 DEF channelOpens, ack, senderNotified, receiverNotified, linkLost,
                ctrlMoves, dataMoves
  <2>2. ASSUME NEW p \in Peers, dataOpens(p) \/ dataAck(p) PROVE UNCHANGED dclosed
    BY <2>2 DEF dataOpens, dataAck
  <2>3. ASSUME NEW p \in Peers, dataNotified(p)
        PROVE  \A q \in Peers : dclosed'[q] => dclosed[q] \/ dlink[q] = "down"
    BY <2>3 DEF dataNotified
  <2>4. QED
    BY <1>1, <1>2, <2>1, <2>2, <2>3 DEF network
<1>3. CASE pathTimeout \/ UNCHANGED vars
  BY <1>3 DEF pathTimeout, receiverEnds, vars
<1>4. CASE receiver
  <2>1. CASE announced \/ waitDone \/ router \/ failOnEarlyClose \/ verify
    BY <2>1 DEF announced, waitDone, receiverEnds, router, readFrame, readEnds,
                OnMetadata, OnAddPeerOffer, OnTransferComplete, OnAbort, dispatched,
                failOnEarlyClose, verify
  <2>2. CASE doneBody
    BY <2>2 DEF doneBody, cleanup, finish
  <2>3. ASSUME NEW p \in Peers,
               \/ negotiateReceivePeer(p) \/ installDataPeer(p) \/ dataReader(p)
               \/ peerWatchLooks(p) \/ failOnPeerClose(p)
        PROVE  UNCHANGED dclosed
    BY <2>3 DEF negotiateReceivePeer, createPeer, acceptOffer, answerOffer, closeSess,
                installDataPeer, dataReader, onPeerData, ingest, diskFails,
                peerReadEnds, peerWatchLooks, failOnPeerClose
  <2>4. QED
    BY <1>4, <2>1, <2>2, <2>3 DEF receiver
<1>5. QED
  BY <1>2, <1>3, <1>4, SenderSlumbers DEF Next

LEMMA FaultlessNext ==
  ASSUME TypeInv, Leading, Answering, Standing, Lines, Faultless, Grows, Flows,
         LeadMoves, [Next]_vars
  PROVE  Faultless'
<1>1. SUFFICES ASSUME faultless'
               PROVE  /\ Unfailed' /\ "ABORT" \notin frames'
                      /\ \A p \in Peers : dclosed'[p] => spc' = "gone"
  BY DEF Faultless
<1>2. faultless
  BY <1>1, FaultlessBefore
<1>3. Unfailed'
  BY <1>1, RunUnfailed, OtherUnfailed DEF Next
<1>4. "ABORT" \notin frames'
  BY <1>2, FramesMove DEF Faultless, Unfailed, Says
<1>5. \A p \in Peers : dclosed'[p] => spc = "gone"
  BY <1>2, ClosesDown, NothingTorn DEF Faultless
<1>6. spc = "gone" => spc' = "gone"
  BY DEF Flows
<1>7. QED
  BY <1>3, <1>4, <1>5, <1>6
-----------------------------------------------------------------------------
(* FailureHasCause, of every result there may be and not only once it is final. *)
Caused(why, c) ==
  /\ why \in teardownErrors \cup {"nil", "abort", "peer-setup", "send-answer",
                                  "timeout", "truncate", "write", "sync", "hash"}
  /\ why \in {"truncate", "write", "sync", "hash"} => "disk" \in c
  /\ why = "timeout" => c \cap {"timer", "link", "ice"} # {}
  /\ c = {} /\ why # "nil" => sentComplete /\ spc = "gone" /\ why \in teardownErrors

Blamed == Caused(result, causes)

LEMMA BlamedInit == Init => Blamed
BY DEF Init, Core!Init, Blamed, Caused

\* A chunk of the pipeline fits the size METADATA announced.
LEMMA ChunkFits ==
  ASSUME TypeInv, meta # NoMeta, NEW c \in FileChunks PROVE Core!inBounds(c)
<1> DEFINE n == Len(c.data)
<1>1. c.at \in Nat /\ n \in Nat /\ c.at + n <= Size
  BY ChunkCopies, SizeIsNat
<1>2. meta.size = Size /\ Size \in Nat
  BY MetaIs, SizeIsNat
<1> HIDE DEF n
<1>3. Core!plus64(c.at, n) = c.at + n
  BY <1>1, <1>2 DEF Core!plus64
<1>4. QED
  BY <1>1, <1>2, <1>3 DEF Core!inBounds, n

\* What is counted in full matches the hash.
LEMMA CountedMatches ==
  ASSUME TypeInv, Counting, Ingested, allBytes PROVE Core!matches(meta)
<1>1. meta = metadata /\ counted = 0 .. meta.size - 1
  BY DEF TypeInv, MetaOK, Counting
<1>2. meta.size = Size /\ meta.sha = [o \in 0 .. Size - 1 |-> Source[o + 1]]
  BY <1>1 DEF metadata
<1>3. \A o \in 0 .. Size - 1 : contents[o] = Source[o + 1]
  BY <1>1, <1>2 DEF Ingested, stored
<1>4. QED
  BY <1>2, <1>3 DEF Core!matches

\* A verifier whose timer fires in good time finds every byte counted.
LEMMA NothingMissing ==
  ASSUME TypeInv, Whole, Counting, Told, Handed, Ingested, calm,
         vf[Verifier] # "off", ~dataUnderWay
  PROVE  allBytes
<1>1. sentComplete /\ meta # NoMeta /\ gate = "free"
  BY DEF Told, Ingested, calm
<1>2. sentCells = 0 .. Size - 1
  BY <1>1 DEF Whole
<1>3. \A p \in Peers : dout[p] = <<>> /\ drq[p] = <<>> /\ rd[p] \notin {"ingest", "count"}
  BY <1>1 DEF Handed, sentOut, dataUnderWay
<1>4. \A o \in sentCells : o \in arrived
  <2>1. \A o \in sentCells : onTheWay(o)
    BY <1>1 DEF Handed
  <2>2. QED
    BY <1>3, <2>1, Emptied DEF onTheWay
<1>5. \A o \in sentCells : o \in counted
  BY <1>1, <1>3, <1>4 DEF Ingested, inHand
<1>6. counted \subseteq 0 .. Size - 1
  BY <1>1, MetaIs DEF Counting
<1>7. counted = 0 .. Size - 1
  BY <1>2, <1>5, <1>6
<1>8. QED
  BY <1>1, <1>7 DEF Ingested

LEMMA BlamedNext ==
  ASSUME TypeInv, Whole, Leading, Published, Counting, Once, Told, Answering,
         Started, Standing, Lines, Handed, Ingested, Faultless, Blamed,
         Grows, Flows, [Next]_vars
  PROVE  Blamed'
<1>1. ASSUME Caused(result', causes') PROVE Blamed'
  BY <1>1 DEF Blamed, Caused, Flows
<1>2. ASSUME UNCHANGED result PROVE Blamed'
  <2>1. Caused(result', causes')
    BY <1>2 DEF Blamed, Caused, Grows
  <2>2. QED
    BY <1>1, <2>1
<1>3. ASSUME NEW why, Core!fail(why), gate = "free" => Caused(why, causes')
      PROVE  Blamed'
  BY <1>1, <1>2, <1>3 DEF Core!fail
<1>4. ASSUME NEW why, failCore(why), gate = "free" => Caused(why, causes')
      PROVE  Blamed'
  BY <1>2, <1>3, <1>4 DEF failCore, Core!clientFails
\* An error of a client that says a teardown, if nobody gave it a cause.
<1>5. ASSUME NEW why \in teardownErrors,
             faultless => spc = "gone",
             rmain # "gaveUp", gate = "free"
      PROVE  Caused(why, causes')
  <2>1. causes' = {} => faultless
    BY <1>5 DEF faultless, Grows
  <2>2. faultless => sentComplete
    BY <1>5 DEF Faultless, Unfailed
  <2>3. QED
    BY <1>5, <2>1, <2>2 DEF Caused, teardownErrors
<1>6. ASSUME NEW why \in {"abort", "peer-setup", "send-answer"}, causes' # {}
      PROVE  Caused(why, causes')
  BY <1>6 DEF Caused, teardownErrors
<1>7. \A f : inject(f) => f \in causes'
  BY DEF inject
<1>8. ASSUME gate = "free", rmain # "gaveUp", ~faultless PROVE causes' # {}
  BY <1>8 DEF faultless, Grows
<1>9. \A p \in Peers : dr[p] # "off" \/ neg[p] \notin {"off", "ended"} => rmain # "gaveUp"
  BY DEF Published, PeerIsPublished, Started, Answering
<1>10. CASE ~receiver
  BY <1>2, <1>10, SenderRests DEF Next, vars
<1>11. CASE announced \/ waitDone \/ readFrame \/ readEnds \/ OnAddPeerOffer
  BY <1>2, <1>11 DEF announced, waitDone, receiverEnds, readFrame, readEnds, OnAddPeerOffer
<1>12. CASE OnMetadata
  <2>1. meta = NoMeta
    BY <1>12 DEF OnMetadata, holds, Once
  <2>2. CASE Core!metadataAccepted(metadata)
    BY <1>2, <2>2 DEF Core!metadataAccepted
  <2>3. CASE Core!metadataRejected(metadata)
    BY <2>1, <2>3 DEF Core!metadataRejected, metadata
  <2>4. CASE Core!truncateFails(metadata) /\ (sinkOpen => inject("disk"))
    <3>1. gate = "free" => Caused("truncate", causes')
      BY <1>7, <2>4 DEF Counting, Caused
    <3>2. QED
      BY <1>3, <2>4, <3>1 DEF Core!truncateFails
  <2>5. QED
    BY <1>12, <2>2, <2>3, <2>4 DEF OnMetadata
<1>13. CASE OnTransferComplete
  <2>1. meta # NoMeta
    BY <1>13 DEF OnTransferComplete, holds, Leading
  <2>2. QED
    BY <1>2, <1>13, <2>1 DEF OnTransferComplete, Core!verifyStarts, Core!verifierMoves
<1>14. CASE OnAbort
  <2>1. hand # NoFrame /\ "ABORT" \in frames
    BY <1>14 DEF OnAbort, holds, frames
  <2>2. rmain # "gaveUp" /\ ~faultless
    BY <2>1 DEF Started, Faultless
  <2>3. gate = "free" => Caused("abort", causes')
    BY <1>6, <1>8, <2>2
  <2>4. QED
    BY <1>4, <1>14, <2>3 DEF OnAbort
<1>15. CASE failOnEarlyClose
  <2>1. rmain # "gaveUp" /\ torn
    BY <1>15 DEF failOnEarlyClose, Started, torn
  <2>2. gate = "free" => Caused("control-closed", causes')
    BY <1>5, <2>1, NothingTorn DEF teardownErrors
  <2>3. QED
    BY <1>4, <1>15, <2>2 DEF failOnEarlyClose
<1>16. CASE verify
  <2>1. CASE Core!seeAllBytes(Verifier)
    <3>1. allBytes /\ meta # NoMeta /\ counted = 0 .. meta.size - 1
      BY <2>1 DEF Core!seeAllBytes, Counting
    <3>2. bytesWritten = meta.size /\ meta.size \in Nat
      BY <3>1, MetaIs, OffsetsCount DEF Counting
    <3>3. ~(bytesWritten > meta.size)
      BY <3>2
    <3>4. QED
      BY <1>2, <2>1, <3>3 DEF Core!seeAllBytes, Core!verifierMoves
  <2>2. CASE Core!seeDone(Verifier) \/ Core!claimVerify(Verifier)
    BY <1>2, <2>2 DEF Core!seeDone, Core!verifierMoves, Core!claimVerify
  <2>3. CASE timerFires(allBytes \/ dataUnderWay) /\ Core!verifyTimeout(Verifier)
    <3>1. vf[Verifier] # "off" /\ Core!fail("timeout")
      BY <2>3 DEF Core!verifyTimeout, Core!verifierFails
    <3>2. ASSUME gate = "free" PROVE causes' \cap {"timer", "link", "ice"} # {}
      <4>1. CASE allBytes \/ dataUnderWay
        BY <1>7, <2>3, <4>1 DEF timerFires
      <4>2. CASE ~(allBytes \/ dataUnderWay)
        <5>1. ~calm /\ rmain # "gaveUp"
          BY <3>1, <4>2, NothingMissing DEF Started
        <5>2. QED
          BY <3>2, <5>1 DEF calm, Grows
      <4>3. QED
        BY <4>1, <4>2
    <3>3. gate = "free" => Caused("timeout", causes')
      BY <3>2 DEF Caused
    <3>4. QED
      BY <1>3, <3>1, <3>3
  <2>4. QED
    BY <1>16, <2>1, <2>2, <2>3 DEF verify
<1>17. CASE doneBody
  <2>1. CASE cleanup
    BY <1>2, <2>1 DEF cleanup, Core!cleanup
  <2>2. CASE Core!integrityFails
    <3>1. allBytes
      BY <2>2 DEF Core!integrityFails, Counting
    <3>2. QED
      BY <2>2, <3>1, CountedMatches DEF Core!integrityFails
  <2>3. CASE inject("disk") /\ (Core!syncFails \/ Core!hashFails)
    <3>1. Caused("sync", causes') /\ Caused("hash", causes')
      BY <1>7, <2>3 DEF Caused
    <3>2. result' \in {"sync", "hash"}
      BY <2>3 DEF Core!syncFails, Core!hashFails, Core!abortWith
    <3>3. QED
      BY <1>1, <3>1, <3>2
  <2>4. CASE \/ Core!sync \/ Core!verifyIntegrity \/ Core!sinkClose
             \/ Core!abortClose \/ Core!abortRemove \/ Core!closeDone
    BY <1>2, <2>4 DEF Core!sync, Core!verifyIntegrity, Core!bodyMoves, Core!sinkClose,
                      Core!abortClose, Core!abortRemove, Core!closeDone
  <2>5. QED
    BY <1>17, <2>1, <2>2, <2>3, <2>4 DEF doneBody, finish
<1>18. ASSUME NEW p \in Peers, createPeer(p) \/ acceptOffer(p) PROVE Blamed'
  <2>1. CASE failCore("peer-setup")
    <3>1. gate = "free" => causes' # {}
      BY <1>7, <1>18, <2>1, FailGrows DEF createPeer, acceptOffer, Started
    <3>2. QED
      BY <1>4, <1>6, <2>1, <3>1
  <2>2. QED
    BY <1>2, <1>18, <2>1 DEF createPeer, acceptOffer
<1>19. ASSUME NEW p \in Peers, answerOffer(p) PROVE Blamed'
  <2>1. CASE failCore("send-answer") /\ chan \in {"closing", "down"}
    <3>1. rmain # "gaveUp" /\ torn /\ p \in waiting
      BY <1>9, <1>19, <2>1 DEF answerOffer, torn, Answering
    <3>2. ~faultless
      BY <3>1, NothingTorn DEF Unfailed, Told
    <3>3. gate = "free" => causes' # {}
      BY <1>8, <3>1, <3>2
    <3>4. QED
      BY <1>4, <1>6, <2>1, <3>3
  <2>2. QED
    BY <1>2, <1>19, <2>1 DEF answerOffer
<1>20. ASSUME NEW p \in Peers, ingest(p) \/ diskFails(p) PROVE Blamed'
  <2>1. CASE sessClosed[p] /\ Core!decodeFails(p)
    BY <1>3, <2>1 DEF Core!decodeFails, Core!readerFails, Started
  <2>2. CASE Core!dataBeforeMetadata(p)
    BY <2>2 DEF Core!dataBeforeMetadata, Ingested
  <2>3. CASE Core!dataOutOfBounds(p)
    BY <2>3, ChunkFits DEF Core!dataOutOfBounds, Counting
  <2>4. CASE ~sinkOpen /\ Core!writeFails(p)
    BY <1>3, <2>4 DEF Core!writeFails, Core!readerFails, Counting
  <2>5. CASE diskFails(p)
    <3>1. Caused("write", causes')
      BY <1>7, <2>5 DEF diskFails, Caused
    <3>2. QED
      BY <1>3, <2>5, <3>1 DEF diskFails, Core!writeFails, Core!readerFails
  <2>6. CASE Core!writeChunk(p)
    BY <1>2, <2>6 DEF Core!writeChunk
  <2>7. CASE Core!countBytes(p)
    BY <1>2, <2>7 DEF Core!countBytes
  <2>8. QED
    BY <1>20, <2>1, <2>2, <2>3, <2>4, <2>5, <2>6, <2>7 DEF ingest
<1>21. ASSUME NEW p \in Peers, peerReadEnds(p) PROVE Blamed'
  <2>1. rmain # "gaveUp" /\ dlink[p] = "down"
    BY <1>9, <1>21 DEF peerReadEnds
  <2>2. gate = "free" => Caused("peer-OnFrames", causes')
    BY <1>5, <2>1, NothingTorn DEF teardownErrors
  <2>3. QED
    BY <1>2, <1>4, <1>21, <2>2 DEF peerReadEnds
<1>22. ASSUME NEW p \in Peers, failOnPeerClose(p) PROVE Blamed'
  <2>1. rmain # "gaveUp" /\ dclosed[p]
    BY <1>9, <1>22 DEF failOnPeerClose, Started
  <2>2. gate = "free" => Caused("data-peer-closed", causes')
    BY <1>5, <2>1 DEF teardownErrors, Faultless
  <2>3. QED
    BY <1>4, <1>22, <2>2 DEF failOnPeerClose
<1>23. ASSUME NEW p \in Peers, installDataPeer(p) \/ onPeerData(p) \/ peerWatchLooks(p)
       PROVE  Blamed'
  BY <1>2, <1>23 DEF installDataPeer, onPeerData, Core!deliver, peerWatchLooks
<1>24. QED
  BY <1>10, <1>11, <1>12, <1>13, <1>14, <1>15, <1>16, <1>17, <1>18, <1>19, <1>20,
     <1>21, <1>22, <1>23
  DEF receiver, router, negotiateReceivePeer, dataReader
-----------------------------------------------------------------------------
CauseInv ==
  /\ Once /\ Told /\ Answering /\ Started
  /\ Standing /\ Lines /\ Handed /\ Ingested
  /\ Faultless /\ Blamed

LEMMA CauseInit == Init => CauseInv
BY OnceInit, AnsweringInit, StartedInit, StandingInit, LinesInit, HandedInit,
   IngestedInit, FaultlessInit, BlamedInit
DEF CauseInv

LEMMA CauseNext ==
  ASSUME TypeInv, TypeInv', Fresh, Whole, Leading, Published, Counting, Counting',
         CauseInv, [Next]_vars
  PROVE  CauseInv'
<1> USE DEF CauseInv
<1>1. /\ Grows /\ Flows /\ LeadMoves /\ CoreKinds /\ DataMoves /\ WholeMoves
      /\ AnswerMoves /\ NegMoves /\ Boots /\ Watches /\ LineMoves
  BY StepGrows, StepFlows, StepLeads, StepCore, StepData, StepWhole, StepAnswers,
     StepNegs, StepBoots, StepLines
<1>2. Once' /\ Told'
  BY <1>1, OnceNext, ToldNext
<1>3. Answering' /\ Started'
  BY <1>1, AnsweringNext, StartedNext
<1>4. Standing' /\ Lines'
  BY <1>1, StandingNext, LinesNext
<1>5. Handed' /\ Ingested'
  BY <1>1, HandedNext, IngestedNext
<1>6. Faultless' /\ Blamed'
  BY <1>1, FaultlessNext, BlamedNext
<1>7. QED
  BY <1>2, <1>3, <1>4, <1>5, <1>6

(* A transfer fails only for a cause, and the error names one that can have it:
   the pipeline's own chunks never fail transferCore's checks, a file error comes
   of the disk alone, the 30 s for all bytes run out only if a timer fired early
   or a link was lost or reported out, and without any fault the receiver sees at worst the
   sender's own teardown, after TRANSFER_COMPLETE. *)
THEOREM FailsForACause == Spec => []FailureHasCause
<1>1. CauseInv => FailureHasCause
  BY DEF CauseInv, Blamed, Caused, FailureHasCause
<1>2. ASSUME TypeInv /\ Fresh /\ Whole /\ Leading, (TypeInv /\ Fresh /\ Whole /\ Leading)',
             Published, Counting, Counting', CauseInv, [Next]_vars
      PROVE  CauseInv'
  BY <1>2, CauseNext
<1>3. QED
  BY <1>1, <1>2, CauseInit, TransitInv, CountingInv, PublishedInv, PTL DEF Spec
=============================================================================
