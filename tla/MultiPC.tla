------------------------------ MODULE MultiPC ------------------------------
(* A multi-PC transfer, end to end: the sender's runMulti with its offer
   goroutines, producer and workers (sender/multi.go), the control channel, one
   data channel per peer, and the receiver's multiRouter with its negotiators,
   data readers and close watchers (receiver/multi.go, init.go) around
   transferCore.

   The control channel is that of SinglePC with frames the other way too:
   `back` holds the ANSWERs.  dlink[p] is the PeerConnection of data peer p;
   either side closing it ends it for both, and frames the receiver holds in
   drq[p] stay readable until the receiver closes its own end.

   The input file does not change here (SinglePC is about that).  x_Flaw is x
   with one plausible mistake; no action uses it. *)
EXTENDS Integers, Sequences, FiniteSets

CONSTANTS
  Peers,        \* the data peers, and their readers at the receiver
  Verifier,     \* the verifyAndClose goroutine OnTransferComplete starts
  NoFrame, NoMeta, NoChunk,
  Byte, Zero,
  Source,       \* the input file
  ChunkSize,    \* bytes of the file per DATA frame
  HighWater,    \* bufferThreshold, in frames
  PipeSize,     \* capacity of `chunks`: 2 * len(peers) in the code
  Faults,       \* what may go wrong: read (the file), signaling, setup (of a
                \* PC), link (lost), ice (the control PC reports an outage
                \* that it survives), timer (one fires while what it
                \* bounds is still under way), disk (of the receiver)
  MaxFaults     \* bound on the kinds of fault in one transfer

Size == Len(Source)

\* The size is that of the whole chunks only.
metadata_Rounded ==
  LET size == Size - (Size % ChunkSize)
  IN [known |-> TRUE, size |-> size, sha |-> [o \in 0 .. size - 1 |-> Source[o + 1]]]

metadata ==
  [known |-> TRUE, size |-> Size, sha |-> [o \in 0 .. Size - 1 |-> Source[o + 1]]]

\* The chunk multiProduce reads at offset o.
chunkAt(o) ==
  [at |-> o, data |-> SubSeq(Source, o + 1, IF o + ChunkSize <= Size
                                            THEN o + ChunkSize ELSE Size)]

FileChunks == {chunkAt(o) : o \in 0 .. Size - 1}

ASSUME MultiPCAssumption ==
  /\ Source \in Seq(Byte) /\ Zero \in Byte
  /\ IsFiniteSet(Peers) /\ Peers # {}
  /\ {ChunkSize, PipeSize} \subseteq Nat \ {0} /\ {HighWater, MaxFaults} \subseteq Nat
  /\ Faults \subseteq {"read", "signaling", "setup", "link", "timer", "disk",
                "ice"}
  /\ NoChunk \notin FileChunks /\ NoMeta # metadata
  /\ NoFrame # [type |-> "METADATA"]

VARIABLES
  \* transferCore
  meta, contents, sinkOpen, onDisk, bytesWritten, allBytes, gate, result, rd,
  chunk, vf, arrived, counted,
  \* sender: runMulti, Start
  spc, ctxDone, sessDone,
  start,        \* Session.Start: signaling, waiting, returned, failed
  peersClosed,  \* closePeers has closed the data peers
  \* sender: negotiatePeers
  offer,        \* each offer goroutine: off, making, sent, failed
  waiting,      \* peers without an answer yet
  answers,      \* answerCh
  opened,       \* peers whose Channel.Open fired
  \* sender: producer and workers
  prod, produced, pipe, worker,
  \* control channel
  chan, out, rq, back, closedS, closedR,
  \* data channels
  dlink, dout, drq,
  dclosed,      \* the receiver's Channel.Closed of each
  \* receiver
  rpc, hand, completeSeen,
  cwatch,       \* close watcher of the control channel
  rmain,        \* Session.Start: init, waiting, returned, gaveUp
  entry,        \* r.peers[p]: none, reserved (nil), published
  neg,          \* negotiateReceivePeer
  sessClosed,   \* peer.sess.Close has run
  dr,           \* OnFrames on a data channel: off, reading, ended
  dw,           \* its close watcher
  \* history
  causes,       \* faults injected so far
  sentCells,    \* bytes some data channel accepted
  sentComplete  \* TRANSFER_COMPLETE was sent

coreVars == <<meta, contents, sinkOpen, onDisk, bytesWritten, allBytes, gate,
              result, rd, chunk, vf, arrived, counted>>
lifeVars == <<ctxDone, sessDone, start, peersClosed>>
setupVars == <<offer, waiting, answers, opened>>
pipeVars == <<prod, produced, pipe, worker>>
sndVars == <<spc, lifeVars, setupVars, pipeVars, sentCells, sentComplete>>
ctrlVars == <<chan, out, rq, back, closedS, closedR>>
dataVars == <<dlink, dout, drq, dclosed>>
routerVars == <<rpc, hand, completeSeen, cwatch, rmain, entry, neg, sessClosed>>
dataReaderVars == <<dr, dw>>
rcvVars == <<routerVars, dataReaderVars>>
vars == <<coreVars, sndVars, ctrlVars, dataVars, rcvVars, causes>>

Core == INSTANCE TransferCore
          WITH Readers <- Peers, Verifiers <- {Verifier}, Wrap <- Size + 2,
               Chunks <- FileChunks, Metas <- {metadata}, HasPath <- TRUE,
               ExactlyOnce <- FALSE, MaxBytes <- Size + ChunkSize

all(x) == [p \in Peers |-> x]

Init ==
  /\ Core!Init
  /\ spc = "pre" /\ ctxDone = FALSE /\ sessDone = FALSE
  /\ start = "signaling" /\ peersClosed = FALSE
  /\ offer = all("off") /\ waiting = Peers /\ answers = <<>> /\ opened = {}
  /\ prod = "off" /\ produced = 0 /\ pipe = <<>> /\ worker = all("off")
  /\ chan = "connecting" /\ out = <<>> /\ rq = <<>> /\ back = <<>>
  /\ closedS = FALSE /\ closedR = FALSE
  /\ dlink = all("none") /\ dout = all(<<>>) /\ drq = all(<<>>)
  /\ dclosed = all(FALSE)
  /\ rpc = "off" /\ hand = NoFrame /\ completeSeen = FALSE
  /\ cwatch = "off" /\ rmain = "init"
  /\ entry = all("none") /\ neg = all("off") /\ sessClosed = all(FALSE)
  /\ dr = all("off") /\ dw = all("off")
  /\ causes = {} /\ sentCells = {} /\ sentComplete = FALSE
-----------------------------------------------------------------------------
(* Sending.  A channel the other side tore down takes frames until this side
   notices; they go nowhere. *)
send(f) ==
  /\ chan \in {"open", "lost"} \/ (chan = "down" /\ ~closedS)
  /\ out' = Append(out, f)
  /\ UNCHANGED <<chan, rq, back, closedS, closedR>>

sendFails == chan = "down" /\ UNCHANGED ctrlVars

sendOn(p, c) ==
  /\ dlink[p] \in {"open", "lost"} \/ (dlink[p] = "down" /\ ~peersClosed)
  /\ dout' = [dout EXCEPT ![p] = Append(@, c)]
  /\ UNCHANGED <<dlink, drq, dclosed>>

sendOnFails(p) == dlink[p] = "down" /\ UNCHANGED dataVars

hungUp(link) == IF link \in {"none", "lost"} THEN link ELSE "down"

closePeers ==
  /\ dlink' = [p \in Peers |-> hungUp(dlink[p])]
  /\ dout' = all(<<>>)
  /\ peersClosed' = (dlink # all("none"))
  /\ UNCHANGED <<drq, dclosed>>

inject(fault) ==
  /\ fault \in Faults
  /\ Cardinality(causes \cup {fault}) <= MaxFaults
  /\ causes' = causes \cup {fault}

timerFires(underWay) == IF underWay THEN inject("timer") ELSE UNCHANGED causes

runMoves(to) ==
  spc' = to /\ UNCHANGED <<coreVars, rcvVars, ctxDone, sessDone, start>>
-----------------------------------------------------------------------------
(* runMulti: preTransfer, buildDataPeers, negotiatePeers. *)
preTransfer ==
  /\ spc = "pre"
  /\ \/ /\ chan \notin {"connecting", "dead"}
        /\ \/ send([type |-> "METADATA"]) /\ runMoves("build")
           \/ sendFails /\ runMoves("abort")
        /\ UNCHANGED causes
     \/ ctxDone /\ runMoves("close") /\ UNCHANGED <<ctrlVars, causes>>
     \/ runMoves("close") /\ inject("read") /\ UNCHANGED ctrlVars
  /\ UNCHANGED <<peersClosed, setupVars, pipeVars, dataVars, sentCells,
                 sentComplete>>

buildDataPeers ==
  /\ spc = "build"
  /\ \/ /\ runMoves("negotiate")
        /\ dlink' = all("connecting") /\ offer' = all("making")
        /\ UNCHANGED causes
     \/ /\ inject("setup") /\ runMoves("abort")
        /\ UNCHANGED <<dlink, offer>>
  /\ UNCHANGED <<peersClosed, waiting, answers, opened, pipeVars, ctrlVars,
                 dout, drq, dclosed, sentCells, sentComplete>>

\* The goroutine per peer: MakeOffer, SendAddPeerOffer.
makeOffer(p) ==
  /\ offer[p] = "making"
  /\ \/ /\ ~peersClosed
        /\ send([type |-> "ADD_PEER_OFFER", id |-> p])
        /\ offer' = [offer EXCEPT ![p] = "sent"]
        /\ UNCHANGED causes
     \/ /\ \/ sendFails /\ UNCHANGED causes
           \/ peersClosed /\ UNCHANGED <<ctrlVars, causes>>
           \/ inject("setup") /\ UNCHANGED ctrlVars
        /\ offer' = [offer EXCEPT ![p] = "failed"]
  /\ UNCHANGED <<coreVars, spc, lifeVars, waiting, answers, opened, pipeVars,
                 dataVars, rcvVars, sentCells, sentComplete>>

\* An answerCh with room for one answer.
OnAddPeerAnswer_OneSlot ==
  /\ back # <<>> /\ chan \in {"open", "closing"}
  /\ back' = Tail(back)
  /\ IF answers = <<>>
       THEN answers' = Append(answers, Head(back)) /\ UNCHANGED ctxDone
       ELSE ctxDone' = TRUE /\ UNCHANGED answers
  /\ UNCHANGED <<coreVars, spc, sessDone, start, peersClosed, offer, waiting,
                 opened, pipeVars, chan, out, rq, closedS, closedR, dataVars,
                 rcvVars, causes, sentCells, sentComplete>>

\* senderCtrlHandler.OnAddPeerAnswer: the OnMessage callback outlives its loop,
\* so it also runs after the context was cancelled.
OnAddPeerAnswer ==
  /\ back # <<>> /\ chan \in {"open", "closing"}
  /\ back' = Tail(back)
  /\ IF Len(answers) < Cardinality(Peers)
       THEN answers' = Append(answers, Head(back)) /\ UNCHANGED ctxDone
       ELSE ctxDone' = TRUE /\ UNCHANGED answers
  /\ UNCHANGED <<coreVars, spc, sessDone, start, peersClosed, offer, waiting,
                 opened, pipeVars, chan, out, rq, closedS, closedR, dataVars,
                 rcvVars, causes, sentCells, sentComplete>>

cancelHandshake ==
  /\ closePeers
  /\ runMoves("abort")
  /\ UNCHANGED <<offer, opened, pipeVars, ctrlVars, sentCells, sentComplete>>

takeAnswer ==
  /\ spc = "negotiate" /\ waiting # {} /\ answers # <<>>
  /\ answers' = Tail(answers)
  /\ IF Head(answers) \in waiting
       THEN /\ waiting' = waiting \ {Head(answers)}
            /\ \/ /\ ~peersClosed       \* AcceptAnswer succeeds
                  /\ runMoves("negotiate")
                  /\ UNCHANGED <<peersClosed, offer, opened, pipeVars, ctrlVars,
                                 dataVars, causes, sentCells, sentComplete>>
               \/ peersClosed /\ cancelHandshake /\ UNCHANGED causes
               \/ inject("setup") /\ cancelHandshake
       ELSE cancelHandshake /\ UNCHANGED <<waiting, causes>>

negotiationFails ==
  /\ spc = "negotiate"
  /\ \/ waiting # {} /\ (\E p \in Peers : offer[p] = "failed") /\ UNCHANGED causes
     \/ ctxDone /\ UNCHANGED causes
     \/ timerFires(chan = "open")
  /\ cancelHandshake
  /\ UNCHANGED <<waiting, answers>>

allOpen ==
  /\ spc = "negotiate" /\ waiting = {} /\ opened = Peers
  /\ runMoves("transfer")
  /\ prod' = "reading" /\ worker' = all("ready")
  /\ UNCHANGED <<produced, pipe, peersClosed, setupVars, ctrlVars, dataVars,
                 causes, sentCells, sentComplete>>

negotiatePeers == takeAnswer \/ negotiationFails \/ allOpen
-----------------------------------------------------------------------------
(* multiProduce and multiWorker. *)
pipelineMoves ==
  UNCHANGED <<coreVars, spc, lifeVars, setupVars, ctrlVars, rcvVars, sentComplete>>

\* The offset advances by the size of the buffer, not by what was read.
multiProduce_Overrun ==
  /\ prod = "reading"
  /\ \/ /\ produced < Size /\ Len(pipe) < PipeSize
        /\ pipe' = Append(pipe, chunkAt(produced))
        /\ produced' = produced + ChunkSize
        /\ prod' = IF produced + ChunkSize > Size THEN "ended" ELSE prod
        /\ UNCHANGED causes
     \/ /\ produced >= Size /\ prod' = "ended"
        /\ UNCHANGED <<pipe, produced, causes>>
  /\ pipelineMoves /\ UNCHANGED <<worker, dataVars, sentCells>>

multiProduce ==
  /\ prod = "reading"
  /\ \/ /\ produced < Size /\ Len(pipe) < PipeSize
        /\ pipe' = Append(pipe, chunkAt(produced))
        /\ produced' = produced + Len(chunkAt(produced).data)
        /\ prod' = IF produced + ChunkSize > Size THEN "ended" ELSE prod
        /\ UNCHANGED causes
     \/ /\ produced = Size /\ prod' = "ended"
        /\ UNCHANGED <<pipe, produced, causes>>
     \/ prod' = "failed" /\ inject("read") /\ UNCHANGED <<pipe, produced>>
  /\ pipelineMoves /\ UNCHANGED <<worker, dataVars, sentCells>>

workerIs(p, to) == worker' = [worker EXCEPT ![p] = to]

\* A worker that puts the chunk back when its channel refuses it.
sendChunk_Requeues(p) ==
  /\ worker[p] = "ready" /\ pipe # <<>>
  /\ \/ /\ sendOn(p, Head(pipe))
        /\ pipe' \in {pipe, Tail(pipe)}
        /\ workerIs(p, IF Len(dout[p]) < HighWater THEN "ready" ELSE "drain")
        /\ sentCells' = sentCells \cup Core!Cells(Head(pipe))
     \/ sendOnFails(p) /\ workerIs(p, "failed") /\ UNCHANGED <<sentCells, pipe>>
  /\ pipelineMoves /\ UNCHANGED <<prod, produced, causes>>

\* SendData sends, then waits for the buffer to drain.
sendChunk(p) ==
  /\ worker[p] = "ready" /\ pipe # <<>>
  /\ pipe' = Tail(pipe)
  /\ \/ /\ sendOn(p, Head(pipe))
        /\ workerIs(p, IF Len(dout[p]) < HighWater THEN "ready" ELSE "drain")
        /\ sentCells' = sentCells \cup Core!Cells(Head(pipe))
     \/ sendOnFails(p) /\ workerIs(p, "failed") /\ UNCHANGED sentCells
  /\ pipelineMoves /\ UNCHANGED <<prod, produced, causes>>

\* A worker whose wait for the buffer to drain does not watch the context.
multiWorker_DrainsAnyway(p) ==
  \/ sendChunk(p)
  \/ /\ \/ /\ worker[p] = "ready" /\ pipe = <<>> /\ prod \in {"ended", "failed"}
           /\ workerIs(p, "ended")
        \/ worker[p] = "ready" /\ ctxDone /\ workerIs(p, "failed")
        \/ worker[p] = "drain" /\ Len(dout[p]) <= HighWater /\ workerIs(p, "ready")
     /\ pipelineMoves
     /\ UNCHANGED <<prod, produced, pipe, dataVars, causes, sentCells>>

multiWorker(p) ==
  \/ sendChunk(p)
  \/ /\ \/ /\ worker[p] = "ready" /\ pipe = <<>> /\ prod \in {"ended", "failed"}
           /\ workerIs(p, "ended")
        \/ worker[p] = "ready" /\ ctxDone /\ workerIs(p, "failed")
        \/ worker[p] = "drain" /\ Len(dout[p]) <= HighWater /\ workerIs(p, "ready")
        \/ /\ worker[p] = "drain" /\ Len(dout[p]) > HighWater /\ ctxDone
           /\ workerIs(p, "failed")
     /\ pipelineMoves
     /\ UNCHANGED <<prod, produced, pipe, dataVars, causes, sentCells>>

(* runMulti after wg.Wait: drain `chunks` until the producer closes it, then
   abort on an error, or flush every data peer and send TRANSFER_COMPLETE. *)
joined == spc = "transfer" /\ \A p \in Peers : worker[p] \in {"ended", "failed"}

\* Waits for prodErr before it drains.
discardChunk_AfterProducer ==
  /\ joined /\ prod \in {"ended", "failed"} /\ pipe # <<>>
  /\ pipe' = Tail(pipe)
  /\ runMoves("transfer")
  /\ UNCHANGED <<peersClosed, setupVars, prod, produced, worker, ctrlVars,
                 dataVars, causes, sentCells, sentComplete>>

discardChunk ==
  /\ joined /\ pipe # <<>>
  /\ pipe' = Tail(pipe)
  /\ runMoves("transfer")
  /\ UNCHANGED <<peersClosed, setupVars, prod, produced, worker, ctrlVars,
                 dataVars, causes, sentCells, sentComplete>>

runOnly(to) ==
  runMoves(to) /\ UNCHANGED <<peersClosed, setupVars, pipeVars, dataVars, sentCells>>

collectErrors_ProducerOnly ==
  /\ joined /\ pipe = <<>> /\ prod \in {"ended", "failed"}
  /\ runOnly(IF prod = "failed" THEN "abort" ELSE "flushData")
  /\ UNCHANGED <<ctrlVars, causes, sentComplete>>

collectErrors ==
  /\ joined /\ pipe = <<>> /\ prod \in {"ended", "failed"}
  /\ runOnly(IF prod = "failed" \/ \E p \in Peers : worker[p] = "failed"
             THEN "abort" ELSE "flushData")
  /\ UNCHANGED <<ctrlVars, causes, sentComplete>>

flushData ==
  /\ spc = "flushData"
  /\ \/ dout = all(<<>>) /\ UNCHANGED causes
     \/ dout # all(<<>>) /\ timerFires(\A p \in Peers : dlink[p] = "open")
  /\ runOnly("complete")
  /\ UNCHANGED <<ctrlVars, sentComplete>>

sendTransferComplete ==
  /\ spc = "complete"
  /\ \/ /\ send([type |-> "TRANSFER_COMPLETE"])
        /\ runOnly("flush") /\ sentComplete' = TRUE
     \/ sendFails /\ runOnly("close") /\ UNCHANGED sentComplete
  /\ UNCHANGED causes

sendAbort ==
  /\ spc = "abort"
  /\ send([type |-> "ABORT"]) \/ sendFails
  /\ runOnly("flush")
  /\ UNCHANGED <<causes, sentComplete>>

flush ==
  /\ spc = "flush"
  /\ \/ out = <<>> /\ UNCHANGED causes
     \/ out # <<>> /\ timerFires(chan \in {"open", "closing"})
  /\ runOnly("close")
  /\ UNCHANGED <<ctrlVars, sentComplete>>

closeRun ==
  /\ spc = "close"
  /\ spc' = "gone"
  /\ chan' = IF chan = "open" THEN "closing" ELSE chan
  /\ closePeers
  /\ sessDone' = TRUE
  /\ UNCHANGED <<coreVars, rcvVars, ctxDone, start, setupVars, pipeVars, out, rq,
                 back, closedS, closedR, causes, sentCells, sentComplete>>

runMulti ==
  \/ preTransfer \/ buildDataPeers \/ negotiatePeers
  \/ discardChunk \/ collectErrors \/ flushData \/ sendTransferComplete
  \/ sendAbort \/ flush \/ closeRun
-----------------------------------------------------------------------------
(* Session.Start on the sender, its close watcher, the control PC's ICE state.
   The data PCs' ICE callback only logs. *)
startMoves ==
  UNCHANGED <<coreVars, spc, setupVars, pipeVars, rcvVars, sentCells, sentComplete>>

hangUp == chan' = IF chan \in {"connecting", "dead"} THEN "dead" ELSE "down"

acceptAnswer ==
  /\ start = "signaling" /\ start' = "waiting"
  /\ startMoves
  /\ UNCHANGED <<ctxDone, sessDone, peersClosed, ctrlVars, dataVars, causes>>

startEnds(how) ==
  /\ start' = how
  /\ ctxDone' = TRUE
  /\ hangUp /\ out' = <<>>
  /\ startMoves
  /\ UNCHANGED <<sessDone, peersClosed, rq, back, closedS, closedR, dataVars>>

signalingFails == start = "signaling" /\ startEnds("failed") /\ inject("signaling")

startReturns ==
  start = "waiting" /\ sessDone /\ startEnds("returned") /\ UNCHANGED causes

watcherCloses ==
  /\ start = "waiting" /\ closedS /\ ~sessDone
  /\ ctxDone' = TRUE /\ sessDone' = TRUE
  /\ closePeers
  /\ startMoves
  /\ UNCHANGED <<start, ctrlVars, causes>>

iceFails ==
  /\ ~ctxDone /\ spc # "gone"
  /\ \/ chan \in {"down", "lost", "dead"} /\ UNCHANGED causes
     \/ chan = "open" /\ inject("ice")
  /\ ctxDone' = TRUE
  /\ startMoves
  /\ UNCHANGED <<sessDone, start, peersClosed, ctrlVars, dataVars>>

senderStart == acceptAnswer \/ startReturns \/ watcherCloses \/ iceFails
-----------------------------------------------------------------------------
(* The network. *)
netMoves == UNCHANGED <<coreVars, spc, lifeVars, offer, waiting, answers,
                        pipeVars, routerVars, sentCells, sentComplete>>

ctrlMoves == netMoves /\ UNCHANGED <<opened, dataVars, dataReaderVars>>

dataMoves == netMoves /\ UNCHANGED ctrlVars

channelOpens ==
  /\ chan = "connecting" /\ start = "waiting"
  /\ chan' = "open"
  /\ ctrlMoves /\ UNCHANGED <<out, rq, back, closedS, closedR, causes>>

ack ==
  /\ chan \in {"open", "closing"} /\ out # <<>>
  /\ rq' = Append(rq, Head(out)) /\ out' = Tail(out)
  /\ ctrlMoves /\ UNCHANGED <<chan, back, closedS, closedR, causes>>

ctrlHungUp == chan = "down" \/ (chan = "closing" /\ out = <<>>)

senderNotified ==
  /\ ctrlHungUp /\ ~closedS /\ ~sessDone
  /\ closedS' = TRUE
  /\ ctrlMoves /\ UNCHANGED <<chan, out, rq, back, closedR, causes>>

receiverNotified ==
  /\ rpc # "off" /\ ctrlHungUp /\ rq = <<>> /\ ~closedR
  /\ ~Core!done
  /\ closedR' = TRUE
  /\ ctrlMoves /\ UNCHANGED <<chan, out, rq, back, closedS, causes>>

\* Needs the answer accepted here and the offer accepted there.
dataOpens(p) ==
  /\ dlink[p] = "connecting" /\ p \notin waiting
  /\ dlink' = [dlink EXCEPT ![p] = "open"]
  /\ opened' = opened \cup {p}
  /\ dataMoves /\ UNCHANGED <<dout, drq, dclosed, dataReaderVars, causes>>

dataAck(p) ==
  /\ dlink[p] = "open" /\ dout[p] # <<>>
  /\ drq' = [drq EXCEPT ![p] = Append(@, Head(dout[p]))]
  /\ dout' = [dout EXCEPT ![p] = Tail(@)]
  /\ dataMoves /\ UNCHANGED <<opened, dlink, dclosed, dataReaderVars, causes>>

dataNotified(p) ==
  /\ dr[p] # "off" /\ dlink[p] = "down" /\ drq[p] = <<>> /\ ~dclosed[p]
  /\ ~Core!done
  /\ dclosed' = [dclosed EXCEPT ![p] = TRUE]
  /\ dataMoves /\ UNCHANGED <<opened, dlink, dout, drq, dataReaderVars, causes>>

linkLost ==
  /\ inject("link")
  /\ \/ /\ chan \in {"open", "closing"} /\ chan' = "lost"
        /\ ctrlMoves /\ UNCHANGED <<out, rq, back, closedS, closedR>>
     \/ \E p \in Peers :
          /\ dlink[p] = "open" /\ dlink' = [dlink EXCEPT ![p] = "lost"]
          /\ dataMoves /\ UNCHANGED <<opened, dout, drq, dclosed, dataReaderVars>>

network ==
  \/ channelOpens \/ ack \/ senderNotified \/ receiverNotified
  \/ \E p \in Peers : dataOpens(p) \/ dataAck(p) \/ dataNotified(p)
-----------------------------------------------------------------------------
(* The receiver's Start and the control channel's OnChannel. *)
announced ==
  /\ rpc = "off" /\ rmain = "init" /\ chan \in {"open", "closing"}
  /\ rpc' = "reading" /\ cwatch' = "waiting" /\ rmain' = "waiting"
  /\ UNCHANGED <<coreVars, sndVars, ctrlVars, dataVars, dataReaderVars, hand,
                 completeSeen, entry, neg, sessClosed, causes>>

receiverEnds(how) ==
  /\ rmain' = how
  /\ hangUp /\ back' = <<>>
  /\ UNCHANGED <<coreVars, sndVars, out, rq, closedS, closedR, dataVars, rpc,
                 hand, completeSeen, cwatch, entry, neg, sessClosed,
                 dataReaderVars>>

pathTimeout ==
  rmain = "init" /\ timerFires(start = "waiting") /\ receiverEnds("gaveUp")

waitDone ==
  rmain = "waiting" /\ Core!done /\ receiverEnds("returned") /\ UNCHANGED causes
-----------------------------------------------------------------------------
(* multiRouter on the control channel.  The error of a loop that ends is only
   logged. *)
failCore(why) ==
  IF gate = "free" THEN Core!clientFails(why) ELSE UNCHANGED coreVars

readFrame ==
  /\ rpc = "reading" /\ hand = NoFrame /\ rq # <<>>
  /\ hand' = Head(rq) /\ rq' = Tail(rq)
  /\ UNCHANGED <<coreVars, sndVars, chan, out, back, closedS, closedR, dataVars,
                 rpc, completeSeen, cwatch, rmain, entry, neg, sessClosed,
                 dataReaderVars, causes>>

readEnds ==
  /\ rpc = "reading" /\ hand = NoFrame /\ rq = <<>> /\ ctrlHungUp
  /\ ~Core!done
  /\ rpc' = "ended"
  /\ UNCHANGED <<coreVars, sndVars, ctrlVars, dataVars, hand, completeSeen,
                 cwatch, rmain, entry, neg, sessClosed, dataReaderVars, causes>>

holds(type) == hand # NoFrame /\ hand.type = type

dispatched ==
  /\ hand' = NoFrame
  /\ UNCHANGED <<sndVars, ctrlVars, dataVars, cwatch, rmain, sessClosed,
                 dataReaderVars>>

OnMetadata ==
  /\ holds("METADATA")
  /\ \/ Core!metadataAccepted(metadata) /\ UNCHANGED rpc
        /\ UNCHANGED causes
     \/ /\ \/ Core!metadataRejected(metadata) /\ UNCHANGED causes
           \/ Core!truncateFails(metadata) /\ (sinkOpen => inject("disk"))
                                           /\ (~sinkOpen => UNCHANGED causes)
        /\ rpc' = "ended"
  /\ dispatched /\ UNCHANGED <<completeSeen, entry, neg>>

OnAddPeerOffer ==
  /\ holds("ADD_PEER_OFFER")
  /\ IF entry[hand.id] # "none"
       THEN rpc' = "ended" /\ UNCHANGED <<entry, neg>>
       ELSE /\ entry' = [entry EXCEPT ![hand.id] = "reserved"]
            /\ neg' = [neg EXCEPT ![hand.id] = "creating"]
            /\ UNCHANGED rpc
  /\ dispatched /\ UNCHANGED <<coreVars, completeSeen, causes>>

OnTransferComplete ==
  /\ holds("TRANSFER_COMPLETE")
  /\ IF meta = NoMeta
       THEN failCore("complete-before-metadata") /\ rpc' = "ended"
                                                 /\ UNCHANGED completeSeen
       ELSE completeSeen' = TRUE /\ Core!verifyStarts(Verifier) /\ UNCHANGED rpc
  /\ dispatched /\ UNCHANGED <<entry, neg, causes>>

OnAbort ==
  /\ holds("ABORT")
  /\ failCore("abort") /\ rpc' = "ended"
  /\ dispatched /\ UNCHANGED <<completeSeen, entry, neg, causes>>

router ==
  \/ readFrame \/ readEnds
  \/ OnMetadata \/ OnAddPeerOffer \/ OnTransferComplete \/ OnAbort

\* failOnEarlyClose from the control channel's watcher.
failOnEarlyClose ==
  /\ cwatch = "waiting" /\ closedR /\ ~Core!done
  /\ cwatch' = "gone"
  /\ failCore("control-closed")
  /\ UNCHANGED <<sndVars, ctrlVars, dataVars, rpc, hand, completeSeen, rmain,
                 entry, neg, sessClosed, dataReaderVars, causes>>
-----------------------------------------------------------------------------
(* negotiateReceivePeer. *)
negMoves(p, to) ==
  /\ neg' = [neg EXCEPT ![p] = to]
  /\ UNCHANGED <<sndVars, chan, out, rq, closedS, closedR, rpc, hand,
                 completeSeen, cwatch, rmain, dataReaderVars>>

closeSess(p) ==
  /\ sessClosed' = [sessClosed EXCEPT ![p] = TRUE]
  /\ dlink' = [dlink EXCEPT ![p] = hungUp(@)]
  /\ UNCHANGED <<dout, drq, dclosed>>

\* Publishes when the offer is accepted, not before.
createPeer_Unpublished(p) ==
  /\ neg[p] = "creating"
  /\ negMoves(p, "accepting")
  /\ UNCHANGED <<coreVars, causes, entry, back, dataVars, sessClosed>>

createPeer(p) ==
  /\ neg[p] = "creating"
  /\ \/ /\ entry' = [entry EXCEPT ![p] = "published"]
        /\ negMoves(p, "accepting") /\ UNCHANGED <<coreVars, causes>>
     \/ /\ inject("setup")
        /\ failCore("peer-setup")
        /\ negMoves(p, "ended") /\ UNCHANGED entry
  /\ UNCHANGED <<back, dataVars, sessClosed>>

acceptOffer(p) ==
  /\ neg[p] = "accepting"
  /\ \/ /\ ~sessClosed[p]
        /\ negMoves(p, "answering")
        /\ UNCHANGED <<coreVars, dataVars, sessClosed, causes>>
     \/ /\ \/ sessClosed[p] /\ UNCHANGED causes
           \/ inject("setup")
        /\ failCore("peer-setup")
        /\ negMoves(p, "ended") /\ closeSess(p)
  /\ UNCHANGED <<back, entry>>

\* The check of core.done and SendAddPeerAnswer, which a channel that is being
\* closed may still take or already refuse.
answerOffer(p) ==
  /\ neg[p] = "answering"
  /\ \/ /\ Core!done
        /\ closeSess(p) /\ UNCHANGED <<coreVars, back>>
     \/ /\ ~Core!done /\ (chan \in {"open", "closing", "lost"} \/ (chan = "down" /\ ~closedR))
        /\ back' = Append(back, p)
        /\ UNCHANGED <<coreVars, dataVars, sessClosed>>
     \/ /\ ~Core!done /\ chan \in {"closing", "down"}
        /\ failCore("send-answer") /\ closeSess(p) /\ UNCHANGED back
  /\ negMoves(p, "ended") /\ UNCHANGED <<entry, causes>>

negotiateReceivePeer(p) == createPeer(p) \/ acceptOffer(p) \/ answerOffer(p)
-----------------------------------------------------------------------------
(* installDataPeer and the readers and close watchers it starts. *)
readerMoves == UNCHANGED <<sndVars, ctrlVars, routerVars>>

installDataPeer(p) ==
  /\ dr[p] = "off" /\ dlink[p] = "open"
  /\ dr' = [dr EXCEPT ![p] = "reading"]
  /\ dw' = [dw EXCEPT ![p] = "waiting"]
  /\ readerMoves /\ UNCHANGED <<coreVars, dataVars, causes>>

onPeerData(p) ==
  /\ dr[p] = "reading" /\ drq[p] # <<>>
  /\ Core!deliver(p, Head(drq[p]))
  /\ drq' = [drq EXCEPT ![p] = Tail(@)]
  /\ readerMoves /\ UNCHANGED <<dlink, dout, dclosed, dataReaderVars, causes>>

\* ingestData; cleanup may have closed the decoder.
ingest(p) ==
  /\ \/ sessClosed[p] /\ Core!decodeFails(p)
     \/ Core!dataBeforeMetadata(p) \/ Core!dataOutOfBounds(p)
     \/ ~sinkOpen /\ Core!writeFails(p)
     \/ Core!writeChunk(p) \/ Core!countBytes(p)
  /\ UNCHANGED causes
  /\ readerMoves /\ UNCHANGED <<dataVars, dataReaderVars>>

diskFails(p) ==
  /\ inject("disk") /\ Core!writeFails(p)
  /\ readerMoves /\ UNCHANGED <<dataVars, dataReaderVars>>

\* The loop ends in io.EOF or in an error, and the error fails the transfer.
peerReadEnds(p) ==
  /\ dr[p] = "reading" /\ rd[p] = "idle" /\ dlink[p] = "down" /\ ~Core!done
  /\ drq[p] = <<>> \/ sessClosed[p]
  /\ dr' = [dr EXCEPT ![p] = "ended"]
  /\ UNCHANGED coreVars \/ failCore("peer-OnFrames")
  /\ readerMoves /\ UNCHANGED <<dataVars, dw, causes>>

dataReader(p) == onPeerData(p) \/ ingest(p) \/ diskFails(p) \/ peerReadEnds(p)

\* The watcher looks at done and at bytesWritten, then fails.
peerWatchLooks(p) ==
  /\ dw[p] = "waiting" /\ dclosed[p] /\ ~Core!done
  /\ dw' = [dw EXCEPT ![p] =
              IF Core!done \/ (meta # NoMeta /\ bytesWritten >= meta.size)
              THEN "gone" ELSE "looked"]
  /\ readerMoves /\ UNCHANGED <<coreVars, dataVars, dr, causes>>

failOnPeerClose(p) ==
  /\ dw[p] = "looked" /\ ~Core!done
  /\ dw' = [dw EXCEPT ![p] = "gone"]
  /\ failCore("data-peer-closed")
  /\ readerMoves /\ UNCHANGED <<dataVars, dr, causes>>
-----------------------------------------------------------------------------
(* verifyAndClose, and the body of doneOnce, whose cleanup closes every peer
   published so far. *)
dataUnderWay ==
  \E p \in Peers : \/ rd[p] \in {"ingest", "count"} \/ drq[p] # <<>>
                   \/ dout[p] # <<>> /\ dlink[p] = "open"

verify ==
  /\ \/ (Core!seeAllBytes(Verifier) \/ Core!seeDone(Verifier)
          \/ Core!claimVerify(Verifier)) /\ UNCHANGED causes
     \/ timerFires(allBytes \/ dataUnderWay) /\ Core!verifyTimeout(Verifier)
  /\ UNCHANGED <<sndVars, ctrlVars, dataVars, rcvVars>>

cleanup ==
  LET mine == {p \in Peers : entry[p] = "published"}
  IN /\ Core!cleanup
     /\ sessClosed' = [p \in Peers |-> p \in mine \/ sessClosed[p]]
     /\ dlink' = [p \in Peers |-> IF p \in mine THEN hungUp(dlink[p]) ELSE dlink[p]]
     /\ UNCHANGED <<dout, drq, dclosed, rpc, hand, completeSeen, cwatch, rmain,
                    entry, neg, causes>>

finish ==
  /\ \/ /\ \/ Core!sync \/ Core!verifyIntegrity \/ Core!integrityFails
           \/ Core!sinkClose \/ Core!abortClose \/ Core!abortRemove
           \/ Core!closeDone
        /\ UNCHANGED causes
     \/ inject("disk") /\ (Core!syncFails \/ Core!hashFails)
  /\ UNCHANGED <<dataVars, routerVars>>

doneBody ==
  (cleanup \/ finish) /\ UNCHANGED <<sndVars, ctrlVars, dataReaderVars>>

receiver ==
  \/ announced \/ waitDone \/ router \/ failOnEarlyClose \/ verify \/ doneBody
  \/ \E p \in Peers : \/ negotiateReceivePeer(p) \/ installDataPeer(p)
                      \/ dataReader(p) \/ peerWatchLooks(p) \/ failOnPeerClose(p)
-----------------------------------------------------------------------------
Next ==
  \/ runMulti \/ OnAddPeerAnswer \/ multiProduce
  \/ \E p \in Peers : makeOffer(p) \/ multiWorker(p)
  \/ senderStart \/ signalingFails
  \/ network \/ linkLost
  \/ pathTimeout \/ receiver

Spec == Init /\ [][Next]_vars

(* Every goroutine that can run does, timers fire, and a network that works
   opens channels and delivers; the user need not paste an answer, a link need
   not be lost, and a close watcher that sees the context cancelled may leave
   without closing.  Weak fairness of the union is enough, and assumes less than
   that of each member: no action can be taken for ever. *)
fairly ==
  \/ \E p \in Peers : makeOffer(p) \/ multiWorker(p)
  \/ multiProduce \/ runMulti \/ OnAddPeerAnswer
  \/ network
  \/ startReturns \/ (~ctxDone /\ watcherCloses) \/ iceFails
  \/ pathTimeout \/ receiver

Fairness == WF_vars(fairly)

FairSpec == Spec /\ Fairness
-----------------------------------------------------------------------------
SenderTypeOK ==
  /\ spc \in {"pre", "build", "negotiate", "transfer", "flushData", "complete",
              "abort", "flush", "close", "gone"}
  /\ {ctxDone, sessDone, peersClosed, sentComplete} \subseteq BOOLEAN
  /\ start \in {"signaling", "waiting", "returned", "failed"}
  /\ offer \in [Peers -> {"off", "making", "sent", "failed"}]
  /\ opened \subseteq Peers

QueueTypeOK ==
  /\ waiting \subseteq Peers
  /\ answers \in Seq(Peers) /\ Len(answers) <= Cardinality(Peers)
  /\ produced \in 0 .. Size /\ Len(pipe) <= PipeSize

PipelineTypeOK ==
  /\ prod \in {"off", "reading", "ended", "failed"}
  /\ worker \in [Peers -> {"off", "ready", "drain", "ended", "failed"}]

LinkTypeOK ==
  /\ chan \in {"connecting", "open", "closing", "down", "lost", "dead"}
  /\ {closedS, closedR} \subseteq BOOLEAN
  /\ dlink \in [Peers -> {"none", "connecting", "open", "down", "lost"}]

ReceiverTypeOK ==
  /\ rpc \in {"off", "reading", "ended"} /\ completeSeen \in BOOLEAN
  /\ cwatch \in {"off", "waiting", "gone"}
  /\ rmain \in {"init", "waiting", "returned", "gaveUp"}
  /\ entry \in [Peers -> {"none", "reserved", "published"}]
  /\ neg \in [Peers -> {"off", "creating", "accepting", "answering", "ended"}]
  /\ dr \in [Peers -> {"off", "reading", "ended"}]
  /\ dw \in [Peers -> {"off", "waiting", "looked", "gone"}]

TypeOK ==
  SenderTypeOK /\ QueueTypeOK /\ PipelineTypeOK /\ LinkTypeOK /\ ReceiverTypeOK

teardownErrors == {"control-closed", "peer-OnFrames", "data-peer-closed"}

Honest == INSTANCE TransferCore
            WITH Readers <- Peers, Verifiers <- {Verifier}, Wrap <- Size + 2,
                 Chunks <- FileChunks, Metas <- {metadata}, HasPath <- TRUE,
                 ExactlyOnce <- TRUE, MaxBytes <- Size + ChunkSize,
                 result <- IF result \in teardownErrors \cup
                                {"abort", "peer-setup", "send-answer"}
                           THEN "client" ELSE result

(* The pipeline and the peers drive transferCore only in ways its theorems
   cover: between them the workers send no byte of the file twice, and every
   step is a step of the core or leaves it alone. *)
ImplementsCore == Honest!Spec

(* A success at the receiver is the sender's file, whole. *)
SuccessIsFaithful ==
  Core!done /\ result = "nil" =>
    Core!Intact /\ \A o \in 0 .. Size - 1 : contents[o] = Source[o + 1]

(* TRANSFER_COMPLETE follows only a producer that reached the end of the file
   and workers that sent every chunk of it, whatever failed meanwhile. *)
CompleteMeansSent == sentComplete => sentCells = 0 .. Size - 1

(* A data channel is read only for a peer already in r.peers: installDataPeer's
   comment (receiver/multi.go:228) claims the entry is never nil there. *)
PeerIsPublished == \A p \in Peers : dr[p] # "off" => entry[p] = "published"

(* No transfer fails for a reason nobody gave: the pipeline's own bytes never
   fail the checks of transferCore, and without a fault nothing fails before
   the sender has sent TRANSFER_COMPLETE and torn everything down. *)
FailureHasCause ==
  Core!done /\ result # "nil" =>
    /\ result \in teardownErrors \cup {"abort", "peer-setup", "send-answer",
                    "timeout", "truncate", "write", "sync", "hash"}
    /\ result \in {"truncate", "write", "sync", "hash"} => "disk" \in causes
    /\ result = "timeout" => causes \cap {"timer", "link", "ice"} # {}
    /\ causes = {} => sentComplete /\ spc = "gone" /\ result \in teardownErrors

(* Both Starts return, also when the receiver's disk fails, at any moment: once
   the user has pasted the answer the sender's does, and the receiver's always
   does.  A receiver that stops in the middle takes its channels down, and with
   them workers that wait for an acknowledgement or a chunk and leave the rest of
   the file in the pipe. *)
BothReturn ==
  <>[](start # "waiting" /\ rmain \in {"returned", "gaveUp"})

(* When nothing but the user or a fault could still move, the transfer is over:
   producer, workers, drain loop (sender/multi.go:174), negotiators, readers and
   verifier never all wait on one another, under a fault of any kind.  Only a
   lost link may leave a Start waiting: the sender's on a lost data channel,
   whose ICE callback only logs, the receiver's on a lost channel of any kind. *)
dataLost == \E p \in Peers : dlink[p] = "lost"

NobodyStuck ==
  ~ENABLED fairly =>
    /\ start = "waiting" => dataLost
    /\ rmain \in {"returned", "gaveUp"} \/ chan = "lost" \/ dataLost

(* "When the sender has flushed every data channel, it sends TRANSFER_COMPLETE
   on the control channel. The receiver then verifies the SHA-256."
   (PROTOCOL.md:175): without a fault, a receiver that has seen it succeeds. *)
CompleteIsVerified ==
  causes = {} /\ completeSeen /\ Core!done => result = "nil"

(* "On every failure/cancel exit the sess must be closed; on success cleanup()
   owns it." (receiver/multi.go:150): once the transfer is over and no negotiator
   runs, every PeerConnection the receiver made for a peer is closed. *)
NoSessionLeak ==
  Core!done /\ (\A p \in Peers : neg[p] \in {"off", "ended"})
    => \A p \in Peers : entry[p] = "published" => sessClosed[p]
=============================================================================
