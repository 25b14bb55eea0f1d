------------------------------ MODULE SinglePC ------------------------------
(* A single-PC transfer, end to end: the sender's run goroutine and its close
   watcher (sender/single.go, init.go, state.go), the ordered data channel
   between the two processes, and the receiver's OnFrames loop, singleHandler,
   close watcher and Start (receiver/single.go, init.go) around transferCore.

   The channel is pion's and external: `out` holds the frames Send accepted and
   the peer has not acknowledged (BufferedAmount > 0 while it is not empty),
   `rq` those the receiving SCTP association holds.  Closing the data channel
   lets `out` drain, closing the PeerConnection discards it.  OnClose fires at
   the receiver on a goroutine of its own, after the reader took the last frame
   out of rq but maybe before it has dispatched it.

   As in TransferCore, x_Flaw is x with one plausible mistake, for the property
   that catches it; no action uses it. *)
EXTENDS Integers, Sequences, FiniteSets

CONSTANTS
  Primary,      \* the reader of the primary channel
  Verifier,     \* the verifyAndClose goroutine OnEOF starts
  NoFrame,
  Sources,      \* contents the input file may have, before and after a change
  ChunkSize,    \* bytes of the file per DATA frame
  HighWater,    \* bufferThreshold, in frames
  Zstd,         \* --compression-level > 0
  Lossy,        \* the network may fail
  Byte, Zero, Wrap, NoMeta, NoChunk, HasPath, MaxBytes

(* What sendFile reads at offset o of the input s, and what preTransfer announces
   of it. *)
bytesAt(s, o) == SubSeq(s, o + 1, IF o + ChunkSize <= Len(s)
                                  THEN o + ChunkSize ELSE Len(s))

FileChunks ==
  UNION {{[at |-> o, data |-> bytesAt(s, o)] : o \in 0 .. Len(s) - 1} : s \in Sources}

metaOf(s) ==
  [known |-> TRUE, size |-> Len(s), sha |-> [o \in 0 .. Len(s) - 1 |-> s[o + 1]]]

FileMetas == {metaOf(s) : s \in Sources}

Frames ==
  [type : {"METADATA"}, meta : FileMetas] \cup [type : {"DATA"}, chunk : FileChunks]
    \cup [type : {"EOF", "ABORT"}]

ASSUME SinglePCAssumption ==
  /\ \A s \in Sources : s \in Seq(Byte) /\ Len(s) < Wrap
  /\ Wrap \in Nat \ {0} /\ Zero \in Byte
  /\ NoChunk \notin FileChunks /\ NoMeta \notin FileMetas /\ NoFrame \notin Frames
  /\ ChunkSize \in Nat \ {0} /\ HighWater \in Nat
  /\ {Zstd, Lossy, HasPath} \subseteq BOOLEAN

VARIABLES
  \* transferCore
  meta, contents, sinkOpen, onDisk, bytesWritten, allBytes, gate, result, rd,
  chunk, vf, arrived, counted,
  \* sender
  spc,         \* where Session.run is
  source,      \* the input file
  sum,         \* what preHash hashed
  sent,        \* offset in sendFile
  ctxDone,     \* the context stopSend cancels
  sessDone,    \* s.sess.Done is closed
  start,       \* Session.Start: signaling, waiting, returned, failed
  \* channel
  chan,        \* connecting, open, closing, down, lost, dead (never opened)
  out, rq,
  closedS,     \* the sender's Channel.Closed
  closedR,     \* the receiver's Channel.Closed
  \* receiver
  rpc,         \* the OnFrames loop: off, reading, ended
  hand,        \* the frame it dispatches
  eofSeen,
  decoder,     \* singleHandler.decoder: none, open, closed
  wpc,         \* watchClose: off, waiting, looked, gone
  rmain,       \* Session.Start: init, waiting, returned, gaveUp
  \* history
  causes,      \* what went wrong outside the receiver's disk
  eofSent      \* SendEOF succeeded

coreVars == <<meta, contents, sinkOpen, onDisk, bytesWritten, allBytes, gate,
              result, rd, chunk, vf, arrived, counted>>
sndVars == <<spc, source, sum, sent, ctxDone, sessDone, start, eofSent>>
netVars == <<chan, out, rq, closedS, closedR>>
rcvVars == <<rpc, hand, eofSeen, decoder, wpc, rmain>>
vars == <<coreVars, sndVars, netVars, rcvVars, causes>>

Core == INSTANCE TransferCore
          WITH Readers <- {Primary}, Verifiers <- {Verifier},
               Chunks <- FileChunks, Metas <- FileMetas, ExactlyOnce <- FALSE

Init ==
  /\ Core!Init
  /\ spc = "hash" /\ source \in Sources /\ sum = <<>> /\ sent = 0
  /\ ctxDone = FALSE /\ sessDone = FALSE /\ start = "signaling"
  /\ eofSent = FALSE
  /\ chan = "connecting" /\ out = <<>> /\ rq = <<>>
  /\ closedS = FALSE /\ closedR = FALSE
  /\ rpc = "off" /\ hand = NoFrame /\ eofSeen = FALSE /\ decoder = "none"
  /\ wpc = "off" /\ rmain = "init"
  /\ causes = {}
-----------------------------------------------------------------------------
(* Frames. *)
metadata == [type |-> "METADATA", meta |-> metaOf(sum)]
data(at, bytes) == [type |-> "DATA", chunk |-> [at |-> at, data |-> bytes]]
eof == [type |-> "EOF"]
abort == [type |-> "ABORT"]

(* dc.Send queues the frame or fails.  A channel the peer tore down takes frames
   until this side notices. *)
send(f) ==
  /\ chan \in {"open", "lost"} \/ (chan = "down" /\ ~closedS)
  /\ out' = Append(out, f)
  /\ UNCHANGED <<chan, rq, closedS, closedR>>

sendFails == chan = "down" /\ UNCHANGED netVars

runMoves(to) ==
  /\ spc' = to
  /\ UNCHANGED <<coreVars, rcvVars, source, sum, ctxDone, sessDone, start>>

blame(c) == causes' = causes \cup {c}
-----------------------------------------------------------------------------
(* Session.run.  preHash, then preTransfer's wait for Open. *)
preHash_Short ==
  /\ spc = "hash"
  /\ spc' = "open"
  /\ sum' = SubSeq(source, 1, Len(source) - 1)
  /\ UNCHANGED <<coreVars, netVars, rcvVars, source, sent, ctxDone, sessDone,
                 start, eofSent, causes>>

preHash ==
  /\ spc = "hash"
  /\ spc' = "open"
  /\ sum' = source
  /\ UNCHANGED <<coreVars, netVars, rcvVars, source, sent, ctxDone, sessDone,
                 start, eofSent, causes>>

preHashFails ==
  /\ spc = "hash"
  /\ runMoves("close") /\ blame("read")
  /\ UNCHANGED <<netVars, sent, eofSent>>

seeOpen ==
  /\ spc = "open" /\ chan \notin {"connecting", "dead"}
  /\ runMoves("metadata")
  /\ UNCHANGED <<netVars, sent, eofSent, causes>>

openCancelled ==
  /\ spc = "open" /\ ctxDone
  /\ runMoves("close")
  /\ UNCHANGED <<netVars, sent, eofSent, causes>>

sendMetadata ==
  /\ spc = "metadata"
  /\ \/ send(metadata) /\ runMoves("read")
     \/ sendFails /\ runMoves("abort")
  /\ UNCHANGED <<sent, eofSent, causes>>

(* sendFile: one ReadFull and the SendData of what it read.  A short read has
   reached the end of the file; SendData then waits for the buffer to drain. *)
readBytes == bytesAt(source, sent)

atEnd == sent + ChunkSize > Len(source)

\* Advances by the length of the compressed payload.
sendData_Compressed ==
  /\ spc = "read"
  /\ readBytes # <<>>
  /\ \/ /\ send(data(sent, readBytes))
        /\ sent' = sent + 1
        /\ runMoves(IF atEnd THEN "drainLast" ELSE "drain")
     \/ sendFails /\ runMoves("abort") /\ UNCHANGED sent
  /\ UNCHANGED <<eofSent, causes>>

sendData ==
  /\ spc = "read"
  /\ readBytes # <<>>
  /\ \/ /\ send(data(sent, readBytes))
        /\ sent' = sent + Len(readBytes)
        /\ runMoves(IF atEnd THEN "drainLast" ELSE "drain")
     \/ sendFails /\ runMoves("abort") /\ UNCHANGED sent
  /\ UNCHANGED <<eofSent, causes>>

readEOF ==
  /\ spc = "read"
  /\ readBytes = <<>>
  /\ runMoves("eof")
  /\ UNCHANGED <<netVars, sent, eofSent, causes>>

readFails ==
  /\ spc = "read"
  /\ runMoves("abort") /\ blame("read")
  /\ UNCHANGED <<netVars, sent, eofSent>>

drained ==
  /\ spc \in {"drain", "drainLast"}
  /\ Len(out) <= HighWater
  /\ runMoves(IF spc = "drain" THEN "read" ELSE "eof")
  /\ UNCHANGED <<netVars, sent, eofSent, causes>>

drainCancelled ==
  /\ spc \in {"drain", "drainLast"}
  /\ Len(out) > HighWater /\ ctxDone
  /\ runMoves("abort")
  /\ UNCHANGED <<netVars, sent, eofSent, causes>>

sendEOF ==
  /\ spc = "eof"
  /\ \/ send(eof) /\ runMoves("flush") /\ eofSent' = TRUE
     \/ sendFails /\ runMoves("abort") /\ UNCHANGED eofSent
  /\ UNCHANGED <<sent, causes>>

(* sendAbort: its Send may fail like any other; the error is dropped. *)
sendAbort ==
  /\ spc = "abort"
  /\ send(abort) \/ sendFails
  /\ runMoves("flush")
  /\ UNCHANGED <<sent, eofSent, causes>>

(* Flush polls BufferedAmount until it is 0, or for 10 s (2 s after ABORT). *)
flushed ==
  /\ spc = "flush" /\ out = <<>>
  /\ runMoves("close")
  /\ UNCHANGED <<netVars, sent, eofSent, causes>>

flushTimeout ==
  /\ spc = "flush" /\ out # <<>>
  /\ runMoves("close") /\ blame("flushTimeout")
  /\ UNCHANGED <<netVars, sent, eofSent>>

(* The deferred close(false): ch.Close, and Done once. *)
closeRun ==
  /\ spc = "close"
  /\ spc' = "gone"
  /\ chan' = IF chan = "open" THEN "closing" ELSE chan
  /\ sessDone' = TRUE
  /\ UNCHANGED <<coreVars, rcvVars, source, sum, sent, ctxDone, start, eofSent,
                 out, rq, closedS, closedR, causes>>

run ==
  \/ preHash \/ preHashFails \/ seeOpen \/ openCancelled \/ sendMetadata
  \/ sendData \/ readEOF \/ readFails \/ drained \/ drainCancelled
  \/ sendEOF \/ sendAbort \/ flushed \/ flushTimeout \/ closeRun
-----------------------------------------------------------------------------
(* Session.Start on the sender, its close watcher and the ICE callback. *)
hangUp == chan' = IF chan \in {"connecting", "dead"} THEN "dead" ELSE "down"

acceptAnswer ==
  /\ start = "signaling"
  /\ start' = "waiting"
  /\ UNCHANGED <<coreVars, netVars, rcvVars, spc, source, sum, sent, ctxDone,
                 sessDone, eofSent, causes>>

\* Either way the deferred cancel and sess.Close run.
startEnds(how) ==
  /\ start' = how
  /\ ctxDone' = TRUE
  /\ hangUp /\ out' = <<>>
  /\ UNCHANGED <<coreVars, rcvVars, spc, source, sum, sent, sessDone, eofSent,
                 rq, closedS, closedR>>

signalingFails ==
  start = "signaling" /\ startEnds("failed") /\ blame("signaling")

startReturns ==
  start = "waiting" /\ sessDone /\ startEnds("returned") /\ UNCHANGED causes

stopSend ==
  /\ ctxDone' = TRUE
  /\ UNCHANGED <<coreVars, netVars, rcvVars, spc, source, sum, sent, start,
                 eofSent>>

watcherCloses ==
  /\ start = "waiting" /\ closedS /\ ~sessDone
  /\ sessDone' = TRUE
  /\ stopSend /\ UNCHANGED causes

iceFails ==
  /\ ~ctxDone
  /\ \/ chan \in {"down", "lost", "dead"} /\ UNCHANGED causes
     \/ chan = "open" /\ Lossy /\ blame("lost")
  /\ stopSend /\ UNCHANGED sessDone

senderProcess == acceptAnswer \/ startReturns \/ watcherCloses \/ iceFails

(* The input file is another program's to change. *)
sourceChanges(s) ==
  /\ "changed" \notin causes /\ s # source
  /\ source' = s
  /\ causes' = causes \cup {"changed"}
  /\ UNCHANGED <<coreVars, netVars, rcvVars, spc, sum, sent, ctxDone, sessDone,
                 start, eofSent>>
-----------------------------------------------------------------------------
(* The channel between the processes. *)
netMoves == UNCHANGED <<coreVars, sndVars, rcvVars>>

channelOpens ==
  /\ chan = "connecting" /\ start = "waiting"
  /\ chan' = "open"
  /\ netMoves /\ UNCHANGED <<out, rq, closedS, closedR, causes>>

ack ==
  /\ chan \in {"open", "closing"} /\ out # <<>>
  /\ rq' = Append(rq, Head(out)) /\ out' = Tail(out)
  /\ netMoves /\ UNCHANGED <<chan, closedS, closedR, causes>>

linkLost ==
  /\ Lossy /\ chan \in {"open", "closing"}
  /\ chan' = "lost"
  /\ blame("lost")
  /\ netMoves /\ UNCHANGED <<out, rq, closedS, closedR>>

hungUp == chan = "down" \/ (chan = "closing" /\ out = <<>>)

senderNotified ==
  /\ hungUp /\ ~closedS
  /\ closedS' = TRUE
  /\ netMoves /\ UNCHANGED <<chan, out, rq, closedR, causes>>

receiverNotified ==
  /\ rpc # "off" /\ hungUp /\ rq = <<>> /\ ~closedR
  /\ closedR' = TRUE
  /\ netMoves /\ UNCHANGED <<chan, out, rq, closedS, causes>>
-----------------------------------------------------------------------------
(* The receiver's Start and OnChannel. *)
announced ==
  /\ rpc = "off" /\ rmain = "init" /\ chan \in {"open", "closing"}
  /\ rpc' = "reading" /\ wpc' = "waiting" /\ rmain' = "waiting"
  /\ UNCHANGED <<coreVars, sndVars, netVars, hand, eofSeen, decoder, causes>>

receiverEnds(how) ==
  /\ rmain' = how
  /\ hangUp
  /\ UNCHANGED <<coreVars, sndVars, out, rq, closedS, closedR, rpc, hand,
                 eofSeen, decoder, wpc>>

pathTimeout_Never == FALSE /\ receiverEnds("gaveUp") /\ blame("noChannel")

pathTimeout ==
  rmain = "init" /\ receiverEnds("gaveUp") /\ blame("noChannel")

waitDone == rmain = "waiting" /\ Core!done /\ receiverEnds("returned") /\ UNCHANGED causes
-----------------------------------------------------------------------------
(* runDetached: take a frame, dispatch it to singleHandler, and stop at the
   first error; the error of a loop that ends before EOF fails the transfer. *)
failCore(why) ==
  IF gate = "free" THEN Core!clientFails(why) ELSE UNCHANGED coreVars

readFrame ==
  /\ rpc = "reading" /\ hand = NoFrame /\ rd[Primary] = "idle" /\ rq # <<>>
  /\ hand' = Head(rq) /\ rq' = Tail(rq)
  /\ UNCHANGED <<coreVars, sndVars, chan, out, closedS, closedR, rpc, eofSeen,
                 decoder, wpc, rmain, causes>>

readEnds ==
  /\ rpc = "reading" /\ hand = NoFrame /\ rd[Primary] = "idle"
  /\ rq = <<>> /\ hungUp
  /\ rpc' = "ended"
  /\ \/ UNCHANGED coreVars            \* io.EOF
     \/ IF eofSeen THEN UNCHANGED coreVars ELSE failCore("protocolError")
  /\ UNCHANGED <<sndVars, netVars, hand, eofSeen, decoder, wpc, rmain, causes>>

dispatched == hand' = NoFrame /\ UNCHANGED <<sndVars, netVars, wpc, rmain, causes>>

OnMetadata ==
  /\ hand # NoFrame /\ hand.type = "METADATA"
  /\ \/ /\ Core!metadataAccepted(hand.meta)
        /\ decoder' = IF Zstd THEN "open" ELSE decoder
        /\ UNCHANGED rpc
     \/ /\ Core!metadataRejected(hand.meta) \/ Core!truncateFails(hand.meta)
        /\ rpc' = "ended"
        /\ UNCHANGED decoder
  /\ dispatched /\ UNCHANGED eofSeen

OnData ==
  /\ hand # NoFrame /\ hand.type = "DATA"
  /\ Core!deliver(Primary, hand.chunk)
  /\ dispatched /\ UNCHANGED <<rpc, eofSeen, decoder>>

OnEOF ==
  /\ hand # NoFrame /\ hand.type = "EOF"
  /\ IF meta = NoMeta \/ eofSeen
       THEN failCore("badEOF") /\ rpc' = "ended" /\ UNCHANGED eofSeen
       ELSE eofSeen' = TRUE /\ Core!verifyStarts(Verifier) /\ UNCHANGED rpc
  /\ dispatched /\ UNCHANGED decoder

OnAbort ==
  /\ hand # NoFrame /\ hand.type = "ABORT"
  /\ failCore("abort")
  /\ rpc' = "ended"
  /\ dispatched /\ UNCHANGED <<eofSeen, decoder>>

(* ingestData: a zstd payload fails to decode once cleanup closed the decoder. *)
ingest ==
  /\ \/ decoder = "closed" /\ Core!decodeFails(Primary)
     \/ decoder # "closed" /\ Core!dataBeforeMetadata(Primary)
     \/ /\ decoder # "closed"
        /\ \/ Core!dataOutOfBounds(Primary) \/ Core!writeFails(Primary)
           \/ Core!writeChunk(Primary)
     \/ Core!countBytes(Primary)
  /\ UNCHANGED <<sndVars, netVars, rcvVars, causes>>

reader == readFrame \/ readEnds \/ OnMetadata \/ OnData \/ OnEOF \/ OnAbort \/ ingest
-----------------------------------------------------------------------------
(* failOnEarlyClose on the close watcher: it looks at eofSeen, then at done,
   then fails; OnEOF and doneOnce go on meanwhile. *)
watcherLooks_Ungated ==
  /\ wpc = "waiting" /\ closedR
  /\ wpc' = "looked"
  /\ causes' = IF ~eofSeen /\ hand = eof THEN causes \cup {"raced"} ELSE causes
  /\ UNCHANGED <<coreVars, sndVars, netVars, rpc, hand, eofSeen, decoder, rmain>>

watcherLooks ==
  /\ wpc = "waiting" /\ closedR
  /\ wpc' = IF eofSeen THEN "gone" ELSE "looked"
  /\ causes' = IF ~eofSeen /\ hand = eof THEN causes \cup {"raced"} ELSE causes
  /\ UNCHANGED <<coreVars, sndVars, netVars, rpc, hand, eofSeen, decoder, rmain>>

failOnEarlyClose ==
  /\ wpc = "looked"
  /\ wpc' = "gone"
  /\ IF Core!done THEN UNCHANGED coreVars ELSE failCore("closedEarly")
  /\ UNCHANGED <<sndVars, netVars, rpc, hand, eofSeen, decoder, rmain, causes>>

watcher == watcherLooks \/ failOnEarlyClose

(* verifyAndClose and the body of doneOnce; cleanup is closeDecoder.  A timer
   that beats a full count means the goroutine was starved for 30 s. *)
verify ==
  /\ \/ (Core!seeAllBytes(Verifier) \/ Core!seeDone(Verifier)
          \/ Core!claimVerify(Verifier)) /\ UNCHANGED causes
     \/ /\ Core!verifyTimeout(Verifier)
        /\ causes' = IF allBytes THEN causes \cup {"starved"} ELSE causes
  /\ UNCHANGED <<sndVars, netVars, rcvVars>>

closing ==
  /\ Core!doneBody
  /\ decoder' = IF gate \in {"failing", "verifying"} /\ decoder = "open"
                THEN "closed" ELSE decoder
  /\ UNCHANGED <<sndVars, netVars, rpc, hand, eofSeen, wpc, rmain, causes>>
-----------------------------------------------------------------------------
Next ==
  \/ run \/ senderProcess \/ signalingFails
  \/ \E s \in Sources : sourceChanges(s)
  \/ channelOpens \/ ack \/ linkLost \/ senderNotified \/ receiverNotified
  \/ announced \/ pathTimeout \/ waitDone
  \/ reader \/ watcher \/ verify \/ closing

Spec == Init /\ [][Next]_vars

(* Goroutines that can run do, timers fire, and a network that works delivers
   frames and close notifications.  The user need not paste an answer, a link
   that is open need not fail, and a close watcher that sees the context
   cancelled may leave without closing.  Fairness of the union is as much as
   fairness of each: no action can be taken for ever. *)
fairly ==
  \/ run \/ startReturns \/ (~ctxDone /\ watcherCloses)
  \/ (chan # "open" /\ iceFails)
  \/ channelOpens \/ ack \/ senderNotified \/ receiverNotified
  \/ announced \/ pathTimeout \/ waitDone
  \/ reader \/ watcher \/ verify \/ closing

Fairness == WF_vars(fairly)

FairSpec == Spec /\ Fairness
-----------------------------------------------------------------------------
TypeOK ==
  /\ spc \in {"hash", "open", "metadata", "read", "drain", "drainLast", "eof",
              "abort", "flush", "close", "gone"}
  /\ source \in Sources /\ sum \in Sources \cup {<<>>} /\ sent \in Nat
  /\ {ctxDone, sessDone, eofSent, closedS, closedR, eofSeen} \subseteq BOOLEAN
  /\ start \in {"signaling", "waiting", "returned", "failed"}
  /\ chan \in {"connecting", "open", "closing", "down", "lost", "dead"}
  /\ rpc \in {"off", "reading", "ended"}
  /\ decoder \in {"none", "open", "closed"}
  /\ wpc \in {"off", "waiting", "looked", "gone"}
  /\ rmain \in {"init", "waiting", "returned", "gaveUp"}

Honest == INSTANCE TransferCore
            WITH Readers <- {Primary}, Verifiers <- {Verifier},
                 Chunks <- FileChunks, Metas <- FileMetas, ExactlyOnce <- TRUE,
                 result <- IF result \in {"protocolError", "badEOF", "abort",
                                          "closedEarly"}
                           THEN "client" ELSE result

(* The whole transfer drives transferCore only in ways its theorems cover: the
   sender never sends a byte of the file twice, and every step is a step of the
   core or leaves it alone. *)
ImplementsCore == Honest!Spec

(* What the receiver reports as a success is what the sender hashed, all of it,
   even if the input file was changed while it was being sent. *)
SuccessIsFaithful ==
  Core!done /\ result = "nil" =>
    /\ Core!Intact
    /\ meta.size = Len(sum)
    /\ \A o \in 0 .. Len(sum) - 1 : contents[o] = sum[o + 1]

(* No transfer fails without a cause, and the error names the right one: the
   receiver never blames the protocol, a mismatch means the input changed, and
   a channel closed early means the sender gave up, the link failed, or the
   close overtook the EOF still in the reader's hand. *)
FailureHasCause ==
  LET because(set) == causes \cap set # {}
      gaveUp == {"read", "lost", "flushTimeout", "signaling"}
  IN Core!done /\ result # "nil" =>
       /\ result \notin {"badEOF", "metadata", "excess", "client",
                         "dataBeforeMetadata", "verifyBeforeMetadata"}
       /\ result \in {"integrity", "outOfBounds"} => because({"changed"})
       /\ result = "timeout" => because({"changed", "starved"})
       /\ result = "abort" => because({"read", "lost"})
       /\ result \in {"closedEarly", "protocolError"}
            => because(gaveUp \cup {"raced"})

(* Nobody hangs: once the user has pasted the answer, or once it proves
   unusable, the sender's Start returns, also when the link fails; the
   receiver's returns unless it does. *)
BothReturn ==
  /\ start # "signaling" ~> start \in {"returned", "failed"}
  /\ <>(rmain \in {"returned", "gaveUp"} \/ "lost" \in causes)

(* "TransferComplete emits a one-line confirmation that the transfer finished
   successfully" (internal/output/output.go:50): cmd/send.go prints it whenever
   Start returns nil, so Start should return nil only after the EOF was sent. *)
ConfirmationIsTrue == start = "returned" => eofSent
=============================================================================
