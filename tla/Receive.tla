------------------------------ MODULE Receive ------------------------------
(* The receiving half facing any peer that speaks the frame format: whatever
   order of frames arrives on the primary or the control channel and on the data
   channels, what singleHandler, multiRouter and peerFrameHandler do with them
   (pkg/transfer/receiver), how their OnFrames loops end, and how that reaches
   waitDone.  SinglePC and MultiPC compose the same code with gfile's own sender;
   here frames come duplicated, early, late, cut short or of the wrong kind, as
   another version or implementation of PROTOCOL.md may send them.

   Frames are bytes and are read by Wire.  transferCore appears by its gate
   (doneOnce), its counter and what it promises of the file.  x_Flaw is x with
   one plausible mistake; no action uses it. *)
EXTENDS Wire

CONSTANTS
  Labels,       \* of the first channel: "primary", "control"
  Ids,          \* peer ids
  Messages,     \* what the peer may send on the first channel
  DataMessages, \* and on a data channel
  MaxBytes,     \* bound on bytesWritten
  Calls,        \* what a gfile encodes, as the handler call it stands for
  Buffers       \* what earlier frames may have left in the encoder's array

ASSUME ReceiveAssumption ==
  /\ Labels \subseteq {"primary", "control"} /\ Ids \subseteq Byte
  /\ Messages \subseteq Bytes /\ DataMessages \subseteq Bytes /\ MaxBytes \in Nat

ASSUME CallsAssumption == (\A c \in Calls : IsCall(c)) /\ Buffers \subseteq Bytes

VARIABLES
  label,        \* of the channel that opened first
  loop,         \* its OnFrames loop: reading, ended
  closed,       \* Channel.closed of that channel
  watch,        \* watchClose: waiting, failing, gone
  main,         \* Start: waiting, returned
  meta,         \* transferCore.meta, or NoMeta
  endSeen,      \* eofSeen or completeSeen
  bytesWritten,
  verifiers,    \* verifyAndClose goroutines that wait
  gate,         \* doneOnce: free, its body (verify, fail), over
  cleaned,      \* the body has run cleanup
  outcome, file,\* FileTransfer's variables
  decoder,      \* singleHandler.decoder: nil, zstd, closed
  entry,        \* r.peers: none, reserved, published
  neg,          \* negotiateReceivePeer: off, creating, accepting, ended
  dloop, dwatch,\* a data channel's OnFrames loop and close watcher
  dclosed,      \* its Channel.closed
  dec,          \* receivePeer.decoder: nil, zstd, read without r.mu
  holds,        \* DATA read but not ingested, with the decoder onPeerData saw
  negotiations, \* history: negotiators started for an id
  early,        \* history: ids whose channel opened before METADATA
  refused,      \* history: the first channel's loop ended in an error before
                \* the end frame
  raw           \* history: DATA of a zstd transfer was written undecoded

first == <<label, loop, closed, watch>>
core == <<meta, bytesWritten, gate, cleaned, outcome, file>>
peers == <<entry, neg, dloop, dwatch, dclosed, dec, holds, negotiations, early, raw>>
vars == <<first, main, core, endSeen, verifiers, decoder, peers, refused>>

File == INSTANCE FileTransfer

NoMeta == [version |-> 0]
Idle == [call |-> "none"]
CodecNone == 0
CodecZstd == 1
ProtocolVersion == 1

alive == main = "waiting"
done == gate = "over"

Init ==
  /\ label \in Labels /\ loop = "reading" /\ closed = FALSE /\ watch = "waiting"
  /\ main = "waiting" /\ meta = NoMeta /\ endSeen = FALSE
  /\ bytesWritten = 0 /\ verifiers = 0 /\ gate = "free" /\ cleaned = FALSE
  /\ File!Init /\ decoder = "nil"
  /\ entry = [p \in Ids |-> "none"] /\ neg = [p \in Ids |-> "off"]
  /\ dloop = [p \in Ids |-> "off"] /\ dwatch = [p \in Ids |-> "off"]
  /\ dclosed = [p \in Ids |-> FALSE] /\ dec = [p \in Ids |-> "nil"]
  /\ holds = [p \in Ids |-> Idle]
  /\ negotiations = [p \in Ids |-> 0] /\ early = {}
  /\ refused = FALSE /\ raw = FALSE
-----------------------------------------------------------------------------
(* transferCore. *)
failed == IF gate = "free" THEN "fail" ELSE gate
fail == gate' = failed

accepts(m) ==
  m.version = ProtocolVersion /\ m.codec \in {CodecNone, CodecZstd} /\ meta = NoMeta

\* ingestData with decoder x: a payload that is decoded, in bounds and written
\* is counted; DecodeData and WriteAt may fail on anything.
ingested(d, x) ==
  /\ x # "closed" /\ meta # NoMeta /\ file = "partial"
  /\ d.offset + Len(d.payload) <= meta.size
  /\ bytesWritten' = bytesWritten + Len(d.payload)
  /\ UNCHANGED gate

allBytes == meta # NoMeta /\ bytesWritten >= meta.size
-----------------------------------------------------------------------------
(* singleHandler and multiRouter: Dispatch's call c, and whether the handler
   returns nil. *)
goesOn == UNCHANGED <<loop, refused>>

\* The loop ends with the error.  On the primary channel it fails the transfer
\* unless EOF was seen; on the control channel it is only logged.
endsWith_Logged(own) ==
  /\ loop' = "reading"
  /\ refused' = (refused \/ ~endSeen)
  /\ gate' = IF own \/ (label = "primary" /\ ~endSeen) THEN failed ELSE gate

endsWith(own) ==
  /\ loop' = "ended"
  /\ refused' = (refused \/ ~endSeen)
  /\ gate' = IF own \/ (label = "primary" /\ ~endSeen) THEN failed ELSE gate

quiet == UNCHANGED <<entry, neg, negotiations>>

handleMetadata(c) ==
  /\ c.call = "OnMetadata"
  /\ \/ /\ accepts(c.meta) /\ meta' = c.meta /\ goesOn /\ UNCHANGED gate
        /\ decoder' = IF label = "primary" /\ c.meta.codec = CodecZstd
                      THEN "zstd" ELSE decoder
     \/ /\ endsWith(TRUE) /\ UNCHANGED decoder
        /\ meta' = IF accepts(c.meta) THEN c.meta ELSE meta   \* Truncate failed
  /\ quiet /\ UNCHANGED <<endSeen, verifiers, bytesWritten>>

handleData(c) ==
  /\ c.call = "OnData" /\ label = "primary"
  /\ \/ ingested(c, decoder) /\ goesOn
     \/ endsWith(TRUE) /\ UNCHANGED bytesWritten
  /\ quiet /\ UNCHANGED <<meta, decoder, endSeen, verifiers>>

\* OnEOF refuses a second one, OnTransferComplete does not.
handleEnd(c) ==
  /\ <<label, c.call>> \in {<<"primary", "OnEOF">>, <<"control", "OnTransferComplete">>}
  /\ IF meta = NoMeta \/ (label = "primary" /\ endSeen)
     THEN endsWith(TRUE) /\ UNCHANGED <<endSeen, verifiers>>
     ELSE /\ endSeen' = TRUE /\ verifiers' = verifiers + 1
          /\ goesOn /\ UNCHANGED gate
  /\ quiet /\ UNCHANGED <<meta, decoder, bytesWritten>>

handleAbort(c) ==
  /\ c.call = "OnAbort" /\ endsWith(TRUE)
  /\ quiet /\ UNCHANGED <<meta, decoder, endSeen, verifiers, bytesWritten>>

negotiates(p) ==
  /\ neg' = [neg EXCEPT ![p] = "creating"]
  /\ negotiations' = [negotiations EXCEPT ![p] = @ + 1]

\* The id is reserved under r.mu before the negotiator starts.
handleOffer_Unreserved(c) ==
  /\ c.call = "OnAddPeerOffer" /\ label = "control"
  /\ IF entry[c.id] # "none"
     THEN endsWith(FALSE) /\ quiet
     ELSE negotiates(c.id) /\ goesOn /\ UNCHANGED <<gate, entry>>
  /\ UNCHANGED <<meta, decoder, endSeen, verifiers, bytesWritten>>

handleOffer(c) ==
  /\ c.call = "OnAddPeerOffer" /\ label = "control"
  /\ IF entry[c.id] # "none"
     THEN endsWith(FALSE) /\ quiet
     ELSE /\ entry' = [entry EXCEPT ![c.id] = "reserved"]
          /\ negotiates(c.id) /\ goesOn /\ UNCHANGED gate
  /\ UNCHANGED <<meta, decoder, endSeen, verifiers, bytesWritten>>

expected ==
  {"OnMetadata", "OnAbort"} \cup
    (IF label = "primary" THEN {"OnData", "OnEOF"}
     ELSE {"OnAddPeerOffer", "OnTransferComplete"})

\* An error of Dispatch, or UnexpectedFrameHandler's.
handleUnexpected(c) ==
  /\ c.call \notin expected /\ endsWith(FALSE)
  /\ quiet /\ UNCHANGED <<meta, decoder, endSeen, verifiers, bytesWritten>>

handle(c) ==
  \/ handleMetadata(c) \/ handleData(c) \/ handleEnd(c) \/ handleAbort(c)
  \/ handleOffer(c) \/ handleUnexpected(c)

Arrivals == {Dispatch(msg) : msg \in Messages}
DataArrivals == {Dispatch(msg) : msg \in DataMessages}

OnFrames ==
  /\ alive /\ loop = "reading" /\ bytesWritten < MaxBytes /\ verifiers < 2
  /\ \E c \in Arrivals : handle(c)
  /\ UNCHANGED <<label, closed, watch, main, cleaned, outcome, file, dloop, dwatch,
                 dclosed, dec, holds, early, raw>>

\* The stream ends, or a read fails.
readEnds ==
  /\ alive /\ loop = "reading"
  /\ endsWith(FALSE) \/ (closed /\ loop' = "ended" /\ UNCHANGED <<refused, gate>>)
  /\ UNCHANGED <<label, closed, watch, main, meta, bytesWritten, cleaned, outcome,
                 file, endSeen, verifiers, decoder, peers>>
-----------------------------------------------------------------------------
(* failOnEarlyClose, verifyAndClose, doneOnce and waitDone. *)
closes ==
  /\ alive /\ ~closed /\ closed' = TRUE
  /\ UNCHANGED <<label, loop, watch, main, core, endSeen, verifiers, decoder,
                 peers, refused>>

watchStep ==
  /\ alive
  /\ \/ /\ watch = "waiting" /\ closed /\ UNCHANGED gate
        /\ watch' = IF done \/ (label = "primary" /\ endSeen) THEN "gone" ELSE "failing"
     \/ watch = "failing" /\ watch' = "gone" /\ fail
  /\ UNCHANGED <<label, loop, closed, main, meta, bytesWritten, cleaned, outcome,
                 file, endSeen, verifiers, decoder, peers, refused>>

\* The close of a control channel is only logged.
watchClose_Logged == watchStep /\ (label = "control" => watch # "failing")

watchClose == watchStep

\* More bytes than announced, and 30 s without all of them, are failures.
verifyAndClose ==
  /\ alive /\ verifiers > 0 /\ verifiers' = verifiers - 1
  /\ \/ done /\ UNCHANGED gate
     \/ /\ allBytes /\ bytesWritten <= meta.size
        /\ gate' = IF gate = "free" THEN "verify" ELSE gate
     \/ bytesWritten > meta.size /\ fail
     \/ ~allBytes /\ fail
  /\ UNCHANGED <<first, main, meta, bytesWritten, cleaned, outcome, file, endSeen,
                 decoder, peers, refused>>

\* closeDecoder, or the router's cleanup of every published peer.
cleanup ==
  /\ alive /\ gate \in {"verify", "fail"} /\ ~cleaned /\ cleaned' = TRUE
  /\ decoder' = IF decoder = "zstd" THEN "closed" ELSE decoder
  /\ dec' = [p \in Ids |-> IF entry[p] = "published" THEN "nil" ELSE dec[p]]
  /\ UNCHANGED <<first, main, meta, bytesWritten, gate, outcome, file, endSeen,
                 verifiers, entry, neg, dloop, dwatch, dclosed, holds,
                 negotiations, early, refused, raw>>

settle ==
  /\ alive /\ gate \in {"verify", "fail"} /\ cleaned /\ gate' = "over"
  /\ (gate = "verify" /\ File!Complete) \/ File!Discard
  /\ UNCHANGED <<first, main, meta, bytesWritten, cleaned, endSeen, verifiers,
                 decoder, peers, refused>>

waitDone ==
  /\ alive /\ done /\ File!Report /\ main' = "returned"
  /\ UNCHANGED <<first, meta, bytesWritten, gate, cleaned, endSeen, verifiers,
                 decoder, peers, refused>>
-----------------------------------------------------------------------------
(* The data peers. *)
peerStep ==
  alive /\ UNCHANGED <<first, main, meta, cleaned, outcome, file, endSeen,
                       verifiers, decoder, negotiations, refused>>

\* CreateConnection and publication; then AcceptOffer and the answer.
negotiateReceivePeer(p) ==
  /\ \/ /\ neg[p] = "creating"
        /\ \/ /\ neg' = [neg EXCEPT ![p] = "accepting"]
              /\ entry' = [entry EXCEPT ![p] = "published"] /\ UNCHANGED gate
           \/ neg' = [neg EXCEPT ![p] = "ended"] /\ fail /\ UNCHANGED entry
     \/ /\ neg[p] = "accepting" /\ neg' = [neg EXCEPT ![p] = "ended"]
        /\ UNCHANGED entry
        /\ UNCHANGED gate \/ fail
  /\ peerStep /\ UNCHANGED <<bytesWritten, dloop, dwatch, dclosed, dec, holds, early, raw>>

\* The codec is looked up when the data channel opens.
decoderFor_Inverted == IF meta # NoMeta /\ meta.codec = CodecNone THEN "zstd" ELSE "nil"
decoderFor == IF meta # NoMeta /\ meta.codec = CodecZstd THEN "zstd" ELSE "nil"

installDataPeer(p) ==
  /\ entry[p] = "published" /\ dwatch[p] = "off"
  /\ dec' = [dec EXCEPT ![p] = decoderFor]
  /\ early' = IF meta = NoMeta THEN early \cup {p} ELSE early
  /\ dloop' = [dloop EXCEPT ![p] = "reading"]
  /\ dwatch' = [dwatch EXCEPT ![p] = "waiting"]
  /\ peerStep /\ UNCHANGED <<gate, bytesWritten, entry, neg, dclosed, holds, raw>>

peerEndsWith(p) == dloop' = [dloop EXCEPT ![p] = "ended"] /\ fail

\* peerFrameHandler: DATA is taken up with the decoder read here, anything else
\* ends the loop and fails the transfer, as a failing read does.
peerOnFrames(p) ==
  /\ dloop[p] = "reading" /\ holds[p] = Idle /\ bytesWritten < MaxBytes
  /\ \E c \in DataArrivals :
       IF c.call = "OnData"
       THEN /\ holds' = [holds EXCEPT ![p] = [call |-> c.call, offset |-> c.offset,
                             payload |-> c.payload, decoder |-> dec[p]]]
            /\ UNCHANGED <<dloop, gate>>
       ELSE peerEndsWith(p) /\ UNCHANGED holds
  /\ peerStep /\ UNCHANGED <<bytesWritten, entry, neg, dwatch, dclosed, dec, early, raw>>

onPeerData(p) ==
  /\ holds[p] # Idle /\ holds' = [holds EXCEPT ![p] = Idle]
  /\ \/ /\ ingested(holds[p], holds[p].decoder)
        /\ raw' = (raw \/ /\ holds[p].decoder = "nil" /\ meta.codec = CodecZstd
                          /\ gate = "free" /\ p \notin early)
        /\ UNCHANGED dloop
     \/ peerEndsWith(p) /\ UNCHANGED <<bytesWritten, raw>>
  /\ peerStep /\ UNCHANGED <<entry, neg, dwatch, dclosed, dec, early>>

peerReadEnds(p) ==
  /\ dloop[p] = "reading" /\ holds[p] = Idle
  /\ peerEndsWith(p) \/ (dclosed[p] /\ dloop' = [dloop EXCEPT ![p] = "ended"]
                                    /\ UNCHANGED gate)
  /\ peerStep /\ UNCHANGED <<bytesWritten, entry, neg, dwatch, dclosed, dec, holds,
                             early, raw>>

peerCloses(p) ==
  /\ dwatch[p] # "off" /\ ~dclosed[p] /\ dclosed' = [dclosed EXCEPT ![p] = TRUE]
  /\ peerStep /\ UNCHANGED <<gate, bytesWritten, entry, neg, dloop, dwatch, dec, holds,
                             early, raw>>

peerWatchClose(p) ==
  /\ \/ /\ dwatch[p] = "waiting" /\ dclosed[p] /\ UNCHANGED gate
        /\ dwatch' = [dwatch EXCEPT ![p] = IF done \/ allBytes THEN "gone" ELSE "failing"]
     \/ dwatch[p] = "failing" /\ dwatch' = [dwatch EXCEPT ![p] = "gone"] /\ fail
  /\ peerStep /\ UNCHANGED <<bytesWritten, entry, neg, dloop, dclosed, dec, holds,
                             early, raw>>

\* Start has returned and the process exits.
Returned == ~alive /\ UNCHANGED vars

Next ==
  \/ OnFrames \/ readEnds \/ closes \/ watchClose
  \/ verifyAndClose \/ cleanup \/ settle \/ waitDone
  \/ \E p \in Ids :
       \/ negotiateReceivePeer(p) \/ installDataPeer(p) \/ peerOnFrames(p)
       \/ onPeerData(p) \/ peerReadEnds(p) \/ peerCloses(p) \/ peerWatchClose(p)
  \/ Returned

Spec == Init /\ [][Next]_vars

(* The goroutines that can run do and the 30 s timer fires; nothing is assumed of
   the peer, the network or the data peers. *)
Fairness ==
  WF_vars(watchClose) /\ WF_vars(verifyAndClose) /\ WF_vars(cleanup \/ settle \/ waitDone)

FairSpec == Spec /\ Fairness
-----------------------------------------------------------------------------
FirstOK ==
  /\ label \in Labels /\ loop \in {"reading", "ended"} /\ closed \in BOOLEAN
  /\ watch \in {"waiting", "failing", "gone"} /\ main \in {"waiting", "returned"}
  /\ endSeen \in BOOLEAN /\ verifiers \in Nat /\ refused \in BOOLEAN

CoreOK ==
  /\ meta = NoMeta \/ meta.codec \in {CodecNone, CodecZstd}
  /\ bytesWritten \in Nat /\ gate \in {"free", "verify", "fail", "over"}
  /\ cleaned \in BOOLEAN /\ outcome \in {"pending", "ok", "failed"}
  /\ file \in {"partial", "complete", "discarded"}
  /\ decoder \in {"nil", "zstd", "closed"}

PeersOK ==
  /\ entry \in [Ids -> {"none", "reserved", "published"}]
  /\ neg \in [Ids -> {"off", "creating", "accepting", "ended"}]
  /\ dloop \in [Ids -> {"off", "reading", "ended"}]
  /\ dwatch \in [Ids -> {"off", "waiting", "failing", "gone"}]
  /\ dclosed \in [Ids -> BOOLEAN] /\ dec \in [Ids -> {"nil", "zstd"}]
  /\ DOMAIN holds = Ids
  /\ \A p \in Ids : holds[p] # Idle => Len(holds[p].payload) \in Nat
  /\ negotiations \in [Ids -> Nat] /\ early \subseteq Ids /\ raw \in BOOLEAN

TypeOK == FirstOK /\ CoreOK /\ PeersOK

\* receiver/init.go:85,102: a transfer whose primary or control loop ended in an
\* error before the end frame is never reported as a success, though on the
\* control channel nobody is told of the error.
RefusedNeverSucceeds == refused => outcome # "ok" /\ file # "complete"

\* receiver/multi.go:89-96: whatever offers arrive, an id is negotiated once, and
\* only for an id in r.peers; its PeerConnection is never replaced by another.
OneNegotiator ==
  \A p \in Ids :
    /\ negotiations[p] <= 1
    /\ neg[p] # "off" => entry[p] # "none"

\* receiver/multi.go:196,219: bytes of a zstd transfer reach the file undecoded
\* only once doneOnce is taken, or on a channel that opened before METADATA.
DecodedUnlessOver == ~raw

\* internal/protocol: the handler is called with what the peer encoded, whatever
\* the buffer the peer encoded it into held before, and a METADATA or ADD_PEER
\* frame cut short anywhere is refused.
\* (A formula of constants: the initial states are enough to evaluate it.)
RoundTrips(c) ==
  /\ \A buf \in Buffers : Dispatch(Encoded(c, buf)) = c
  /\ c.call \in {"OnMetadata", "OnAddPeerOffer", "OnAddPeerAnswer"} =>
       \A n \in 0 .. Len(Encoded(c, <<>>)) - 1 :
         Dispatch(SubSeq(Encoded(c, <<>>), 1, n)) \in Refused

HandlerGetsWhatWasSent == Init => \A c \in Calls : RoundTrips(c)

\* A peer that closes the first channel, at whatever point and after whatever
\* frames, lets the receiver's Start return.
ClosedSettles == closed ~> main = "returned"
=============================================================================
