---------------------------- MODULE TransferCore ----------------------------
(* transferCore (pkg/transfer/receiver/core.go): the receive-side state machine
   that the single-PC handler and the multi-PC router share, with every client
   they can be to it at once.  Reader goroutines hand over decompressed chunks
   (ingestData), goroutines started on EOF or TRANSFER_COMPLETE verify
   (verifyAndClose), and anybody may fail the transfer (fail).

   `gate` is doneOnce: "free" until somebody enters doneOnce.Do, then the steps
   of the one body that runs, ending with close(done) ("over").  A later caller
   of Do blocks until the body ends and then does nothing; the model lets it go
   at once, for it changes no state of the core either way.

   A file is a function from offsets to bytes.  The SHA-256 in METADATA stands
   for the contents the sender hashed (no collisions).

   An operator x_Flaw is x with one plausible mistake in it.  No action uses it;
   a property worth its name fails when x becomes x_Flaw. *)
EXTENDS Integers, Sequences, FiniteSets

CONSTANTS
  Readers,      \* goroutines that deliver DATA frames
  Verifiers,    \* goroutines that may run verifyAndClose
  Byte,         \* byte values; Zero fills the holes Truncate makes
  Zero,
  Wrap,         \* 2^64: offsets and lengths are uint64
  Chunks,       \* decompressed DATA frames [at, data] a reader may be handed
  Metas,        \* METADATA frames [known, size, sha] that may be received
  NoMeta,
  NoChunk,
  HasPath,      \* path # "": a failed transfer removes the output
  ExactlyOnce,  \* the sender sends no byte of the file twice
  MaxBytes      \* bound on bytesWritten when it may send bytes twice

Offsets == 0 .. Wrap - 1
Cells(c) == c.at .. c.at + Len(c.data) - 1

ASSUME WrapAssumption == Wrap \in Nat \ {0}
ASSUME ByteAssumption == Zero \in Byte
ASSUME FlagAssumption == HasPath \in BOOLEAN /\ ExactlyOnce \in BOOLEAN
ASSUME ChunkAssumption ==
  /\ \A c \in Chunks : /\ c.at \in Offsets
                       /\ c.data \in Seq(Byte)
                       /\ Len(c.data) < Wrap
  /\ NoChunk \notin Chunks
ASSUME MetaAssumption ==
  /\ \A m \in Metas : /\ m.known \in BOOLEAN
                      /\ m.size \in Offsets
                      /\ m.sha \in [0 .. m.size - 1 -> Byte]
  /\ NoMeta \notin Metas

VARIABLES
  meta,          \* atomic.Pointer: NoMeta or the METADATA that won the CAS
  contents,      \* bytes of the sink
  sinkOpen,      \* sink not closed
  onDisk,        \* the output file not removed
  bytesWritten,  \* atomic counter
  allBytes,      \* allBytesCh is closed
  gate,          \* doneOnce and the body it runs
  result,        \* "nil" or why the transfer failed
  rd,            \* each reader: idle, about to write, about to count, stopped
  chunk,         \* the chunk it holds
  vf,            \* each verifyAndClose: off, waiting, claiming, stopped
  arrived,       \* history: cells handed to readers so far
  counted        \* history: cells whose length bytesWritten includes

fileState == <<contents, sinkOpen, onDisk>>
gateState == <<gate, result>>
history == <<arrived, counted>>
data == <<meta, fileState, bytesWritten, allBytes>>
vars == <<data, gateState, rd, chunk, vf, history>>

done == gate = "over"

Init ==
  /\ meta = NoMeta
  /\ contents = [o \in Offsets |-> Zero]
  /\ sinkOpen = TRUE
  /\ onDisk = TRUE
  /\ bytesWritten = 0
  /\ allBytes = FALSE
  /\ gate = "free"
  /\ result = "nil"
  /\ rd = [r \in Readers |-> "idle"]
  /\ chunk = [r \in Readers |-> NoChunk]
  /\ vf = [v \in Verifiers |-> "off"]
  /\ arrived = {}
  /\ counted = {}
-----------------------------------------------------------------------------
(* fail: the first caller claims doneOnce and records its error. *)
fail_Again(why) == gate' = "failing" /\ result' = why

fail(why) ==
  IF gate = "free" THEN gate' = "failing" /\ result' = why
                   ELSE UNCHANGED gateState

clientFails(why) ==
  /\ gate = "free"
  /\ fail(why)
  /\ UNCHANGED <<data, rd, chunk, vf, history>>
-----------------------------------------------------------------------------
(* handleMetadata: validation, CompareAndSwap, Truncate, and the empty file;
   both handlers fail the transfer with the error it returns. *)
metadataRejected(m) ==
  /\ ~m.known \/ meta # NoMeta
  /\ fail("metadata")
  /\ UNCHANGED <<data, rd, chunk, vf, history>>

metadataAccepted(m) ==
  /\ m.known /\ meta = NoMeta
  /\ sinkOpen
  /\ meta' = m
  /\ IF m.size = 0 THEN allBytes' = TRUE ELSE UNCHANGED allBytes
  /\ UNCHANGED <<fileState, bytesWritten, gateState, rd, chunk, vf, history>>

truncateFails(m) ==
  /\ m.known /\ meta = NoMeta
  /\ meta' = m
  /\ fail("truncate")
  /\ UNCHANGED <<fileState, bytesWritten, allBytes, rd, chunk, vf, history>>

handleMetadata(m) ==
  metadataRejected(m) \/ metadataAccepted(m) \/ truncateFails(m)
-----------------------------------------------------------------------------
(* ingestData and writeChunk.  WriteAt and the Add that counts what it wrote
   are two steps: other readers and the verifier run in between. *)
deliver(r, c) ==
  /\ rd[r] = "idle"
  /\ IF ExactlyOnce THEN Cells(c) \cap arrived = {}
                    ELSE bytesWritten < MaxBytes
  /\ rd' = [rd EXCEPT ![r] = "ingest"]
  /\ chunk' = [chunk EXCEPT ![r] = c]
  /\ arrived' = arrived \cup Cells(c)
  /\ UNCHANGED <<data, gateState, vf, counted>>

\* A reader whose ingestData returned an error never reads another frame.
readerFails(r, why) ==
  /\ fail(why)
  /\ rd' = [rd EXCEPT ![r] = "stopped"]
  /\ chunk' = [chunk EXCEPT ![r] = NoChunk]
  /\ UNCHANGED <<data, vf, history>>

decodeFails(r) == rd[r] = "ingest" /\ readerFails(r, "decode")

dataBeforeMetadata(r) ==
  rd[r] = "ingest" /\ meta = NoMeta /\ readerFails(r, "dataBeforeMetadata")

\* uint64 addition of two uint64s wraps at most once.
plus64(a, b) == IF a + b < Wrap THEN a + b ELSE a + b - Wrap

inBounds_Unchecked(c) == TRUE

inBounds(c) ==
  LET end == plus64(c.at, Len(c.data))
  IN end >= c.at /\ end <= meta.size

dataOutOfBounds(r) ==
  /\ rd[r] = "ingest" /\ meta # NoMeta
  /\ ~inBounds(chunk[r])
  /\ readerFails(r, "outOfBounds")

writeFails(r) ==
  /\ rd[r] = "ingest" /\ meta # NoMeta
  /\ inBounds(chunk[r])
  /\ readerFails(r, "write")

writeAt(c) ==
  contents' = [o \in Offsets |->
                 IF o \in Cells(c) THEN c.data[o - c.at + 1] ELSE contents[o]]

writeChunk(r) ==
  /\ rd[r] = "ingest" /\ meta # NoMeta
  /\ inBounds(chunk[r])
  /\ sinkOpen
  /\ writeAt(chunk[r])
  /\ rd' = [rd EXCEPT ![r] = "count"]
  /\ UNCHANGED <<meta, sinkOpen, onDisk, bytesWritten, allBytes, gateState,
                 chunk, vf, history>>

countBytes(r) ==
  LET newBytes == bytesWritten + Len(chunk[r].data)
  IN /\ rd[r] = "count"
     /\ bytesWritten' = newBytes
     /\ IF newBytes >= meta.size THEN allBytes' = TRUE
                                 ELSE UNCHANGED allBytes
     /\ counted' = counted \cup Cells(chunk[r])
     /\ rd' = [rd EXCEPT ![r] = "idle"]
     /\ chunk' = [chunk EXCEPT ![r] = NoChunk]
     /\ UNCHANGED <<meta, fileState, gateState, vf, arrived>>

readerStep(r) ==
  \/ decodeFails(r) \/ dataBeforeMetadata(r) \/ dataOutOfBounds(r)
  \/ writeFails(r) \/ writeChunk(r) \/ countBytes(r)
-----------------------------------------------------------------------------
(* verifyAndClose: wait for all bytes, for done, or for 30 s; refuse an excess
   of bytes; then enter doneOnce. *)
verifierFails(v, why) ==
  /\ fail(why)
  /\ vf' = [vf EXCEPT ![v] = "stopped"]
  /\ UNCHANGED <<data, rd, chunk, history>>

verifierMoves(v, to) ==
  /\ vf' = [vf EXCEPT ![v] = to]
  /\ UNCHANGED <<data, gateState, rd, chunk, history>>

verifyBeforeMetadata(v) ==
  vf[v] = "off" /\ meta = NoMeta /\ verifierFails(v, "verifyBeforeMetadata")

verifyStarts(v) ==
  vf[v] = "off" /\ meta # NoMeta /\ verifierMoves(v, "waiting")

startVerify(v) == verifyBeforeMetadata(v) \/ verifyStarts(v)

seeAllBytes_Unawaited(v) == vf[v] = "waiting" /\ verifierMoves(v, "claiming")

seeAllBytes(v) ==
  /\ vf[v] = "waiting" /\ allBytes
  /\ IF bytesWritten > meta.size THEN verifierFails(v, "excess")
                                 ELSE verifierMoves(v, "claiming")

seeDone(v) == vf[v] = "waiting" /\ done /\ verifierMoves(v, "stopped")

verifyTimeout_Never(v) == FALSE /\ verifierFails(v, "timeout")

verifyTimeout(v) == vf[v] = "waiting" /\ verifierFails(v, "timeout")

claimVerify(v) ==
  /\ vf[v] = "claiming"
  /\ gate' = IF gate = "free" THEN "verifying" ELSE gate
  /\ vf' = [vf EXCEPT ![v] = "stopped"]
  /\ UNCHANGED <<data, result, rd, chunk, history>>

verifierStep(v) ==
  \/ seeAllBytes(v) \/ seeDone(v)
  \/ verifyTimeout(v) \/ claimVerify(v)
-----------------------------------------------------------------------------
(* The body doneOnce runs.  fail: cleanup, abortFile (Close, Remove).
   verifyAndClose: cleanup, Sync, verifyIntegrity, Close, or abortFile after an
   error.  Both end with close(done). *)
rest == <<meta, contents, bytesWritten, allBytes, rd, chunk, vf, history>>

cleanup ==
  /\ gate \in {"failing", "verifying"}
  /\ gate' = IF gate = "failing" THEN "aborting" ELSE "syncing"
  /\ UNCHANGED <<rest, sinkOpen, onDisk, result>>

bodyMoves(from, to) ==
  gate = from /\ gate' = to /\ UNCHANGED <<rest, sinkOpen, onDisk, result>>

sync == bodyMoves("syncing", "hashing")

abortWith(why) ==
  /\ gate' = "aborting" /\ result' = why
  /\ UNCHANGED <<rest, sinkOpen, onDisk>>

syncFails == gate = "syncing" /\ abortWith("sync")

matches(m) == \A o \in 0 .. m.size - 1 : contents[o] = m.sha[o]

verifyIntegrity_Unhashed == bodyMoves("hashing", "sealing")

verifyIntegrity == bodyMoves("hashing", "sealing") /\ matches(meta)

integrityFails == gate = "hashing" /\ ~matches(meta) /\ abortWith("integrity")

hashFails == gate = "hashing" /\ abortWith("hash")

sinkClose ==
  /\ gate = "sealing"
  /\ sinkOpen' = FALSE
  /\ gate' = "closing"
  /\ UNCHANGED <<rest, onDisk, result>>

abortClose ==
  /\ gate = "aborting"
  /\ sinkOpen' = FALSE
  /\ gate' = "removing"
  /\ UNCHANGED <<rest, onDisk, result>>

abortRemove ==
  /\ gate = "removing"
  /\ IF HasPath THEN onDisk' = FALSE ELSE UNCHANGED onDisk
  /\ gate' = "closing"
  /\ UNCHANGED <<rest, sinkOpen, result>>

closeDone == bodyMoves("closing", "over")

doneBody ==
  \/ cleanup \/ sync \/ syncFails
  \/ verifyIntegrity \/ integrityFails \/ hashFails \/ sinkClose
  \/ abortClose \/ abortRemove \/ closeDone
-----------------------------------------------------------------------------
Next ==
  \/ clientFails("client")
  \/ \E m \in Metas : handleMetadata(m)
  \/ \E r \in Readers, c \in Chunks : deliver(r, c)
  \/ \E r \in Readers : readerStep(r)
  \/ \E v \in Verifiers : startVerify(v) \/ verifierStep(v)
  \/ doneBody

Spec == Init /\ [][Next]_vars

(* The Go scheduler runs every goroutine that can run, and a select whose timer
   has fired returns.  Nothing obliges a client to deliver, verify or fail. *)
Fairness ==
  /\ \A r \in Readers : WF_vars(readerStep(r))
  /\ \A v \in Verifiers : WF_vars(verifierStep(v))
  /\ WF_vars(doneBody)

FairSpec == Spec /\ Fairness
-----------------------------------------------------------------------------
Reasons == {"client", "metadata", "truncate", "decode", "dataBeforeMetadata",
            "outOfBounds", "write", "verifyBeforeMetadata", "excess",
            "timeout", "sync", "integrity", "hash"}

Gates == {"free", "failing", "verifying", "syncing", "hashing", "sealing",
          "aborting", "removing", "closing", "over"}

TypeOK ==
  /\ meta \in Metas \cup {NoMeta}
  /\ contents \in [Offsets -> Byte]
  /\ sinkOpen \in BOOLEAN
  /\ onDisk \in BOOLEAN
  /\ bytesWritten \in Nat
  /\ allBytes \in BOOLEAN
  /\ gate \in Gates
  /\ result \in Reasons \cup {"nil"}
  /\ rd \in [Readers -> {"idle", "ingest", "count", "stopped"}]
  /\ chunk \in [Readers -> Chunks \cup {NoChunk}]
  /\ vf \in [Verifiers -> {"off", "waiting", "claiming", "stopped"}]
  /\ arrived \in SUBSET Nat
  /\ counted \in SUBSET Nat

(* A nil result means the output is complete: every byte METADATA announced was
   written and counted, the bytes on disk are the ones the sender hashed, and
   the file is closed and still there. *)
Intact ==
  /\ meta # NoMeta
  /\ matches(meta)
  /\ counted = 0 .. meta.size - 1
  /\ ~sinkOpen /\ onDisk

OkMeansIntact == done /\ result = "nil" => Intact

(* allBytesCh closes only when the whole file was counted, so the counter, which
   adds up lengths and not coverage, never runs ahead of the file. *)
AllBytesMeansCovered ==
  allBytes => meta # NoMeta /\ counted = 0 .. meta.size - 1

(* From the moment allBytesCh closes no write changes the file: what Sync and
   verifyIntegrity see is what the user keeps. *)
HashedIsFinal == [][allBytes => UNCHANGED contents]_vars

(* Why these hold: an inductive invariant, for a sender that sends no byte twice.
   Cells still in a reader's hands are neither counted nor in another's, so a
   full count leaves nobody anything to write. *)
Holding ==
  \A r \in Readers : /\ rd[r] \in {"ingest", "count"} => chunk[r] \in Chunks
                     /\ rd[r] = "count" => meta \in Metas

InFlight == {r \in Readers : rd[r] \in {"ingest", "count"}}

Accounting ==
  /\ counted \subseteq arrived
  /\ meta = NoMeta => counted = {}
  /\ meta # NoMeta => counted \subseteq 0 .. meta.size - 1
  /\ IsFiniteSet(counted)
  /\ bytesWritten = Cardinality(counted)

Apart ==
  /\ \A r \in InFlight : /\ Cells(chunk[r]) \subseteq arrived
                         /\ Cells(chunk[r]) \cap counted = {}
  /\ \A r, s \in InFlight : r # s => Cells(chunk[r]) \cap Cells(chunk[s]) = {}
  /\ \A r \in Readers :
       rd[r] = "count" => Cells(chunk[r]) \subseteq 0 .. meta.size - 1

Sealed == gate = "sealing" \/ (gate \in {"closing", "over"} /\ result = "nil")

Awaited ==
  /\ \A v \in Verifiers : vf[v] = "claiming" => allBytes
  /\ gate \in {"verifying", "syncing", "hashing"} \/ Sealed => allBytes

GateInv ==
  /\ gate \in {"free", "verifying", "syncing", "hashing", "sealing"}
       => result = "nil"
  /\ gate \in {"failing", "aborting", "removing"} => result # "nil"
  /\ Sealed => matches(meta)
  /\ sinkOpen <=> gate \notin {"removing", "closing", "over"}
  /\ ~onDisk => HasPath /\ gate \in {"closing", "over"} /\ result # "nil"
  /\ gate \in {"closing", "over"} /\ result # "nil" => ~(HasPath /\ onDisk)

IInv ==
  Holding /\ Accounting /\ Apart /\ AllBytesMeansCovered /\ Awaited /\ GateInv

(* The abstract promise, read off the core's state. *)
fileView ==
  CASE sinkOpen -> "partial"
    [] ~sinkOpen /\ result = "nil" -> IF Intact THEN "complete" ELSE "corrupt"
    [] OTHER -> IF HasPath /\ onDisk THEN "partial" ELSE "discarded"

outcomeView ==
  IF ~done THEN "pending" ELSE IF result = "nil" THEN "ok" ELSE "failed"

Promise == INSTANCE FileTransfer WITH outcome <- outcomeView, file <- fileView

(* transferCore implements FileTransfer: close(done) comes after the file is
   settled, the result never changes afterwards, and it tells the truth. *)
KeepsPromise == Promise!Spec

(* Whoever entered doneOnce closes done, and a started verification never waits
   for ever: the receiver always learns how a finished transfer ended. *)
VerificationEnds ==
  \A v \in Verifiers : (vf[v] # "off" \/ gate # "free") ~> done
=============================================================================
