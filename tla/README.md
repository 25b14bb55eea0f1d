# A TLA+ verification of gfile

gfile sends one file between two machines over WebRTC data channels. This
directory models it from the bytes of a frame to the exit of the command: the
sender, the channel and the receiver with their goroutines, timers and failures, the
wire format, the SDP exchange, the statistics, and the lines a command prints. TLC
checks the models on small instances; TLAPS proves the main facts about every part,
the two end-to-end compositions included, for every instance.

Paths below are relative to the repository's `src/`.

## 1. Inventory

| Part | Code | State | Operations | Hard behaviour |
|---|---|---|---|---|
| transferCore | `pkg/transfer/receiver/core.go` | METADATA (atomic pointer), sink file, `bytesWritten`, `allBytesCh`, `doneOnce`, `result`, `done` | `handleMetadata`, `ingestData`/`writeChunk`, `verifyAndClose`, `fail`, `abortFile`, `verifyIntegrity`, `waitDone` | readers, a verifier and failing clients all run at once; write and count are two steps; uint64 bounds; 30 s timer |
| single-PC receiver | `pkg/transfer/receiver/single.go`, `init.go` | `eofSeen`, decoder, `pathReady` | `OnMetadata`, `OnData`, `OnEOF`, `OnAbort`, `failOnEarlyClose`, `Start` | close watcher against the OnFrames loop; the sender's teardown against the last frame |
| single-PC sender | `pkg/transfer/sender/single.go`, `init.go`, `state.go` | context, `Done`, offset, hash | `run`, `preTransfer`, `sendFile`, `sendAbort`, `close`, `Start` | the file is read twice; the buffer must be flushed before the PC goes away; ICE callback and close watcher cancel from outside |
| multi-PC sender | `pkg/transfer/sender/multi.go` | peers, `answerCh`, `chunks`, worker errors | `runMulti`, `buildDataPeers`, `negotiatePeers`, `multiProduce`, `multiWorker`, `cancelHandshake` | a goroutine per offer and per worker, a bounded pipe, a deadline over the handshake, partial failure |
| multi-PC receiver | `pkg/transfer/receiver/multi.go` | `peers` map, `completeSeen` | `OnAddPeerOffer`, `negotiateReceivePeer`, `installDataPeer`, `OnTransferComplete`, `cleanup` | negotiators race cleanup; N readers and N+1 close watchers race verification |
| channel wrapper | `internal/session/channel.go`, `pkg/transfer/frames.go` | pion's buffer, `sendSig`, `open`, `closed`, `framesGuard` | `Send*`, `SendData`, `Flush`, `OnFrames` | a signal that may be stale or early, callbacks that outlive their loop, a Read only another goroutine can end |
| WebRTC session | `internal/session/session.go` | one PeerConnection | `CreateConnection`, `MakeOffer`, `AcceptOffer`, `AcceptAnswer`, `Close` | each may fail at any time |
| statistics | `internal/stats` , `pkg/transfer/progress.go` | stopwatch, byte counter, ring of samples | `Start`, `Pause`, `Stop`, `Duration`, `Sample`, `CurrentBandwidth` | two locks and an atomic; ring wrap; uint64 difference |
| wire protocol | `internal/protocol` | none; the caller's `frameBuf` | encode, decode, `AppendData`, `Dispatch` | a buffer reused across frames; length checks; frames of another version, cut short or out of order |
| SDP exchange, base45 | `pkg/transfer/sdpio.go`, `internal/utils`, `internal/stream/stream.go` | the input and its reader | `ReadRemoteSDP`, `ResolveSDPFlag`, `EncodeSDP`, `DecodeSDP`, `Encode`, `Decode` | a new reader per attempt, blanks that the alphabet itself contains, odd and even groups and their ranges |
| command line, progress output | `cmd`, `internal/output`, `pkg/transfer/progress.go` | mode, `progressLast`, the ticker | `RunE` of send, receive, bench; `StartProgressEmitter`, `Sample`, `Progress`, `Fatal` | a printing goroutine beside the one that ends the process; a wait for it in every exit |
| terminals, configuration, pprof, scripts | `internal/stream/tty_*`, `pkg/transfer/config.go`, `internal/debug`, `scripts` | none that belongs to a transfer | flags, ioctls | none |

How they interact: the sender's `Start` runs `run` (one connection) or `runMulti`
(several) on its own goroutine and waits for `sess.Done`. Frames go through pion to
an `OnFrames` loop at the receiver, which calls the handler (`singleHandler`, or
`multiRouter` and one `peerFrameHandler` per data PC); handlers call `transferCore`,
whose `done` lets the receiver's `Start` return. Close watchers and ICE callbacks
run beside all of that, and on either side one goroutine prints progress from the
byte counter until `Start` (receiver) or `run` (sender) stops it. The command prints
a last line and the process exits.

What must hold:

- receiver core: a success means the file is whole, is what was hashed, and stays so;
  a failure removes the output; the result is decided once; `done` closes last; a
  verification ends.
- both modes: the sender's bytes reach the core exactly once, with the offset they
  were read at; success is the sender's file; no failure without a cause; both sides end.
- multi-PC: TRANSFER_COMPLETE follows only a whole send; a data reader finds its peer;
  no PeerConnection is left open.
- receiver, against any peer: a refused frame never ends in success, an id is
  negotiated once, compressed bytes are not written raw, a closed channel ends the wait.
- wire: the handler gets what the peer encoded; what is cut short is refused.
- command: the verdict is the last line; every transfer that ran is shown; progress
  is spaced and never goes back; the exit agrees with the disk; a settled transfer exits.
- channel wrapper: no wake-up is lost, the buffer stays bounded, a channel has one
  reader, the first error is the one reported, and the loop ends when told to.
- SDP exchange: an intact SDP is taken, whatever surrounds it; a damaged one never
  passes for another; the codec loses nothing; with `--sdp` nobody waits at a prompt.
- statistics: the ring is the last samples; the rate never subtracts a newer count
  from an older one; a stopped clock stays stopped.

## 2. Modules

| Module | What it is |
|---|---|
| `FileTransfer` | What the receiver promises, abstractly: settle the file as complete or discarded, then report it, truthfully, once. |
| `TransferCore` | `transferCore` with every client it can have: readers, verifiers, failing callers. One action per step another goroutine can interleave with. Its last section states the refinement of `FileTransfer` and the inductive invariant. |
| `TransferCore_proofs` | The theorems about it. |
| `SinglePC` | Sender + channel + receiver of a single-PC transfer around an instance of `TransferCore`. |
| `SinglePC_proofs` | The theorems about it. |
| `MultiPC` | The same for a multi-PC transfer: handshake, pipeline, N data channels, negotiators, watchers. |
| `MultiPC_proofs` | The theorems about it. |
| `Channel` | `session.Channel`: the back-pressure of `SendData`, `Flush`, and `OnFrames` in both modes. |
| `Channel_proofs` | The theorems about it. |
| `Stats` | `internal/stats` and the emitter that samples it. |
| `Stats_proofs` | The theorems about it. |
| `Wire` | The frame layouts over bytes, `AppendData` into a used buffer, and `Dispatch`. Operators only. |
| `Receive` | `singleHandler`, `multiRouter` and `peerFrameHandler` facing any frames in any order, read by `Wire`. |
| `Receive_proofs` | The theorems about it, and about `Wire`: round trip and refusal, for frames of any length. |
| `Command` | A gfile process from `RunE` to exit: main, `run`, the close watcher and the progress goroutine over `FileTransfer`. |
| `Command_proofs` | The theorems about it. |
| `Base45` | The codec: `Encode`, `Decode` and what `Decode` refuses, with `strings.TrimSpace`. |
| `Signaling` | `ReadRemoteSDP` over `MustReadStream`, and `ResolveSDPFlag`, with a user who pastes. |
| `Signaling_proofs` | The theorems about it, and about the codec. |
| `MCTransferCore`, `MCSinglePC`, `MCMultiPC`, `MCSignaling`, `MCReceive`, `MCCommand` | Instances for TLC. `Channel` and `Stats` need no definitions of their own for that: their `.cfg`s give numbers. |

Definitions keep the source's names: `OnMetadata`, `negotiatePeers`, `multiProduce`,
`cleanup`, ... are the functions so called, and `PROJECT.json` maps each to its lines.
An operator `x_Flaw` is `x` with one plausible mistake; no action uses it, and each
property is paired with one that breaks it.

### TransferCore

`gate` is `doneOnce` together with the program counter of the one body it runs:
`free`, then `failing -> aborting -> removing -> closing -> over` or
`verifying -> syncing -> hashing -> sealing -> closing -> over`, with an edge to
`aborting` when sync, hash or comparison fails. A caller of `Do` that comes second
blocks in Go until the body ends and then does nothing; here it goes on at once,
which changes no state of the core. A reader is `idle`, about to write, or about
to count: `WriteAt` and `bytesWritten.Add` are separate steps. `handleMetadata` is one
step: between its CompareAndSwap and its Truncate only a reader could look, and
`Truncate` to the final size does not disturb what a reader wrote within it. The
file is a function from offsets to bytes; the SHA-256 is the contents it was taken
of (no collisions). `arrived` and `counted` are history variables.

The check for more bytes than announced (`core.go:167`) is a branch of
`seeAllBytes`; under `ExactlyOnce` it is never taken.

Simplified: `os.Remove` succeeds; a failed `WriteAt` leaves no partial write
(such a transfer fails anyway); zstd constructors do not fail.

### SinglePC and MultiPC

The channel is pion's and is modelled from how the code uses it: `out` is what
`Send` accepted and the peer has not acknowledged (`BufferedAmount`), `rq` what the
receiving side holds. Closing the data channel lets `out` drain; closing the
PeerConnection throws it away. `OnClose` fires on its own goroutine after the last
frame was taken from `rq`, possibly before that frame was dispatched. Timers fire
nondeterministically. In `MultiPC` a timer that fires while what it bounds is still
under way counts as a fault (`timer`), one that fires when nothing more can happen
does not.

The chunks and METADATA a sender may send are not constants: `FileChunks` and `metaOf`
cut them from the input file, so the core is instantiated with what `sendFile` and
`preTransfer` can really read. `MultiPC`'s bounded pipe holds chunks (`dataChunk`:
offset and bytes), as the Go channel does.

A read error in the middle of a chunk is one at its start: the part already read, which
`sendFile` still sends before the ABORT, is left out of `readFails`.

`SinglePC` lets another program change the input file once between the hash and the
end of the transfer, and keeps in `causes` what went wrong, so that failures can be
held against their causes. `MultiPC` injects faults by kind (`Faults`; `ice` is an outage that
the control PC reports and survives, as `Disconnected` may be), at most
`MaxFaults` kinds per behaviour, and leaves the file alone. There the check of `done`
and the ANSWER that follows it are one step, as are a worker's receive and its Send; close
notifications after `done` (or `sess.Done`), and the ends of loops and watchers after `done`,
which move nothing but their own goroutine, are cut.

Both instantiate `TransferCore` twice: `Core` supplies the actions, `Honest` states
with `ExactlyOnce = TRUE` that the composition is an implementation of the core under
the assumption of its theorems (`ImplementsCore`). This is what carries the theorems
over to the whole program: the sender repeats no byte, and no step touches the core
except as one of its own.

Errors named `client` in `TransferCore` are the clients' own: the composition maps its
error names to it.

### Channel

One writer and one reader of one channel. `SendData` is `Send`, the look at
`BufferedAmount`, and the `select`: `wpc` is `check` before the look, `full` after one
that found too much, `wait` in the `select`. pion calls OnBufferedAmountLow on a
goroutine of its own (`lowCalls` counts those under way), so the call for an
acknowledgement may come before the `select`, in it, or for a later frame. A
`sendSig` that is already full takes no second token.

An OnFrames call is `opening`, `reading` or `dispatching` on a detached channel, `waiting`
in runOnMessage otherwise. The goroutine that closes the stream when ctx is done
(`watcher`) and the callback (`callback`) are processes beside it; the callback is not
unregistered when runOnMessage returns, although `pkg/transfer/frames.go:12` says that
cancelling ctx stops the loop. A frame is a number; its handler takes it or refuses it.

`SinglePC` and `MultiPC` use the same functions by their effect (`drained`,
`readFrame`, `dispatched`): that a drain is noticed, that one loop reads and that an error
ends it are what `Channel` shows.

### Stats

Times are integers and 0 is Go's zero `time.Time`. `Sample` and `CurrentBandwidth` are
split where they release a lock or read the atomic, so `Stop`, `AddBytes` and time
itself fall in between. There is one emitter, as in the code.

### Wire and Receive

A message is a sequence of bytes. Words of two bytes carry the 32- and 64-bit fields, so
that the arithmetic stays within what both tools handle. `AppendData` builds the array
behind the slice from what an earlier, perhaps longer, frame left there, and then cuts
it: that is `frameBuf[:0]` grown and reused in `SendData`. `Dispatch` maps a message to
the handler's call with its arguments, or to one of the two errors.

`Receive` lets the peer send anything: every DATA, METADATA, offer or end frame at any
time, any number of times, with another version or codec, cut short, of an unknown type
or on the wrong channel. Which frames a channel expects, and what the end of its
OnFrames loop does, depend on the label: the primary channel's error fails the transfer
unless EOF was seen, the control channel's is only logged. A data peer's frame is taken
up in two steps, since `onPeerData` reads `peer.decoder` without the lock that `cleanup`
holds. `transferCore` appears by its gate, its counter and `FileTransfer`; `TransferCore`
has the rest. Data frames carry a payload that any decoder may refuse. The history
variable `early` holds the peers that opened a data channel before METADATA: those get
no decoder, which gfile's own sender never brings about.

`SinglePC` and `MultiPC` use the same handlers with the sender's own frames; `Receive`
shows what does not rest on that sender.

### Command

`main` is the program counter of the goroutine that runs `RunE`: `open`, `configure`,
`initialize`, then `answer`, `done` at a sender, `path` (or `late` after 30 s) and
`transfer` at a receiver, then `stopping`, `report` or `fatal`, `exiting`, `exited`.
`run` is the sender's transfer goroutine; `parallel` says whether it stops progress before
its last frames (`runMulti`) or after its flush (`run`). The emitter is split where
`Sample` has read the counter and not yet taken the lock. The bytes move by themselves
(`Count`), the receiver's file by `FileTransfer`'s actions. `emitter = "sample"` is both a
goroutine that has not run yet and one that was woken by the ticker.

`ch.Close` and the closing of `Done` are one step of `close`, since the emitter is gone by
then and nothing tells the order apart. Deferred calls run in their order: `stopProgress` before `Session.Close` at a receiver,
before `close(false)` at a sender. The sender's close watcher closes `Done` without
waiting for either, and `VerdictIsLast`, `EveryTransferShows` and `ProgressIsOrderly`
exempt exactly the commands it ended: there a progress line may follow the last word.

### Base45 and Signaling

A text is a sequence of places in the alphabet, with `Invalid` (the table's 0xff) for
every character that is not in it. The two loops over groups are functions of the
position: `Encode` says for each character which group it comes from and which digit it
is, `Decode` the same for each byte, and `Decodable` collects the four ways `Decode`
returns an error. `Encode` treats an odd last byte's second digit like the others
(`% 45`), which changes nothing below 2025.

`Signaling` keeps lines whole. A line is bare text or the JSON envelope around a text.
`fill` is a Read of the `bufio.Reader`: it takes any number of the lines that are there,
as a terminal or a pipe may hand them over. The reader belongs to one call of
`MustReadStream`; when `ReadRemoteSDP` refuses the line and calls again, the new reader
starts empty and what the old one had read ahead is gone. zstd and the JSON of the
description are a set: `SDPs` are the byte strings that decompress and parse, and all the
codec may assume of them is that they start with zstd's magic number. With `flag` the
input is the one line `ResolveSDPFlag` let through, and then ends.

Left out: a Read that fails, which leaves an empty reader and another call, and a
`--sdp` source that cannot be read, which ends the program.

## 3. Runs

| Run | Question | Instance |
|---|---|---|
| `core` | Does the core keep its promise in every interleaving, and does every verification end? | 2 readers, 2 verifiers, file of 0 or 2 bytes, chunks of 1 or 2 anywhere (some wrong bytes, some whose end wraps at 8), ExactlyOnce, fair |
| `single` | Is success the hashed file and does failure have its cause? Does it use the core as assumed? Do both Starts return? | 3-byte file in chunks of 2 that may change, shrink or grow; lossy; every timeout; fair |
| `multi` | Are the stripes the file, each sent once, and do both Starts return? | 2 peers, a whole and a short chunk, pipe of 1, high water 0; the disk fails at any moment; fair |
| `multi_faults` | May TRANSFER_COMPLETE follow part of a file, a reader miss its peer, a failure lack a cause, everyone wait for everyone? | 2 peers, a whole and a short chunk, pipe of 1, high water 0, one fault of link, ice, setup, signaling, read, timer, disk at any moment |
| `channel` | Is a wake-up ever lost, the buffer ever overrun, a second loop or a second error let in, a loop left hanging? | 3 frames, threshold 0, 2 OnFrames calls, both modes; close, link loss and either cancellation at any moment; fair |
| `stats` | Ring, rate and stopwatch | capacity 2, window 2, 5 ticks, 2 bytes |
| `signaling` | Is an intact SDP ever refused or missed, a damaged one ever accepted, a user of `--sdp` ever made to wait? | an SDP of 3 bytes and one of 4 at the end of the 16-bit range, 5 texts (blank, cut, damaged, a last group above 255), bare or wrapped, 3 pastes; flag or prompt; fair |
| `command` | Is the verdict the last line, is every transfer shown, is progress in order, does the exit agree with the disk, does it come? | send with one and several connections, receive, bench on both sides; interval 2, gap 5, 8 ticks, 1 byte; fair |
| `receive` | What can a peer do to a receiver with frames no gfile sends? | both labels, 1 peer id, 13 messages on the first channel and 4 on a data channel, 2 bytes, 2 waiting verifiers; fair |
| `single_confirm`, `multi_complete`, `multi_leak` | Statements of the code's own documents that it does not keep | see section 5 |

Why the bounds are enough. Two readers are what it takes to interleave write and
count; a third adds no new pair. Two bytes allow a chunk at the start, one at the
end and one across it, and two readers with the whole file between them; `Wrap = 8` puts an offset whose end wraps within
reach. Two peers make the producer, the workers, the watchers and cleanup race
pairwise, and a pipe smaller than the file makes the producer block (the code's
`2 * len(peers)` would never fill with two chunks). Chunk size, high water, the
channel's threshold (0 frames, so one frame is above it) and ring capacity are scaled down so that short last chunks, a full buffer and several wraps
occur. Peers are symmetric; symmetry is used only in `multi_faults`, which has no temporal
property. With high water 0 a worker waits for the acknowledgement of each chunk, so that a
receiver that stops finds workers in every place where they wait. In `multi` the file is
all read once one chunk is in the pipe and another taken, so that run never has the producer
blocked when the workers give up; `multi_faults` does, where an ICE outage (`ice`) is reported
before any chunk was taken, and `NobodyStuck` is broken when the drain loop comes after
`prodErr`. Two peers are also the fewest: one connection is `run`, not `runMulti`. Three frames are what it takes
to have a token of the first one taken by the wait for the second and the third sent
meanwhile; the second OnFrames caller is the one the guard turns away. Three pastes are a
blank line, a refused one and an intact one in every order and grouping; what the codec
does with longer texts is proved. In `command` the gap between lines is longer than two
intervals, so that a tick is dropped by the throttle, and the clock is long enough for a
line after it; one byte is enough to tell a count from an earlier one. In `receive` one
peer id meets itself twice (the duplicate offer), METADATA comes with both codecs, a
size of 0 and 1 and a wrong version, and every frame length that matters is cut; what
longer frames do is proved. `HandlerGetsWhatWasSent` is a formula of the constants `Calls`
(what a gfile encodes) and `Buffers`, evaluated once: payloads up to 300 bytes, offsets around each byte of the field, buffers shorter
and longer than the frame.

The type invariants of `TransferCore`, `Channel`, `Stats`, `Signaling`, `Receive` and
`Command`, and `StopFreezes` of `Stats`, are proved for all constants (section 4), so no run
repeats them.

`command` and `receive` check for deadlock: there the end of the process is a step of its
own. Elsewhere CHECK_DEADLOCK is FALSE because transfers end: the last state has no
successor. That nobody stops too early is what the liveness properties say, and
`NobodyStuck`: where no fair step is enabled, the transfer is over. It does for every
fault what `BothReturn` does for a disk that fails, as no behaviour takes infinitely many
steps; being an invariant, it can be checked with symmetry.

### Fairness

Every goroutine that can run does, timers fire, and a network that works opens
channels, delivers frames and close notifications. Nothing obliges the user to paste
an answer, the link to fail, a disk or setup to fail, or the file to change. The
close watcher is fair only while the context is not cancelled: its `select` may take
`ctx.Done()` instead. An ICE failure is reported once the link has failed. `SinglePC` and
`MultiPC` need only weak fairness of the union of those steps, since no behaviour
takes infinitely many steps: that assumes less than fairness of each.

In `Channel` the 100 ms poll of `SendData` is left out of the fairness: `NoLostWakeup`
shows that the signal alone wakes the writer. Opening, closing, losing and cancelling
are left to chance, so both `LoopEnds` and `NoLostWakeup` name what they wait for.

In `Signaling` the program's own steps are fair, the user's are not: nobody is obliged to
paste. Once the input ends nothing more is promised; the code's loop then goes round for
ever (section 5).

In `Command` the goroutines of the program are fair, and `select` takes a cancelled
context in the long run although a tick is ready again and again (strong fairness of
`emitterDone`: Go chooses among ready cases at random). Neither the link, the transfer,
the user nor the clock is: `CommandReturns` starts from a transfer that is settled. In
`Receive` only what ends a transfer is fair (the watcher, the verifier with its 30 s
timer, the body of doneOnce and `Start`), and `ClosedSettles` shows that it is enough.

What a lost link leaves. In a single-PC transfer the sender still returns, and `BothReturn`
says so; the receiver may wait for ever, because its ICE callback only logs
(`receiver/init.go:19`). In a multi-PC transfer a lost data PC can stop both sides: the
sender notices only the control PC (`sender/multi.go:233`), so `multi` has no link
loss, and `NobodyStuck` exempts a `Start` that waits after one. That is a hazard of the code,
not of the model.

## 4. Proofs

### The receiver's core

`TransferCore_proofs` is about every set of readers and verifiers, every chunk and every
METADATA, any `Wrap`, and needs of the constants only the assumptions named in
`TransferCore`; the theorems below `TypeCorrect` also need `ExactlyOnce`, which the
runs `single` and `multi` show of the two senders.

| Theorem | States |
|---|---|
| `TypeCorrect` | `Spec => []TypeOK` |
| `BoundsCheckExact` | the wrapping uint64 check accepts exactly the chunks within the announced size |
| `Safety` | the inductive invariant `IInv` |
| `SuccessIsTrue` | `OkMeansIntact`: nil means whole, counted, equal to the hash, closed and kept |
| `CountIsCoverage` | `AllBytesMeansCovered` |
| `NoWriteAfterHash` | `HashedIsFinal`, as an action property |
| `ImplementsPromise` | refinement of `FileTransfer` |

The argument. `bytesWritten` adds lengths, so the code's test `bytesWritten >= size` says
nothing about coverage by itself. `IInv` ties the two: the counted cells are as many as
`bytesWritten` (`Accounting`), lie within the file, and are disjoint from the cells
any reader still holds, which are disjoint from each other (`Apart`). A count that
reaches the size therefore is the whole interval (a subset of a finite set with its
cardinality), and then no reader can hold a cell of the file any more. With `Awaited`
(verification only after `allBytesCh`) nothing is written from then on, so what was
hashed (`Sealed`) is what remains. `GateInv` follows the body of `doneOnce`. The
bounds check enters through `BoundsCheckExact`: a wrapped end fails `end >= offset`.
The refinement reads the abstract file off the gate's phase (`FileViewIsPhase`) and maps
each step to a step or a stutter (`PromiseStep`).

### The channel wrapper

`Channel_proofs` is about any threshold, any number of frames and of OnFrames callers,
and both modes. `Safety` is the inductive invariant; `BoundedBuffer`, `SingleReader` and
`FirstError` read `BufferBounded`, `OneLoop` and `FirstErrorWins` off it.

`BufferBounded` alone is not inductive: a writer that may send must be known to have
found the buffer low (`Room`: `idle` implies at or below the threshold, which
acknowledgements only improve). `OneLoop` needs that a running loop holds the guard
(`Guarded`). `FirstErrorWins` needs that the two modes do not mix (`ByMode`) and that
while runOnMessage waits, `errCh` holds the first refused frame, or nothing when none was
refused (`Pending`): the callback may overwrite nothing, and after the one receive from
`errCh` nobody receives again, because the guard admits no second call.

### The SDP exchange

`Signaling_proofs` is about byte strings and texts of any length for the codec, and about
any set of SDPs that start like a zstd frame and any texts around them for the rest.

| Theorem | States |
|---|---|
| `RoundTrip` | `Decode(Encode(s)) = s`, and `Decode` does not refuse it |
| `Canonical` | `Encode(Decode(t)) = t` for every `t` that `Decode` accepts |
| `TrimKeeps` | `TrimSpace` leaves the encoding of a frame whole, also from between blanks |
| `TypeCorrect` | `Spec => []TypeOK` |
| `NeverRefused` | `IntactNeverRefused` |
| `OnlyCanonical` | `AcceptedIsCanonical` |

The codec is proved one group at a time, which needs no induction: a position is split
into its group and its place in it, and a group's word into its three digits (or two)
and back. `Canonical` rests on the range tests of `Decode`: it is because a group is at
most 0xFFFF, and a last one at most 0xFF, that its bytes give the same word and hence the
same digits. `TrimKeeps` is a fact about two characters. A frame's first two bytes
make the first character `Q` (26), and the last digit of a group is at most 32 (of a short one 5), so
neither end can be the alphabet's space (36), whatever lies between.

`NeverRefused` follows from the first and the third, with the one invariant it needs
beside itself: only a peer that was given the flag is at the flag. `OnlyCanonical` follows
from `Canonical`, once `TypeCorrect` says that what was trimmed is a text.

### The wire

The first part of `Receive_proofs` is about messages of any length and every value of the
32- and 64-bit fields.

| Theorem | States |
|---|---|
| `HandlerGets` | `HandlerGetsWhatWasSent`, for any set of calls and any buffers: it gathers the first five below with ABORT and the frames without a body |
| `DataArrives` | `OnData` gets the offset and payload that were sent, whatever the buffer held |
| `MetadataArrives`, `PeerSDPArrives` | METADATA, offers and answers round-trip |
| `CutMetadataIsRefused`, `CutPeerSDPIsRefused` | a proper prefix is `ErrTruncatedFrame` |
| `ExtendedMetadataIsRefused` | METADATA with anything behind its 43 bytes is `ErrTruncatedFrame` too; a description's frame drops what is left |

The numbers are taken a word at a time: a value is its quotient and remainder by 65536,
each word its two bytes. The sequences are compared position by position. `DataArrives`
rests on the cut: positions up to `9 + Len(payload)` are the frame's own, and
the buffer's tail lies beyond.

### The receiver facing any peer

The second part is about any set of labels, ids and messages.

| Theorem | States | Invariant behind it |
|---|---|---|
| `TypeCorrect` | `TypeOK` | |
| `Refusal` | `RefusedNeverSucceeds` | `EndInv`: only the end frame starts a verifier, a verifier is the only way to a complete file, and a loop that ended refused has seen none and never will |
| `OnceNegotiated` | `OneNegotiator` | `NegInv`: an id nobody reserved has no negotiator, and a reservation is never given back |
| `Decoding` | `DecodedUnlessOver` | `DecInv`: whoever holds no decoder in a zstd transfer opened early or found doneOnce taken; METADATA is accepted once, and doneOnce is not given back |

### The command

`Command_proofs` is about any set of commands, any interval, gap and size.

| Theorem | States | Invariant behind it |
|---|---|---|
| `TypeCorrect` | `TypeOK` | |
| `LastWord` | `VerdictIsLast` | `Flow`: the program counters of main, run and the emitter fit together, so that outside a transfer the emitter is off or gone, unless the watcher ended it |
| `AlwaysShown` | `EveryTransferShows` | `ShownInv`: an emitter that reached its `select` has printed |
| `Orderly` | `ProgressIsOrderly` | `OrderInv`: no line shows more than the counter, nor more than a sample in hand; none is later than `last` |
| `ExitTells` | `ExitTellsTheFile` | `ToldInv`: the outcome is the file's, and a success line needs a success |

### The statistics

`Stats_proofs` is about any capacity, window and bound on time and bytes.

| Theorem | States |
|---|---|
| `TypeCorrect` | `TypeOK` |
| `DurationIsActive`, `Frozen` | `ActiveWhileRunning`, `StopFreezes` |
| `RingKeepsLast` | `RingIsRecent` |
| `SaneRate` | `RateIsSane` |

`Watch` writes the active time as the code's difference of three times. The ring is proved
one position at a time: `Positions` says that the slot `n` places after the oldest is
`head - count + n`, or that plus the capacity, so a push moves every position by one and
overwrites the oldest only when the ring is full. `Behind` says that samples are older
than the clock and the counter the emitter has in hand, which is what keeps the uint64
difference from wrapping.

### The whole transfer

`SinglePC_proofs` is about any input files and any change of one into another, any chunk
size and high water; `MultiPC_proofs` about any finite set of peers, any file, pipe and high
water, any faults. Both need of the constants only `SinglePCAssumption` and
`MultiPCAssumption`, which say that the file fits the uint64 arithmetic.

| Theorem | States |
|---|---|
| `TypeCorrect` | `TypeOK`, in each |
| `UsesCoreAsMeant` | `ImplementsCore`, in each: the transfer is a behaviour of `TransferCore` with `ExactlyOnce` |
| `Faithful` | `SuccessIsFaithful`, in each: nil means the receiver holds what the sender hashed |
| `FailsForACause` | `FailureHasCause`, in each: who is blamed for a failure is to blame |
| `CompleteIsSent` (multi) | `CompleteMeansSent`: TRANSFER_COMPLETE is under way only after every byte was sent |
| `PublishedBeforeRead` (multi) | `PeerIsPublished`: a reader that dispatches DATA finds its peer published |

The argument. The theorems of the core hold for a sender that sends no byte twice, so that
comes first. It is not inductive about `arrived` alone. `Fresh` says that the chunks in a
channel's two queues (and, in `SinglePC`, in the reader's hand; in `MultiPC`, in the pipe)
are pairwise disjoint, disjoint from what arrived, and below the offset the sender has
read to; in `MultiPC` the queues of two peers are disjoint as well. Every step moves a
chunk from one of these places to the next, adds one at the sender's offset, or drops some
(`StepMoves`, `StepData`), and then `Fresh` stays. With it every step is one of the core's
or leaves it alone, the whole is a behaviour of the core, and `SuccessIsTrue` of
`TransferCore_proofs` says that a nil means the announced hash. What is left is that the
announced hash is the sender's: `Announced` in `SinglePC`, where the file may change after
`preHash`; in `MultiPC` the METADATA is a constant.

The core's theorems are about `ExactlyOnce` and the core's own error names, the
compositions run an instance without the first and with their own names. `SameCore`
relates the two, definition by definition.

`CompleteMeansSent` needs `Whole`: unless a worker failed, what was read is sent or in the
pipe, and a worker that ended without an error found the pipe empty and the producer at an end.
`PeerIsPublished` needs `Published`: a worker's data link opens only for an answer the
sender accepted, and an answer, wherever it is, comes from a published peer. `Leading` says
that METADATA is the first frame of the control channel, so that TRANSFER_COMPLETE finds
it accepted and starts the verifier the way the core's own `startVerify` does.

`FailureHasCause` is the longest argument. In `SinglePC` a failure may be recorded in
fifteen places and each name has its own reason to be right. `CauseInv` collects them:

- Order (`Sequenced`, `Leading`): METADATA comes first and once, EOF last and once, and the
  verifier runs only after EOF. So the receiver never has DATA, EOF or a verification
  before METADATA, nor either twice.
- Contents (`ReadsTheSum`, `CarriesTheSum`, `StoresTheSum`): while the file is as `preHash`
  saw it, every chunk, wherever it is, is a piece of that, and what is counted is on disk.
  So a chunk out of bounds or a mismatch means a change.
- Coverage (`Covered`, `Exhausts`): as long as the PeerConnection stands, the bytes that
  arrived and those on their way are exactly those below the sender's offset, and when EOF
  reaches the receiver nothing is on its way any more. With an unchanged file every byte
  has then been counted, and a full count has closed `allBytesCh` (here the core's
  `Cardinality` is needed, hence `CountingInv`). So a verifier that times out was starved.
- Blame (`Faults`, `Started`, `Excuses`): until somebody gave up, a link failed or the
  receiver's own core failed, the sender does not abort, nobody closes before the sender's
  `run` is gone, and `run` is gone only when EOF is with the receiver. So ABORT has a cause,
  and the close watcher that finds EOF not yet seen, or the loop that ends before it,
  has one too. The single exception is the history variable's "raced": EOF in the reader's
  hand while the watcher looks.

In `MultiPC` the file does not change, but there are many channels, and a worker that
fails leaves a gap that TRANSFER_COMPLETE must not hide. `CauseInv` there is relative to
two conditions: while `calm`, `doneOnce` is free, the receiver's `Start` has not given up,
and no timer fired early, no link was lost and no outage reported; `faultless` is that
without any fault at all.

- Order (`Once`, `Told`): METADATA is sent and accepted once; TRANSFER_COMPLETE is under way,
  and the verifier runs, only when it was sent, and then every peer had answered and opened.
- Handshake (`Answering`): a peer that has still to answer, an answer on its way and one in
  `answerCh` are different peers that are still waited for, so `answerCh` always has room (an
  injection of its queue into `Peers`) and no answer is refused as unknown or repeated.
- Start (`Started`): nothing runs at the receiver before the control channel is announced,
  and a peer's session is closed only after the outcome is claimed.
- Blame (`Standing`, `Lines`, `Faultless`): while calm, whatever is torn down was so by a
  sender that is through (or by the one the user gave an unusable answer, `stillborn`, whose
  channel never opened), and a data link is down only after `closePeers`. Without any fault
  no worker and no offer fails and no ABORT is sent. So it takes a fault to see an ABORT, a
  failed setup or an answer that cannot be sent, and a close or a read error without one
  comes after the sender's own teardown.
- Coverage (`Handed`, `Ingested`): while calm, what the workers sent has arrived or is on
  its way, and nothing is left in a sender's buffer once TRANSFER_COMPLETE is out; what
  arrived is counted or in a reader's hand, what is counted is on disk as the file has it,
  and a full count has closed `allBytesCh`. With `CompleteMeansSent` this is why a verifier
  that times out had an early timer or was starved by a lost link or a reported outage, and
  why a hash differs only by a fault of the disk.
- `Blamed` is the property, in the form in which it is kept from the moment `result` is set.

The cardinalities come from the core's own theorems through `SameCore` (`Counting`).

In both, each conjunct is shown per kind of step (in `SinglePC` `Moves`, `Kinds` and
`CoreKinds`; in `MultiPC` `Grows`, `Boots`, `Watches`, `NegMoves`, `AnswerMoves`,
`LeadMoves`, `LineMoves`, `WholeMoves`, `DataMoves`, `Flows` and `CoreKinds`), so that an
action is opened once and not once per conjunct.

### Only model-checked

Liveness (outside this prover's reach, with ENABLED): `VerificationEnds`, `BothReturn`,
`NoLostWakeup`, `LoopEnds`, `AnswerTaken`, `FlagSettles`, `CommandReturns`,
`ClosedSettles`, and `NobodyStuck`, which speaks of ENABLED. Every other invariant and
every action property that a passing run checks is proved.

## 5. Where code and documents disagree

- `single_confirm`: "TransferComplete emits a one-line confirmation that the transfer
  finished successfully" (`internal/output/output.go:50`), but `Start` returns nil, and
  `cmd/send.go` prints the line, however `run` ended.
- `multi_complete`: after TRANSFER_COMPLETE "the receiver then verifies the SHA-256"
  (`PROTOCOL.md:175`). `Flush` waits for SCTP acknowledgement, not for the receiver to
  have read; the sender then closes every PC, and a receiver that still has frames in
  hand fails on a peer's read error, a peer's close watcher, or the control channel's
  ("closed before TRANSFER_COMPLETE", without a look at `completeSeen`).
- `multi_leak`: "On every failure/cancel exit the sess must be closed; on success cleanup()
  owns it" (`receiver/multi.go:150`). cleanup skips a reserved entry; a peer published
  after it, whose negotiator looks at `done` before it closes, is closed by nobody.

Seen while reading, without a run: receivers are said to reject a bad METADATA "by sending
`ABORT`" (`PROTOCOL.md:183`), but no receiver sends ABORT; TRANSFER_COMPLETE goes out also
when a data channel's Flush timed out; `failOnEarlyClose` of the router may name the wrong
cause, as above; `Duration` is documented as "excluding any intervals spent paused"
(`stats/stats.go:101`) but leaves out only pauses that have ended; `ReadRemoteSDP` "re-prompts on
failure" (`sdpio.go:53`), but a line that does not decode gets no second prompt; the SDP is
called base64 (`PROTOCOL.md:15`, `:131`) and is base45; at the end of its input
`MustReadStream` neither returns nor reports it.

## 6. Not modelled, and why

- Cancellation of the receiver's context: `cmd` never cancels it before `Start` has
  returned, and Ctrl-C ends the process.
- A prompt that waits: `Command` takes reading the SDP as a step that succeeds or fails;
  `Signaling` has its loop.
- The layout of text and JSON lines, `Prompt`, human units, and errors of writing to
  a terminal: no property is about them.
- Flags, STUN parsing, zstd buckets, terminal ioctls, pprof, the bench's random file and
  the Python scripts: no state of a transfer. zstd, pion, cobra and the terminal are
  external.
- A read buffer too small for a frame (`MaxControlReadBufSize`) is one of the ways a
  read fails; that gfile's own frames fit is not stated, as it rests on zstd's bound and
  on the size of a description.

## 7. Plan

1. (done) `FileTransfer`, `TransferCore`; `SinglePC`; `MultiPC`; `Stats`; `Channel`;
   `Base45` and `Signaling`; `Wire` and `Receive`; `Command`.
2. (done) Proofs of `TransferCore`, `Channel`, `Base45`, `Signaling`, `Wire`, `Receive`,
   `Command` and `Stats`.
3. (done) Proofs of the compositions: `TypeOK`, `ImplementsCore` and `SuccessIsFaithful` of
   both, `CompleteMeansSent` and `PeerIsPublished` of `MultiPC`.
4. (done) `FailureHasCause` of both compositions, and `HandlerGetsWhatWasSent`.
5. (done) Faults in the middle of a multi-PC transfer: `BothReturn` and `NobodyStuck`.

What is left is beyond the provers (liveness) or has no property, for the reasons given
with each hazard in `PROJECT.json`.
