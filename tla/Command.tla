------------------------------ MODULE Command ------------------------------
(* One gfile process: a command of cmd/ from RunE to exit, the session's Start,
   the sender's run goroutine and close watcher, and the goroutine that prints
   progress (pkg/transfer/progress.go) beside them.  Two of them write lines
   through one output.Emitter, and the process may exit under any of them.

   The transfer itself appears by what it promises (FileTransfer) and by the
   byte counter it moves.  Time is an integer clock.  x_Flaw is x with one
   plausible mistake; no action uses it. *)
EXTENDS Naturals, Sequences

CONSTANTS
  Commands,     \* records [role, bench, parallel]
  Interval,     \* progressInterval
  MinGap,       \* progressMinInterval
  Total,        \* bytes of the file
  MaxClock      \* bound on the clock

ASSUME CommandAssumption ==
  /\ Commands \subseteq [role : {"sender", "receiver"}, bench : BOOLEAN,
                         parallel : BOOLEAN]
  /\ Interval \in Nat \ {0} /\ MinGap \in Nat /\ Total \in Nat /\ MaxClock \in Nat

VARIABLES
  command,      \* what is run
  main,         \* the main goroutine
  run,          \* the sender's run or runMulti goroutine
  watcher,      \* the sender's goroutine that waits for the channel to close
  endedBy,      \* who closed Session.Done: none, run, watcher
  runCancelled, \* the context of Start
  channel,      \* new, open, closed, or dead: closed before it opened
  outcome, file,\* of the receiver: FileTransfer's variables
  opened,       \* the output file has been created and truncated
  bytes,        \* NetworkStats.nbBytes
  emitter,      \* EmitProgressSamples: off, sample, emit, select, exited
  seen,         \* the byte count it is about to print
  stopped,      \* stopProgress has cancelled its context
  last,         \* Emitter.progressLast for the role, or NoTime
  clock, nextTick, tick,  \* the ticker and its one buffered tick
  lines         \* history: what has been printed

File == INSTANCE FileTransfer

NoTime == 0
Line(kind) == [kind |-> kind, bytes |-> bytes, at |-> clock]
print(line) == lines' = Append(lines, line)

session == <<run, watcher, endedBy, runCancelled, channel>>
received == <<outcome, file, opened>>
progress == <<emitter, seen, stopped, last>>
time == <<clock, nextTick, tick>>
vars == <<command, main, session, received, bytes, progress, time, lines>>

Sends == command.role = "sender"
alive == main # "exited"
hasOpened == channel \in {"open", "closed"}
hangUp == channel' = IF hasOpened THEN "closed" ELSE "dead"

Init ==
  /\ command \in Commands
  /\ main = "open" /\ run = "off" /\ watcher = "off" /\ endedBy = "none"
  /\ runCancelled = FALSE /\ channel = "new"
  /\ File!Init /\ opened = FALSE /\ bytes = 0
  /\ emitter = "off" /\ seen = 0 /\ stopped = FALSE /\ last = NoTime
  /\ clock = 1 /\ nextTick = NoTime /\ tick = FALSE
  /\ lines = <<>>
-----------------------------------------------------------------------------
(* The main goroutine, from the command's RunE to os.Exit. *)
mainMoves(to) == main' = to /\ UNCHANGED command

fails == mainMoves("fatal") /\ UNCHANGED lines

\* The input is opened, or the output created and truncated.
OpenFile ==
  /\ main = "open"
  /\ \/ fails /\ UNCHANGED opened
     \/ /\ mainMoves("configure")
        /\ opened' = ~Sends
        /\ IF Sends /\ command.bench THEN print(Line("bench_total"))
           ELSE UNCHANGED lines
  /\ UNCHANGED <<session, outcome, file, bytes, progress, time>>

\* ResolvedSTUNs, Validate and NewWith.
Configure ==
  /\ main = "configure"
  /\ \/ fails
     \/ mainMoves("initialize") /\ UNCHANGED lines
  /\ UNCHANGED <<session, received, bytes, progress, time>>

\* Session.Initialize, and the goroutines the sender's Start begins.
Initialize ==
  /\ main = "initialize"
  /\ \/ fails /\ UNCHANGED <<run, watcher>>
     \/ /\ print(Line("sdp"))
        /\ IF Sends
           THEN mainMoves("answer") /\ run' = "pre" /\ watcher' = "waiting"
           ELSE mainMoves("path") /\ UNCHANGED <<run, watcher>>
  /\ UNCHANGED <<endedBy, runCancelled, channel, received, bytes, progress, time>>

\* Start's deferred calls: cancel and Close of the control PeerConnection.
release == runCancelled' = TRUE /\ hangUp

AcceptAnswer ==
  /\ main = "answer"
  /\ \/ fails /\ release
     \/ mainMoves("done") /\ UNCHANGED <<lines, runCancelled, channel>>
  /\ UNCHANGED <<run, watcher, endedBy, received, bytes, progress, time>>

sessionDone ==
  /\ main = "done" /\ endedBy # "none"
  /\ mainMoves("report") /\ release
  /\ UNCHANGED <<run, watcher, endedBy, received, bytes, progress, time, lines>>

\* StartProgressEmitter: its goroutine is there, and has run nothing yet.
StartProgressEmitter_TickFirst == emitter' = "select"
StartProgressEmitter == emitter' = "sample"

\* The deferred or explicit stopProgress: cancel, then wait for the goroutine.
stopProgress_NoCancel == UNCHANGED stopped
stopProgress == stopped' = TRUE

progressDone_NoWait == stopped
progressDone == emitter = "exited"

pathReady ==
  /\ main = "path" /\ hasOpened
  /\ mainMoves("transfer") /\ StartProgressEmitter
  /\ UNCHANGED <<session, received, bytes, seen, stopped, last, time, lines>>

\* After 30 s: the core is not told, and a channel may still open.
pathTimeout ==
  /\ main = "path" /\ mainMoves("late")
  /\ UNCHANGED <<session, received, bytes, progress, time, lines>>

lateReturns ==
  /\ main = "late" /\ fails /\ hangUp
  /\ UNCHANGED <<run, watcher, endedBy, runCancelled, received, bytes, progress, time>>

\* waitDone returns the result; the deferred stopProgress comes next.
waitDone_ResultLost ==
  outcome' = "ok" /\ file # "partial" /\ outcome = "pending" /\ UNCHANGED file
waitDone == File!Report

transferDone ==
  /\ main = "transfer" /\ waitDone
  /\ mainMoves("stopping") /\ stopProgress
  /\ UNCHANGED <<session, opened, bytes, emitter, seen, last, time, lines>>

\* The emitter has returned; sess.Close is the deferred call after it.
transferReturns ==
  /\ main = "stopping" /\ progressDone
  /\ mainMoves(IF outcome = "ok" THEN "report" ELSE "fatal")
  /\ hangUp
  /\ UNCHANGED <<run, watcher, endedBy, runCancelled, received, bytes, progress,
                 time, lines>>

\* Stat and TransferComplete, or the benchmark's Stats.
Report ==
  /\ main = "report"
  /\ \/ ~command.bench /\ fails
     \/ /\ mainMoves("exiting")
        /\ print(Line(IF command.bench THEN "stats" ELSE "transfer_complete"))
  /\ UNCHANGED <<session, received, bytes, progress, time>>

\* Execute: the error line.
Fatal ==
  /\ main = "fatal"
  /\ mainMoves("exiting") /\ print(Line("error"))
  /\ UNCHANGED <<session, received, bytes, progress, time>>

\* main returns or calls os.Exit: every goroutine is gone.
Exit ==
  /\ main = "exiting" /\ mainMoves("exited")
  /\ UNCHANGED <<session, received, bytes, progress, time, lines>>

mainStep ==
  \/ OpenFile \/ Configure \/ Initialize \/ AcceptAnswer \/ sessionDone
  \/ pathReady \/ lateReturns \/ transferDone \/ transferReturns \/ Report \/ Fatal
  \/ Exit
-----------------------------------------------------------------------------
(* The sender's run goroutine and its close watcher. *)
runMoves(to) ==
  /\ alive /\ run' = to
  /\ UNCHANGED <<command, main, watcher, runCancelled, received, bytes, time, lines>>

\* preTransfer, and for several connections the handshake with the data peers.
preTransfer ==
  /\ run = "pre"
  /\ \/ runMoves("close") /\ UNCHANGED progress
     \/ /\ hasOpened /\ runMoves("moving")
        /\ StartProgressEmitter /\ UNCHANGED <<seen, stopped, last>>
  /\ UNCHANGED <<endedBy, channel>>

\* Everything is sent, or sendFile or the workers gave up.
sendFile ==
  /\ run = "moving" /\ runMoves("stopping")
  /\ stopProgress /\ UNCHANGED <<endedBy, channel, emitter, seen, last>>

\* Several connections stop progress before they flush and send
\* TRANSFER_COMPLETE, a single one after its flush.
sendDone ==
  /\ \/ /\ run = "stopping" /\ progressDone
        /\ runMoves(IF command.parallel THEN "tail" ELSE "close")
     \/ run = "tail" /\ runMoves("close")
  /\ UNCHANGED <<endedBy, channel, progress>>

closes(who) == endedBy' = IF endedBy = "none" THEN who ELSE endedBy

close ==
  /\ run = "close" /\ runMoves("ended")
  /\ hangUp /\ closes("run") /\ UNCHANGED progress

\* stopSend and close(true): nothing here waits for run or the emitter.
watchClosed ==
  /\ alive
  /\ \/ /\ watcher = "waiting" /\ channel = "closed"
        /\ watcher' = "close" /\ runCancelled' = TRUE /\ UNCHANGED endedBy
     \/ /\ watcher = "waiting" /\ runCancelled
        /\ watcher' = "ended" /\ UNCHANGED <<runCancelled, endedBy>>
     \/ /\ watcher = "close" /\ closes("watcher")
        /\ watcher' = "ended" /\ UNCHANGED runCancelled
  /\ UNCHANGED <<command, main, run, channel, received, bytes, progress, time, lines>>

sendStep == sendDone \/ close \/ watchClosed
-----------------------------------------------------------------------------
(* EmitProgressSamples, one goroutine. *)
emitterMoves(to) ==
  /\ alive /\ emitter' = to
  /\ UNCHANGED <<command, main, session, received, bytes, stopped, clock>>

\* output.Sample reads the counter before it takes the emitter's lock.
Sample ==
  /\ emitter = "sample" /\ emitterMoves("emit")
  /\ seen' = bytes /\ UNCHANGED <<last, nextTick, tick, lines>>

throttled_Never == FALSE
throttled == last # NoTime /\ clock < last + MinGap

\* Progress under Emitter.mu; after the first sample the ticker starts.
Progress ==
  /\ emitter = "emit" /\ emitterMoves("select")
  /\ IF throttled THEN UNCHANGED <<last, lines>>
     ELSE last' = clock /\ print([Line("progress") EXCEPT !.bytes = seen])
  /\ nextTick' = IF nextTick = NoTime THEN clock + Interval ELSE nextTick
  /\ UNCHANGED <<seen, tick>>

nextSample ==
  /\ emitter = "select" /\ tick /\ emitterMoves("sample")
  /\ tick' = FALSE /\ UNCHANGED <<seen, last, nextTick, lines>>

emitterDone ==
  /\ emitter = "select" /\ (stopped \/ runCancelled) /\ emitterMoves("exited")
  /\ UNCHANGED <<seen, last, nextTick, tick, lines>>
-----------------------------------------------------------------------------
(* The transfer, the link and time. *)
outside == alive /\ UNCHANGED <<command, main, run, watcher, endedBy, progress, lines>>

Count ==
  /\ outside /\ bytes < Total
  /\ IF Sends THEN run = "moving" ELSE hasOpened
  /\ bytes' = bytes + 1
  /\ UNCHANGED <<runCancelled, channel, received, time>>

\* The core's verification or its first failure.
Settle ==
  /\ outside /\ ~Sends /\ hasOpened
  /\ File!Complete \/ File!Discard
  /\ UNCHANGED <<runCancelled, channel, opened, bytes, time>>

\* The channel opens once the answer is in, closes, or ICE fails.
Link ==
  /\ outside
  /\ \/ /\ channel = "new" /\ main \in {"path", "late", "done"}
        /\ channel' = "open" /\ UNCHANGED runCancelled
     \/ channel = "open" /\ channel' = "closed" /\ UNCHANGED runCancelled
     \/ Sends /\ channel = "open" /\ runCancelled' = TRUE /\ UNCHANGED channel
  /\ UNCHANGED <<received, bytes, time>>

\* Time before the emitter starts would only shift the clock.
Advance ==
  /\ outside /\ emitter # "off" /\ clock < MaxClock /\ clock' = clock + 1
  /\ IF nextTick = clock + 1
     THEN tick' = TRUE /\ nextTick' = nextTick + Interval
     ELSE UNCHANGED <<tick, nextTick>>
  /\ UNCHANGED <<runCancelled, channel, received, bytes>>

\* The process is gone.
Exited == main = "exited" /\ UNCHANGED vars

Next ==
  \/ mainStep \/ pathTimeout
  \/ preTransfer \/ sendFile \/ sendStep
  \/ Sample \/ Progress \/ nextSample \/ emitterDone
  \/ Count \/ Settle \/ Link \/ Advance \/ Exited

Spec == Init /\ [][Next]_vars

(* Every goroutine that can run is scheduled, and select takes each of its
   ready cases in the long run; nothing is assumed of the user, the link, the
   transfer or the clock. *)
FairSpec ==
  /\ Spec
  /\ WF_vars(mainStep) /\ WF_vars(sendStep)
  /\ WF_vars(Sample) /\ WF_vars(Progress) /\ SF_vars(emitterDone)
-----------------------------------------------------------------------------
MainOK ==
  /\ command \in Commands
  /\ main \in {"open", "configure", "initialize", "answer", "done", "path", "late",
               "transfer", "stopping", "report", "fatal", "exiting", "exited"}
  /\ outcome \in {"pending", "ok", "failed"}
  /\ file \in {"partial", "complete", "discarded"}
  /\ opened \in BOOLEAN /\ bytes \in Nat

SessionOK ==
  /\ run \in {"off", "pre", "moving", "stopping", "tail", "close", "ended"}
  /\ watcher \in {"off", "waiting", "close", "ended"}
  /\ endedBy \in {"none", "run", "watcher"}
  /\ runCancelled \in BOOLEAN /\ channel \in {"new", "open", "closed", "dead"}

ProgressOK ==
  /\ emitter \in {"off", "sample", "emit", "select", "exited"}
  /\ seen \in Nat /\ stopped \in BOOLEAN /\ tick \in BOOLEAN
  /\ clock \in Nat \ {0} /\ last \in Nat /\ nextTick \in Nat

Lines ==
  [kind : {"bench_total", "sdp", "progress", "stats", "transfer_complete", "error"},
   bytes : Nat, at : Nat]

TypeOK == MainOK /\ SessionOK /\ ProgressOK /\ lines \in Seq(Lines)

Verdicts == {"stats", "transfer_complete", "error"}
IsProgress(i) == lines[i].kind = "progress"
Succeeded == \E i \in DOMAIN lines : lines[i].kind \in {"stats", "transfer_complete"}

\* progress.go and cmd: nothing is printed after the line that ends a command,
\* unless the sender's close watcher ended it: watchClosed does not wait for
\* the emitter.
VerdictIsLast ==
  \A i \in DOMAIN lines :
    lines[i].kind \in Verdicts => i = Len(lines) \/ endedBy = "watcher"

\* progress.go:14-17: a transfer that ran is reported with at least one progress
\* line, however short it was; again but for the close watcher.
EveryTransferShows ==
  Succeeded /\ emitter # "off" =>
    (\E i \in DOMAIN lines : IsProgress(i)) \/ endedBy = "watcher"

\* emitter.go: progress lines are MinGap apart, and no line shows fewer bytes
\* than an earlier one.
ProgressIsOrderly ==
  \A i, j \in DOMAIN lines :
    i < j =>
      /\ IsProgress(i) /\ IsProgress(j) => lines[j].at >= lines[i].at + MinGap
      /\ lines[i].bytes <= lines[j].bytes \/ endedBy = "watcher"

\* cmd/receive.go: success is printed only over a complete output, and a failed
\* transfer leaves none; what is left behind by an error is a file nobody
\* waited for (STUN, signaling or the 30 s without a channel).
ExitTellsTheFile ==
  main = "exited" /\ ~Sends =>
    /\ Succeeded => file = "complete"
    /\ opened /\ file = "partial" => ~Succeeded /\ outcome = "pending"
    /\ outcome = "failed" => file = "discarded" /\ ~Succeeded

\* Once the transfer is settled the command returns: the wait for the emitter
\* ends, whatever its ticker does, and nobody waits for a goroutine that is
\* waiting for him.
settled ==
  \/ main = "transfer" /\ file # "partial"
  \/ main = "done" /\ (run \in {"stopping", "tail", "close"} \/ endedBy # "none")
CommandReturns == settled ~> main = "exited"
=============================================================================
