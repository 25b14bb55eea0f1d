--------------------------- MODULE Command_proofs ---------------------------
(* The safety properties of Command for every set of commands, every interval,
   gap, file size and length of run.

   The invariant says who may still print: a progress goroutine is at work only
   while the receiver's Start waits for it (main is transfer or stopping) or the
   sender's run does (moving or stopping), and the latter only while Start has
   not seen Done, unless the close watcher gave it. *)
EXTENDS Command, TLAPS

USE DEF session, received, progress, time

(* A line printed now is a line. *)
LEMMA PrintedLines ==
  ASSUME TypeOK, NEW line \in Lines, print(line)
  PROVE  lines' \in Seq(Lines)
  BY DEF TypeOK, print

LEMMA LineIsLine ==
  ASSUME TypeOK,
         NEW kind \in {"bench_total", "sdp", "progress", "stats", "transfer_complete",
                       "error"}
  PROVE  Line(kind) \in Lines
  BY DEF TypeOK, MainOK, ProgressOK, Line, Lines

LEMMA TypeInit == Init => TypeOK
<1> SUFFICES ASSUME Init PROVE TypeOK
  OBVIOUS
<1>1. MainOK
  BY DEF Init, File!Init, MainOK
<1>2. SessionOK
  BY DEF Init, SessionOK
<1>3. ProgressOK
  <2>1. /\ emitter = "off" /\ seen = 0 /\ clock = 1 /\ last = 0 /\ nextTick = 0
        /\ stopped = FALSE /\ tick = FALSE
    BY DEF Init, NoTime
  <2>2. stopped \in BOOLEAN /\ tick \in BOOLEAN
    BY <2>1
  <2>3. seen \in Nat /\ clock \in Nat \ {0} /\ last \in Nat /\ nextTick \in Nat
    BY <2>1
  <2>4. QED
    BY <2>1, <2>2, <2>3, Zenon DEF ProgressOK
<1>4. lines \in Seq(Lines)
  BY DEF Init
<1>5. QED
  BY <1>1, <1>2, <1>3, <1>4 DEF TypeOK

LEMMA TypeMain == TypeOK /\ (mainStep \/ pathTimeout) => TypeOK'
<1> SUFFICES ASSUME TypeOK, mainStep \/ pathTimeout PROVE TypeOK'
  OBVIOUS
<1> USE DEF mainMoves, fails, release, hangUp, StartProgressEmitter, stopProgress,
            waitDone
<1>1. MainOK'
  BY DEF TypeOK, MainOK, mainStep, OpenFile, Configure, Initialize, AcceptAnswer,
         sessionDone, pathReady, pathTimeout, lateReturns, transferDone,
         transferReturns, Report, Fatal, Exit, File!Report
<1>2. SessionOK'
  BY DEF TypeOK, SessionOK, mainStep, OpenFile, Configure, Initialize, AcceptAnswer,
         sessionDone, pathReady, pathTimeout, lateReturns, transferDone,
         transferReturns, Report, Fatal, Exit, hasOpened
<1>3. ProgressOK'
  BY DEF TypeOK, ProgressOK, mainStep, OpenFile, Configure, Initialize, AcceptAnswer,
         sessionDone, pathReady, pathTimeout, lateReturns, transferDone,
         transferReturns, Report, Fatal, Exit
<1>4. lines' \in Seq(Lines)
  <2>1. \/ UNCHANGED lines
        \/ \E kind \in {"bench_total", "sdp", "stats", "transfer_complete", "error"} :
             print(Line(kind))
    BY DEF mainStep, OpenFile, Configure, Initialize, AcceptAnswer, sessionDone,
           pathReady, pathTimeout, lateReturns, transferDone, transferReturns, Report,
           Fatal, Exit
  <2>2. QED
    BY <2>1, PrintedLines, LineIsLine DEF TypeOK
<1>5. QED
  BY <1>1, <1>2, <1>3, <1>4 DEF TypeOK

LEMMA TypeRest ==
  TypeOK /\ (preTransfer \/ sendFile \/ sendStep \/ Count \/ Settle \/ Link \/ Advance)
    => TypeOK'
<1> SUFFICES ASSUME TypeOK,
                    preTransfer \/ sendFile \/ sendStep \/ Count \/ Settle \/ Link \/ Advance
             PROVE  TypeOK'
  OBVIOUS
<1>1. UNCHANGED lines
  BY DEF preTransfer, sendFile, sendStep, sendDone, close, watchClosed, runMoves, Count,
         Settle, Link, Advance, outside
<1>2. MainOK'
  BY DEF preTransfer, sendFile, sendStep, sendDone, close, watchClosed, runMoves, Count,
         Settle, Link, Advance, outside, File!Complete, File!Discard, TypeOK, MainOK
<1>3. SessionOK'
  BY DEF preTransfer, sendFile, sendStep, sendDone, close, watchClosed, runMoves, closes,
         hangUp, hasOpened, Count, Settle, Link, Advance, outside, TypeOK, SessionOK
<1>4. ProgressOK'
  <2>1. CASE Advance
    <3>1. tick' \in BOOLEAN
      BY <2>1 DEF Advance, TypeOK, ProgressOK
    <3>2. clock' \in Nat \ {0} /\ nextTick' \in Nat
      BY <2>1, CommandAssumption DEF Advance, TypeOK, ProgressOK
    <3>3. UNCHANGED progress
      BY <2>1 DEF Advance, outside
    <3>4. QED
      BY <3>1, <3>2, <3>3, Zenon DEF TypeOK, ProgressOK
  <2>2. CASE preTransfer \/ sendFile
    <3>1. /\ emitter' = emitter \/ emitter' = "sample"
          /\ stopped' = stopped \/ stopped' = TRUE
          /\ UNCHANGED <<seen, last, time>>
      BY <2>2 DEF preTransfer, sendFile, runMoves, StartProgressEmitter, stopProgress
    <3>2. stopped' \in BOOLEAN
      BY <3>1 DEF TypeOK, ProgressOK
    <3>3. emitter' \in {"off", "sample", "emit", "select", "exited"}
      BY <3>1 DEF TypeOK, ProgressOK
    <3>4. QED
      BY <3>1, <3>2, <3>3, Zenon DEF TypeOK, ProgressOK
  <2>3. CASE sendStep \/ Count \/ Settle \/ Link
    <3>1. UNCHANGED <<progress, time>>
      BY <2>3 DEF sendStep, sendDone, close, watchClosed, runMoves, Count, Settle, Link,
                  outside
    <3>2. QED
      BY <3>1 DEF TypeOK, ProgressOK
  <2>4. QED
    BY <2>1, <2>2, <2>3
<1>5. QED
  BY <1>1, <1>2, <1>3, <1>4 DEF TypeOK

LEMMA TypeEmitter ==
  TypeOK /\ (Sample \/ Progress \/ nextSample \/ emitterDone) => TypeOK'
<1> SUFFICES ASSUME TypeOK, Sample \/ Progress \/ nextSample \/ emitterDone PROVE TypeOK'
  OBVIOUS
<1>1. CASE Sample \/ nextSample \/ emitterDone
  <2>1. UNCHANGED lines
    BY <1>1 DEF Sample, nextSample, emitterDone
  <2>2. MainOK' /\ SessionOK'
    BY <1>1 DEF Sample, nextSample, emitterDone, emitterMoves, TypeOK, MainOK, SessionOK
  <2>3. ProgressOK'
    BY <1>1 DEF Sample, nextSample, emitterDone, emitterMoves, TypeOK, MainOK, ProgressOK
  <2>4. QED
    BY <2>1, <2>2, <2>3 DEF TypeOK
<1>2. CASE Progress
  <2>1. MainOK' /\ SessionOK'
    BY <1>2 DEF Progress, emitterMoves, TypeOK, MainOK, SessionOK
  <2>2. ProgressOK'
    BY <1>2, CommandAssumption DEF Progress, emitterMoves, TypeOK, ProgressOK
  <2>3. UNCHANGED lines \/ print([Line("progress") EXCEPT !.bytes = seen])
    BY <1>2 DEF Progress
  <2>4. [Line("progress") EXCEPT !.bytes = seen] \in Lines
    BY LineIsLine DEF TypeOK, ProgressOK, Lines
  <2>5. QED
    BY <2>1, <2>2, <2>3, <2>4, PrintedLines DEF TypeOK
<1>3. QED
  BY <1>1, <1>2

LEMMA TypeStep == TypeOK /\ [Next]_vars => TypeOK'
<1>1. TypeOK /\ UNCHANGED vars => TypeOK'
  BY DEF vars, TypeOK, MainOK, SessionOK, ProgressOK
<1>2. QED
  BY <1>1, TypeMain, TypeRest, TypeEmitter DEF Next, Exited

(* The command's variables keep their types. *)
THEOREM TypeCorrect == Spec => []TypeOK
  BY TypeInit, TypeStep, PTL DEF Spec
-----------------------------------------------------------------------------
(* Control alone: who is at work when. *)
Quiet == emitter \in {"off", "exited"}

SenderFlow ==
  Sends =>
    /\ main \notin {"path", "late", "transfer", "stopping"}
    /\ main \in {"open", "configure", "initialize"} => run = "off"
    /\ endedBy = "run" => run = "ended"
    /\ main = "report" => endedBy # "none"
    /\ run \in {"moving", "stopping"} \/ (run = "pre" /\ hasOpened) =>
         main = "done" \/ endedBy = "watcher"
    /\ run \notin {"moving", "stopping"} => Quiet

ReceiverFlow ==
  ~Sends =>
    /\ run = "off" /\ watcher = "off" /\ endedBy = "none"
    /\ main \notin {"answer", "done"}
    /\ main \notin {"transfer", "stopping"} => Quiet

Flow ==
  /\ main \in {"open", "configure", "initialize", "answer"} => ~hasOpened
  /\ SenderFlow /\ ReceiverFlow

(* Nobody prints progress outside the transfer, but for the close watcher. *)
LEMMA QuietOutside ==
  ASSUME TypeOK, Flow, main \notin {"done", "transfer", "stopping"}, endedBy # "watcher"
  PROVE  Quiet
  BY DEF Flow, SenderFlow, ReceiverFlow, TypeOK, SessionOK

LEMMA MainFlows == TypeOK /\ Flow /\ (mainStep \/ pathTimeout) => Flow'
<1> SUFFICES ASSUME TypeOK, Flow, mainStep \/ pathTimeout PROVE Flow'
  OBVIOUS
<1> USE DEF mainMoves, fails, release, hangUp, hasOpened, Flow, SenderFlow, ReceiverFlow,
            Quiet, Sends
<1>1. CASE OpenFile \/ Configure \/ Report \/ Fatal \/ Exit
  BY <1>1 DEF OpenFile, Configure, Report, Fatal, Exit, TypeOK, SessionOK
<1>2. CASE Initialize
  BY <1>2 DEF Initialize, TypeOK, SessionOK
<1>3. CASE AcceptAnswer \/ sessionDone
  BY <1>3 DEF AcceptAnswer, sessionDone, TypeOK, SessionOK
<1>4. CASE pathReady \/ pathTimeout \/ lateReturns
  BY <1>4 DEF pathReady, pathTimeout, lateReturns, StartProgressEmitter, TypeOK, SessionOK
<1>5. CASE transferDone \/ transferReturns
  BY <1>5 DEF transferDone, transferReturns, progressDone, TypeOK, SessionOK
<1>6. QED
  BY <1>1, <1>2, <1>3, <1>4, <1>5 DEF mainStep

LEMMA OthersFlow ==
  ASSUME TypeOK, Flow,
         \/ preTransfer \/ sendFile \/ sendStep \/ Sample \/ Progress \/ nextSample
         \/ emitterDone \/ Count \/ Settle \/ Link \/ Advance
  PROVE  Flow'
<1> USE DEF Flow, SenderFlow, ReceiverFlow, Quiet, Sends, hasOpened
<1>1. CASE preTransfer \/ sendFile
  BY <1>1 DEF preTransfer, sendFile, runMoves, StartProgressEmitter, TypeOK, SessionOK
<1>2. CASE sendDone \/ close
  BY <1>2 DEF sendDone, close, runMoves, progressDone, closes, hangUp, TypeOK, SessionOK
<1>3. CASE watchClosed
  BY <1>3 DEF watchClosed, closes, TypeOK, SessionOK
<1>4. CASE Sample \/ Progress \/ nextSample \/ emitterDone
  BY <1>4 DEF Sample, Progress, nextSample, emitterDone, emitterMoves
<1>5. CASE Count \/ Settle \/ Advance
  BY <1>5 DEF Count, Settle, Advance, outside
<1>6. CASE Link
  BY <1>6 DEF Link, outside
<1>7. QED
  BY <1>1, <1>2, <1>3, <1>4, <1>5, <1>6 DEF sendStep

LEMMA FlowStep == TypeOK /\ Flow /\ [Next]_vars => Flow'
<1>1. Flow /\ UNCHANGED vars => Flow'
  BY DEF vars, Flow, SenderFlow, ReceiverFlow, Quiet, Sends, hasOpened
<1>2. QED
  BY <1>1, MainFlows, OthersFlow DEF Next, Exited

LEMMA FlowInit == Init => Flow
  BY DEF Init, Flow, SenderFlow, ReceiverFlow, Quiet, Sends, hasOpened
-----------------------------------------------------------------------------
(* What a step may print: nothing, a line of the main goroutine, or progress. *)
Says(kind) ==
  /\ print(Line(kind))
  /\ UNCHANGED <<command, endedBy, outcome, file, bytes, progress, time>>
  /\ \/ kind = "bench_total" /\ main = "open" /\ main' = "configure"
     \/ kind = "sdp" /\ main = "initialize" /\ main' \in {"answer", "path"}
     \/ kind \in {"stats", "transfer_complete"} /\ main = "report" /\ main' = "exiting"
     \/ kind = "error" /\ main = "fatal" /\ main' = "exiting"

MainKinds == {"bench_total", "sdp", "stats", "transfer_complete", "error"}
Shown == [Line("progress") EXCEPT !.bytes = seen]

LEMMA Printing ==
  ASSUME [Next]_vars
  PROVE  \/ UNCHANGED lines
         \/ \E kind \in MainKinds : Says(kind)
         \/ Progress /\ ~throttled /\ print(Shown)
<1>1. ASSUME mainStep, lines' # lines PROVE \E kind \in MainKinds : Says(kind)
  BY <1>1 DEF mainStep, OpenFile, Configure, Initialize, AcceptAnswer, sessionDone,
              pathReady, lateReturns, transferDone, transferReturns, Report, Fatal, Exit,
              mainMoves, fails, Says, MainKinds
<1>2. ASSUME ~mainStep, ~Progress PROVE UNCHANGED lines
  BY <1>2 DEF Next, pathTimeout, preTransfer, sendFile, sendStep, sendDone, close,
              watchClosed, runMoves, Sample, nextSample, emitterDone, Count, Settle, Link,
              Advance, outside, Exited, vars
<1>3. Progress => UNCHANGED lines \/ (~throttled /\ print(Shown))
  BY DEF Progress, Shown
<1>4. QED
  BY <1>1, <1>2, <1>3

LEMMA Appended ==
  ASSUME lines \in Seq(Lines), NEW line \in Lines, print(line)
  PROVE  /\ Len(lines) \in Nat /\ Len(lines') = Len(lines) + 1
         /\ DOMAIN lines = 1 .. Len(lines) /\ DOMAIN lines' = 1 .. Len(lines) + 1
         /\ \A i \in DOMAIN lines : lines'[i] = lines[i]
         /\ lines'[Len(lines) + 1] = line
  BY DEF print

LEMMA ShownIsLine == TypeOK => Shown \in Lines /\ Shown.kind = "progress" /\ Shown.bytes = seen
                               /\ Shown.at = clock
<1> SUFFICES ASSUME TypeOK PROVE Shown \in Lines /\ Shown.kind = "progress"
                                 /\ Shown.bytes = seen /\ Shown.at = clock
  OBVIOUS
<1>1. Shown = [kind |-> "progress", bytes |-> seen, at |-> clock]
  BY DEF Shown, Line
<1>2. QED
  BY <1>1 DEF TypeOK, ProgressOK, Lines
-----------------------------------------------------------------------------
(* The verdict ends the output. *)
VerdictInv ==
  \A i \in DOMAIN lines :
    lines[i].kind \in Verdicts =>
      main \in {"exiting", "exited"} /\ (i = Len(lines) \/ endedBy = "watcher")

LEMMA Ending ==
  ASSUME [Next]_vars
  PROVE  /\ main \in {"exiting", "exited"} => main' \in {"exiting", "exited"}
         /\ endedBy = "watcher" => endedBy' = "watcher"
  BY DEF Next, mainStep, OpenFile, Configure, Initialize, AcceptAnswer, sessionDone,
         pathReady, pathTimeout, lateReturns, transferDone, transferReturns, Report, Fatal,
         Exit, mainMoves, fails, preTransfer, sendFile, sendStep, sendDone, close,
         watchClosed, closes, runMoves, Sample, Progress, nextSample, emitterDone,
         emitterMoves, Count, Settle, Link, Advance, outside, Exited, vars

LEMMA VerdictStep == TypeOK /\ Flow /\ VerdictInv /\ [Next]_vars => VerdictInv'
<1> SUFFICES ASSUME TypeOK, Flow, VerdictInv, [Next]_vars PROVE VerdictInv'
  OBVIOUS
<1>1. CASE UNCHANGED lines
  BY <1>1, Ending DEF VerdictInv
<1>2. ASSUME NEW kind \in MainKinds, Says(kind) PROVE VerdictInv'
  <2>1. PICK line \in Lines : line = Line(kind) /\ line.kind = kind /\ print(line)
    BY <1>2, LineIsLine DEF Says, MainKinds, Line
  <2>2. main \notin {"exiting", "exited"} /\ (kind \in Verdicts => main' = "exiting")
    BY <1>2 DEF Says, Verdicts
  <2>3. \A i \in DOMAIN lines : lines[i].kind \notin Verdicts
    BY <2>2 DEF VerdictInv
  <2>4. QED
    BY <2>1, <2>2, <2>3, Appended DEF VerdictInv, TypeOK
<1>3. CASE Progress /\ ~throttled /\ print(Shown)
  <2>1. Shown \in Lines /\ Shown.kind \notin Verdicts
    BY ShownIsLine DEF Verdicts
  <2>2. main \in {"done", "transfer", "stopping"} \/ endedBy = "watcher"
    BY <1>3, QuietOutside DEF Progress, Quiet
  <2>3. UNCHANGED <<main, endedBy>>
    BY <1>3 DEF Progress, emitterMoves
  <2>4. QED
    BY <1>3, <2>1, <2>2, <2>3, Appended DEF VerdictInv, TypeOK
<1>4. QED
  BY <1>1, <1>2, <1>3, Printing

LEMMA VerdictInit == Init => VerdictInv
  BY DEF Init, VerdictInv

(* Nothing is printed behind the line that ends a command, unless the close
   watcher ended it. *)
THEOREM LastWord == Spec => []VerdictIsLast
<1>1. VerdictInv => VerdictIsLast
  BY DEF VerdictInv, VerdictIsLast
<1>2. QED
  BY <1>1, TypeInit, TypeStep, FlowInit, FlowStep, VerdictInit, VerdictStep, PTL DEF Spec
-----------------------------------------------------------------------------
(* An emitter that has got past its first sample has printed. *)
ShownInv ==
  /\ last # NoTime => \E i \in DOMAIN lines : IsProgress(i)
  /\ emitter \in {"select", "exited"} => last # NoTime

LEMMA EmitterMoves ==
  ASSUME [Next]_vars, emitter' \in {"select", "exited"}
  PROVE  emitter \in {"select", "exited"} \/ Progress
  BY DEF Next, mainStep, OpenFile, Configure, Initialize, AcceptAnswer, sessionDone,
         pathReady, pathTimeout, lateReturns, transferDone, transferReturns, Report, Fatal,
         Exit, StartProgressEmitter, preTransfer, sendFile, sendStep, sendDone, close,
         watchClosed, runMoves, Sample, nextSample, emitterDone, emitterMoves, Count,
         Settle, Link, Advance, outside, Exited, vars

LEMMA LastMoves ==
  ASSUME [Next]_vars
  PROVE  UNCHANGED last \/ (Progress /\ ~throttled /\ print(Shown) /\ last' = clock)
  BY DEF Next, mainStep, OpenFile, Configure, Initialize, AcceptAnswer, sessionDone,
         pathReady, pathTimeout, lateReturns, transferDone, transferReturns, Report, Fatal,
         Exit, preTransfer, sendFile, sendStep, sendDone, close, watchClosed, runMoves,
         Sample, Progress, Shown, nextSample, emitterDone, emitterMoves, Count, Settle,
         Link, Advance, outside, Exited, vars

(* Lines once printed stay. *)
LEMMA LinesStay ==
  ASSUME TypeOK, [Next]_vars
  PROVE  /\ DOMAIN lines \subseteq DOMAIN lines'
         /\ \A i \in DOMAIN lines : lines'[i] = lines[i]
<1>1. ASSUME NEW line \in Lines, print(line)
      PROVE  /\ DOMAIN lines \subseteq DOMAIN lines'
             /\ \A i \in DOMAIN lines : lines'[i] = lines[i]
  BY <1>1, Appended DEF TypeOK
<1>2. ASSUME NEW kind \in MainKinds, Says(kind)
      PROVE  \E line \in Lines : print(line)
  BY <1>2, LineIsLine DEF Says, MainKinds
<1>3. print(Shown) => \E line \in Lines : print(line)
  BY ShownIsLine
<1>4. QED
  BY <1>1, <1>2, <1>3, Printing

LEMMA ShownStep == TypeOK /\ ShownInv /\ [Next]_vars => ShownInv'
<1> SUFFICES ASSUME TypeOK, ShownInv, [Next]_vars PROVE ShownInv'
  OBVIOUS
<1>1. CASE Progress /\ ~throttled /\ print(Shown) /\ last' = clock
  <2>1. Len(lines) + 1 \in DOMAIN lines' /\ lines'[Len(lines) + 1].kind = "progress"
    BY <1>1, ShownIsLine, Appended DEF TypeOK
  <2>2. last' # NoTime
    BY <1>1 DEF TypeOK, ProgressOK, NoTime
  <2>3. QED
    BY <2>1, <2>2 DEF ShownInv, IsProgress
<1>2. CASE UNCHANGED last
  <2>1. last # NoTime => \E i \in DOMAIN lines' : lines'[i].kind = "progress"
    BY LinesStay DEF ShownInv, IsProgress
  <2>2. Progress => last # NoTime
    BY <1>2 DEF Progress, throttled, TypeOK, ProgressOK, NoTime
  <2>3. QED
    BY <1>2, <2>1, <2>2, EmitterMoves DEF ShownInv, IsProgress
<1>3. QED
  BY <1>1, <1>2, LastMoves

LEMMA ShownInit == Init => ShownInv
  BY DEF Init, ShownInv

(* However short the transfer, progress was printed before its success, unless the
   close watcher ended it. *)
THEOREM AlwaysShown == Spec => []EveryTransferShows
<1>1. ASSUME TypeOK, Flow, VerdictInv, ShownInv, Succeeded, emitter # "off",
             endedBy # "watcher"
      PROVE  \E i \in DOMAIN lines : IsProgress(i)
  <2>1. main \in {"exiting", "exited"}
    BY <1>1 DEF Succeeded, VerdictInv, Verdicts
  <2>2. emitter = "exited"
    BY <1>1, <2>1, QuietOutside DEF Quiet
  <2>3. QED
    BY <1>1, <2>2 DEF ShownInv
<1>2. TypeOK /\ Flow /\ VerdictInv /\ ShownInv => EveryTransferShows
  BY <1>1 DEF EveryTransferShows
<1>3. QED
  BY <1>2, TypeInit, TypeStep, FlowInit, FlowStep, VerdictInit, VerdictStep, ShownInit,
     ShownStep, PTL DEF Spec
-----------------------------------------------------------------------------
(* The counter and the clock only grow, and the emitter's sample is behind both
   the counter and every later line. *)
OrderInv ==
  /\ seen <= bytes /\ last <= clock
  /\ \A i \in DOMAIN lines :
       /\ lines[i].bytes <= bytes
       /\ emitter = "emit" => lines[i].bytes <= seen \/ endedBy = "watcher"
       /\ IsProgress(i) => last # NoTime /\ lines[i].at <= last
  /\ ProgressIsOrderly

LEMMA OrderInit == Init => OrderInv
<1> SUFFICES ASSUME Init PROVE OrderInv
  OBVIOUS
<1>1. seen = 0 /\ bytes = 0 /\ last = 0 /\ clock = 1 /\ DOMAIN lines = {}
  BY DEF Init, NoTime
<1>2. QED
  BY <1>1 DEF OrderInv, ProgressIsOrderly

(* The numbers of a step that prints nothing. *)
LEMMA SilentNumbers ==
  ASSUME TypeOK, OrderInv, [Next]_vars, UNCHANGED lines
  PROVE  /\ bytes' >= bytes /\ seen' <= bytes'
         /\ clock' >= clock /\ (last' = last \/ Progress)
         /\ emitter' = "emit" => (seen' = bytes /\ bytes' = bytes) \/ (emitter = "emit" /\ seen' = seen)
<1> USE DEF TypeOK, MainOK, ProgressOK, OrderInv
<1>1. CASE mainStep \/ pathTimeout
  BY <1>1 DEF mainStep, OpenFile, Configure, Initialize, AcceptAnswer, sessionDone,
              pathReady, pathTimeout, lateReturns, transferDone, transferReturns, Report,
              Fatal, Exit, StartProgressEmitter
<1>2. CASE preTransfer \/ sendFile \/ sendStep
  BY <1>2 DEF preTransfer, sendFile, sendStep, sendDone, close, watchClosed, runMoves,
              StartProgressEmitter
<1>3. CASE Sample \/ Progress \/ nextSample \/ emitterDone
  BY <1>3 DEF Sample, Progress, nextSample, emitterDone, emitterMoves
<1>4. CASE Count \/ Settle \/ Link \/ Advance
  BY <1>4 DEF Count, Settle, Link, Advance, outside
<1>5. CASE Exited \/ UNCHANGED vars
  BY <1>5 DEF Exited, vars
<1>6. QED
  BY <1>1, <1>2, <1>3, <1>4, <1>5 DEF Next

LEMMA OrderStep == TypeOK /\ Flow /\ OrderInv /\ [Next]_vars => OrderInv'
<1> SUFFICES ASSUME TypeOK, Flow, OrderInv, [Next]_vars PROVE OrderInv'
  OBVIOUS
<1>0. /\ seen \in Nat /\ bytes \in Nat /\ clock \in Nat /\ last \in Nat /\ MinGap \in Nat
      /\ \A i \in DOMAIN lines : lines[i].bytes \in Nat /\ lines[i].at \in Nat
      /\ seen' \in Nat /\ bytes' \in Nat /\ clock' \in Nat /\ last' \in Nat
  <2>1. TypeOK'
    BY TypeStep
  <2>2. ASSUME NEW i \in DOMAIN lines PROVE lines[i].bytes \in Nat /\ lines[i].at \in Nat
    <3>1. lines[i] \in Lines
      BY DEF TypeOK
    <3>2. QED
      BY <3>1 DEF Lines
  <2>3. QED
    BY <2>1, <2>2, CommandAssumption DEF TypeOK, MainOK, ProgressOK
<1>1. CASE UNCHANGED lines
  <2>1. last' = last
    BY <1>1, <1>0, LastMoves, ShownIsLine, Appended DEF TypeOK
  <2>2. /\ bytes' >= bytes /\ seen' <= bytes' /\ clock' >= clock
        /\ emitter' = "emit" => seen' = bytes \/ (emitter = "emit" /\ seen' = seen)
    BY <1>1, SilentNumbers
  <2>3. endedBy = "watcher" => endedBy' = "watcher"
    BY Ending
  <2>4. QED
    BY <1>0, <1>1, <2>1, <2>2, <2>3 DEF OrderInv, ProgressIsOrderly, IsProgress
<1>2. ASSUME NEW kind \in MainKinds, Says(kind) PROVE OrderInv'
  <2>1. PICK line \in Lines : /\ line.kind # "progress" /\ line.bytes = bytes /\ print(line)
                              /\ line.at = clock
    BY <1>2, LineIsLine DEF Says, MainKinds, Line
  <2>2. UNCHANGED <<endedBy, bytes, emitter, seen, last, clock>>
    BY <1>2 DEF Says
  <2>3. emitter = "emit" => endedBy = "watcher"
    BY <1>2, QuietOutside DEF Says, Quiet
  <2>4. PICK n \in Nat : /\ n = Len(lines) /\ DOMAIN lines = 1 .. n
                          /\ DOMAIN lines' = 1 .. n + 1 /\ lines'[n + 1] = line
                          /\ \A i \in 1 .. n : lines'[i] = lines[i]
    BY <2>1, Appended DEF TypeOK
  <2>5. \A i \in 1 .. n : /\ lines[i].bytes <= bytes
                          /\ lines[i].kind = "progress" => last # NoTime /\ lines[i].at <= last
    BY <2>4 DEF OrderInv, IsProgress
  <2>6. ProgressIsOrderly'
    <3>1. ASSUME NEW i \in 1 .. n + 1, NEW j \in 1 .. n + 1, i < j
          PROVE  /\ lines'[i].kind = "progress" /\ lines'[j].kind = "progress" =>
                      lines'[j].at >= lines'[i].at + MinGap
                 /\ lines'[i].bytes <= lines'[j].bytes \/ endedBy = "watcher"
      <4>1. CASE j = n + 1
        <5>1. i \in 1 .. n /\ lines'[i] = lines[i] /\ lines'[j] = line
          BY <2>4, <3>1, <4>1
        <5>2. QED
          BY <2>1, <2>5, <5>1
      <4>2. CASE j # n + 1
        BY <2>4, <3>1, <4>2 DEF OrderInv, ProgressIsOrderly, IsProgress
      <4>3. QED
        BY <4>1, <4>2
    <3>2. QED
      BY <2>2, <2>4, <3>1 DEF ProgressIsOrderly, IsProgress
  <2>7. \A i \in 1 .. n + 1 : /\ lines'[i].bytes <= bytes'
                              /\ IsProgress(i)' => last' # NoTime /\ lines'[i].at <= last'
    <3>1. ASSUME NEW i \in 1 .. n + 1
          PROVE  /\ lines'[i].bytes <= bytes
                 /\ lines'[i].kind = "progress" => last # NoTime /\ lines'[i].at <= last
      <4>1. CASE i = n + 1
        BY <1>0, <2>1, <2>4, <4>1
      <4>2. CASE i # n + 1
        BY <2>4, <2>5, <4>2
      <4>3. QED
        BY <4>1, <4>2
    <3>2. QED
      BY <2>2, <3>1 DEF IsProgress
  <2>8. seen' <= bytes' /\ last' <= clock' /\ (emitter' = "emit" => endedBy' = "watcher")
    BY <2>2, <2>3 DEF OrderInv
  <2>9. QED
    BY <2>4, <2>6, <2>7, <2>8 DEF OrderInv
<1>3. CASE Progress /\ ~throttled /\ print(Shown)
  <2>1. /\ Shown \in Lines /\ Shown.kind = "progress" /\ Shown.bytes = seen
        /\ Shown.at = clock
    BY ShownIsLine
  <2>2. /\ emitter = "emit" /\ emitter' = "select" /\ last' = clock
        /\ UNCHANGED <<endedBy, bytes, seen, clock>>
    BY <1>3 DEF Progress, emitterMoves
  <2>3. last = NoTime \/ clock >= last + MinGap
    BY <1>0, <1>3 DEF throttled
  <2>4. clock # NoTime
    BY DEF TypeOK, ProgressOK, NoTime
  <2>5. PICK n \in Nat : /\ n = Len(lines) /\ DOMAIN lines = 1 .. n
                          /\ DOMAIN lines' = 1 .. n + 1 /\ lines'[n + 1] = Shown
                          /\ \A i \in 1 .. n : lines'[i] = lines[i]
    BY <1>3, <2>1, Appended DEF TypeOK
  <2>6. \A i \in 1 .. n : /\ lines[i].bytes <= bytes
                          /\ lines[i].bytes <= seen \/ endedBy = "watcher"
                          /\ lines[i].kind = "progress" => last # NoTime /\ lines[i].at <= last
    BY <2>2, <2>5 DEF OrderInv, IsProgress
  <2>7. ProgressIsOrderly'
    <3>1. ASSUME NEW i \in 1 .. n + 1, NEW j \in 1 .. n + 1, i < j
          PROVE  /\ lines'[i].kind = "progress" /\ lines'[j].kind = "progress" =>
                      lines'[j].at >= lines'[i].at + MinGap
                 /\ lines'[i].bytes <= lines'[j].bytes \/ endedBy = "watcher"
      <4>1. CASE j = n + 1
        <5>1. i \in 1 .. n /\ lines'[i] = lines[i] /\ lines'[j] = Shown
          BY <2>5, <3>1, <4>1
        <5>2. PICK line : line = lines[i]
          OBVIOUS
        <5>3. /\ line.bytes <= seen \/ endedBy = "watcher"
              /\ line.kind = "progress" => last # NoTime /\ line.at <= last /\ line.at \in Nat
          BY <1>0, <2>5, <2>6, <5>1, <5>2
        <5>4. line.kind = "progress" => clock >= line.at + MinGap
          BY <1>0, <2>3, <5>3
        <5>5. QED
          BY <2>1, <5>1, <5>2, <5>3, <5>4
      <4>2. CASE j # n + 1
        BY <2>5, <3>1, <4>2 DEF OrderInv, ProgressIsOrderly, IsProgress
      <4>3. QED
        BY <4>1, <4>2
    <3>2. QED
      BY <2>2, <2>5, <3>1 DEF ProgressIsOrderly, IsProgress
  <2>8. \A i \in DOMAIN lines' : /\ lines'[i].bytes <= bytes'
                                 /\ IsProgress(i)' => last' # NoTime /\ lines'[i].at <= last'
    BY <1>0, <2>1, <2>2, <2>4, <2>5, <2>6 DEF OrderInv, IsProgress
  <2>9. QED
    BY <1>0, <2>2, <2>7, <2>8 DEF OrderInv, IsProgress
<1>4. QED
  BY <1>1, <1>2, <1>3, Printing

(* Progress lines keep their distance and, unless the close watcher ended the
   command, never show fewer bytes. *)
THEOREM Orderly == Spec => []ProgressIsOrderly
<1>1. OrderInv => ProgressIsOrderly
  BY DEF OrderInv
<1>2. QED
  BY <1>1, TypeInit, TypeStep, FlowInit, FlowStep, OrderInit, OrderStep, PTL DEF Spec
-----------------------------------------------------------------------------
(* A receiver reports only what it was told of the file. *)
ToldInv ==
  /\ outcome = "ok" => file = "complete"
  /\ outcome = "failed" => file = "discarded"
  /\ ~Sends /\ (main = "report" \/ Succeeded) => outcome = "ok"

LEMMA OutcomeMoves ==
  ASSUME [Next]_vars
  PROVE  /\ UNCHANGED command
         /\ \/ UNCHANGED <<outcome, file>>
            \/ File!Report \/ File!Complete \/ File!Discard
<1>1. ASSUME mainStep \/ pathTimeout
      PROVE  UNCHANGED command /\ (UNCHANGED <<outcome, file>> \/ File!Report)
  BY <1>1 DEF mainStep, OpenFile, Configure, Initialize, AcceptAnswer, sessionDone,
              pathReady, pathTimeout, lateReturns, transferDone, waitDone,
              transferReturns, Report, Fatal, Exit, mainMoves, fails
<1>2. ASSUME ~(mainStep \/ pathTimeout), ~Settle
      PROVE  UNCHANGED <<command, outcome, file>>
  BY <1>2 DEF Next, preTransfer, sendFile, sendStep, sendDone, close, watchClosed,
              runMoves, Sample, Progress, nextSample, emitterDone, emitterMoves, Count,
              Link, Advance, outside, Exited, vars
<1>3. Settle => UNCHANGED command /\ (File!Complete \/ File!Discard)
  BY DEF Settle, outside
<1>4. QED
  BY <1>1, <1>2, <1>3

LEMMA ToldStep == TypeOK /\ Flow /\ ToldInv /\ [Next]_vars => ToldInv'
<1> SUFFICES ASSUME TypeOK, Flow, ToldInv, [Next]_vars PROVE ToldInv'
  OBVIOUS
<1>1. /\ outcome' = "ok" => file' = "complete"
      /\ outcome' = "failed" => file' = "discarded"
      /\ outcome = "ok" => outcome' = "ok"
  BY OutcomeMoves DEF ToldInv, File!Report, File!Complete, File!Discard, TypeOK, MainOK
<1>2. Sends' = Sends
  BY OutcomeMoves DEF Sends
<1>3. ASSUME ~Sends, main' = "report", main # "report" PROVE outcome' = "ok"
  <2>1. transferReturns \/ sessionDone
    BY <1>3 DEF Next, mainStep, OpenFile, Configure, Initialize, AcceptAnswer,
                pathReady, pathTimeout, lateReturns, transferDone, Report, Fatal, Exit,
                mainMoves, fails, preTransfer, sendFile, sendStep, sendDone, close,
                watchClosed, runMoves, Sample, Progress, nextSample, emitterDone,
                emitterMoves, Count, Settle, Link, Advance, outside, Exited, vars
  <2>2. ~sessionDone
    BY <1>3 DEF sessionDone, Flow, ReceiverFlow
  <2>3. QED
    BY <1>3, <2>1, <2>2 DEF transferReturns, mainMoves
<1>4. ASSUME ~Sends, Succeeded' PROVE Succeeded \/ main = "report"
  <2>1. CASE UNCHANGED lines
    BY <1>4, <2>1 DEF Succeeded
  <2>2. ASSUME NEW kind \in MainKinds, Says(kind) PROVE Succeeded \/ main = "report"
    <3>1. PICK line \in Lines : line.kind = kind /\ print(line)
      BY <2>2, LineIsLine DEF Says, MainKinds, Line
    <3>2. kind \in {"stats", "transfer_complete"} => main = "report"
      BY <2>2 DEF Says
    <3>3. QED
      BY <1>4, <3>1, <3>2, Appended DEF Succeeded, TypeOK
  <2>3. CASE print(Shown)
    <3>1. Shown \in Lines /\ Shown.kind = "progress"
      BY ShownIsLine
    <3>2. QED
      BY <1>4, <2>3, <3>1, Appended DEF Succeeded, TypeOK
  <2>4. QED
    BY <2>1, <2>2, <2>3, Printing
<1>5. QED
  BY <1>1, <1>2, <1>3, <1>4 DEF ToldInv

(* The receiver's success means a complete file, its failure none. *)
THEOREM ExitTells == Spec => []ExitTellsTheFile
<1>1. Init => ToldInv
  BY DEF Init, File!Init, ToldInv, Succeeded
<1>2. TypeOK /\ ToldInv => ExitTellsTheFile
  BY DEF ToldInv, ExitTellsTheFile, TypeOK, MainOK
<1>3. QED
  BY <1>1, <1>2, TypeInit, TypeStep, FlowInit, FlowStep, ToldStep, PTL DEF Spec
=============================================================================
