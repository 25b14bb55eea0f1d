------------------------------ MODULE Channel ------------------------------
(* One direction of a session.Channel pair (internal/session/channel.go): the
   writer's SendData and Flush over pion's buffer, and the reader's OnFrames
   loop, detached or on OnMessage callbacks, with the goroutines it starts.

   Frames are numbered in the order they are sent and counted where they are:
   accepted by Send, acknowledged by the peer's SCTP, taken by the reader.  pion
   is external: it calls OnBufferedAmountLow once for every time BufferedAmount
   falls to the threshold, on a goroutine of its own.

   SinglePC and MultiPC use these operations by their effect; the signal, the
   guard and the error channel are here.  x_Flaw is x with one plausible
   mistake; no action uses it. *)
EXTENDS Integers

CONSTANTS
  Callers,      \* goroutines that call OnFrames on this Channel
  Threshold,    \* bufferThreshold, in frames
  Frames,       \* bound on the frames sent
  Modes         \* values of Channel.detached

ASSUME ChannelAssumption ==
  /\ Threshold \in Nat /\ Frames \in Nat /\ Modes \subseteq BOOLEAN

VARIABLES
  wpc,          \* the writer: idle, check, full, wait, flush, gone
  sendSig,      \* sendSig holds its one token
  lowCalls,     \* calls of OnBufferedAmountLow under way
  cancelled,    \* the writer's context
  sent, acked, taken,
  dc,           \* new, open, closing, lost
  closed,       \* the reader's Channel.closed
  detached,
  framesGuard,
  loop,         \* each OnFrames call: off, opening, reading, dispatching, waiting, returned
  returned,     \* what it returned
  watcher,      \* the goroutine of runDetached that watches ctx
  rwcClosed,
  callback,     \* the OnMessage callback: none, idle, dispatching
  errCh,        \* runOnMessage's error channel: 0 or the frame that failed
  ctxDone,      \* the reader's context
  failed,       \* history: the first frame the handler refused, or 0
  reported      \* history: the frame whose error OnFrames returned, or 0

writer == <<wpc, sendSig, cancelled, sent>>
pion == <<lowCalls, acked, dc>>
reader == <<taken, closed, detached, framesGuard, loop, returned, watcher,
            rwcClosed, callback, errCh, ctxDone, failed, reported>>
vars == <<writer, pion, reader>>

BufferedAmount == sent - acked
unread == acked - taken

Init ==
  /\ wpc = "idle" /\ sendSig = FALSE /\ lowCalls = 0 /\ cancelled = FALSE
  /\ sent = 0 /\ acked = 0 /\ taken = 0
  /\ dc = "new" /\ closed = FALSE /\ detached \in Modes
  /\ framesGuard = FALSE
  /\ loop = [k \in Callers |-> "off"] /\ returned = [k \in Callers |-> "none"]
  /\ watcher = "off" /\ rwcClosed = FALSE /\ callback = "none"
  /\ errCh = 0 /\ ctxDone = FALSE /\ failed = 0 /\ reported = 0
-----------------------------------------------------------------------------
(* The writer. *)
writerMoves(to) == wpc' = to /\ UNCHANGED <<cancelled, pion, reader>>

SendData ==
  /\ wpc = "idle" /\ sent < Frames
  /\ \/ dc = "open" /\ sent' = sent + 1 /\ writerMoves("check")
     \/ dc \in {"closing", "lost"} /\ writerMoves("gone") /\ UNCHANGED sent
  /\ UNCHANGED sendSig

checkBuffer ==
  /\ wpc = "check"
  /\ writerMoves(IF BufferedAmount > Threshold THEN "full" ELSE "idle")
  /\ UNCHANGED <<sendSig, sent>>

block == wpc = "full" /\ writerMoves("wait") /\ UNCHANGED <<sendSig, sent>>

\* Returns after the first signal without another look at the buffer.
signalled_Once ==
  /\ wpc = "wait" /\ sendSig
  /\ sendSig' = FALSE
  /\ writerMoves("idle") /\ UNCHANGED sent

signalled ==
  /\ wpc = "wait" /\ sendSig
  /\ sendSig' = FALSE
  /\ writerMoves("check") /\ UNCHANGED sent

pollExpires == wpc = "wait" /\ writerMoves("check") /\ UNCHANGED <<sendSig, sent>>

sendCancelled ==
  wpc = "wait" /\ cancelled /\ writerMoves("gone") /\ UNCHANGED <<sendSig, sent>>

Flush ==
  /\ \/ wpc = "idle" /\ sent > 0 /\ writerMoves("flush")
     \/ wpc = "flush" /\ writerMoves("gone")     \* drained, or at the deadline
  /\ UNCHANGED <<sendSig, sent>>

cancelSend ==
  /\ ~cancelled /\ cancelled' = TRUE
  /\ UNCHANGED <<wpc, sendSig, sent, pion, reader>>

\* A signal nobody keeps: it is lost unless SendData is already waiting.
OnBufferedAmountLow_Unbuffered ==
  /\ lowCalls > 0 /\ lowCalls' = lowCalls - 1
  /\ sendSig' = (sendSig \/ wpc = "wait")
  /\ UNCHANGED <<wpc, cancelled, sent, acked, dc, reader>>

OnBufferedAmountLow ==
  /\ lowCalls > 0 /\ lowCalls' = lowCalls - 1
  /\ sendSig' = TRUE
  /\ UNCHANGED <<wpc, cancelled, sent, acked, dc, reader>>
-----------------------------------------------------------------------------
(* pion and the network. *)
opens == dc = "new" /\ dc' = "open" /\ UNCHANGED <<writer, lowCalls, acked, reader>>

ack ==
  /\ dc \in {"open", "closing"} /\ acked < sent
  /\ acked' = acked + 1
  /\ lowCalls' = IF BufferedAmount = Threshold + 1 THEN lowCalls + 1 ELSE lowCalls
  /\ UNCHANGED <<writer, dc, reader>>

Close ==
  /\ dc = "open" /\ dc' = "closing"
  /\ UNCHANGED <<writer, lowCalls, acked, reader>>

lose ==
  /\ dc \in {"open", "closing"}
  /\ dc' = "lost" /\ UNCHANGED <<writer, lowCalls, acked, reader>>

hungUp == dc = "lost" \/ (dc = "closing" /\ acked = sent)

OnClose ==
  /\ hungUp /\ unread = 0 /\ ~closed
  /\ closed' = TRUE
  /\ UNCHANGED <<writer, pion, taken, detached, framesGuard, loop, returned,
                 watcher, rwcClosed, callback, errCh, ctxDone, failed, reported>>
-----------------------------------------------------------------------------
(* OnFrames. *)
readerMoves(k, to) ==
  /\ loop' = [loop EXCEPT ![k] = to]
  /\ UNCHANGED <<writer, pion, closed, detached, ctxDone>>

returns(k, what) ==
  returned' = [returned EXCEPT ![k] = what] /\ readerMoves(k, "returned")

\* The guard is looked at without being taken.
OnFrames_LoadOnly(k) ==
  /\ loop[k] = "off" /\ detached
  /\ readerMoves(k, "opening")
  /\ UNCHANGED <<taken, framesGuard, returned, watcher, rwcClosed, callback, errCh,
                 failed, reported>>

OnFrames(k) ==
  /\ loop[k] = "off"
  /\ IF framesGuard
       THEN returns(k, "already running") /\ UNCHANGED <<framesGuard, callback>>
       ELSE /\ framesGuard' = TRUE
            /\ callback' = IF detached THEN callback ELSE "idle"
            /\ readerMoves(k, IF detached THEN "opening" ELSE "waiting")
            /\ UNCHANGED returned
  /\ UNCHANGED <<taken, watcher, rwcClosed, errCh, failed, reported>>

awaitOpen(k) ==
  /\ loop[k] = "opening"
  /\ \/ /\ dc # "new"                    \* Open fired, and stays so
        /\ readerMoves(k, "reading") /\ watcher' = "watching"
        /\ UNCHANGED returned
     \/ /\ \/ dc # "new" /\ returns(k, "detach")
           \/ closed /\ returns(k, "nil")
           \/ ctxDone /\ returns(k, "ctx")
        /\ UNCHANGED watcher
  /\ UNCHANGED <<taken, framesGuard, rwcClosed, callback, errCh, failed, reported>>

watchCtx_Missing == FALSE /\ UNCHANGED vars

watchCtx ==
  /\ watcher = "watching" /\ ctxDone
  /\ watcher' = "gone" /\ rwcClosed' = TRUE
  /\ UNCHANGED <<writer, pion, taken, closed, detached, framesGuard, loop,
                 returned, callback, errCh, ctxDone, failed, reported>>

readFrame(k) ==
  /\ loop[k] = "reading" /\ unread > 0
  /\ taken' = taken + 1
  /\ readerMoves(k, "dispatching")
  /\ UNCHANGED <<framesGuard, returned, watcher, rwcClosed, callback, errCh, failed, reported>>

dispatch(k) ==
  /\ loop[k] = "dispatching"
  /\ \/ readerMoves(k, "reading") /\ UNCHANGED <<returned, watcher, failed, reported>>
     \/ /\ failed' = taken /\ reported' = taken
        /\ returns(k, "handler") /\ watcher' = "gone"
  /\ UNCHANGED <<taken, framesGuard, rwcClosed, callback, errCh>>

readEnds(k) ==
  /\ loop[k] = "reading" /\ (rwcClosed \/ (hungUp /\ unread = 0))
  /\ \/ ctxDone /\ returns(k, "ctx")
     \/ ~ctxDone /\ (returns(k, "nil") \/ returns(k, "read"))
  /\ watcher' = "gone"
  /\ UNCHANGED <<taken, framesGuard, rwcClosed, callback, errCh, failed, reported>>

(* The callback goes on being called after runOnMessage has returned; a message
   that comes before it is registered is dropped. *)
OnMessage ==
  /\ ~detached /\ unread > 0 /\ callback # "dispatching"
  /\ taken' = taken + 1
  /\ callback' = IF callback = "none" THEN "none" ELSE "dispatching"
  /\ UNCHANGED <<writer, pion, closed, detached, framesGuard, loop, returned,
                 watcher, rwcClosed, errCh, ctxDone, failed, reported>>

callbackMoves ==
  /\ callback = "dispatching" /\ callback' = "idle"
  /\ UNCHANGED <<writer, pion, taken, closed, detached, framesGuard, loop,
                 returned, watcher, rwcClosed, ctxDone, reported>>

\* A later error replaces the one waiting in errCh.
callbackReturns_Latest ==
  /\ callbackMoves
  /\ \/ UNCHANGED <<errCh, failed>>
     \/ errCh' = taken /\ failed' = IF failed = 0 THEN taken ELSE failed

callbackReturns ==
  /\ callbackMoves
  /\ \/ UNCHANGED <<errCh, failed>>
     \/ /\ errCh' = IF errCh = 0 THEN taken ELSE errCh
        /\ failed' = IF failed = 0 THEN taken ELSE failed

awaitEnd(k) ==
  /\ loop[k] = "waiting"
  /\ \/ errCh # 0 /\ errCh' = 0 /\ reported' = errCh /\ returns(k, "handler")
     \/ closed /\ returns(k, "nil") /\ UNCHANGED <<errCh, reported>>
     \/ ctxDone /\ returns(k, "ctx") /\ UNCHANGED <<errCh, reported>>
  /\ UNCHANGED <<taken, framesGuard, watcher, rwcClosed, callback, failed>>

cancelReader ==
  /\ ~ctxDone /\ ctxDone' = TRUE
  /\ UNCHANGED <<writer, pion, taken, closed, detached, framesGuard, loop,
                 returned, watcher, rwcClosed, callback, errCh, failed, reported>>
-----------------------------------------------------------------------------
reading(k) == awaitOpen(k) \/ readFrame(k) \/ dispatch(k) \/ readEnds(k) \/ awaitEnd(k)

Next ==
  \/ SendData \/ checkBuffer \/ block \/ signalled \/ pollExpires \/ sendCancelled
  \/ Flush \/ cancelSend \/ OnBufferedAmountLow
  \/ opens \/ ack \/ Close \/ lose \/ OnClose
  \/ \E k \in Callers : OnFrames(k) \/ reading(k)
  \/ watchCtx \/ OnMessage \/ callbackReturns \/ cancelReader

Spec == Init /\ [][Next]_vars

(* Goroutines that can run do and the network acknowledges.  The poll that
   SendData falls back on is left out: it is not needed. *)
Fairness ==
  /\ WF_vars(checkBuffer) /\ WF_vars(block) /\ WF_vars(signalled)
  /\ WF_vars(sendCancelled)
  /\ WF_vars(OnBufferedAmountLow) /\ WF_vars(ack) /\ WF_vars(OnClose)
  /\ \A k \in Callers : WF_vars(reading(k))
  /\ WF_vars(watchCtx) /\ WF_vars(OnMessage) /\ WF_vars(callbackReturns)

FairSpec == Spec /\ Fairness
-----------------------------------------------------------------------------
Counts ==
  /\ lowCalls \in Nat
  /\ sent \in Nat /\ acked \in Nat /\ taken \in Nat
  /\ taken <= acked /\ acked <= sent /\ sent <= Frames
  /\ errCh \in 0 .. taken /\ failed \in 0 .. taken /\ reported \in 0 .. taken

Flags ==
  /\ sendSig \in BOOLEAN /\ cancelled \in BOOLEAN /\ closed \in BOOLEAN
  /\ detached \in BOOLEAN /\ framesGuard \in BOOLEAN
  /\ rwcClosed \in BOOLEAN /\ ctxDone \in BOOLEAN

Phases ==
  /\ wpc \in {"idle", "check", "full", "wait", "flush", "gone"}
  /\ dc \in {"new", "open", "closing", "lost"}
  /\ watcher \in {"off", "watching", "gone"}
  /\ callback \in {"none", "idle", "dispatching"}

Calls ==
  /\ loop \in [Callers -> {"off", "opening", "reading", "dispatching", "waiting",
                            "returned"}]
  /\ returned \in [Callers -> {"none", "nil", "ctx", "handler", "read", "detach",
                                "already running"}]

TypeOK == Counts /\ Flags /\ Phases /\ Calls

(* Whatever stale tokens sendSig holds, one writer never has more than one frame
   beyond the threshold in pion's buffer: this is what bounds the sender's
   memory. *)
BufferBounded == BufferedAmount <= Threshold + 1

(* A data channel has one reader: two OnFrames calls never both run. *)
running(k) == loop[k] \notin {"off", "returned"}

OneLoop == \A j, k \in Callers : running(j) /\ running(k) => j = k

(* The error OnFrames returns is that of the first frame its handler refused,
   although callbacks go on after it, and a detached loop takes no frame after
   one that was refused. *)
FirstErrorWins ==
  /\ reported # 0 => reported = failed
  /\ detached /\ failed # 0 => taken = failed

(* The one-token signal loses no wake-up: SendData returns without ever polling
   as long as the link lives, whatever the order of Send, the acknowledgement
   that crosses the threshold, its callback, and the look at the buffer. *)
NoLostWakeup == wpc = "check" ~> wpc \in {"idle", "gone"} \/ dc = "lost"

(* OnFrames returns once its context is cancelled or the channel is gone, also
   when it sits in a Read that nothing else would end. *)
LoopEnds ==
  \A k \in Callers :
    loop[k] # "off" /\ (ctxDone \/ hungUp) ~> loop[k] = "returned"
=============================================================================
