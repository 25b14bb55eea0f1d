--------------------------- MODULE Channel_proofs ---------------------------
(* Theorems about Channel, for any threshold, any number of frames and of
   OnFrames callers, and both reading modes.

   The invariant says what each property leans on: SendData returns only from a
   look at the buffer that found it low enough (Room); nobody runs a loop
   without the guard (Guarded); a detached channel has no callback (ByMode); and
   a runOnMessage that has not returned still has its first error, if there is
   one, in errCh (Pending). *)
EXTENDS Channel, TLAPS

Room ==
  /\ BufferedAmount <= Threshold + 1
  /\ wpc = "idle" => BufferedAmount <= Threshold

Guarded ==
  /\ \A k \in Callers : running(k) => framesGuard
  /\ failed # 0 => framesGuard
  /\ callback # "none" => framesGuard
  /\ OneLoop

ByMode ==
  /\ detached => callback = "none" /\ errCh = 0
  /\ \A k \in Callers :
       /\ loop[k] = "waiting" => ~detached
       /\ loop[k] \in {"opening", "reading", "dispatching"} => detached

Pending ==
  /\ \A k \in Callers :
       running(k) => /\ reported = 0
                     /\ detached => failed = 0
                     /\ ~detached => errCh = failed
  /\ ~framesGuard => reported = 0 /\ errCh = 0
  /\ FirstErrorWins

IInv == TypeOK /\ Room /\ Guarded /\ ByMode /\ Pending

WriterActs ==
  \/ SendData \/ checkBuffer \/ block \/ signalled \/ pollExpires
  \/ sendCancelled \/ Flush \/ cancelSend \/ OnBufferedAmountLow
  \/ opens \/ ack \/ Close \/ lose

ReaderActs ==
  \/ OnClose \/ watchCtx \/ OnMessage \/ callbackReturns \/ cancelReader
  \/ \E k \in Callers : OnFrames(k) \/ reading(k)

USE DEF writer, pion, reader
-----------------------------------------------------------------------------
LEMMA InitHolds == Init => IInv
<1> SUFFICES ASSUME Init PROVE IInv
  OBVIOUS
<1>1. Counts /\ Room
  BY ChannelAssumption DEF Init, Counts, Room, BufferedAmount
<1>2. Flags /\ Phases /\ Calls
  BY ChannelAssumption DEF Init, Flags, Phases, Calls
<1>3. Guarded /\ ByMode /\ Pending
  BY DEF Init, Guarded, ByMode, Pending, OneLoop, FirstErrorWins, running
<1>4. QED
  BY <1>1, <1>2, <1>3 DEF IInv, TypeOK

(* Each process leaves the other's variables alone. *)
LEMMA WriterKeepsReader == ASSUME WriterActs PROVE UNCHANGED reader
<1>1. CASE SendData
  BY <1>1 DEF SendData, writerMoves
<1>2. CASE checkBuffer
  BY <1>2 DEF checkBuffer, writerMoves
<1>3. CASE block
  BY <1>3 DEF block, writerMoves
<1>4. CASE signalled
  BY <1>4 DEF signalled, writerMoves
<1>5. CASE pollExpires
  BY <1>5 DEF pollExpires, writerMoves
<1>6. CASE sendCancelled
  BY <1>6 DEF sendCancelled, writerMoves
<1>7. CASE Flush
  BY <1>7 DEF Flush, writerMoves
<1>8. CASE cancelSend
  BY <1>8 DEF cancelSend
<1>9. CASE OnBufferedAmountLow
  BY <1>9 DEF OnBufferedAmountLow
<1>10. CASE opens
  BY <1>10 DEF opens
<1>11. CASE ack
  BY <1>11 DEF ack
<1>12. CASE Close
  BY <1>12 DEF Close
<1>13. CASE lose
  BY <1>13 DEF lose
<1>14. QED
  BY <1>1, <1>2, <1>3, <1>4, <1>5, <1>6, <1>7, <1>8, <1>9, <1>10, <1>11,
     <1>12, <1>13 DEF WriterActs

LEMMA ReaderKeepsWriter == ASSUME ReaderActs PROVE UNCHANGED <<writer, pion>>
<1>1. CASE OnClose
  BY <1>1 DEF OnClose
<1>2. CASE watchCtx
  BY <1>2 DEF watchCtx
<1>3. CASE OnMessage
  BY <1>3 DEF OnMessage
<1>4. CASE callbackReturns
  BY <1>4 DEF callbackReturns, callbackMoves
<1>5. CASE cancelReader
  BY <1>5 DEF cancelReader
<1>6. ASSUME NEW k \in Callers, OnFrames(k) PROVE UNCHANGED <<writer, pion>>
  BY <1>6 DEF OnFrames, readerMoves, returns
<1>7. ASSUME NEW k \in Callers, awaitOpen(k) PROVE UNCHANGED <<writer, pion>>
  BY <1>7 DEF awaitOpen, readerMoves, returns
<1>8. ASSUME NEW k \in Callers, readFrame(k) PROVE UNCHANGED <<writer, pion>>
  BY <1>8 DEF readFrame, readerMoves
<1>9. ASSUME NEW k \in Callers, dispatch(k) PROVE UNCHANGED <<writer, pion>>
  BY <1>9 DEF dispatch, readerMoves, returns
<1>10. ASSUME NEW k \in Callers, readEnds(k) PROVE UNCHANGED <<writer, pion>>
  BY <1>10 DEF readEnds, readerMoves, returns
<1>11. ASSUME NEW k \in Callers, awaitEnd(k) PROVE UNCHANGED <<writer, pion>>
  BY <1>11 DEF awaitEnd, readerMoves, returns
<1>12. QED
  BY <1>1, <1>2, <1>3, <1>4, <1>5, <1>6, <1>7, <1>8, <1>9, <1>10, <1>11 DEF
     ReaderActs, reading

(* Types. *)
LEMMA WriterCounts ==
  ASSUME Counts, WriterActs
  PROVE  Counts'
<1>1. CASE SendData
  BY <1>1, ChannelAssumption DEF SendData, writerMoves, Counts, unread, BufferedAmount
<1>2. CASE checkBuffer
  BY <1>2, ChannelAssumption DEF checkBuffer, writerMoves, Counts, unread, BufferedAmount
<1>3. CASE block
  BY <1>3, ChannelAssumption DEF block, writerMoves, Counts, unread, BufferedAmount
<1>4. CASE signalled
  BY <1>4, ChannelAssumption DEF signalled, writerMoves, Counts, unread, BufferedAmount
<1>5. CASE pollExpires
  BY <1>5, ChannelAssumption DEF pollExpires, writerMoves, Counts, unread, BufferedAmount
<1>6. CASE sendCancelled
  BY <1>6, ChannelAssumption DEF sendCancelled, writerMoves, Counts, unread, BufferedAmount
<1>7. CASE Flush
  BY <1>7, ChannelAssumption DEF Flush, writerMoves, Counts, unread, BufferedAmount
<1>8. CASE cancelSend
  BY <1>8, ChannelAssumption DEF cancelSend, Counts, unread, BufferedAmount
<1>9. CASE OnBufferedAmountLow
  BY <1>9, ChannelAssumption DEF OnBufferedAmountLow, Counts, unread, BufferedAmount
<1>10. CASE opens
  BY <1>10, ChannelAssumption DEF opens, Counts, unread, BufferedAmount
<1>11. CASE ack
  BY <1>11, ChannelAssumption DEF ack, Counts, unread, BufferedAmount
<1>12. CASE Close
  BY <1>12, ChannelAssumption DEF Close, Counts, unread, BufferedAmount
<1>13. CASE lose
  BY <1>13, ChannelAssumption DEF lose, Counts, unread, BufferedAmount
<1>14. QED
  BY <1>1, <1>2, <1>3, <1>4, <1>5, <1>6, <1>7, <1>8, <1>9, <1>10, <1>11,
     <1>12, <1>13 DEF WriterActs

LEMMA WriterFlags ==
  ASSUME Flags, WriterActs
  PROVE  Flags'
<1>1. CASE SendData
  BY <1>1 DEF SendData, writerMoves, Flags
<1>2. CASE checkBuffer
  BY <1>2 DEF checkBuffer, writerMoves, Flags
<1>3. CASE block
  BY <1>3 DEF block, writerMoves, Flags
<1>4. CASE signalled
  BY <1>4 DEF signalled, writerMoves, Flags
<1>5. CASE pollExpires
  BY <1>5 DEF pollExpires, writerMoves, Flags
<1>6. CASE sendCancelled
  BY <1>6 DEF sendCancelled, writerMoves, Flags
<1>7. CASE Flush
  BY <1>7 DEF Flush, writerMoves, Flags
<1>8. CASE cancelSend
  BY <1>8 DEF cancelSend, Flags
<1>9. CASE OnBufferedAmountLow
  BY <1>9 DEF OnBufferedAmountLow, Flags
<1>10. CASE opens
  BY <1>10 DEF opens, Flags
<1>11. CASE ack
  BY <1>11 DEF ack, Flags
<1>12. CASE Close
  BY <1>12 DEF Close, Flags
<1>13. CASE lose
  BY <1>13 DEF lose, Flags
<1>14. QED
  BY <1>1, <1>2, <1>3, <1>4, <1>5, <1>6, <1>7, <1>8, <1>9, <1>10, <1>11,
     <1>12, <1>13 DEF WriterActs

LEMMA ReaderCounts ==
  ASSUME Counts, ReaderActs
  PROVE  Counts'
<1>1. CASE OnClose
  BY <1>1, ChannelAssumption DEF OnClose, Counts, unread, BufferedAmount
<1>2. CASE watchCtx
  BY <1>2, ChannelAssumption DEF watchCtx, Counts, unread, BufferedAmount
<1>3. CASE OnMessage
  BY <1>3, ChannelAssumption DEF OnMessage, Counts, unread, BufferedAmount
<1>4. CASE callbackReturns
  BY <1>4, ChannelAssumption DEF callbackReturns, callbackMoves, Counts, unread, BufferedAmount
<1>5. CASE cancelReader
  BY <1>5, ChannelAssumption DEF cancelReader, Counts, unread, BufferedAmount
<1>6. ASSUME NEW k \in Callers, OnFrames(k) PROVE Counts'
  BY <1>6, ChannelAssumption DEF OnFrames, readerMoves, returns, Counts, unread, BufferedAmount
<1>7. ASSUME NEW k \in Callers, awaitOpen(k) PROVE Counts'
  BY <1>7, ChannelAssumption DEF awaitOpen, readerMoves, returns, Counts, unread, BufferedAmount
<1>8. ASSUME NEW k \in Callers, readFrame(k) PROVE Counts'
  BY <1>8, ChannelAssumption DEF readFrame, readerMoves, Counts, unread, BufferedAmount
<1>9. ASSUME NEW k \in Callers, dispatch(k) PROVE Counts'
  BY <1>9, ChannelAssumption DEF dispatch, readerMoves, returns, Counts, unread, BufferedAmount
<1>10. ASSUME NEW k \in Callers, readEnds(k) PROVE Counts'
  BY <1>10, ChannelAssumption DEF readEnds, readerMoves, returns, Counts, unread, BufferedAmount
<1>11. ASSUME NEW k \in Callers, awaitEnd(k) PROVE Counts'
  BY <1>11, ChannelAssumption DEF awaitEnd, readerMoves, returns, Counts, unread, BufferedAmount
<1>12. QED
  BY <1>1, <1>2, <1>3, <1>4, <1>5, <1>6, <1>7, <1>8, <1>9, <1>10, <1>11 DEF
     ReaderActs, reading

LEMMA ReaderFlags ==
  ASSUME Flags, ReaderActs
  PROVE  Flags'
<1>1. CASE OnClose
  BY <1>1 DEF OnClose, Flags
<1>2. CASE watchCtx
  BY <1>2 DEF watchCtx, Flags
<1>3. CASE OnMessage
  BY <1>3 DEF OnMessage, Flags
<1>4. CASE callbackReturns
  BY <1>4 DEF callbackReturns, callbackMoves, Flags
<1>5. CASE cancelReader
  BY <1>5 DEF cancelReader, Flags
<1>6. ASSUME NEW k \in Callers, OnFrames(k) PROVE Flags'
  BY <1>6 DEF OnFrames, readerMoves, returns, Flags
<1>7. ASSUME NEW k \in Callers, awaitOpen(k) PROVE Flags'
  BY <1>7 DEF awaitOpen, readerMoves, returns, Flags
<1>8. ASSUME NEW k \in Callers, readFrame(k) PROVE Flags'
  BY <1>8 DEF readFrame, readerMoves, Flags
<1>9. ASSUME NEW k \in Callers, dispatch(k) PROVE Flags'
  BY <1>9 DEF dispatch, readerMoves, returns, Flags
<1>10. ASSUME NEW k \in Callers, readEnds(k) PROVE Flags'
  BY <1>10 DEF readEnds, readerMoves, returns, Flags
<1>11. ASSUME NEW k \in Callers, awaitEnd(k) PROVE Flags'
  BY <1>11 DEF awaitEnd, readerMoves, returns, Flags
<1>12. QED
  BY <1>1, <1>2, <1>3, <1>4, <1>5, <1>6, <1>7, <1>8, <1>9, <1>10, <1>11 DEF
     ReaderActs, reading

LEMMA PhasesAndCalls == ASSUME Phases, Calls, Next PROVE Phases' /\ Calls'
<1>1. Phases'
  BY ZenonT(30) DEF Phases, Next, reading,
         SendData, checkBuffer, block, signalled, pollExpires, sendCancelled,
         Flush, cancelSend, OnBufferedAmountLow, opens, ack, Close, lose,
         OnClose, watchCtx, OnMessage, callbackReturns, cancelReader,
         OnFrames, awaitOpen, readFrame, dispatch, readEnds, awaitEnd,
         writerMoves, readerMoves, returns, callbackMoves
<1>2. Calls'
  BY ZenonT(30) DEF Calls, Next, reading,
         SendData, checkBuffer, block, signalled, pollExpires, sendCancelled,
         Flush, cancelSend, OnBufferedAmountLow, opens, ack, Close, lose,
         OnClose, watchCtx, OnMessage, callbackReturns, cancelReader,
         OnFrames, awaitOpen, readFrame, dispatch, readEnds, awaitEnd,
         writerMoves, readerMoves, returns, callbackMoves
<1>3. QED
  BY <1>1, <1>2

(* No writer step leaves more than one frame too many in the buffer. *)
LEMMA RoomKept ==
  ASSUME Counts, Room, WriterActs
  PROVE  Room'
<1>1. CASE SendData
  BY <1>1, ChannelAssumption DEF SendData, writerMoves, Counts, Room, BufferedAmount
<1>2. CASE checkBuffer
  BY <1>2, ChannelAssumption DEF checkBuffer, writerMoves, Counts, Room, BufferedAmount
<1>3. CASE block
  BY <1>3, ChannelAssumption DEF block, writerMoves, Counts, Room, BufferedAmount
<1>4. CASE signalled
  BY <1>4, ChannelAssumption DEF signalled, writerMoves, Counts, Room, BufferedAmount
<1>5. CASE pollExpires
  BY <1>5, ChannelAssumption DEF pollExpires, writerMoves, Counts, Room, BufferedAmount
<1>6. CASE sendCancelled
  BY <1>6, ChannelAssumption DEF sendCancelled, writerMoves, Counts, Room, BufferedAmount
<1>7. CASE Flush
  BY <1>7, ChannelAssumption DEF Flush, writerMoves, Counts, Room, BufferedAmount
<1>8. CASE cancelSend
  BY <1>8, ChannelAssumption DEF cancelSend, Counts, Room, BufferedAmount
<1>9. CASE OnBufferedAmountLow
  BY <1>9, ChannelAssumption DEF OnBufferedAmountLow, Counts, Room, BufferedAmount
<1>10. CASE opens
  BY <1>10, ChannelAssumption DEF opens, Counts, Room, BufferedAmount
<1>11. CASE ack
  BY <1>11, ChannelAssumption DEF ack, Counts, Room, BufferedAmount
<1>12. CASE Close
  BY <1>12, ChannelAssumption DEF Close, Counts, Room, BufferedAmount
<1>13. CASE lose
  BY <1>13, ChannelAssumption DEF lose, Counts, Room, BufferedAmount
<1>14. QED
  BY <1>1, <1>2, <1>3, <1>4, <1>5, <1>6, <1>7, <1>8, <1>9, <1>10, <1>11,
     <1>12, <1>13 DEF WriterActs

(* Only the caller that takes the guard runs a loop. *)
LEMMA GuardedKept ==
  ASSUME Calls, Guarded, ByMode, ReaderActs
  PROVE  Guarded'
<1>1. CASE OnClose
  BY <1>1 DEF OnClose, Calls, Guarded, ByMode, OneLoop, running
<1>2. CASE watchCtx
  BY <1>2 DEF watchCtx, Calls, Guarded, ByMode, OneLoop, running
<1>3. CASE OnMessage
  BY <1>3 DEF OnMessage, Calls, Guarded, ByMode, OneLoop, running
<1>4. CASE callbackReturns
  BY <1>4 DEF callbackReturns, callbackMoves, Calls, Guarded, ByMode, OneLoop, running
<1>5. CASE cancelReader
  BY <1>5 DEF cancelReader, Calls, Guarded, ByMode, OneLoop, running
<1>6. ASSUME NEW k \in Callers, OnFrames(k) PROVE Guarded'
  BY <1>6, ZenonT(30) DEF OnFrames, readerMoves, returns, Calls, Guarded, ByMode, OneLoop, running
<1>7. ASSUME NEW k \in Callers, awaitOpen(k) PROVE Guarded'
  BY <1>7 DEF awaitOpen, readerMoves, returns, Calls, Guarded, ByMode, OneLoop, running
<1>8. ASSUME NEW k \in Callers, readFrame(k) PROVE Guarded'
  BY <1>8 DEF readFrame, readerMoves, Calls, Guarded, ByMode, OneLoop, running
<1>9. ASSUME NEW k \in Callers, dispatch(k) PROVE Guarded'
  BY <1>9 DEF dispatch, readerMoves, returns, Calls, Guarded, ByMode, OneLoop, running
<1>10. ASSUME NEW k \in Callers, readEnds(k) PROVE Guarded'
  BY <1>10 DEF readEnds, readerMoves, returns, Calls, Guarded, ByMode, OneLoop, running
<1>11. ASSUME NEW k \in Callers, awaitEnd(k) PROVE Guarded'
  BY <1>11 DEF awaitEnd, readerMoves, returns, Calls, Guarded, ByMode, OneLoop, running
<1>12. QED
  BY <1>1, <1>2, <1>3, <1>4, <1>5, <1>6, <1>7, <1>8, <1>9, <1>10, <1>11 DEF
     ReaderActs, reading

LEMMA LoopMoves ==
  ASSUME Calls, ByMode, NEW k \in Callers, NEW to \in {"returned", "reading"},
         to = "reading" => detached, loop' = [loop EXCEPT ![k] = to],
         detached' = detached, callback' = callback, errCh' \in {0, errCh}
  PROVE  ByMode'
BY DEF Calls, ByMode

(* The two modes never mix. *)
LEMMA ByModeKept ==
  ASSUME Calls, ByMode, ReaderActs
  PROVE  ByMode'
<1>1. CASE OnClose
  BY <1>1 DEF OnClose, Calls, ByMode
<1>2. CASE watchCtx
  BY <1>2 DEF watchCtx, Calls, ByMode
<1>3. CASE OnMessage
  BY <1>3 DEF OnMessage, Calls, ByMode
<1>4. CASE callbackReturns
  BY <1>4 DEF callbackReturns, callbackMoves, Calls, ByMode
<1>5. CASE cancelReader
  BY <1>5 DEF cancelReader, Calls, ByMode
<1>6. ASSUME NEW k \in Callers, OnFrames(k) PROVE ByMode'
  BY <1>6 DEF OnFrames, readerMoves, returns, Calls, ByMode
<1>7. ASSUME NEW k \in Callers, awaitOpen(k) PROVE ByMode'
  <2>1. /\ detached /\ detached' = detached /\ callback' = callback
        /\ errCh' \in {0, errCh}
    BY <1>7 DEF awaitOpen, returns, readerMoves, ByMode
  <2>2. \/ loop' = [loop EXCEPT ![k] = "reading"]
        \/ loop' = [loop EXCEPT ![k] = "returned"]
    BY <1>7 DEF awaitOpen, returns, readerMoves
  <2>3. QED
    BY <2>1, <2>2, LoopMoves
<1>8. ASSUME NEW k \in Callers, readFrame(k) PROVE ByMode'
  BY <1>8 DEF readFrame, readerMoves, Calls, ByMode
<1>9. ASSUME NEW k \in Callers, dispatch(k) PROVE ByMode'
  <2>1. /\ detached /\ detached' = detached /\ callback' = callback
        /\ errCh' \in {0, errCh}
    BY <1>9 DEF dispatch, returns, readerMoves, ByMode
  <2>2. \/ loop' = [loop EXCEPT ![k] = "reading"]
        \/ loop' = [loop EXCEPT ![k] = "returned"]
    BY <1>9 DEF dispatch, returns, readerMoves
  <2>3. QED
    BY <2>1, <2>2, LoopMoves
<1>10. ASSUME NEW k \in Callers, readEnds(k) PROVE ByMode'
  <2>1. /\ loop' = [loop EXCEPT ![k] = "returned"]
        /\ detached' = detached /\ callback' = callback /\ errCh' \in {0, errCh}
    BY <1>10 DEF readEnds, returns, readerMoves
  <2>2. QED
    BY <2>1, LoopMoves
<1>11. ASSUME NEW k \in Callers, awaitEnd(k) PROVE ByMode'
  <2>1. /\ loop' = [loop EXCEPT ![k] = "returned"]
        /\ detached' = detached /\ callback' = callback /\ errCh' \in {0, errCh}
    BY <1>11 DEF awaitEnd, returns, readerMoves
  <2>2. QED
    BY <2>1, LoopMoves
<1>12. QED
  BY <1>1, <1>2, <1>3, <1>4, <1>5, <1>6, <1>7, <1>8, <1>9, <1>10, <1>11 DEF
     ReaderActs, reading

(* The error that runOnMessage will return is the first. *)
LEMMA PendingKept ==
  ASSUME Calls, Counts, Guarded, ByMode, Pending, ReaderActs
  PROVE  Pending'
<1>1. CASE OnClose
  BY <1>1, ChannelAssumption DEF OnClose, Calls, Counts, Guarded, ByMode, OneLoop, running, FirstErrorWins, Pending
<1>2. CASE watchCtx
  BY <1>2, ChannelAssumption DEF watchCtx, Calls, Counts, Guarded, ByMode, OneLoop, running, FirstErrorWins, Pending
<1>3. CASE OnMessage
  BY <1>3, ChannelAssumption DEF OnMessage, Calls, Counts, Guarded, ByMode, OneLoop, running, FirstErrorWins, Pending
<1>4. CASE callbackReturns
  BY <1>4, ChannelAssumption DEF callbackReturns, callbackMoves, Calls, Counts, Guarded, ByMode, OneLoop, running, FirstErrorWins, Pending
<1>5. CASE cancelReader
  BY <1>5, ChannelAssumption DEF cancelReader, Calls, Counts, Guarded, ByMode, OneLoop, running, FirstErrorWins, Pending
<1>6. ASSUME NEW k \in Callers, OnFrames(k) PROVE Pending'
  BY <1>6, ChannelAssumption DEF OnFrames, readerMoves, returns, Calls, Counts, Guarded, ByMode, OneLoop, running, FirstErrorWins, Pending
<1>7. ASSUME NEW k \in Callers, awaitOpen(k) PROVE Pending'
  BY <1>7, ChannelAssumption DEF awaitOpen, readerMoves, returns, Calls, Counts, Guarded, ByMode, OneLoop, running, FirstErrorWins, Pending
<1>8. ASSUME NEW k \in Callers, readFrame(k) PROVE Pending'
  BY <1>8, ChannelAssumption DEF readFrame, readerMoves, Calls, Counts, Guarded, ByMode, OneLoop, running, FirstErrorWins, Pending
<1>9. ASSUME NEW k \in Callers, dispatch(k) PROVE Pending'
  BY <1>9, ChannelAssumption DEF dispatch, readerMoves, returns, Calls, Counts, Guarded, ByMode, OneLoop, running, FirstErrorWins, Pending
<1>10. ASSUME NEW k \in Callers, readEnds(k) PROVE Pending'
  BY <1>10, ChannelAssumption DEF readEnds, readerMoves, returns, Calls, Counts, Guarded, ByMode, OneLoop, running, FirstErrorWins, Pending
<1>11. ASSUME NEW k \in Callers, awaitEnd(k) PROVE Pending'
  <2>1. /\ running(k) /\ framesGuard /\ ~detached
        /\ errCh = failed /\ reported = 0
    BY <1>11 DEF awaitEnd, running, Guarded, ByMode, Pending
  <2>2. /\ loop' = [loop EXCEPT ![k] = "returned"] /\ failed' = failed
        /\ detached' = detached /\ framesGuard' = framesGuard
    BY <1>11 DEF awaitEnd, returns, readerMoves
  <2>3. reported' \in {0, failed}
    BY <1>11, <2>1 DEF awaitEnd
  <2>4. \A j \in Callers : ~running(j)'
    BY <2>1, <2>2 DEF Calls, Guarded, OneLoop, running
  <2>5. QED
    BY <2>1, <2>2, <2>3, <2>4 DEF Pending, FirstErrorWins
<1>12. QED
  BY <1>1, <1>2, <1>3, <1>4, <1>5, <1>6, <1>7, <1>8, <1>9, <1>10, <1>11 DEF
     ReaderActs, reading

LEMMA ReaderUntouched ==
  ASSUME Guarded, ByMode, Pending, UNCHANGED reader
  PROVE  Guarded' /\ ByMode' /\ Pending'
BY DEF Guarded, ByMode, Pending, OneLoop, running, FirstErrorWins
-----------------------------------------------------------------------------
(* The variables keep their types and the invariant holds, whatever the number
   of frames and of callers. *)
THEOREM Safety == Spec => []IInv
<1>1. ASSUME IInv, WriterActs PROVE IInv'
  <2>1. Counts' /\ Flags' /\ Room'
    BY <1>1, WriterCounts, WriterFlags, RoomKept DEF IInv, TypeOK
  <2>2. Phases' /\ Calls'
    BY <1>1, PhasesAndCalls DEF IInv, TypeOK, Next, WriterActs
  <2>3. Guarded' /\ ByMode' /\ Pending'
    BY <1>1, WriterKeepsReader, ReaderUntouched DEF IInv
  <2>4. QED
    BY <2>1, <2>2, <2>3 DEF IInv, TypeOK
<1>2. ASSUME IInv, ReaderActs PROVE IInv'
  <2>1. Counts' /\ Flags'
    BY <1>2, ReaderCounts, ReaderFlags DEF IInv, TypeOK
  <2>2. Phases' /\ Calls'
    BY <1>2, PhasesAndCalls DEF IInv, TypeOK, Next, ReaderActs
  <2>3. Guarded' /\ ByMode' /\ Pending'
    BY <1>2, GuardedKept, ByModeKept, PendingKept DEF IInv, TypeOK
  <2>4. Room'
    BY <1>2, ReaderKeepsWriter DEF IInv, Room, BufferedAmount
  <2>5. QED
    BY <2>1, <2>2, <2>3, <2>4 DEF IInv, TypeOK
<1>3. ASSUME IInv, UNCHANGED vars PROVE IInv'
  <2>1. UNCHANGED <<writer, pion, reader>>
    BY <1>3 DEF vars
  <2>2. Counts' /\ Room'
    BY <1>3, <2>1 DEF IInv, TypeOK, Counts, Room, BufferedAmount, writer, pion, reader
  <2>3. Flags'
    BY <1>3, <2>1 DEF IInv, TypeOK, Flags, writer, pion, reader
  <2>4. Phases' /\ Calls'
    BY <1>3, <2>1 DEF IInv, TypeOK, Phases, Calls, writer, pion, reader
  <2>5. Guarded' /\ ByMode' /\ Pending'
    BY <1>3, <2>1, ReaderUntouched DEF IInv
  <2>6. QED
    BY <2>2, <2>3, <2>4, <2>5 DEF IInv, TypeOK
<1>4. IInv /\ [Next]_vars => IInv'
  BY <1>1, <1>2, <1>3 DEF Next, WriterActs, ReaderActs
<1>5. QED
  BY InitHolds, <1>4, PTL DEF Spec

(* The wrapper's counters, flags and goroutines stay what they are: no frame is
   acknowledged twice or read before it was sent, for any callers and frames. *)
THEOREM TypeCorrect == Spec => []TypeOK
<1>1. IInv => TypeOK
  BY DEF IInv
<1>2. QED
  BY Safety, <1>1, PTL

(* Whatever stale tokens sendSig holds, SendData never lets more than one frame
   beyond the threshold into pion's buffer. *)
THEOREM BoundedBuffer == Spec => []BufferBounded
<1>1. IInv => BufferBounded
  BY DEF IInv, Room, BufferBounded
<1>2. QED
  BY Safety, <1>1, PTL

(* framesGuard admits one OnFrames loop per Channel, for ever. *)
THEOREM SingleReader == Spec => []OneLoop
<1>1. IInv => OneLoop
  BY DEF IInv, Guarded
<1>2. QED
  BY Safety, <1>1, PTL

(* OnFrames returns the error of the first frame its handler refused, although
   the OnMessage callback goes on; a detached loop stops at that frame. *)
THEOREM FirstError == Spec => []FirstErrorWins
<1>1. IInv => FirstErrorWins
  BY DEF IInv, Pending
<1>2. QED
  BY Safety, <1>1, PTL
=============================================================================
