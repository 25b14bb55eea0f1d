------------------------------- MODULE Stats -------------------------------
(* internal/stats: the stopwatch (Start, Pause, Stop, Duration), the byte
   counter, and the ring of bandwidth samples.  A progress emitter runs
   output.Sample in a loop, Sample and then CurrentBandwidth, while other
   goroutines add bytes and stop the clock and time passes between any two reads.

   Times are integers; 0 is time.Time's zero value.  x_Flaw is x with one
   plausible mistake; no action uses it. *)
EXTENDS Integers, Sequences

CONSTANTS
  Capacity,     \* maxWindowSamples
  Window,       \* maxWindow
  MaxTime,      \* bounds on the clock and on the byte count
  MaxBytes

ASSUME CapacityAssumption == Capacity \in Nat \ {0}
ASSUME StatsAssumption == {Window, MaxTime, MaxBytes} \subseteq Nat

VARIABLES
  now,                                           \* what nowFn returns
  timeStart, timeStop, timePause, timePaused,    \* guarded by s.mu
  nbBytes,                                       \* atomic counter
  samples, head, count,                          \* bwRing, guarded by ring.mu
  epc,          \* the emitter: idle, timed, sampled, clocked, counted
  taken,        \* what it has read: start, now, bytes
  reading,      \* the interval the last rate was computed over
  recent,       \* history: the last Capacity samples, oldest first
  active        \* history: time spent running and not paused

clock == <<timeStart, timeStop, timePause, timePaused>>
ring == <<samples, head, count>>
emitter == <<epc, taken, reading>>
vars == <<now, clock, nbBytes, ring, emitter, recent, active>>

noReading == [from |-> 0, to |-> 0, bytesFrom |-> 0, bytesTo |-> 0]

Init ==
  /\ now = 1
  /\ timeStart = 0 /\ timeStop = 0 /\ timePause = 0 /\ timePaused = 0
  /\ nbBytes = 0
  /\ samples = [i \in 0 .. Capacity - 1 |-> [t |-> 0, bytes |-> 0]]
  /\ head = 0 /\ count = 0
  /\ epc = "idle" /\ taken = [start |-> 0, now |-> 0, bytes |-> 0]
  /\ reading = noReading
  /\ recent = <<>> /\ active = 0
-----------------------------------------------------------------------------
running == timeStart # 0 /\ timeStop = 0 /\ timePause = 0

tick ==
  /\ now < MaxTime
  /\ now' = now + 1
  /\ active' = IF running THEN active + 1 ELSE active
  /\ UNCHANGED <<clock, nbBytes, ring, emitter, recent>>

AddBytes ==
  /\ nbBytes < MaxBytes
  /\ nbBytes' = nbBytes + 1
  /\ UNCHANGED <<now, clock, ring, emitter, recent, active>>

clockOnly == UNCHANGED <<now, nbBytes, ring, emitter, recent, active>>

Start_Forgets ==
  /\ IF timeStart = 0 THEN timeStart' = now /\ UNCHANGED timePause
                      ELSE timePause' = 0 /\ UNCHANGED timeStart
  /\ UNCHANGED <<timePaused, timeStop>> /\ clockOnly

Start ==
  /\ IF timeStart = 0
       THEN timeStart' = now /\ UNCHANGED <<timePause, timePaused>>
       ELSE /\ timePaused' = IF timePause # 0 THEN timePaused + (now - timePause)
                                              ELSE timePaused
            /\ timePause' = 0
            /\ UNCHANGED timeStart
  /\ UNCHANGED timeStop /\ clockOnly

Pause ==
  /\ timePause' = IF timeStart # 0 /\ timeStop = 0 /\ timePause = 0 THEN now
                                                                    ELSE timePause
  /\ UNCHANGED <<timeStart, timeStop, timePaused>> /\ clockOnly

Stop ==
  /\ timeStop' = IF timeStart # 0 /\ timeStop = 0 THEN now ELSE timeStop
  /\ UNCHANGED <<timeStart, timePause, timePaused>> /\ clockOnly

Duration ==
  IF timeStart = 0 THEN 0
  ELSE (IF timeStop = 0 THEN now ELSE timeStop) - timeStart - timePaused
-----------------------------------------------------------------------------
(* Sample: the clock under s.mu, then the counter, then the push. *)
sampleClock ==
  /\ epc = "idle"
  /\ epc' = "timed" /\ taken' = [taken EXCEPT !.now = now]
  /\ UNCHANGED <<now, clock, nbBytes, ring, reading, recent, active>>

push(sample) ==
  /\ samples' = [samples EXCEPT ![head] = sample]
  /\ head' = (head + 1) % Capacity
  /\ count' = IF count < Capacity THEN count + 1 ELSE count

Sample ==
  LET sample == [t |-> taken.now, bytes |-> nbBytes]
      longer == Append(recent, sample)
  IN /\ epc = "timed"
     /\ epc' = "sampled"
     /\ push(sample)
     /\ recent' = IF Len(longer) > Capacity THEN Tail(longer) ELSE longer
     /\ UNCHANGED <<now, clock, nbBytes, taken, reading, active>>

(* CurrentBandwidth: start and the clock under s.mu, then the counter, then the
   ring under its own lock. *)
bandwidthClock ==
  /\ epc = "sampled"
  /\ epc' = IF timeStart = 0 THEN "idle" ELSE "clocked"
  /\ taken' = [taken EXCEPT !.start = timeStart, !.now = now]
  /\ reading' = noReading
  /\ UNCHANGED <<now, clock, nbBytes, ring, recent, active>>

bandwidthBytes ==
  /\ epc = "clocked"
  /\ epc' = "counted" /\ taken' = [taken EXCEPT !.bytes = nbBytes]
  /\ UNCHANGED <<now, clock, nbBytes, ring, reading, recent, active>>

oldestIndex_Unfilled == head

oldestIndex == (head - count + Capacity) % Capacity

slot(n) == samples[(oldestIndex + n) % Capacity]

oldestWithin_FromZero(cutoff) ==
  LET within == {n \in 0 .. count - 1 : samples[n].t >= cutoff}
  IN IF within = {} THEN {}
     ELSE {samples[CHOOSE n \in within : \A k \in within : n <= k]}

\* {} when no sample falls in the window.
oldestWithin(cutoff) ==
  LET within == {n \in 0 .. count - 1 : slot(n).t >= cutoff}
  IN IF within = {} THEN {}
     ELSE {slot(CHOOSE n \in within : \A k \in within : n <= k)}

interval(from, bytesFrom) ==
  [from |-> from, to |-> taken.now, bytesFrom |-> bytesFrom,
   bytesTo |-> taken.bytes]

CurrentBandwidth ==
  /\ epc = "counted"
  /\ epc' = "idle"
  /\ IF taken.start >= taken.now - Window
       THEN reading' = interval(taken.start, 0)
       ELSE \/ \E s \in oldestWithin(taken.now - Window) :
                 reading' = interval(s.t, s.bytes)
            \/ oldestWithin(taken.now - Window) = {} /\ reading' = noReading
  /\ UNCHANGED <<now, clock, nbBytes, ring, taken, recent, active>>
-----------------------------------------------------------------------------
Next ==
  \/ tick \/ AddBytes \/ Start \/ Pause \/ Stop
  \/ sampleClock \/ Sample
  \/ bandwidthClock \/ bandwidthBytes \/ CurrentBandwidth

Spec == Init /\ [][Next]_vars
-----------------------------------------------------------------------------
ClockOK ==
  /\ now \in Nat \ {0} /\ nbBytes \in Nat /\ active \in Nat
  /\ timeStart \in Nat /\ timeStop \in Nat /\ timePause \in Nat /\ timePaused \in Int

RingOK ==
  /\ samples \in [0 .. Capacity - 1 -> [t : Nat, bytes : Nat]]
  /\ head \in 0 .. Capacity - 1 /\ count \in 0 .. Capacity

EmitterOK ==
  /\ epc \in {"idle", "timed", "sampled", "clocked", "counted"}
  /\ taken \in [start : Nat, now : Nat, bytes : Nat]
  /\ reading \in [from : Nat, to : Nat, bytesFrom : Nat, bytesTo : Nat]

TypeOK == ClockOK /\ RingOK /\ EmitterOK /\ recent \in Seq([t : Nat, bytes : Nat])

(* Read oldest first, the ring is the last Capacity samples pushed, through any
   number of wraps. *)
RingIsRecent ==
  /\ Len(recent) = count
  /\ \A n \in 0 .. count - 1 : slot(n) = recent[n + 1]

(* A rate is over an interval of the past no longer than Window, bytesNow never
   runs behind the bytes it subtracts (they are uint64), and no retained sample
   of the window is older than the one it starts from. *)
RateIsSane ==
  reading # noReading =>
    /\ reading.to - Window <= reading.from /\ reading.from <= reading.to
    /\ reading.bytesFrom <= reading.bytesTo
    /\ epc = "idle" /\ reading.from # timeStart =>
         \A i \in DOMAIN recent :
           recent[i].t >= reading.to - Window => reading.from <= recent[i].t

(* While the clock runs, Duration is the time it has run, every earlier pause
   left out. *)
ActiveWhileRunning == running => Duration = active

(* A Stop that did not fall into a pause freezes Duration for good, however often
   Start, Pause and Stop are called again. *)
StopFreezes == [][timeStop # 0 /\ timePause = 0 => Duration' = Duration]_vars
=============================================================================
