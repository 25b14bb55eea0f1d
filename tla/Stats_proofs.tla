---------------------------- MODULE Stats_proofs ----------------------------
(* The stopwatch and the ring of Stats, for every capacity, window and length of
   run. *)
EXTENDS Stats, SequenceTheorems, WellFoundedInduction, TLAPS

USE DEF clock, ring, emitter

(* The ring's arithmetic stays below two turns. *)
LEMMA Turn ==
  ASSUME NEW x \in Nat, x < 2 * Capacity
  PROVE  (x % Capacity) = IF x < Capacity THEN x ELSE x - Capacity
  BY CapacityAssumption
-----------------------------------------------------------------------------
(* What Duration is made of, in each state of the stopwatch. *)
Watch ==
  /\ timeStart = 0 => timeStop = 0 /\ timePause = 0 /\ timePaused = 0 /\ active = 0
  /\ timeStart # 0 /\ timeStop = 0 =>
       active = (IF timePause = 0 THEN now ELSE timePause) - timeStart - timePaused

LEMMA ClockInit == Init => ClockOK /\ Watch
  BY DEF Init, ClockOK, Watch

LEMMA ClockStep == ClockOK /\ Watch /\ [Next]_vars => ClockOK' /\ Watch'
<1> SUFFICES ASSUME ClockOK, Watch, [Next]_vars PROVE ClockOK' /\ Watch'
  OBVIOUS
<1> USE DEF ClockOK, Watch
<1>1. CASE tick
  BY <1>1 DEF tick, running
<1>2. CASE AddBytes
  BY <1>2 DEF AddBytes
<1>3. CASE Start
  BY <1>3 DEF Start, clockOnly
<1>4. CASE Pause \/ Stop
  BY <1>4 DEF Pause, Stop, clockOnly
<1>5. CASE sampleClock \/ Sample \/ bandwidthClock \/ bandwidthBytes \/ CurrentBandwidth
             \/ UNCHANGED vars
  BY <1>5 DEF sampleClock, Sample, bandwidthClock, bandwidthBytes, CurrentBandwidth, vars
<1>6. QED
  BY <1>1, <1>2, <1>3, <1>4, <1>5 DEF Next

(* While the clock runs, Duration is the time it has run. *)
THEOREM DurationIsActive == Spec => []ActiveWhileRunning
<1>1. ClockOK /\ Watch => ActiveWhileRunning
  BY DEF ClockOK, Watch, ActiveWhileRunning, running, Duration
<1>2. QED
  BY <1>1, ClockInit, ClockStep, PTL DEF Spec

(* A Stop outside a pause freezes Duration for good. *)
THEOREM Frozen == Spec => StopFreezes
<1>1. ASSUME ClockOK, Watch, Next, timeStop # 0, timePause = 0
      PROVE  Duration' = Duration
  <2>1. UNCHANGED <<timeStart, timeStop, timePaused>>
    BY <1>1 DEF Watch, Next, tick, AddBytes, Start, Pause, Stop, clockOnly, sampleClock,
                Sample, bandwidthClock, bandwidthBytes, CurrentBandwidth
  <2>2. QED
    BY <1>1, <2>1 DEF Duration
<1>2. ClockOK /\ Watch /\ [Next]_vars
        => [timeStop # 0 /\ timePause = 0 => Duration' = Duration]_vars
  BY <1>1
<1>3. QED
  BY <1>2, ClockInit, ClockStep, PTL DEF Spec, StopFreezes
-----------------------------------------------------------------------------
(* The ring. *)
Samples == [t : Nat, bytes : Nat]
RecentOK == recent \in Seq(Samples)

(* Where the nth sample lies: behind the head, or a turn further on. *)
position(h, k, n) == IF h - k + n >= 0 THEN h - k + n ELSE h - k + n + Capacity

LEMMA Positions ==
  ASSUME NEW h \in 0 .. Capacity - 1, NEW k \in 0 .. Capacity, NEW n \in 0 .. k - 1
  PROVE  /\ ((((h - k + Capacity) % Capacity) + n) % Capacity) = position(h, k, n)
         /\ position(h, k, n) \in 0 .. Capacity - 1
<1>1. h \in Nat /\ k \in Nat /\ n \in Nat /\ h < Capacity /\ k <= Capacity /\ n < k
  BY CapacityAssumption
<1>2. PICK x \in Nat : x = h - k + Capacity /\ x < 2 * Capacity
  BY <1>1, CapacityAssumption
<1>3. PICK o : o = (x % Capacity) /\ o = IF x < Capacity THEN x ELSE x - Capacity
  BY <1>2, Turn, Zenon
<1>4. o \in Nat /\ o < Capacity
  BY <1>1, <1>2, <1>3, CapacityAssumption
<1>5. PICK y \in Nat : y = o + n /\ y < 2 * Capacity
  BY <1>1, <1>4, CapacityAssumption
<1>6. (y % Capacity) = IF y < Capacity THEN y ELSE y - Capacity
  BY <1>5, Turn, Zenon
<1>7. PICK z : z = (y % Capacity)
  OBVIOUS
<1>8. z = position(h, k, n) /\ z \in 0 .. Capacity - 1
  BY <1>1, <1>2, <1>3, <1>5, <1>6, <1>7, CapacityAssumption DEF position
<1>9. z = ((((h - k + Capacity) % Capacity) + n) % Capacity)
  BY <1>2, <1>3, <1>5, <1>7, Zenon
<1>10. QED
  BY <1>8, <1>9, Zenon

LEMMA SlotPosition ==
  ASSUME RingOK, NEW n \in 0 .. count - 1
  PROVE  /\ slot(n) = samples[position(head, count, n)]
         /\ position(head, count, n) \in 0 .. Capacity - 1
  BY Positions, Zenon DEF RingOK, slot, oldestIndex

LEMMA SlotPositionNext ==
  ASSUME RingOK', NEW n \in 0 .. count' - 1
  PROVE  slot(n)' = samples'[position(head', count', n)]
  BY Positions, Zenon DEF RingOK, slot, oldestIndex

LEMMA RingInit == Init => RingOK /\ RecentOK /\ RingIsRecent
<1> SUFFICES ASSUME Init PROVE RingOK /\ RecentOK /\ RingIsRecent
  OBVIOUS
<1>1. RingOK /\ RecentOK
  BY CapacityAssumption DEF Init, RingOK, RecentOK
<1>2. recent = <<>> /\ count = 0
  BY DEF Init
<1>3. QED
  BY <1>1, <1>2 DEF RingIsRecent

(* What Sample leaves in recent: one more, or the last Capacity. *)
LEMMA RecentMoves ==
  ASSUME RecentOK, RingOK, Len(recent) = count, NEW sample \in Samples,
         recent' = IF Len(Append(recent, sample)) > Capacity
                   THEN Tail(Append(recent, sample)) ELSE Append(recent, sample)
  PROVE  /\ recent' \in Seq(Samples)
         /\ count < Capacity =>
              /\ Len(recent') = count + 1 /\ recent'[count + 1] = sample
              /\ \A i \in 1 .. count : recent'[i] = recent[i]
         /\ count = Capacity =>
              /\ Len(recent') = Capacity /\ recent'[Capacity] = sample
              /\ \A i \in 1 .. Capacity - 1 : recent'[i] = recent[i + 1]
<1> DEFINE longer == Append(recent, sample)
<1>1. PICK k \in Nat : k = count /\ k = Len(recent) /\ k <= Capacity
  BY CapacityAssumption DEF RingOK
<1>2. /\ longer \in Seq(Samples) /\ Len(longer) = k + 1 /\ longer[k + 1] = sample
      /\ \A i \in 1 .. k : longer[i] = recent[i]
  BY <1>1 DEF RecentOK
<1>3. CASE k < Capacity
  BY <1>1, <1>2, <1>3, CapacityAssumption
<1>4. CASE k = Capacity
  <2>1. recent' = Tail(longer)
    BY <1>2, <1>4, CapacityAssumption
  <2>2. /\ Tail(longer) \in Seq(Samples) /\ Len(Tail(longer)) = k
        /\ \A i \in 1 .. k : Tail(longer)[i] = longer[i + 1]
    BY <1>2, HeadTailProperties
  <2>3. QED
    BY <1>1, <1>2, <1>4, <2>1, <2>2, CapacityAssumption
<1>5. QED
  BY <1>1, <1>3, <1>4, CapacityAssumption

LEMMA PushKeepsRing ==
  ASSUME RingOK, NEW sample \in Samples, push(sample)
  PROVE  RingOK'
<1>1. PICK y \in Nat : y = head + 1 /\ y < 2 * Capacity
  BY CapacityAssumption DEF RingOK
<1>2. (y % Capacity) = IF y < Capacity THEN y ELSE y - Capacity
  BY <1>1, Turn, Zenon
<1>3. head' \in 0 .. Capacity - 1
  BY <1>1, <1>2, CapacityAssumption DEF push, RingOK
<1>4. count' \in 0 .. Capacity
  BY CapacityAssumption DEF push, RingOK
<1>5. samples' \in [0 .. Capacity - 1 -> Samples]
  BY DEF push, RingOK, Samples
<1>6. QED
  BY <1>3, <1>4, <1>5 DEF RingOK, Samples

LEMMA SampleStep ==
  ASSUME RingOK, RecentOK, RingIsRecent, EmitterOK, ClockOK, Sample
  PROVE  RingOK' /\ RecentOK' /\ RingIsRecent'
<1>1. PICK sample \in Samples : /\ sample = [t |-> taken.now, bytes |-> nbBytes]
                                /\ push(sample)
                                /\ recent' = IF Len(Append(recent, sample)) > Capacity
                                             THEN Tail(Append(recent, sample))
                                             ELSE Append(recent, sample)
  <2>1. [t |-> taken.now, bytes |-> nbBytes] \in Samples
    BY DEF EmitterOK, ClockOK, Samples
  <2>2. QED
    BY <2>1 DEF Sample
<1>2. RingOK'
  BY <1>1, PushKeepsRing
<1>3. Len(recent) = count
  BY DEF RingIsRecent
<1>4. recent' \in Seq(Samples)
  BY <1>1, <1>3, RecentMoves
<1>5. PICK h \in Nat, k \in Nat : h = head /\ k = count /\ h < Capacity /\ k <= Capacity
  BY CapacityAssumption DEF RingOK
<1>6. head' = IF h + 1 < Capacity THEN h + 1 ELSE 0
  <2>1. PICK y \in Nat : y = h + 1 /\ y < 2 * Capacity
    BY <1>5, CapacityAssumption
  <2>2. (y % Capacity) = IF y < Capacity THEN y ELSE y - Capacity
    BY <2>1, Turn, Zenon
  <2>3. head' = (y % Capacity)
    BY <1>1, <1>5, <2>1 DEF push
  <2>4. QED
    BY <1>5, <2>1, <2>2, <2>3, CapacityAssumption
<1>7. \A x \in 0 .. Capacity - 1 : samples'[x] = IF x = h THEN sample ELSE samples[x]
  BY <1>1, <1>5 DEF push, RingOK
<1>8. \A n \in 0 .. k - 1 : recent[n + 1] = samples[position(h, k, n)]
                            /\ position(h, k, n) \in 0 .. Capacity - 1
  BY <1>5, SlotPosition DEF RingIsRecent
<1>9. \A n \in 0 .. count' - 1 : slot(n)' = samples'[position(head', count', n)]
  BY <1>2, SlotPositionNext
<1>10. CASE k < Capacity
  <2>1. count' = k + 1
    BY <1>1, <1>5, <1>10 DEF push
  <2>2. /\ Len(recent') = k + 1 /\ recent'[k + 1] = sample
        /\ \A i \in 1 .. k : recent'[i] = recent[i]
    BY <1>1, <1>3, <1>5, <1>10, RecentMoves
  <2>3. ASSUME NEW n \in 0 .. k PROVE samples'[position(head', k + 1, n)] = recent'[n + 1]
    <3>1. CASE n = k
      <4>1. position(head', k + 1, n) = h
        BY <1>5, <1>6, <1>10, <3>1, CapacityAssumption DEF position
      <4>2. QED
        BY <1>5, <1>7, <2>2, <3>1, <4>1, CapacityAssumption
    <3>2. CASE n # k
      <4>1. n \in 0 .. k - 1 /\ n + 1 \in 1 .. k
        BY <3>2
      <4>2. position(head', k + 1, n) = position(h, k, n) /\ position(h, k, n) # h
        BY <1>5, <1>6, <1>10, <4>1, CapacityAssumption DEF position
      <4>3. QED
        BY <1>7, <1>8, <2>2, <4>1, <4>2
    <3>3. QED
      BY <3>1, <3>2
  <2>4. QED
    BY <1>2, <1>4, <1>5, <1>9, <2>1, <2>2, <2>3 DEF RingIsRecent, RecentOK
<1>11. CASE k = Capacity
  <2>1. count' = k
    BY <1>1, <1>5, <1>11 DEF push
  <2>2. /\ Len(recent') = k /\ recent'[k] = sample
        /\ \A i \in 1 .. k - 1 : recent'[i] = recent[i + 1]
    BY <1>1, <1>3, <1>5, <1>11, RecentMoves
  <2>3. ASSUME NEW n \in 0 .. k - 1 PROVE samples'[position(head', k, n)] = recent'[n + 1]
    <3>1. CASE n = k - 1
      <4>1. position(head', k, n) = h
        BY <1>5, <1>6, <1>11, <3>1, CapacityAssumption DEF position
      <4>2. QED
        BY <1>5, <1>7, <2>2, <3>1, <4>1, CapacityAssumption
    <3>2. CASE n # k - 1
      <4>1. n + 1 \in 0 .. k - 1 /\ n + 1 \in 1 .. k - 1
        BY <3>2
      <4>2. position(head', k, n) = position(h, k, n + 1) /\ position(h, k, n + 1) # h
        BY <1>5, <1>6, <1>11, <4>1, CapacityAssumption DEF position
      <4>3. PICK m \in 0 .. k - 1 : m = n + 1
        BY <4>1
      <4>4. recent'[m] = recent[m + 1]
        BY <2>2, <4>1, <4>3
      <4>5. samples'[position(h, k, m)] = samples[position(h, k, m)]
        BY <1>7, <1>8, <4>2, <4>3
      <4>6. QED
        BY <1>8, <4>2, <4>3, <4>4, <4>5
    <3>3. QED
      BY <3>1, <3>2
  <2>4. QED
    BY <1>2, <1>4, <1>5, <1>9, <2>1, <2>2, <2>3 DEF RingIsRecent, RecentOK
<1>12. QED
  BY <1>5, <1>10, <1>11, CapacityAssumption
-----------------------------------------------------------------------------
(* The emitter's readings.  Retained samples are in order and behind the clock and
   the counter, and what CurrentBandwidth has read is ahead of all of them. *)
Least ==
  \A S \in SUBSET Nat : S # {} => \E x \in S : \A y \in S : x <= y

LEMMA LeastExists == Least
<1> SUFFICES ASSUME NEW S \in SUBSET Nat, S # {}
             PROVE  \E x \in S : \A y \in S : x <= y
  BY DEF Least
<1>1. PICK x \in S : \A y \in S : ~(<<y, x>> \in OpToRel(<, Nat))
  BY NatLessThanWellFounded, WFMin
<1>2. \A y \in S : ~(y < x)
  BY <1>1 DEF OpToRel
<1>3. \A y \in S : x <= y
  BY <1>2
<1>4. QED
  BY <1>3

Behind ==
  /\ \A i \in DOMAIN recent :
       /\ recent[i].t <= now /\ recent[i].bytes <= nbBytes
       /\ epc # "idle" => recent[i].t <= taken.now
       /\ epc = "counted" => recent[i].bytes <= taken.bytes
  /\ \A i, j \in DOMAIN recent : i < j => recent[i].t <= recent[j].t
  /\ epc # "idle" => taken.now <= now
  /\ timeStart <= now
  /\ epc \in {"clocked", "counted"} =>
       timeStart # 0 /\ taken.start = timeStart /\ taken.start <= taken.now
  /\ reading # noReading => timeStart # 0

\* The sample a rate starts from is the oldest of its window.
LEMMA OldestOfWindow ==
  ASSUME RingOK, RecentOK, RingIsRecent, Behind, NEW cutoff \in Int,
         NEW s \in oldestWithin(cutoff)
  PROVE  \E i \in DOMAIN recent :
           /\ s = recent[i] /\ recent[i].t >= cutoff
           /\ \A j \in DOMAIN recent : recent[j].t >= cutoff => recent[i].t <= recent[j].t
<1> DEFINE within == {n \in 0 .. count - 1 : slot(n).t >= cutoff}
           first == CHOOSE n \in within : \A k \in within : n <= k
<1>1. within # {} /\ s = slot(first)
  BY DEF oldestWithin
<1>2. within \in SUBSET Nat
  BY DEF RingOK
<1>3. first \in within /\ \A k \in within : first <= k
  BY <1>1, <1>2, LeastExists DEF Least
<1>4. /\ count \in Nat /\ DOMAIN recent = 1 .. count
      /\ \A n \in 0 .. count - 1 : slot(n) = recent[n + 1]
  BY CapacityAssumption DEF RingIsRecent, RingOK, RecentOK
<1>5. PICK f \in 0 .. count - 1 : f = first /\ slot(f).t >= cutoff
  BY <1>3
<1>6. s = recent[f + 1] /\ f + 1 \in DOMAIN recent /\ recent[f + 1].t >= cutoff
  <2>1. slot(f) = recent[f + 1]
    BY <1>4
  <2>2. s = slot(f)
    BY <1>1, <1>5, Zenon
  <2>3. f + 1 \in DOMAIN recent
    BY <1>4
  <2>4. QED
    BY <1>5, <2>1, <2>2, <2>3
<1>7. ASSUME NEW j \in DOMAIN recent, recent[j].t >= cutoff
      PROVE  recent[f + 1].t <= recent[j].t
  <2>1. j - 1 \in 0 .. count - 1 /\ slot(j - 1) = recent[j]
    BY <1>4
  <2>2. j - 1 \in within
    BY <1>7, <2>1
  <2>3. f <= j - 1
    BY <1>3, <1>5, <2>2
  <2>4. CASE f + 1 = j
    <3>1. recent[j] \in Samples
      BY DEF RecentOK
    <3>2. QED
      BY <2>4, <3>1 DEF Samples
  <2>5. CASE f + 1 < j
    BY <1>6, <2>5 DEF Behind
  <2>6. QED
    BY <1>4, <1>5, <2>1, <2>3, <2>4, <2>5
<1>8. QED
  BY <1>6, <1>7

LEMMA BehindInit == Init => EmitterOK /\ Behind /\ RateIsSane
<1> SUFFICES ASSUME Init PROVE EmitterOK /\ Behind /\ RateIsSane
  OBVIOUS
<1>1. EmitterOK
  BY DEF Init, EmitterOK, noReading
<1>2. /\ DOMAIN recent = {} /\ epc = "idle" /\ reading = noReading
      /\ timeStart = 0 /\ now = 1
  BY DEF Init
<1>3. QED
  BY <1>1, <1>2 DEF Behind, RateIsSane

Invariant ==
  ClockOK /\ Watch /\ RingOK /\ RecentOK /\ RingIsRecent /\ EmitterOK /\ Behind /\ RateIsSane

LEMMA ElementOK ==
  ASSUME RecentOK
  PROVE  \A i \in DOMAIN recent : recent[i].t \in Nat /\ recent[i].bytes \in Nat
<1> SUFFICES ASSUME NEW i \in DOMAIN recent
             PROVE  recent[i].t \in Nat /\ recent[i].bytes \in Nat
  OBVIOUS
<1>1. recent[i] \in Samples
  BY DEF RecentOK
<1>2. QED
  BY <1>1 DEF Samples

LEMMA OthersKeep ==
  ASSUME Invariant, tick \/ AddBytes \/ Start \/ Pause \/ Stop \/ UNCHANGED vars
  PROVE  EmitterOK' /\ Behind' /\ RateIsSane'
<1>1. UNCHANGED <<ring, emitter, recent>>
  BY DEF tick, AddBytes, Start, Pause, Stop, clockOnly, vars
<1>2. now' >= now /\ nbBytes' >= nbBytes /\ ClockOK'
      /\ (timeStart # 0 => timeStart' = timeStart) /\ timeStart' <= now'
  <2>1. ClockOK'
    BY ClockStep DEF Invariant, Next
  <2>2. QED
    BY <2>1 DEF Invariant, ClockOK, Behind, tick, AddBytes, Start, Pause, Stop,
                clockOnly, vars
<1>3. EmitterOK'
  BY <1>1 DEF Invariant, EmitterOK
<1>4. Behind'
  BY <1>1, <1>2, ElementOK DEF Invariant, Behind, ClockOK, EmitterOK, noReading
<1>5. RateIsSane'
  BY <1>1, <1>2 DEF Invariant, Behind, RateIsSane, noReading
<1>6. QED
  BY <1>3, <1>4, <1>5

LEMMA SampleKeeps ==
  ASSUME Invariant, sampleClock \/ Sample
  PROVE  EmitterOK' /\ Behind' /\ RateIsSane'
<1>1. EmitterOK'
  BY DEF Invariant, EmitterOK, ClockOK, sampleClock, Sample
<1>2. CASE sampleClock
  <2>1. /\ epc = "idle" /\ epc' = "timed" /\ taken'.now = now
        /\ UNCHANGED <<now, timeStart, nbBytes, reading, recent>>
    BY <1>2 DEF sampleClock, Invariant, EmitterOK
  <2>2. QED
    BY <1>1, <2>1, ElementOK DEF Invariant, Behind, RateIsSane, ClockOK, noReading
<1>3. CASE Sample
  <2>1. PICK sample \in Samples :
          /\ sample = [t |-> taken.now, bytes |-> nbBytes]
          /\ recent' = IF Len(Append(recent, sample)) > Capacity
                       THEN Tail(Append(recent, sample)) ELSE Append(recent, sample)
    BY <1>3 DEF Sample, Invariant, EmitterOK, ClockOK, Samples
  <2>2. PICK k \in Nat : k = count /\ Len(recent) = k /\ k <= Capacity /\ DOMAIN recent = 1 .. k
    BY CapacityAssumption DEF Invariant, RingOK, RingIsRecent, RecentOK
  <2>3. /\ epc = "timed" /\ epc' = "sampled"
        /\ UNCHANGED <<now, timeStart, nbBytes, reading, taken>>
    BY <1>3 DEF Sample
  <2>4. PICK m \in Nat : DOMAIN recent' = 1 .. m /\ recent'[m] = sample /\ m > 0
                         /\ \/ \A i \in 1 .. m - 1 : i \in 1 .. k /\ recent'[i] = recent[i]
                            \/ \A i \in 1 .. m - 1 : i + 1 \in 1 .. k /\ recent'[i] = recent[i + 1]
    <3>1. CASE k < Capacity
      <4>1. /\ recent' \in Seq(Samples)
            /\ Len(recent') = k + 1 /\ recent'[k + 1] = sample
            /\ \A i \in 1 .. k : recent'[i] = recent[i]
        BY <2>1, <2>2, <3>1, RecentMoves DEF Invariant
      <4>2. DOMAIN recent' = 1 .. k + 1 /\ k + 1 - 1 = k
        BY <4>1
      <4>3. QED
        BY <4>1, <4>2
    <3>2. CASE k = Capacity
      <4>1. /\ recent' \in Seq(Samples)
            /\ Len(recent') = k /\ recent'[k] = sample
            /\ \A i \in 1 .. k - 1 : recent'[i] = recent[i + 1]
        BY <2>1, <2>2, <3>2, RecentMoves DEF Invariant
      <4>2. DOMAIN recent' = 1 .. k /\ k > 0
        BY <3>2, <4>1, CapacityAssumption
      <4>3. QED
        BY <4>1, <4>2
    <3>3. QED
      BY <2>2, <3>1, <3>2, CapacityAssumption
  <2>5. /\ sample.t = taken.now /\ sample.bytes = nbBytes /\ taken.now \in Nat
        /\ taken.now <= now /\ now \in Nat /\ nbBytes \in Nat
        /\ \A i \in 1 .. k : /\ recent[i].t <= taken.now /\ recent[i].bytes <= nbBytes
                             /\ recent[i].t \in Nat
    BY <2>1, <2>2, <2>3, ElementOK DEF Invariant, Behind, EmitterOK, ClockOK
  <2>6. \A i \in 1 .. m : recent'[i].t <= taken.now /\ recent'[i].bytes <= nbBytes
                          /\ recent'[i].t \in Nat
    <3>1. ASSUME NEW i \in 1 .. m
          PROVE  recent'[i] = sample \/ \E j \in 1 .. k : recent'[i] = recent[j]
      <4>1. i = m \/ i \in 1 .. m - 1
        OBVIOUS
      <4>2. QED
        BY <2>4, <4>1
    <3>2. QED
      BY <2>5, <3>1
  <2>7. \A i, j \in 1 .. m : i < j => recent'[i].t <= recent'[j].t
    <3>1. ASSUME NEW i \in 1 .. m, NEW j \in 1 .. m, i < j
          PROVE  recent'[i].t <= recent'[j].t
      <4>1. CASE j = m
        BY <2>4, <2>5, <2>6, <4>1
      <4>2. CASE j # m
        <5>1. i \in 1 .. m - 1 /\ j \in 1 .. m - 1
          BY <3>1, <4>2
        <5>2. \A a, b \in 1 .. k : a < b => recent[a].t <= recent[b].t
          BY <2>2 DEF Invariant, Behind
        <5>3. CASE \A a \in 1 .. m - 1 : a \in 1 .. k /\ recent'[a] = recent[a]
          BY <3>1, <5>1, <5>2, <5>3
        <5>4. CASE \A a \in 1 .. m - 1 : a + 1 \in 1 .. k /\ recent'[a] = recent[a + 1]
          <6>1. i + 1 \in 1 .. k /\ j + 1 \in 1 .. k /\ i + 1 < j + 1
            BY <3>1, <5>1, <5>4
          <6>2. recent[i + 1].t <= recent[j + 1].t
            BY <5>2, <6>1
          <6>3. QED
            BY <5>1, <5>4, <6>2
        <5>5. QED
          BY <2>4, <5>3, <5>4
      <4>3. QED
        BY <4>1, <4>2
    <3>2. QED
      BY <3>1
  <2>8. Behind'
    BY <2>3, <2>4, <2>5, <2>6, <2>7 DEF Invariant, Behind, noReading
  <2>9. RateIsSane'
    BY <2>3 DEF Invariant, RateIsSane, noReading
  <2>10. QED
    BY <1>1, <2>8, <2>9
<1>4. QED
  BY <1>2, <1>3

LEMMA BandwidthKeeps ==
  ASSUME Invariant, bandwidthClock \/ bandwidthBytes
  PROVE  EmitterOK' /\ Behind' /\ RateIsSane'
<1> USE ElementOK DEF Invariant, ClockOK
<1>1. CASE bandwidthClock
  <2>1. /\ UNCHANGED <<now, timeStart, nbBytes, recent>> /\ reading' = noReading
        /\ taken'.start = timeStart /\ taken'.now = now
        /\ epc' = IF timeStart = 0 THEN "idle" ELSE "clocked"
    BY <1>1 DEF bandwidthClock, EmitterOK
  <2>2. EmitterOK'
    BY <1>1 DEF bandwidthClock, EmitterOK, noReading
  <2>3. Behind' /\ RateIsSane'
    BY <2>1 DEF Behind, RateIsSane, noReading
  <2>4. QED
    BY <2>2, <2>3
<1>2. CASE bandwidthBytes
  <2>1. /\ UNCHANGED <<now, timeStart, nbBytes, recent, reading>>
        /\ taken'.start = taken.start /\ taken'.now = taken.now /\ taken'.bytes = nbBytes
        /\ epc = "clocked" /\ epc' = "counted"
    BY <1>2 DEF bandwidthBytes, EmitterOK
  <2>2. EmitterOK'
    BY <1>2 DEF bandwidthBytes, EmitterOK
  <2>3. Behind' /\ RateIsSane'
    BY <2>1 DEF Behind, RateIsSane, noReading
  <2>4. QED
    BY <2>2, <2>3
<1>3. QED
  BY <1>1, <1>2

LEMMA RateKeeps ==
  ASSUME Invariant, CurrentBandwidth
  PROVE  EmitterOK' /\ Behind' /\ RateIsSane'
<1>1. /\ UNCHANGED <<now, timeStart, nbBytes, recent, taken>>
      /\ epc = "counted" /\ epc' = "idle"
  BY DEF CurrentBandwidth
<1>2. /\ timeStart # 0 /\ taken.start = timeStart /\ taken.start <= taken.now
      /\ taken.start \in Nat /\ taken.now \in Nat /\ taken.bytes \in Nat /\ Window \in Nat
  BY <1>1, StatsAssumption DEF Invariant, Behind, EmitterOK
<1>3. \A i \in DOMAIN recent :
        /\ recent[i].t <= taken.now /\ recent[i].bytes <= taken.bytes
        /\ recent[i].t \in Nat /\ recent[i].bytes \in Nat
  BY <1>1, ElementOK DEF Invariant, Behind
<1>4. Behind'
  BY <1>1, <1>2 DEF Invariant, Behind
<1>5. CASE reading' = noReading
  BY <1>1, <1>4, <1>5 DEF Invariant, EmitterOK, RateIsSane, noReading
<1>6. CASE taken.start >= taken.now - Window /\ reading' = interval(taken.start, 0)
  <2>1. EmitterOK'
    BY <1>1, <1>2, <1>6 DEF interval, Invariant, EmitterOK
  <2>2. RateIsSane'
    BY <1>1, <1>2, <1>6 DEF interval, RateIsSane
  <2>3. QED
    BY <1>4, <2>1, <2>2
<1>7. ASSUME NEW s \in oldestWithin(taken.now - Window), reading' = interval(s.t, s.bytes)
      PROVE  EmitterOK' /\ RateIsSane'
  <2>1. PICK cutoff \in Int : cutoff = taken.now - Window
    BY <1>2
  <2>2. s \in oldestWithin(cutoff)
    BY <1>7, <2>1
  <2>3. PICK i \in DOMAIN recent :
          /\ s = recent[i] /\ recent[i].t >= cutoff
          /\ \A j \in DOMAIN recent : recent[j].t >= cutoff => recent[i].t <= recent[j].t
    BY <2>2, OldestOfWindow DEF Invariant
  <2>4. reading' = [from |-> recent[i].t, to |-> taken.now, bytesFrom |-> recent[i].bytes,
                    bytesTo |-> taken.bytes]
    BY <1>7, <2>3 DEF interval
  <2>5. EmitterOK'
    BY <1>1, <1>2, <1>3, <2>4 DEF Invariant, EmitterOK
  <2>6. RateIsSane'
    BY <1>1, <1>2, <1>3, <2>1, <2>3, <2>4 DEF RateIsSane
  <2>7. QED
    BY <2>5, <2>6
<1>8. QED
  BY <1>4, <1>5, <1>6, <1>7 DEF CurrentBandwidth

LEMMA InvariantStep == Invariant /\ [Next]_vars => Invariant'
<1> SUFFICES ASSUME Invariant, [Next]_vars PROVE Invariant'
  OBVIOUS
<1>1. ClockOK' /\ Watch'
  BY ClockStep DEF Invariant
<1>2. RingOK' /\ RecentOK' /\ RingIsRecent'
  <2>1. CASE Sample
    BY <2>1, SampleStep DEF Invariant
  <2>2. CASE ~Sample
    <3>1. UNCHANGED <<ring, recent>>
      BY <2>2 DEF Next, tick, AddBytes, Start, Pause, Stop, clockOnly, sampleClock,
                  bandwidthClock, bandwidthBytes, CurrentBandwidth, vars
    <3>2. QED
      BY <3>1 DEF Invariant, RingOK, RecentOK, RingIsRecent, slot, oldestIndex
  <2>3. QED
    BY <2>1, <2>2
<1>3. EmitterOK' /\ Behind' /\ RateIsSane'
  BY OthersKeep, SampleKeeps, BandwidthKeeps, RateKeeps DEF Next
<1>4. QED
  BY <1>1, <1>2, <1>3 DEF Invariant

LEMMA InvariantHolds == Spec => []Invariant
<1>1. Init => Invariant
  BY ClockInit, RingInit, BehindInit DEF Invariant
<1>2. QED
  BY <1>1, InvariantStep, PTL DEF Spec

(* The variables of Stats keep their types. *)
THEOREM TypeCorrect == Spec => []TypeOK
<1>1. Invariant => TypeOK
  BY DEF Invariant, TypeOK, RecentOK, Samples
<1>2. QED
  BY <1>1, InvariantHolds, PTL

(* Through any number of wraps the ring is the last Capacity samples. *)
THEOREM RingKeepsLast == Spec => []RingIsRecent
<1>1. Invariant => RingIsRecent
  BY DEF Invariant
<1>2. QED
  BY <1>1, InvariantHolds, PTL

(* A rate is over bytes and times in order, from the oldest sample of its window,
   whatever happens between the emitter's reads. *)
THEOREM SaneRate == Spec => []RateIsSane
<1>1. Invariant => RateIsSane
  BY DEF Invariant
<1>2. QED
  BY <1>1, InvariantHolds, PTL
=============================================================================
