--------------------------- MODULE Receive_proofs ---------------------------
(* Theorems about the frames and about the endpoint that receives them.

   First what internal/protocol promises of its frames, for every field value: a
   handler is called with what was encoded, whatever the encoder's reused buffer
   held, and the frames with a fixed or announced length are refused when cut
   short anywhere.

   Then the safety properties of Receive, for every set of peers and messages and
   every label of the first channel. *)
EXTENDS Receive, SequenceTheorems, TLAPS

-----------------------------------------------------------------------------
(* Big-endian numbers: the bytes of a word, and the words of a number. *)
b1(n) == (n \div 256) % 256
b0(n) == n % 256

LEMMA WordBytes ==
  ASSUME NEW n \in Nat
  PROVE  b1(n) \in Byte /\ b0(n) \in Byte /\ b1(n) * 256 + b0(n) = n % 65536
  BY DEF Byte, b1, b0

LEMMA HighLow ==
  ASSUME NEW n \in Nat
  PROVE  High(n) \in Nat /\ High(n) * 65536 + (n % 65536) = n
  BY DEF High

LEMMA SmallWord == ASSUME NEW n \in Nat, n < 65536 PROVE n % 65536 = n
  OBVIOUS

LEMMA PutWordIs ==
  ASSUME NEW n \in Nat
  PROVE  /\ PutWord(n) \in Bytes /\ Len(PutWord(n)) = 2
         /\ PutWord(n)[1] = b1(n) /\ PutWord(n)[2] = b0(n)
<1>1. PutWord(n) = <<b1(n), b0(n)>>
  BY DEF PutWord, b1, b0
<1>2. <<b1(n), b0(n)>> \in Seq(Byte)
  BY WordBytes
<1>3. QED
  BY <1>1, <1>2 DEF Bytes

(* r is s followed by t. *)
IsJoin(r, s, t) ==
  /\ r \in Bytes /\ Len(r) = Len(s) + Len(t)
  /\ \A i \in 1 .. Len(s) : r[i] = s[i]
  /\ \A i \in 1 .. Len(t) : r[Len(s) + i] = t[i]

LEMMA Joined ==
  ASSUME NEW s \in Bytes, NEW t \in Bytes PROVE IsJoin(s \o t, s, t)
<1>1. /\ s \o t \in Seq(Byte) /\ Len(s \o t) = Len(s) + Len(t)
      /\ \A i \in 1 .. Len(s) + Len(t) :
           (s \o t)[i] = IF i <= Len(s) THEN s[i] ELSE t[i - Len(s)]
  BY ConcatProperties DEF Bytes
<1>2. Len(s) \in Nat /\ Len(t) \in Nat
  BY LenProperties DEF Bytes
<1>3. ASSUME NEW i \in 1 .. Len(t) PROVE (s \o t)[Len(s) + i] = t[i]
  <2>1. Len(s) + i \in 1 .. Len(s) + Len(t) /\ ~(Len(s) + i <= Len(s))
        /\ (Len(s) + i) - Len(s) = i
    BY <1>2
  <2>2. QED
    BY <1>1, <2>1
<1>4. ASSUME NEW i \in 1 .. Len(s) PROVE (s \o t)[i] = s[i]
  BY <1>1, <1>2
<1>5. QED
  BY <1>1, <1>3, <1>4, Zenon DEF Bytes, IsJoin

(* r is s, of length l, followed by the word n. *)
Ends(r, s, l, n) ==
  /\ r \in Bytes /\ Len(r) = l + 2
  /\ \A i \in 1 .. l : r[i] = s[i]
  /\ r[l + 1] = b1(n) /\ r[l + 2] = b0(n)

LEMMA JoinWord ==
  ASSUME NEW s \in Bytes, NEW l \in Nat, Len(s) = l, NEW n \in Nat
  PROVE  Ends(s \o PutWord(n), s, l, n)
<1>1. /\ PutWord(n) \in Bytes /\ Len(PutWord(n)) = 2
      /\ PutWord(n)[1] = b1(n) /\ PutWord(n)[2] = b0(n)
  BY PutWordIs
<1>2. PICK r : r = s \o PutWord(n)
  OBVIOUS
<1>3. /\ r \in Bytes /\ Len(r) = Len(s) + Len(PutWord(n))
      /\ \A i \in 1 .. Len(s) : r[i] = s[i]
      /\ \A i \in 1 .. Len(PutWord(n)) : r[Len(s) + i] = PutWord(n)[i]
  BY <1>1, <1>2, Joined, Zenon DEF IsJoin
<1>4. r[l + 1] = b1(n) /\ r[l + 2] = b0(n)
  <2>1. 1 \in 1 .. Len(PutWord(n)) /\ 2 \in 1 .. Len(PutWord(n))
    BY <1>1
  <2>2. r[Len(s) + 1] = PutWord(n)[1] /\ r[Len(s) + 2] = PutWord(n)[2]
    BY <1>3, <2>1, Zenon
  <2>3. QED
    BY <1>1, <2>2, Zenon
<1>5. Len(r) = l + 2 /\ \A i \in 1 .. l : r[i] = s[i]
  BY <1>1, <1>3
<1>6. QED
  BY <1>2, <1>3, <1>4, <1>5, Zenon DEF Ends

LEMMA PutUint32Is ==
  ASSUME NEW n \in Nat, NEW h, h = High(n)
  PROVE  /\ PutUint32(n) \in Bytes /\ Len(PutUint32(n)) = 4
         /\ PutUint32(n)[1] = b1(h) /\ PutUint32(n)[2] = b0(h)
         /\ PutUint32(n)[3] = b1(n) /\ PutUint32(n)[4] = b0(n)
<1>1. h \in Nat
  BY HighLow
<1>2. PICK w : w = PutWord(h)
  OBVIOUS
<1>3. PICK r : r = w \o PutWord(n)
  OBVIOUS
<1>4. PutUint32(n) = r
  BY <1>2, <1>3 DEF PutUint32
<1>5. w \in Bytes /\ Len(w) = 2 /\ w[1] = b1(h) /\ w[2] = b0(h)
  BY <1>1, <1>2, PutWordIs
<1>6. Ends(r, w, 2, n)
  BY <1>3, <1>5, 2 \in Nat, JoinWord, Zenon
<1>7. QED
  BY <1>4, <1>5, <1>6 DEF Ends

LEMMA PutUint64Is ==
  ASSUME NEW n \in Nat, NEW h1, NEW h2, NEW h3,
         h1 = High(n), h2 = High(h1), h3 = High(h2)
  PROVE  /\ PutUint64(n) \in Bytes /\ Len(PutUint64(n)) = 8
         /\ PutUint64(n)[1] = b1(h3) /\ PutUint64(n)[2] = b0(h3)
         /\ PutUint64(n)[3] = b1(h2) /\ PutUint64(n)[4] = b0(h2)
         /\ PutUint64(n)[5] = b1(h1) /\ PutUint64(n)[6] = b0(h1)
         /\ PutUint64(n)[7] = b1(n) /\ PutUint64(n)[8] = b0(n)
<1>1. h1 \in Nat /\ h2 \in Nat /\ h3 \in Nat
  <2>1. h1 \in Nat
    BY HighLow
  <2>2. h2 \in Nat
    BY <2>1, HighLow
  <2>3. QED
    BY <2>1, <2>2, HighLow
<1>2. PICK w : w = PutWord(h3)
  OBVIOUS
<1>3. PICK p : p = w \o PutWord(h2)
  OBVIOUS
<1>4. PICK q : q = p \o PutWord(h1)
  OBVIOUS
<1>5. PICK r : r = q \o PutWord(n)
  OBVIOUS
<1>6. PutUint64(n) = r
  BY <1>2, <1>3, <1>4, <1>5 DEF PutUint64
<1>7. w \in Bytes /\ Len(w) = 2 /\ w[1] = b1(h3) /\ w[2] = b0(h3)
  BY <1>1, <1>2, PutWordIs
<1>8. Ends(p, w, 2, h2)
  BY <1>1, <1>3, <1>7, 2 \in Nat, JoinWord, Zenon
<1>9. p \in Bytes /\ Len(p) = 4
  BY <1>8 DEF Ends
<1>10. Ends(q, p, 4, h1)
  BY <1>1, <1>4, <1>9, 4 \in Nat, JoinWord, Zenon
<1>11. q \in Bytes /\ Len(q) = 6
  BY <1>10 DEF Ends
<1>12. Ends(r, q, 6, n)
  BY <1>5, <1>11, 6 \in Nat, JoinWord, Zenon
<1>13. QED
  BY <1>6, <1>7, <1>8, <1>10, <1>12 DEF Ends

LEMMA Uint32Inverse == ASSUME NEW n, IsUint32(n) PROVE Uint32(PutUint32(n)) = n
<1> DEFINE h == High(n)
<1>1. n \in Nat /\ h \in Nat /\ h < 65536 /\ h * 65536 + (n % 65536) = n
  BY HighLow DEF IsUint32
<1>2. b1(h) * 256 + b0(h) = h /\ b1(n) * 256 + b0(n) = n % 65536
  <2> HIDE DEF h
  <2>1. QED
    BY <1>1, WordBytes, SmallWord
<1>3. Uint32(PutUint32(n)) = (b1(h) * 256 + b0(h)) * 65536 + (b1(n) * 256 + b0(n))
  BY <1>1, PutUint32Is DEF Uint32, Word
<1>4. QED
  BY <1>1, <1>2, <1>3

LEMMA Uint64Inverse == ASSUME NEW n, IsUint64(n) PROVE Uint64(PutUint64(n)) = n
<1>1. PICK h1 : h1 = High(n)
  OBVIOUS
<1>2. PICK h2 : h2 = High(h1)
  OBVIOUS
<1>3. PICK h3 : h3 = High(h2)
  OBVIOUS
<1>4. /\ n \in Nat /\ h1 \in Nat /\ h2 \in Nat /\ h3 \in Nat /\ h3 < 65536
      /\ h3 * 65536 + (h2 % 65536) = h2
      /\ h2 * 65536 + (h1 % 65536) = h1
      /\ h1 * 65536 + (n % 65536) = n
  <2>1. n \in Nat /\ h3 < 65536
    BY <1>1, <1>2, <1>3 DEF IsUint64
  <2>2. h1 \in Nat /\ h1 * 65536 + (n % 65536) = n
    BY <1>1, <2>1, HighLow
  <2>3. h2 \in Nat /\ h2 * 65536 + (h1 % 65536) = h1
    BY <1>2, <2>2, HighLow
  <2>4. h3 \in Nat /\ h3 * 65536 + (h2 % 65536) = h2
    BY <1>3, <2>3, HighLow
  <2>5. QED
    BY <2>1, <2>2, <2>3, <2>4
<1>5. /\ b1(h3) * 256 + b0(h3) = h3
      /\ b1(h2) * 256 + b0(h2) = h2 % 65536
      /\ b1(h1) * 256 + b0(h1) = h1 % 65536
      /\ b1(n) * 256 + b0(n) = n % 65536
  BY <1>4, WordBytes, SmallWord
<1>6. Uint64(PutUint64(n))
        = (((b1(h3) * 256 + b0(h3)) * 65536 + (b1(h2) * 256 + b0(h2))) * 65536
             + (b1(h1) * 256 + b0(h1))) * 65536 + (b1(n) * 256 + b0(n))
  BY <1>1, <1>2, <1>3, <1>4, PutUint64Is DEF Uint64, Word
<1>7. QED
  BY <1>4, <1>5, <1>6
-----------------------------------------------------------------------------
(* Messages: a byte sequence is read back from where it was put. *)
LEMMA Cut ==
  ASSUME NEW s, NEW k \in Int, NEW n \in Int, \A i \in k .. n : s[i] \in Byte
  PROVE  /\ SubSeq(s, k, n) \in Seq(Byte)
         /\ Len(SubSeq(s, k, n)) = IF k <= n THEN n - k + 1 ELSE 0
         /\ \A i \in 1 .. n - k + 1 : SubSeq(s, k, n)[i] = s[k + i - 1]
  BY SubSeqProperties

LEMMA Slice ==
  ASSUME NEW s \in Bytes, NEW t \in Bytes, NEW m \in Nat, NEW n \in Nat,
         n = m + Len(t), n <= Len(s), \A i \in 1 .. Len(t) : s[m + i] = t[i]
  PROVE  SubSeq(s, m + 1, n) = t
<1>1. Len(t) \in Nat /\ Len(s) \in Nat
  BY LenProperties DEF Bytes
<1>2. \A i \in m + 1 .. n : s[i] \in Byte
  BY <1>1, LenProperties DEF Bytes
<1>3. PICK u : u = SubSeq(s, m + 1, n)
  OBVIOUS
<1>4. /\ u \in Seq(Byte)
      /\ Len(u) = IF m + 1 <= n THEN n - (m + 1) + 1 ELSE 0
      /\ \A i \in 1 .. n - (m + 1) + 1 : u[i] = s[(m + 1) + i - 1]
  <2>1. PICK k : k = m + 1
    OBVIOUS
  <2>2. k \in Int /\ n \in Int /\ \A i \in k .. n : s[i] \in Byte
    BY <1>2, <2>1
  <2>3. /\ SubSeq(s, k, n) \in Seq(Byte)
        /\ Len(SubSeq(s, k, n)) = IF k <= n THEN n - k + 1 ELSE 0
        /\ \A i \in 1 .. n - k + 1 : SubSeq(s, k, n)[i] = s[k + i - 1]
    BY <2>2, Cut
  <2>4. QED
    BY <1>3, <2>1, <2>3, Zenon
<1>5. Len(u) = Len(t)
  BY <1>1, <1>4
<1>6. ASSUME NEW i \in 1 .. Len(u) PROVE u[i] = t[i]
  <2>1. i \in 1 .. n - (m + 1) + 1 /\ (m + 1) + i - 1 = m + i /\ i \in 1 .. Len(t)
    BY <1>1, <1>5
  <2>2. u[i] = s[(m + 1) + i - 1]
    BY <1>4, <2>1
  <2>3. QED
    BY <2>1, <2>2
<1>7. QED
  BY <1>3, <1>4, <1>5, <1>6, SeqEqual DEF Bytes

LEMMA BodyOf ==
  ASSUME NEW msg \in Bytes, NEW l \in Nat, Len(msg) = l + 1
  PROVE  /\ Head(msg) = msg[1] /\ Tail(msg) \in Bytes /\ Len(Tail(msg)) = l
         /\ \A i \in 1 .. l : Tail(msg)[i] = msg[i + 1]
<1>1. msg # <<>>
  BY DEF Bytes
<1>2. QED
  BY <1>1, HeadTailProperties DEF Bytes

(* f is a DATA frame with these fields. *)
IsDataFrame(f, offset, payload) ==
  /\ f \in Bytes /\ Len(payload) \in Nat /\ Len(f) = 9 + Len(payload)
  /\ f[1] = FrameTypeData
  /\ \A i \in 1 .. 8 : f[i + 1] = PutUint64(offset)[i]
  /\ \A i \in 1 .. Len(payload) : f[9 + i] = payload[i]

(* What AppendData wrote does not depend on the array it wrote into. *)
LEMMA DataFrame ==
  ASSUME NEW dst \in Bytes, NEW offset, IsUint64(offset), NEW payload \in Bytes
  PROVE  IsDataFrame(AppendData(dst, offset, payload), offset, payload)
<1> DEFINE total == 9 + Len(payload)
           cap == IF Len(dst) < total THEN total ELSE Len(dst)
<1>1. Len(payload) \in Nat /\ Len(dst) \in Nat
  BY LenProperties DEF Bytes
<1>2. cap \in Nat /\ total \in Nat /\ total <= cap
  BY <1>1
<1>3. PICK a : a = frameArray(dst, offset, payload)
  OBVIOUS
<1>4. offset \in Nat /\ PutUint64(offset) \in Bytes /\ Len(PutUint64(offset)) = 8
  BY PutUint64Is DEF IsUint64
<1>5. /\ a[1] = FrameTypeData
      /\ \A i \in 1 .. 8 : a[i + 1] = PutUint64(offset)[i]
      /\ \A i \in 1 .. Len(payload) : a[9 + i] = payload[i]
  <2>1. a = [i \in 1 .. cap |->
               IF i = 1 THEN FrameTypeData
               ELSE IF i <= 9 THEN PutUint64(offset)[i - 1]
               ELSE IF i <= total THEN payload[i - 9] ELSE dst[i]]
    BY <1>3 DEF frameArray
  <2> HIDE DEF cap
  <2>2. a[1] = FrameTypeData
    BY <1>1, <1>2, <2>1
  <2>3. ASSUME NEW i \in 1 .. 8 PROVE a[i + 1] = PutUint64(offset)[i]
    <3>1. i + 1 \in 1 .. cap /\ i + 1 # 1 /\ i + 1 <= 9 /\ (i + 1) - 1 = i
      BY <1>1, <1>2
    <3>2. QED
      BY <2>1, <3>1
  <2>4. ASSUME NEW i \in 1 .. Len(payload) PROVE a[9 + i] = payload[i]
    <3>1. 9 + i \in 1 .. cap /\ 9 + i # 1 /\ ~(9 + i <= 9) /\ 9 + i <= total /\ (9 + i) - 9 = i
      BY <1>1, <1>2
    <3>2. QED
      BY <2>1, <3>1
  <2>5. QED
    BY <2>2, <2>3, <2>4
<1>6. \A i \in 1 .. total : a[i] \in Byte
  <2>1. ASSUME NEW i \in 1 .. total PROVE a[i] \in Byte
    <3>1. CASE i = 1
      BY <1>5, <3>1 DEF FrameTypeData, Byte
    <3>2. CASE i \in 2 .. 9
      <4>1. i - 1 \in 1 .. 8 /\ (i - 1) + 1 = i
        BY <3>2
      <4>2. PutUint64(offset)[i - 1] \in Byte
        BY <1>4, <4>1, ElementOfSeq DEF Bytes
      <4>3. QED
        BY <1>5, <4>1, <4>2
    <3>3. CASE i > 9
      <4>1. i - 9 \in 1 .. Len(payload) /\ 9 + (i - 9) = i
        BY <1>1, <3>3
      <4>2. payload[i - 9] \in Byte
        BY <4>1, ElementOfSeq DEF Bytes
      <4>3. QED
        BY <1>5, <4>1, <4>2
    <3>4. QED
      BY <1>1, <3>1, <3>2, <3>3
  <2>2. QED
    BY <2>1
<1>7. PICK f : f = SubSeq(a, 1, total)
  OBVIOUS
<1>8. /\ f \in Seq(Byte) /\ Len(f) = total
      /\ \A i \in 1 .. total : f[i] = a[i]
  <2>1. /\ f \in Seq(Byte) /\ Len(f) = IF 1 <= total THEN total - 1 + 1 ELSE 0
        /\ \A i \in 1 .. total - 1 + 1 : f[i] = a[1 + i - 1]
    BY <1>2, <1>6, <1>7, 1 \in Int, total \in Int, Cut
  <2>2. total - 1 + 1 = total /\ 1 <= total /\ \A i \in 1 .. total : 1 + i - 1 = i
    BY <1>1, <1>2
  <2>3. QED
    BY <2>1, <2>2
<1>9. f \in Bytes /\ Len(f) = 9 + Len(payload)
  BY <1>8 DEF Bytes
<1>10. /\ 1 \in 1 .. total
       /\ \A i \in 1 .. 8 : i + 1 \in 1 .. total
       /\ \A i \in 1 .. Len(payload) : 9 + i \in 1 .. total
  BY <1>1
<1>11. QED
  <2>1. f = AppendData(dst, offset, payload)
    BY <1>3, <1>7 DEF AppendData
  <2>2. IsDataFrame(f, offset, payload)
    BY <1>1, <1>5, <1>8, <1>9, <1>10, Zenon DEF IsDataFrame
  <2>3. QED
    BY <2>1, <2>2, Zenon

(* pkg/transfer/channel.go:128: SendData encodes every frame into the array of
   the one before, and the receiver still gets this frame's offset and bytes. *)
THEOREM DataArrives ==
  ASSUME NEW dst \in Bytes, NEW offset, IsUint64(offset), NEW payload \in Bytes
  PROVE  Dispatch(AppendData(dst, offset, payload)) = OnData(offset, payload)
<1>1. PICK f : f = AppendData(dst, offset, payload)
  OBVIOUS
<1>2. PICK l : l = Len(payload)
  OBVIOUS
<1>3. /\ f \in Bytes /\ l \in Nat /\ Len(f) = 9 + l /\ f[1] = FrameTypeData
      /\ \A i \in 1 .. 8 : f[i + 1] = PutUint64(offset)[i]
      /\ \A i \in 1 .. l : f[9 + i] = payload[i]
  <2>1. IsDataFrame(f, offset, payload)
    BY <1>1, DataFrame, Zenon
  <2>2. QED
    BY <1>2, <2>1, Zenon DEF IsDataFrame
<1>4. PICK body : body = Tail(f)
  OBVIOUS
<1>5. /\ Head(f) = FrameTypeData /\ body \in Bytes /\ Len(body) = 8 + l
      /\ \A i \in 1 .. 8 + l : body[i] = f[i + 1]
  <2>1. 8 + l \in Nat /\ Len(f) = (8 + l) + 1
    BY <1>3
  <2>2. QED
    BY <1>3, <1>4, <2>1, BodyOf, Zenon
<1>6. PutUint64(offset) \in Bytes /\ Len(PutUint64(offset)) = 8
  BY PutUint64Is DEF IsUint64
<1>7. SubSeq(body, 1, 8) = PutUint64(offset)
  <2>1. \A i \in 1 .. Len(PutUint64(offset)) : body[0 + i] = PutUint64(offset)[i]
    BY <1>3, <1>5, <1>6, SMTT(30)
  <2>2. 8 = 0 + Len(PutUint64(offset)) /\ 8 <= Len(body)
    BY <1>3, <1>5, <1>6
  <2>3. SubSeq(body, 0 + 1, 8) = PutUint64(offset)
    BY <1>5, <1>6, <2>1, <2>2, 0 \in Nat, 8 \in Nat, Slice, Zenon
  <2>4. QED
    BY <2>3
<1>8. from(body, 9) = payload
  <2>1. ASSUME NEW i \in 1 .. l PROVE body[8 + i] = payload[i]
    <3>1. 8 + i \in 1 .. 8 + l /\ (8 + i) + 1 = 9 + i
      BY <1>3
    <3>2. body[8 + i] = f[(8 + i) + 1]
      BY <1>5, <3>1, Zenon
    <3>3. QED
      BY <1>3, <3>1, <3>2
  <2>2. /\ \A i \in 1 .. Len(payload) : body[8 + i] = payload[i]
        /\ 8 + l = 8 + Len(payload) /\ 8 + l <= Len(body) /\ 8 + l \in Nat
    BY <1>2, <1>3, <1>5, <2>1
  <2>3. SubSeq(body, 8 + 1, 8 + l) = payload
    BY <1>5, <2>2, 8 \in Nat, Slice, Zenon
  <2>4. QED
    BY <1>5, <2>3 DEF from
<1>9. DecodeData(body) = OnData(offset, payload)
  <2>1. ~(Len(body) < 8)
    BY <1>3, <1>5
  <2>2. QED
    BY <1>7, <1>8, <2>1, Uint64Inverse DEF DecodeData
<1>10. QED
  <2>1. ~(Len(f) < 1)
    BY <1>3
  <2>2. Dispatch(f) = DecodeData(body)
    BY <1>4, <1>5, <2>1
    DEF Dispatch, FrameTypeMetadata, FrameTypeData, FrameTypeEOF, FrameTypeAbort,
        FrameTypeAddPeerOffer, FrameTypeAddPeerAnswer, FrameTypeTransferComplete
  <2>3. QED
    BY <1>1, <1>9, <2>2
-----------------------------------------------------------------------------
(* A message cut short. *)
IsPrefix(g, f, n) ==
  g \in Bytes /\ Len(g) = n /\ \A i \in 1 .. n : g[i] = f[i]

LEMMA Prefix ==
  ASSUME NEW f \in Bytes, NEW n \in Nat, n <= Len(f)
  PROVE  IsPrefix(SubSeq(f, 1, n), f, n)
<1>0. PICK g : g = SubSeq(f, 1, n)
  OBVIOUS
<1>1. \A i \in 1 .. n : f[i] \in Byte
  BY LenProperties DEF Bytes
<1>2. /\ g \in Seq(Byte) /\ Len(g) = IF 1 <= n THEN n - 1 + 1 ELSE 0
      /\ \A i \in 1 .. n - 1 + 1 : g[i] = f[1 + i - 1]
  BY <1>1, <1>0, 1 \in Int, n \in Int, Cut
<1>3. n - 1 + 1 = n /\ \A i \in 1 .. n : 1 + i - 1 = i
  OBVIOUS
<1>4. Len(g) = n
  BY <1>2
<1>5. \A i \in 1 .. n : g[i] = f[i]
  BY <1>2, <1>3
<1>6. QED
  BY <1>0, <1>2, <1>4, <1>5, Zenon DEF Bytes, IsPrefix

LEMMA DispatchMetadata ==
  ASSUME NEW f \in Bytes, NEW l \in Nat, Len(f) = l + 1, f[1] = FrameTypeMetadata
  PROVE  /\ Dispatch(f) = DecodeMetadata(Tail(f))
         /\ Tail(f) \in Bytes /\ Len(Tail(f)) = l
         /\ \A i \in 1 .. l : Tail(f)[i] = f[i + 1]
<1>1. /\ Head(f) = FrameTypeMetadata /\ Tail(f) \in Bytes /\ Len(Tail(f)) = l
      /\ \A i \in 1 .. l : Tail(f)[i] = f[i + 1]
  BY BodyOf, Zenon
<1>2. ~(Len(f) < 1)
  OBVIOUS
<1>3. Dispatch(f) = DecodeMetadata(Tail(f))
  BY <1>1, <1>2
  DEF Dispatch, FrameTypeMetadata, FrameTypeData, FrameTypeEOF, FrameTypeAbort,
      FrameTypeAddPeerOffer, FrameTypeAddPeerAnswer, FrameTypeTransferComplete
<1>4. QED
  BY <1>1, <1>3, Zenon

IsMetadataFrame(f, md) ==
  /\ f \in Bytes /\ Len(f) = 43
  /\ f[1] = FrameTypeMetadata /\ f[2] = md.version /\ f[3] = md.codec
  /\ \A i \in 1 .. 8 : f[3 + i] = PutUint64(md.size)[i]
  /\ \A i \in 1 .. 32 : f[11 + i] = md.sha[i]

LEMMA MetadataFrame ==
  ASSUME NEW md, IsMetadata(md)
  PROVE  IsMetadataFrame(EncodeMetadata(md), md)
<1>1. PICK h : h = <<FrameTypeMetadata, md.version, md.codec>>
  OBVIOUS
<1>2. PICK u : u = PutUint64(md.size)
  OBVIOUS
<1>3. PICK p : p = h \o u
  OBVIOUS
<1>0. PICK sha : sha = md.sha
  OBVIOUS
<1>4. PICK f : f = p \o sha
  OBVIOUS
<1>5. EncodeMetadata(md) = f
  BY <1>1, <1>2, <1>3, <1>0, <1>4 DEF EncodeMetadata
<1>6. /\ h \in Bytes /\ Len(h) = 3
      /\ h[1] = FrameTypeMetadata /\ h[2] = md.version /\ h[3] = md.codec
  <2>1. md.version \in Byte /\ md.codec \in Byte /\ FrameTypeMetadata \in Byte
    BY DEF IsMetadata, FrameTypeMetadata, Byte
  <2>2. <<FrameTypeMetadata, md.version, md.codec>> \in Seq(Byte)
    BY <2>1
  <2>3. QED
    BY <1>1, <2>2 DEF Bytes
<1>7. u \in Bytes /\ Len(u) = 8
  BY <1>2, PutUint64Is DEF IsMetadata, IsUint64
<1>8. /\ p \in Bytes /\ Len(p) = 11
      /\ \A i \in 1 .. 3 : p[i] = h[i]
      /\ \A i \in 1 .. 8 : p[3 + i] = u[i]
  <2>1. /\ p \in Bytes /\ Len(p) = Len(h) + Len(u)
        /\ \A i \in 1 .. Len(h) : p[i] = h[i]
        /\ \A i \in 1 .. Len(u) : p[Len(h) + i] = u[i]
    BY <1>3, <1>6, <1>7, Joined, Zenon DEF IsJoin
  <2>2. QED
    BY <1>6, <1>7, <2>1
<1>9. /\ f \in Bytes /\ Len(f) = 43
      /\ \A i \in 1 .. 11 : f[i] = p[i]
      /\ \A i \in 1 .. 32 : f[11 + i] = sha[i]
  <2>1. sha \in Bytes /\ Len(sha) = 32
    BY <1>0 DEF IsMetadata
  <2>2. /\ f \in Bytes /\ Len(f) = Len(p) + Len(sha)
        /\ \A i \in 1 .. Len(p) : f[i] = p[i]
        /\ \A i \in 1 .. Len(sha) : f[Len(p) + i] = sha[i]
    <3>1. IsJoin(f, p, sha)
      BY <1>4, <1>8, <2>1, Joined, Zenon
    <3>2. QED
      BY <3>1, Zenon DEF IsJoin
  <2>3. QED
    BY <1>8, <2>1, <2>2
<1>10. f[1] = h[1] /\ f[2] = h[2] /\ f[3] = h[3]
  BY <1>8, <1>9
<1>11. \A i \in 1 .. 8 : f[3 + i] = u[i]
  <2>1. \A i \in 1 .. 8 : 3 + i \in 1 .. 11
    OBVIOUS
  <2>2. QED
    BY <1>8, <1>9, <2>1, ZenonT(30)
<1>12. QED
  BY <1>2, <1>5, <1>6, <1>0, <1>9, <1>10, <1>11 DEF IsMetadataFrame

(* OnMetadata gets the version, codec, size and hash of the sender's METADATA. *)
THEOREM MetadataArrives ==
  ASSUME NEW md, IsMetadata(md)
  PROVE  Dispatch(EncodeMetadata(md)) = OnMetadata(md)
<1>1. PICK f : f = EncodeMetadata(md)
  OBVIOUS
<1>2. /\ f \in Bytes /\ Len(f) = 43
      /\ f[1] = FrameTypeMetadata /\ f[2] = md.version /\ f[3] = md.codec
      /\ \A i \in 1 .. 8 : f[3 + i] = PutUint64(md.size)[i]
      /\ \A i \in 1 .. 32 : f[11 + i] = md.sha[i]
  <2>1. IsMetadataFrame(f, md)
    BY <1>1, MetadataFrame, Zenon
  <2>2. QED
    BY <2>1, Zenon DEF IsMetadataFrame
<1>3. PICK body : body = Tail(f)
  OBVIOUS
<1>4. /\ Dispatch(f) = DecodeMetadata(body)
      /\ body \in Bytes /\ Len(body) = 42
      /\ \A i \in 1 .. 42 : body[i] = f[i + 1]
  <2>1. 42 \in Nat /\ Len(f) = 42 + 1
    BY <1>2
  <2>2. QED
    BY <1>2, <1>3, <2>1, DispatchMetadata, Zenon
<1>5. body[1] = md.version /\ body[2] = md.codec
  BY <1>2, <1>4
<1>6. SubSeq(body, 3, 10) = PutUint64(md.size)
  <2>1. PutUint64(md.size) \in Bytes /\ Len(PutUint64(md.size)) = 8
    BY PutUint64Is DEF IsMetadata, IsUint64
  <2>2. ASSUME NEW i \in 1 .. 8 PROVE body[2 + i] = PutUint64(md.size)[i]
    <3>1. 2 + i \in 1 .. 42 /\ (2 + i) + 1 = 3 + i
      OBVIOUS
    <3>2. body[2 + i] = f[(2 + i) + 1]
      BY <1>4, <3>1, Zenon
    <3>3. QED
      BY <1>2, <3>1, <3>2
  <2>3. /\ \A i \in 1 .. Len(PutUint64(md.size)) : body[2 + i] = PutUint64(md.size)[i]
        /\ 10 = 2 + Len(PutUint64(md.size)) /\ 10 <= Len(body)
    BY <1>4, <2>1, <2>2
  <2>4. SubSeq(body, 2 + 1, 10) = PutUint64(md.size)
    BY <1>4, <2>1, <2>3, 2 \in Nat, 10 \in Nat, Slice, ZenonT(30)
  <2>5. QED
    BY <2>4
<1>7. SubSeq(body, 11, 42) = md.sha
  <2>1. md.sha \in Bytes /\ Len(md.sha) = 32
    BY DEF IsMetadata
  <2>2. ASSUME NEW i \in 1 .. 32 PROVE body[10 + i] = md.sha[i]
    <3>1. 10 + i \in 1 .. 42 /\ (10 + i) + 1 = 11 + i
      OBVIOUS
    <3>2. body[10 + i] = f[(10 + i) + 1]
      BY <1>4, <3>1, Zenon
    <3>3. QED
      BY <1>2, <3>1, <3>2
  <2>3. PICK sha : sha = md.sha
    OBVIOUS
  <2>4. /\ sha \in Bytes /\ \A i \in 1 .. Len(sha) : body[10 + i] = sha[i]
        /\ 42 = 10 + Len(sha) /\ 42 <= Len(body)
    <3>1. sha \in Bytes /\ Len(sha) = 32 /\ \A i \in 1 .. 32 : body[10 + i] = sha[i]
      BY <2>1, <2>2, <2>3, Zenon
    <3>2. QED
      BY <1>4, <3>1
  <2>5. SubSeq(body, 10 + 1, 42) = sha
    BY <1>4, <2>4, 10 \in Nat, 42 \in Nat, Slice, ZenonT(30)
  <2>6. QED
    BY <2>3, <2>5
<1>8. DecodeMetadata(body)
        = OnMetadata([version |-> body[1], codec |-> body[2],
                      size |-> Uint64(SubSeq(body, 3, 10)), sha |-> SubSeq(body, 11, 42)])
  BY <1>4 DEF DecodeMetadata, metadataBodyLen
<1>9. Uint64(SubSeq(body, 3, 10)) = md.size
  BY <1>6, Uint64Inverse DEF IsMetadata
<1>10. DecodeMetadata(body)
         = OnMetadata([version |-> md.version, codec |-> md.codec,
                       size |-> md.size, sha |-> md.sha])
  BY <1>5, <1>7, <1>8, <1>9
<1>11. QED
  BY <1>1, <1>4, <1>10 DEF IsMetadata

(* DecodeMetadata takes a body of 42 bytes and no other. *)
LEMMA OddMetadata ==
  ASSUME NEW g \in Bytes, Len(g) \in Nat \ {0, 43}, g[1] = FrameTypeMetadata
  PROVE  Dispatch(g) = Truncated
<1>1. PICK l \in Nat : Len(g) = l + 1 /\ l # 42
  <2>1. Len(g) - 1 \in Nat /\ Len(g) = (Len(g) - 1) + 1 /\ Len(g) - 1 # 42
    OBVIOUS
  <2>2. QED
    BY <2>1
<1>2. Dispatch(g) = DecodeMetadata(Tail(g)) /\ Len(Tail(g)) = l
  BY <1>1, DispatchMetadata, Zenon
<1>3. QED
  BY <1>1, <1>2, Zenon DEF DecodeMetadata, metadataBodyLen

(* frame.go:74: a METADATA frame that lost its end is refused. *)
THEOREM CutMetadataIsRefused ==
  ASSUME NEW md, IsMetadata(md), NEW n \in 0 .. 42
  PROVE  Dispatch(SubSeq(EncodeMetadata(md), 1, n)) \in Refused
<1>1. PICK f : f = EncodeMetadata(md)
  OBVIOUS
<1>2. f \in Bytes /\ Len(f) = 43 /\ f[1] = FrameTypeMetadata
  <2>1. IsMetadataFrame(f, md)
    BY <1>1, MetadataFrame, Zenon
  <2>2. QED
    BY <2>1, Zenon DEF IsMetadataFrame
<1>3. PICK g : g = SubSeq(f, 1, n)
  OBVIOUS
<1>4. g \in Bytes /\ Len(g) = n /\ \A i \in 1 .. n : g[i] = f[i]
  <2>1. n \in Nat /\ n <= Len(f)
    BY <1>2
  <2>2. QED
    BY <1>2, <1>3, <2>1, Prefix, ZenonT(30) DEF IsPrefix
<1>5. CASE n = 0
  BY <1>1, <1>3, <1>4, <1>5 DEF Dispatch, Refused
<1>6. CASE n > 0
  <2>1. g[1] = FrameTypeMetadata /\ Len(g) \in Nat \ {0, 43}
    BY <1>2, <1>4, <1>6
  <2>2. Dispatch(g) = Truncated
    BY <1>4, <2>1, OddMetadata, Zenon
  <2>3. QED
    BY <1>1, <1>3, <2>2, Zenon DEF Refused
<1>7. QED
  BY <1>5, <1>6

(* A METADATA frame with anything behind its 43 bytes is refused: DecodeMetadata
   tests for the exact length, where the other frames drop or keep what is left. *)
THEOREM ExtendedMetadataIsRefused ==
  ASSUME NEW md, IsMetadata(md), NEW extra \in Bytes, extra # <<>>
  PROVE  Dispatch(EncodeMetadata(md) \o extra) \in Refused
<1>1. PICK f : f = EncodeMetadata(md)
  OBVIOUS
<1>2. f \in Bytes /\ Len(f) = 43 /\ f[1] = FrameTypeMetadata
  BY <1>1, MetadataFrame, Zenon DEF IsMetadataFrame
<1>3. Len(extra) \in Nat \ {0}
  BY EmptySeq, LenProperties DEF Bytes
<1>4. PICK g : g = f \o extra
  OBVIOUS
<1>5. /\ g \in Bytes /\ Len(g) = 43 + Len(extra)
      /\ g[1] = FrameTypeMetadata
  <2>1. /\ g \in Bytes /\ Len(g) = Len(f) + Len(extra)
        /\ \A i \in 1 .. Len(f) + Len(extra) :
             g[i] = IF i <= Len(f) THEN f[i] ELSE extra[i - Len(f)]
    BY <1>2, <1>4, ConcatProperties, Zenon DEF Bytes
  <2>2. 1 \in 1 .. Len(f) + Len(extra) /\ 1 <= Len(f)
    BY <1>2, <1>3
  <2>3. g[1] = f[1]
    BY <2>1, <2>2
  <2>4. QED
    BY <1>2, <2>1, <2>3
<1>6. Dispatch(g) = Truncated
  <2>1. Len(g) \in Nat \ {0, 43}
    BY <1>3, <1>5
  <2>2. QED
    BY <1>5, <2>1, OddMetadata, Zenon
<1>7. QED
  BY <1>1, <1>4, <1>6, Zenon DEF Refused
-----------------------------------------------------------------------------
(* ADD_PEER_OFFER and ADD_PEER_ANSWER share their layout and their decoder. *)
PeerFrames == {<<FrameTypeAddPeerOffer, "OnAddPeerOffer">>,
               <<FrameTypeAddPeerAnswer, "OnAddPeerAnswer">>}

IsBody(body, f, l) ==
  body \in Bytes /\ Len(body) = l /\ \A i \in 1 .. l : body[i] = f[i + 1]

LEMMA DispatchPeer ==
  ASSUME NEW type, NEW call, <<type, call>> \in PeerFrames,
         NEW f \in Bytes, NEW l \in Nat, Len(f) = l + 1, f[1] = type
  PROVE  Dispatch(f) = decodePeerSDP(call, Tail(f)) /\ IsBody(Tail(f), f, l)
<1>1. /\ Head(f) = type /\ Tail(f) \in Bytes /\ Len(Tail(f)) = l
      /\ \A i \in 1 .. l : Tail(f)[i] = f[i + 1]
  BY BodyOf, Zenon
<1>2. ~(Len(f) < 1)
  OBVIOUS
<1>3. Dispatch(f) = decodePeerSDP(call, Tail(f))
  BY <1>1, <1>2
  DEF PeerFrames, Dispatch, FrameTypeMetadata, FrameTypeData, FrameTypeEOF,
      FrameTypeAbort, FrameTypeAddPeerOffer, FrameTypeAddPeerAnswer,
      FrameTypeTransferComplete
<1>4. QED
  BY <1>1, <1>3, Zenon DEF IsBody

IsPeerFrame(f, type, id, sdp) ==
  /\ f \in Bytes /\ Len(sdp) \in Nat /\ Len(f) = 6 + Len(sdp)
  /\ f[1] = type /\ f[2] = id
  /\ \A i \in 1 .. 4 : f[2 + i] = PutUint32(Len(sdp))[i]
  /\ \A i \in 1 .. Len(sdp) : f[6 + i] = sdp[i]

LEMMA PeerFrame ==
  ASSUME NEW type \in Byte, NEW id \in Byte, NEW sdp \in Bytes
  PROVE  IsPeerFrame(encodePeerSDP(type, id, sdp), type, id, sdp)
<1>1. PICK h : h = <<type, id>>
  OBVIOUS
<1>2. PICK u : u = PutUint32(Len(sdp))
  OBVIOUS
<1>3. PICK p : p = h \o u
  OBVIOUS
<1>4. PICK f : f = p \o sdp
  OBVIOUS
<1>5. encodePeerSDP(type, id, sdp) = f
  BY <1>1, <1>2, <1>3, <1>4 DEF encodePeerSDP
<1>6. h \in Bytes /\ Len(h) = 2 /\ h[1] = type /\ h[2] = id
  <2>1. <<type, id>> \in Seq(Byte)
    OBVIOUS
  <2>2. QED
    BY <1>1, <2>1 DEF Bytes
<1>7. Len(sdp) \in Nat /\ u \in Bytes /\ Len(u) = 4
  BY <1>2, LenProperties, PutUint32Is DEF Bytes
<1>8. /\ p \in Bytes /\ Len(p) = 6
      /\ p[1] = h[1] /\ p[2] = h[2] /\ \A i \in 1 .. 4 : p[2 + i] = u[i]
  <2>1. IsJoin(p, h, u)
    BY <1>3, <1>6, <1>7, Joined, Zenon
  <2>2. QED
    BY <1>6, <1>7, <2>1 DEF IsJoin
<1>9. /\ f \in Bytes /\ Len(f) = 6 + Len(sdp)
      /\ \A i \in 1 .. 6 : f[i] = p[i]
      /\ \A i \in 1 .. Len(sdp) : f[6 + i] = sdp[i]
  <2>1. IsJoin(f, p, sdp)
    BY <1>4, <1>8, Joined, Zenon
  <2>2. QED
    BY <1>8, <2>1, Zenon DEF IsJoin
<1>10. f[1] = type /\ f[2] = id
  BY <1>6, <1>8, <1>9
<1>11. \A i \in 1 .. 4 : f[2 + i] = u[i]
  <2>1. \A i \in 1 .. 4 : 2 + i \in 1 .. 6
    OBVIOUS
  <2>2. QED
    BY <1>8, <1>9, <2>1, Zenon
<1>12. QED
  BY <1>2, <1>5, <1>7, <1>9, <1>10, <1>11, Zenon DEF IsPeerFrame

(* The body of a frame of which n - 1 bytes follow the type, n >= 6. *)
LEMMA PeerBody ==
  ASSUME NEW type, NEW id, NEW sdp \in Bytes, IsUint32(Len(sdp)),
         NEW f, IsPeerFrame(f, type, id, sdp),
         NEW body, NEW l \in Nat, IsBody(body, f, l), l >= 5
  PROVE  body[1] = id /\ Uint32(SubSeq(body, 2, 5)) = Len(sdp)
<1>0. body \in Bytes /\ Len(body) = l /\ \A i \in 1 .. l : body[i] = f[i + 1]
  BY Zenon DEF IsBody
<1>1. f[2] = id /\ \A i \in 1 .. 4 : f[2 + i] = PutUint32(Len(sdp))[i]
  BY Zenon DEF IsPeerFrame
<1>2. PutUint32(Len(sdp)) \in Bytes /\ Len(PutUint32(Len(sdp))) = 4
  BY PutUint32Is DEF IsUint32
<1>3. PICK u : u = PutUint32(Len(sdp))
  OBVIOUS
<1>4. /\ u \in Bytes /\ Len(u) = 4 /\ \A i \in 1 .. 4 : f[2 + i] = u[i]
  BY <1>1, <1>2, <1>3, Zenon
<1>5. ASSUME NEW i \in 1 .. 4 PROVE body[1 + i] = u[i]
  <2>1. 1 + i \in 1 .. l /\ (1 + i) + 1 = 2 + i
    OBVIOUS
  <2>2. body[1 + i] = f[(1 + i) + 1]
    BY <1>0, <2>1, Zenon
  <2>3. QED
    BY <1>4, <2>1, <2>2
<1>6. /\ \A i \in 1 .. Len(u) : body[1 + i] = u[i]
      /\ 5 = 1 + Len(u) /\ 5 <= Len(body)
  BY <1>0, <1>4, <1>5
<1>7. SubSeq(body, 1 + 1, 5) = u
  BY <1>0, <1>4, <1>6, 1 \in Nat, 5 \in Nat, Slice, Zenon
<1>8. SubSeq(body, 2, 5) = PutUint32(Len(sdp))
  BY <1>3, <1>7
<1>9. body[1] = id
  <2>1. 1 \in 1 .. l /\ 1 + 1 = 2
    OBVIOUS
  <2>2. QED
    BY <1>0, <1>1, <2>1
<1>10. QED
  BY <1>8, <1>9, Uint32Inverse

(* The router gets the peer id and the SDP that were sent. *)
THEOREM PeerSDPArrives ==
  ASSUME NEW type, NEW call, <<type, call>> \in PeerFrames,
         NEW id \in Byte, NEW sdp \in Bytes, IsUint32(Len(sdp))
  PROVE  Dispatch(encodePeerSDP(type, id, sdp)) = OnAddPeer(call, id, sdp)
<1>1. PICK f : f = encodePeerSDP(type, id, sdp)
  OBVIOUS
<1>2. type \in Byte
  BY DEF PeerFrames, FrameTypeAddPeerOffer, FrameTypeAddPeerAnswer, Byte
<1>3. IsPeerFrame(f, type, id, sdp)
  BY <1>1, <1>2, PeerFrame, Zenon
<1>4. PICK l : l = Len(sdp)
  OBVIOUS
<1>5. /\ f \in Bytes /\ l \in Nat /\ Len(f) = 6 + l /\ f[1] = type
      /\ \A i \in 1 .. l : f[6 + i] = sdp[i]
  BY <1>3, <1>4, Zenon DEF IsPeerFrame
<1>6. PICK body : body = Tail(f)
  OBVIOUS
<1>7. /\ Dispatch(f) = decodePeerSDP(call, body)
      /\ body \in Bytes /\ Len(body) = 5 + l
      /\ \A i \in 1 .. 5 + l : body[i] = f[i + 1]
      /\ body[1] = id /\ Uint32(SubSeq(body, 2, 5)) = l
  <2>1. PICK m : m = 5 + l
    OBVIOUS
  <2>2. m \in Nat /\ Len(f) = m + 1 /\ m >= 5
    BY <1>5, <2>1
  <2>3. Dispatch(f) = decodePeerSDP(call, Tail(f)) /\ IsBody(Tail(f), f, m)
    BY <1>5, <2>2, DispatchPeer, Zenon
  <2>4. body[1] = id /\ Uint32(SubSeq(body, 2, 5)) = Len(sdp)
    BY <1>3, <1>6, <2>2, <2>3, PeerBody, Zenon
  <2>5. QED
    BY <1>4, <1>6, <2>1, <2>3, <2>4, Zenon DEF IsBody
<1>8. SubSeq(body, 6, 5 + l) = sdp
  <2>1. ASSUME NEW i \in 1 .. l PROVE body[5 + i] = sdp[i]
    <3>1. 5 + i \in 1 .. 5 + l /\ (5 + i) + 1 = 6 + i
      BY <1>5
    <3>2. body[5 + i] = f[(5 + i) + 1]
      BY <1>7, <3>1, Zenon
    <3>3. QED
      BY <1>5, <3>1, <3>2
  <2>2. /\ \A i \in 1 .. Len(sdp) : body[5 + i] = sdp[i]
        /\ 5 + l = 5 + Len(sdp) /\ 5 + l <= Len(body) /\ 5 + l \in Nat
    BY <1>4, <1>5, <1>7, <2>1
  <2>3. SubSeq(body, 5 + 1, 5 + l) = sdp
    BY <1>7, <2>2, 5 \in Nat, Slice, Zenon
  <2>4. QED
    BY <2>3
<1>9. decodePeerSDP(call, body) = OnAddPeer(call, id, sdp)
  <2>1. ~(Len(body) < 5) /\ ~(Len(body) - 5 < l)
    BY <1>5, <1>7
  <2>2. QED
    BY <1>7, <1>8, <2>1, Zenon DEF decodePeerSDP
<1>10. QED
  BY <1>1, <1>7, <1>9, Zenon

(* control_decode.go:21: an ADD_PEER frame that lost its end, be it of the header
   or of the SDP, is refused: no peer is negotiated with part of an SDP. *)
THEOREM CutPeerSDPIsRefused ==
  ASSUME NEW type, NEW call, <<type, call>> \in PeerFrames,
         NEW id \in Byte, NEW sdp \in Bytes, IsUint32(Len(sdp)),
         NEW n \in Nat, n < 6 + Len(sdp)
  PROVE  Dispatch(SubSeq(encodePeerSDP(type, id, sdp), 1, n)) \in Refused
<1>1. PICK f : f = encodePeerSDP(type, id, sdp)
  OBVIOUS
<1>2. type \in Byte
  BY DEF PeerFrames, FrameTypeAddPeerOffer, FrameTypeAddPeerAnswer, Byte
<1>3. IsPeerFrame(f, type, id, sdp)
  BY <1>1, <1>2, PeerFrame, Zenon
<1>4. f \in Bytes /\ Len(sdp) \in Nat /\ Len(f) = 6 + Len(sdp) /\ f[1] = type
  BY <1>3, Zenon DEF IsPeerFrame
<1>5. PICK g : g = SubSeq(f, 1, n)
  OBVIOUS
<1>6. g \in Bytes /\ Len(g) = n /\ \A i \in 1 .. n : g[i] = f[i]
  <2>1. n <= Len(f)
    BY <1>4
  <2>2. QED
    BY <1>4, <1>5, <2>1, Prefix, Zenon DEF IsPrefix
<1>7. CASE n = 0
  BY <1>1, <1>5, <1>6, <1>7 DEF Dispatch, Refused
<1>8. CASE n > 0
  <2>1. PICK body : body = Tail(g)
    OBVIOUS
  <2>2. PICK l : l = n - 1
    OBVIOUS
  <2>3. l \in Nat /\ Len(g) = l + 1 /\ l < 5 + Len(sdp) /\ g[1] = type
    BY <1>4, <1>6, <1>8, <2>2
  <2>4. Dispatch(g) = decodePeerSDP(call, body) /\ IsBody(body, g, l)
    <3>1. Dispatch(g) = decodePeerSDP(call, Tail(g)) /\ IsBody(Tail(g), g, l)
      BY <1>6, <2>3, DispatchPeer, Zenon
    <3>2. QED
      BY <2>1, <3>1, Zenon
  <2>5. Len(body) = l
    BY <2>4, Zenon DEF IsBody
  <2>6. IsBody(body, f, l)
    <3>1. \A i \in 1 .. l : i + 1 \in 1 .. n
      BY <2>2, <2>3
    <3>2. QED
      BY <1>6, <2>4, <3>1, Zenon DEF IsBody
  <2>7. decodePeerSDP(call, body) = Truncated
    <3>1. CASE l < 5
      BY <2>5, <3>1, Zenon DEF decodePeerSDP
    <3>2. CASE ~(l < 5)
      <4>1. l \in Nat /\ l >= 5
        BY <2>3, <3>2
      <4>2. body[1] = id /\ Uint32(SubSeq(body, 2, 5)) = Len(sdp)
        BY <1>3, <2>6, <4>1, PeerBody, ZenonT(30)
      <4>3. l - 5 < Len(sdp)
        BY <1>4, <2>3
      <4>4. QED
        BY <2>5, <3>2, <4>2, <4>3, Zenon DEF decodePeerSDP
    <3>3. QED
      BY <3>1, <3>2
  <2>8. QED
    BY <1>1, <1>5, <2>4, <2>7, Zenon DEF Refused
<1>9. QED
  BY <1>7, <1>8
-----------------------------------------------------------------------------
(* ABORT and the frames without a body. *)
LEMMA ReasonArrives ==
  ASSUME NEW reason \in Bytes
  PROVE  Dispatch(EncodeAbort(reason)) = OnAbort(reason)
<1>1. PICK f : f = EncodeAbort(reason)
  OBVIOUS
<1>2. /\ f \in Seq(Byte) /\ Len(f) = 1 + Len(reason) /\ Len(reason) \in Nat
      /\ f[1] = FrameTypeAbort
      /\ \A i \in 1 .. Len(reason) : f[1 + i] = reason[i]
  BY <1>1 DEF EncodeAbort, FrameTypeAbort, Bytes, Byte
<1>3. Head(f) = FrameTypeAbort /\ ~(Len(f) < 1)
  BY <1>2
<1>4. Tail(f) = reason
  <2>1. /\ Tail(f) \in Seq(Byte) /\ Len(Tail(f)) = Len(reason)
        /\ \A i \in 1 .. Len(reason) : Tail(f)[i] = f[i + 1]
    BY <1>2
  <2>2. reason \in Seq(Byte) /\ \A i \in 1 .. Len(reason) : Tail(f)[i] = reason[i]
    BY <1>2, <2>1 DEF Bytes
  <2>3. QED
    BY <2>1, <2>2, SeqEqual, Zenon
<1>5. Dispatch(f) = OnAbort(Tail(f))
  BY <1>3
  DEF Dispatch, FrameTypeMetadata, FrameTypeData, FrameTypeEOF, FrameTypeAbort,
      FrameTypeAddPeerOffer, FrameTypeAddPeerAnswer, FrameTypeTransferComplete
<1>6. QED
  BY <1>1, <1>4, <1>5, Zenon

LEMMA BareFrames ==
  Dispatch(EncodeEOF) = OnEOF /\ Dispatch(EncodeTransferComplete) = OnTransferComplete
BY DEF Dispatch, EncodeEOF, EncodeTransferComplete, FrameTypeMetadata, FrameTypeData,
       FrameTypeEOF, FrameTypeAbort, FrameTypeAddPeerOffer, FrameTypeAddPeerAnswer,
       FrameTypeTransferComplete

(* An ADD_PEER call and the frame it is sent as. *)
LEMMA PeerRoundTrips ==
  ASSUME NEW c, c.call \in {"OnAddPeerOffer", "OnAddPeerAnswer"},
         c = OnAddPeer(c.call, c.id, c.sdp),
         c.id \in Byte, c.sdp \in Bytes, IsUint32(Len(c.sdp))
  PROVE  RoundTrips(c)
<1>1. PICK type : /\ <<type, c.call>> \in PeerFrames
                  /\ \A buf : Encoded(c, buf) = encodePeerSDP(type, c.id, c.sdp)
  <2>1. CASE c.call = "OnAddPeerOffer"
    <3>1. \A buf : Encoded(c, buf) = encodePeerSDP(FrameTypeAddPeerOffer, c.id, c.sdp)
      BY <2>1 DEF Encoded, EncodeAddPeerOffer
    <3>2. <<FrameTypeAddPeerOffer, c.call>> \in PeerFrames
      BY <2>1 DEF PeerFrames
    <3>3. QED
      BY <3>1, <3>2
  <2>2. CASE c.call = "OnAddPeerAnswer"
    <3>1. \A buf : Encoded(c, buf) = encodePeerSDP(FrameTypeAddPeerAnswer, c.id, c.sdp)
      BY <2>2 DEF Encoded, EncodeAddPeerAnswer
    <3>2. <<FrameTypeAddPeerAnswer, c.call>> \in PeerFrames
      BY <2>2 DEF PeerFrames
    <3>3. QED
      BY <3>1, <3>2
  <2>3. QED
    BY <2>1, <2>2
<1>2. Dispatch(encodePeerSDP(type, c.id, c.sdp)) = c
  BY <1>1, PeerSDPArrives
<1>3. Len(c.sdp) \in Nat /\ Len(encodePeerSDP(type, c.id, c.sdp)) = 6 + Len(c.sdp)
  <2>1. type \in Byte
    BY <1>1 DEF PeerFrames, FrameTypeAddPeerOffer, FrameTypeAddPeerAnswer, Byte
  <2>2. IsPeerFrame(encodePeerSDP(type, c.id, c.sdp), type, c.id, c.sdp)
    BY <2>1, PeerFrame
  <2>3. QED
    BY <2>2 DEF IsPeerFrame
<1>4. ASSUME NEW n \in 0 .. Len(Encoded(c, <<>>)) - 1
      PROVE  Dispatch(SubSeq(Encoded(c, <<>>), 1, n)) \in Refused
  <2>1. Encoded(c, <<>>) = encodePeerSDP(type, c.id, c.sdp)
    BY <1>1
  <2>2. n \in Nat /\ n < 6 + Len(c.sdp)
    BY <1>3, <2>1
  <2>3. Dispatch(SubSeq(encodePeerSDP(type, c.id, c.sdp), 1, n)) \in Refused
    BY <1>1, <2>2, CutPeerSDPIsRefused
  <2>4. QED
    BY <2>1, <2>3
<1>5. QED
  BY <1>1, <1>2, <1>4 DEF RoundTrips

LEMMA MetadataRoundTrips ==
  ASSUME NEW c, c.call = "OnMetadata", c = OnMetadata(c.meta), IsMetadata(c.meta)
  PROVE  RoundTrips(c)
<1>1. \A buf : Encoded(c, buf) = EncodeMetadata(c.meta)
  BY DEF Encoded
<1>2. Dispatch(EncodeMetadata(c.meta)) = c
  BY MetadataArrives
<1>3. Len(EncodeMetadata(c.meta)) = 43
  BY MetadataFrame DEF IsMetadataFrame
<1>4. ASSUME NEW n \in 0 .. Len(Encoded(c, <<>>)) - 1
      PROVE  Dispatch(SubSeq(Encoded(c, <<>>), 1, n)) \in Refused
  <2>1. Encoded(c, <<>>) = EncodeMetadata(c.meta)
    BY <1>1
  <2>2. n \in 0 .. 42
    <3>1. Len(Encoded(c, <<>>)) = 43
      BY <1>3, <2>1, Zenon
    <3>2. n \in 0 .. 43 - 1
      BY <3>1, Zenon
    <3>3. QED
      BY <3>2
  <2>3. Dispatch(SubSeq(EncodeMetadata(c.meta), 1, n)) \in Refused
    BY <2>2, CutMetadataIsRefused
  <2>4. QED
    BY <2>1, <2>3
<1>5. QED
  BY <1>1, <1>2, <1>4 DEF RoundTrips

(* Every call a gfile can mean survives its frame, whatever the array held. *)
LEMMA EveryCallRoundTrips ==
  ASSUME NEW c, IsCall(c), Buffers \subseteq Bytes
  PROVE  RoundTrips(c)
<1> DEFINE Bare == c = OnEOF \/ c = OnTransferComplete
           Meta == c.call = "OnMetadata" /\ c = OnMetadata(c.meta) /\ IsMetadata(c.meta)
           Data == /\ c.call = "OnData" /\ c = OnData(c.offset, c.payload)
                   /\ IsUint64(c.offset) /\ c.payload \in Bytes
           Abort == c.call = "OnAbort" /\ c = OnAbort(c.reason) /\ c.reason \in Bytes
           Peer == /\ c.call \in {"OnAddPeerOffer", "OnAddPeerAnswer"}
                   /\ c = OnAddPeer(c.call, c.id, c.sdp)
                   /\ c.id \in Byte /\ c.sdp \in Bytes /\ IsUint32(Len(c.sdp))
<1>1. CASE Bare
  <2>1. CASE c = OnEOF
    <3>1. c.call = "OnEOF"
      BY <2>1 DEF OnEOF
    <3>2. \A buf : Encoded(c, buf) = EncodeEOF
      BY <3>1 DEF Encoded
    <3>3. QED
      BY <2>1, <3>1, <3>2, BareFrames DEF RoundTrips
  <2>2. CASE c = OnTransferComplete
    <3>1. c.call = "OnTransferComplete"
      BY <2>2 DEF OnTransferComplete
    <3>2. \A buf : Encoded(c, buf) = EncodeTransferComplete
      BY <3>1 DEF Encoded
    <3>3. QED
      BY <2>2, <3>1, <3>2, BareFrames DEF RoundTrips
  <2>3. QED
    BY <1>1, <2>1, <2>2
<1>2. CASE Meta
  BY <1>2, MetadataRoundTrips
<1>3. CASE Data
  <2>1. \A buf : Encoded(c, buf) = AppendData(buf, c.offset, c.payload)
    BY <1>3 DEF Encoded
  <2>2. \A buf \in Buffers : Dispatch(AppendData(buf, c.offset, c.payload)) = c
    <3>1. SUFFICES ASSUME NEW buf \in Bytes
                   PROVE  Dispatch(AppendData(buf, c.offset, c.payload)) = c
      OBVIOUS
    <3>2. QED
      BY <1>3, DataArrives, Zenon
  <2>3. QED
    BY <1>3, <2>1, <2>2 DEF RoundTrips
<1>4. CASE Abort
  <2>1. \A buf : Encoded(c, buf) = EncodeAbort(c.reason)
    BY <1>4 DEF Encoded
  <2>2. Dispatch(EncodeAbort(c.reason)) = c
    BY <1>4, ReasonArrives
  <2>3. QED
    BY <1>4, <2>1, <2>2 DEF RoundTrips
<1>5. CASE Peer
  BY <1>5, PeerRoundTrips
<1>6. Bare \/ Meta \/ Data \/ Abort \/ Peer
  BY DEF IsCall
<1> HIDE DEF Bare, Meta, Data, Abort, Peer
<1>7. QED
  BY <1>1, <1>2, <1>3, <1>4, <1>5, <1>6

(* protocol/dispatch.go:10: for every call a gfile can mean, with any field
   values, the receiver's handler gets that call, and part of a METADATA or
   ADD_PEER frame is refused. *)
THEOREM HandlerGets == Spec => []HandlerGetsWhatWasSent
<1>1. HandlerGetsWhatWasSent
  BY CallsAssumption, EveryCallRoundTrips DEF HandlerGetsWhatWasSent
<1>2. Spec => []HandlerGetsWhatWasSent
  BY <1>1, PTL
<1>3. QED
  BY <1>2
-----------------------------------------------------------------------------
(* An OnData call carries a byte sequence. *)
LEMMA DataIsBytes ==
  ASSUME NEW msg \in Bytes, Dispatch(msg).call = "OnData"
  PROVE  Len(Dispatch(msg).payload) \in Nat
<1> DEFINE c == Dispatch(msg)
           body == Tail(msg)
<1> USE DEF Truncated, Unknown, OnMetadata, OnData, OnEOF, OnAbort, OnAddPeer,
            OnTransferComplete
<1>1. Len(msg) >= 1 /\ Len(msg) \in Nat /\ msg # <<>>
  <2>1. Len(msg) \in Nat
    BY LenProperties DEF Bytes
  <2>2. ~(Len(msg) < 1)
    BY DEF Dispatch
  <2>3. msg # <<>>
    BY <2>2
  <2>4. QED
    BY <2>1, <2>2, <2>3
<1>2. PICK type : type = Head(msg)
  OBVIOUS
<1>3. c = CASE type = FrameTypeMetadata -> DecodeMetadata(body)
            [] type = FrameTypeData -> DecodeData(body)
            [] type = FrameTypeEOF -> OnEOF
            [] type = FrameTypeAbort -> OnAbort(body)
            [] type = FrameTypeAddPeerOffer -> decodePeerSDP("OnAddPeerOffer", body)
            [] type = FrameTypeAddPeerAnswer -> decodePeerSDP("OnAddPeerAnswer", body)
            [] type = FrameTypeTransferComplete -> OnTransferComplete
            [] OTHER -> Unknown
  BY <1>1, <1>2 DEF Dispatch
<1>4. c \in {DecodeMetadata(body), DecodeData(body), OnEOF, OnAbort(body),
             decodePeerSDP("OnAddPeerOffer", body),
             decodePeerSDP("OnAddPeerAnswer", body), OnTransferComplete, Unknown}
  <2> HIDE DEF c, body
  <2>1. QED
    BY <1>3, Zenon
<1>5. DecodeMetadata(body).call # "OnData"
  BY DEF DecodeMetadata
<1>6. /\ decodePeerSDP("OnAddPeerOffer", body).call # "OnData"
      /\ decodePeerSDP("OnAddPeerAnswer", body).call # "OnData"
  BY DEF decodePeerSDP
<1>7. c = DecodeData(body)
  BY <1>4, <1>5, <1>6
<1>8. body \in Bytes
  BY <1>1, HeadTailProperties DEF Bytes
<1>9. c.payload = SubSeq(body, 9, Len(body)) /\ ~(Len(body) < 8)
  BY <1>7 DEF DecodeData, from
<1>10. SubSeq(body, 9, Len(body)) \in Seq(Byte)
  <2>1. Len(body) \in Nat /\ \A i \in 9 .. Len(body) : body[i] \in Byte
    BY <1>8, LenProperties DEF Bytes
  <2>2. QED
    BY <2>1, 9 \in Int, Len(body) \in Int, SubSeqProperties
<1>11. QED
  BY <1>9, <1>10, LenProperties
-----------------------------------------------------------------------------
LEMMA ArrivalFacts ==
  ASSUME NEW c \in Arrivals \cup DataArrivals, c.call = "OnData"
  PROVE  Len(c.payload) \in Nat
<1>1. PICK msg \in Messages \cup DataMessages : c = Dispatch(msg)
  BY DEF Arrivals, DataArrivals
<1>2. msg \in Bytes
  BY ReceiveAssumption
<1>3. QED
  BY <1>1, <1>2, DataIsBytes

Gates == {"free", "verify", "fail", "over"}

LEMMA TypeInit == Init => TypeOK
<1> SUFFICES ASSUME Init PROVE TypeOK
  OBVIOUS
<1>1. FirstOK /\ CoreOK
  BY DEF Init, FirstOK, CoreOK, File!Init
<1>2. PeersOK
  BY DEF Init, PeersOK
<1>3. QED
  BY <1>1, <1>2 DEF TypeOK

USE DEF first, core, peers

LEMMA LoopEnds ==
  ASSUME FirstOK, CoreOK, NEW own \in BOOLEAN, endsWith(own)
  PROVE  loop' \in {"reading", "ended"} /\ refused' \in BOOLEAN /\ gate' \in Gates
  BY DEF endsWith, failed, FirstOK, CoreOK, Gates

(* What a call on the first channel does to it and to the core. *)
LEMMA HandleTypes ==
  ASSUME FirstOK, CoreOK, NEW c \in Arrivals, handle(c)
  PROVE  /\ loop' \in {"reading", "ended"} /\ refused' \in BOOLEAN /\ gate' \in Gates
         /\ endSeen' \in BOOLEAN /\ verifiers' \in Nat
         /\ meta' = NoMeta \/ meta'.codec \in {CodecNone, CodecZstd}
         /\ bytesWritten' \in Nat /\ decoder' \in {"nil", "zstd", "closed"}
<1> DEFINE Same == /\ loop' \in {"reading", "ended"} /\ refused' \in BOOLEAN
                   /\ gate' \in Gates
<1>1. ASSUME goesOn, UNCHANGED gate PROVE Same
  BY <1>1 DEF goesOn, FirstOK, CoreOK, Gates
<1>2. CASE handleMetadata(c)
  <2>1. Same
    BY <1>1, <1>2, LoopEnds DEF handleMetadata
  <2>2. /\ meta' = NoMeta \/ meta'.codec \in {CodecNone, CodecZstd}
        /\ decoder' \in {"nil", "zstd", "closed"}
    BY <1>2 DEF handleMetadata, accepts, CoreOK
  <2>3. QED
    BY <1>2, <2>1, <2>2 DEF handleMetadata, FirstOK, CoreOK
<1>3. CASE handleData(c)
  <2>1. Same
    BY <1>1, <1>3, LoopEnds DEF handleData, ingested
  <2>2. bytesWritten' \in Nat
    <3>1. c.call = "OnData" /\ c \in Arrivals \cup DataArrivals
      BY <1>3 DEF handleData
    <3>2. PICK n \in Nat : n = Len(c.payload)
      BY <3>1, ArrivalFacts
    <3>3. bytesWritten' = bytesWritten + n \/ bytesWritten' = bytesWritten
      BY <1>3, <3>2 DEF handleData, ingested
    <3>4. QED
      BY <3>3 DEF CoreOK
  <2>3. QED
    BY <1>3, <2>1, <2>2 DEF handleData, FirstOK, CoreOK
<1>4. CASE handleEnd(c)
  <2>1. Same
    BY <1>1, <1>4, LoopEnds DEF handleEnd
  <2>2. endSeen' \in BOOLEAN /\ verifiers' \in Nat
    <3>1. \/ endSeen' = endSeen /\ verifiers' = verifiers
          \/ endSeen' = TRUE /\ verifiers' = verifiers + 1
      BY <1>4, Zenon DEF handleEnd
    <3>2. verifiers' \in Nat
      BY <3>1 DEF FirstOK
    <3>3. endSeen' \in BOOLEAN
      BY <3>1, Zenon DEF FirstOK
    <3>4. QED
      BY <3>2, <3>3
  <2>3. QED
    BY <1>4, <2>1, <2>2 DEF handleEnd, CoreOK
<1>5. CASE handleAbort(c) \/ handleUnexpected(c)
  <2>1. Same
    BY <1>5, LoopEnds DEF handleAbort, handleUnexpected
  <2>2. QED
    BY <1>5, <2>1 DEF handleAbort, handleUnexpected, FirstOK, CoreOK
<1>6. CASE handleOffer(c)
  <2>1. Same
    BY <1>1, <1>6, LoopEnds DEF handleOffer
  <2>2. QED
    BY <1>6, <2>1 DEF handleOffer, FirstOK, CoreOK
<1>7. QED
  BY <1>2, <1>3, <1>4, <1>5, <1>6 DEF handle

(* And to the peers. *)
LEMMA HandlePeers ==
  ASSUME NEW c, handle(c)
  PROVE  \/ quiet
         \/ /\ entry[c.id] = "none"
            /\ entry' = [entry EXCEPT ![c.id] = "reserved"]
            /\ negotiates(c.id)
  BY DEF handle, handleMetadata, handleData, handleEnd, handleAbort, handleOffer,
         handleUnexpected

LEMMA TypeOnFrames == ASSUME TypeOK, OnFrames PROVE TypeOK'
<1>1. PICK c \in Arrivals : handle(c)
  BY DEF OnFrames
<1>2. UNCHANGED <<label, closed, watch, main, cleaned, outcome, file, dloop, dwatch,
                  dclosed, dec, holds, early, raw>>
  BY DEF OnFrames
<1>3. FirstOK' /\ CoreOK'
  BY <1>1, <1>2, HandleTypes DEF TypeOK, FirstOK, CoreOK, Gates
<1>4. /\ entry' \in [Ids -> {"none", "reserved", "published"}]
      /\ neg' \in [Ids -> {"off", "creating", "accepting", "ended"}]
      /\ negotiations' \in [Ids -> Nat]
  <2>1. CASE quiet
    BY <2>1 DEF quiet, TypeOK, PeersOK
  <2>2. CASE /\ entry' = [entry EXCEPT ![c.id] = "reserved"]
             /\ negotiates(c.id)
    <3>1. PICK id : id = c.id
      OBVIOUS
    <3>2. /\ entry' = [entry EXCEPT ![id] = "reserved"]
          /\ neg' = [neg EXCEPT ![id] = "creating"]
          /\ negotiations' = [negotiations EXCEPT ![id] = negotiations[id] + 1]
      BY <2>2, <3>1, Zenon DEF negotiates
    <3>3. entry' \in [Ids -> {"none", "reserved", "published"}]
      BY <3>2 DEF TypeOK, PeersOK
    <3>4. neg' \in [Ids -> {"off", "creating", "accepting", "ended"}]
      BY <3>2 DEF TypeOK, PeersOK
    <3>5. negotiations' \in [Ids -> Nat]
      <4>1. negotiations \in [Ids -> Nat]
        BY DEF TypeOK, PeersOK
      <4>2. CASE id \in Ids
        <5>1. negotiations[id] + 1 \in Nat
          BY <4>1, <4>2
        <5>2. QED
          BY <3>2, <4>1, <5>1
      <4>3. CASE id \notin Ids
        <5>1. negotiations' = negotiations
          BY <3>2, <4>1, <4>3
        <5>2. QED
          BY <4>1, <5>1
      <4>4. QED
        BY <4>2, <4>3
    <3>6. QED
      BY <3>3, <3>4, <3>5
  <2>3. QED
    BY <1>1, <2>1, <2>2, HandlePeers, Zenon
<1>5. PeersOK'
  BY <1>2, <1>4 DEF TypeOK, PeersOK
<1>6. QED
  BY <1>3, <1>5 DEF TypeOK

LEMMA TypeCore ==
  ASSUME TypeOK, readEnds \/ closes \/ watchClose \/ verifyAndClose \/ cleanup
                   \/ settle \/ waitDone
  PROVE  TypeOK'
<1>1. CASE readEnds
  <2>1. loop' \in {"reading", "ended"} /\ refused' \in BOOLEAN /\ gate' \in Gates
    BY <1>1, LoopEnds DEF readEnds, TypeOK, FirstOK, CoreOK, Gates
  <2>2. QED
    BY <1>1, <2>1 DEF readEnds, TypeOK, FirstOK, CoreOK, PeersOK, Gates
<1>2. CASE closes
  BY <1>2 DEF closes, TypeOK, FirstOK, CoreOK, PeersOK
<1>3. CASE watchClose
  <2>1. watch' \in {"waiting", "failing", "gone"} /\ gate' \in Gates
    BY <1>3 DEF watchClose, watchStep, fail, failed, TypeOK, CoreOK, Gates
  <2>2. UNCHANGED <<label, loop, closed, main, meta, bytesWritten, cleaned, outcome,
                    file, endSeen, verifiers, decoder, peers, refused>>
    BY <1>3 DEF watchClose, watchStep
  <2>3. QED
    BY <2>1, <2>2 DEF TypeOK, FirstOK, CoreOK, PeersOK, Gates
<1>4. CASE verifyAndClose
  <2>1. verifiers' \in Nat /\ gate' \in Gates
    BY <1>4 DEF verifyAndClose, fail, failed, TypeOK, FirstOK, CoreOK, Gates
  <2>2. UNCHANGED <<first, main, meta, bytesWritten, cleaned, outcome, file, endSeen,
                    decoder, peers, refused>>
    BY <1>4 DEF verifyAndClose
  <2>3. QED
    BY <2>1, <2>2 DEF TypeOK, FirstOK, CoreOK, PeersOK, Gates
<1>5. CASE cleanup
  <2>1. decoder' \in {"nil", "zstd", "closed"} /\ dec' \in [Ids -> {"nil", "zstd"}]
    BY <1>5 DEF cleanup, TypeOK, CoreOK, PeersOK
  <2>2. QED
    BY <1>5, <2>1 DEF cleanup, TypeOK, FirstOK, CoreOK, PeersOK
<1>6. CASE settle
  BY <1>6 DEF settle, File!Complete, File!Discard, TypeOK, FirstOK, CoreOK, PeersOK
<1>7. CASE waitDone
  BY <1>7 DEF waitDone, File!Report, TypeOK, FirstOK, CoreOK, PeersOK
<1>8. QED
  BY <1>1, <1>2, <1>3, <1>4, <1>5, <1>6, <1>7

LEMMA TypePeers ==
  ASSUME TypeOK, NEW p \in Ids,
         \/ negotiateReceivePeer(p) \/ installDataPeer(p) \/ peerOnFrames(p)
         \/ onPeerData(p) \/ peerReadEnds(p) \/ peerCloses(p) \/ peerWatchClose(p)
  PROVE  TypeOK'
<1>1. FirstOK' /\ cleaned' \in BOOLEAN /\ outcome' \in {"pending", "ok", "failed"}
      /\ file' \in {"partial", "complete", "discarded"}
      /\ decoder' \in {"nil", "zstd", "closed"}
      /\ (meta' = NoMeta \/ meta'.codec \in {CodecNone, CodecZstd})
  <2>1. UNCHANGED <<first, main, meta, cleaned, outcome, file, endSeen, verifiers,
                    decoder, refused>>
    BY DEF negotiateReceivePeer, installDataPeer, peerOnFrames, onPeerData,
           peerReadEnds, peerCloses, peerWatchClose, peerStep
  <2>2. QED
    BY <2>1 DEF TypeOK, FirstOK, CoreOK
<1>2. gate' \in Gates
  <2>1. ASSUME fail PROVE gate' \in Gates
    BY <2>1 DEF fail, failed, TypeOK, CoreOK, Gates
  <2>2. ASSUME UNCHANGED gate PROVE gate' \in Gates
    BY <2>2 DEF TypeOK, CoreOK, Gates
  <2>3. fail \/ UNCHANGED gate
    BY DEF negotiateReceivePeer, installDataPeer, peerOnFrames, onPeerData,
           peerReadEnds, peerCloses, peerWatchClose, peerEndsWith, ingested
  <2>4. QED
    BY <2>1, <2>2, <2>3
<1>3. bytesWritten' \in Nat
  <2>1. CASE onPeerData(p)
    <3>1. PICK n \in Nat : n = Len(holds[p].payload)
      BY <2>1 DEF onPeerData, TypeOK, PeersOK
    <3>2. bytesWritten' = bytesWritten + n \/ bytesWritten' = bytesWritten
      BY <2>1, <3>1 DEF onPeerData, ingested
    <3>3. QED
      BY <3>2 DEF TypeOK, CoreOK
  <2>2. CASE ~onPeerData(p)
    <3>1. UNCHANGED bytesWritten
      BY <2>2 DEF negotiateReceivePeer, installDataPeer, peerOnFrames, peerReadEnds,
                  peerCloses, peerWatchClose
    <3>2. QED
      BY <3>1 DEF TypeOK, CoreOK
  <2>3. QED
    BY <2>1, <2>2
<1>4. PeersOK'
  <2> USE DEF TypeOK, PeersOK
  <2>1. CASE negotiateReceivePeer(p)
    BY <2>1 DEF negotiateReceivePeer, peerStep
  <2>2. CASE installDataPeer(p)
    BY <2>2 DEF installDataPeer, peerStep, decoderFor
  <2>3. CASE peerOnFrames(p)
    <3>1. UNCHANGED <<entry, neg, dwatch, dclosed, dec, early, raw, negotiations>>
          /\ dloop' \in [Ids -> {"off", "reading", "ended"}]
          /\ DOMAIN holds' = Ids
      BY <2>3 DEF peerOnFrames, peerEndsWith, peerStep
    <3>2. ASSUME NEW q \in Ids, holds'[q] # Idle
          PROVE  Len(holds'[q].payload) \in Nat
      <4>1. PICK c \in DataArrivals :
              IF c.call = "OnData"
              THEN holds' = [holds EXCEPT ![p] = [call |-> c.call, offset |-> c.offset,
                               payload |-> c.payload, decoder |-> dec[p]]]
              ELSE UNCHANGED holds
        BY <2>3 DEF peerOnFrames
      <4>2. CASE c.call = "OnData" /\ q = p
        <5>1. Len(c.payload) \in Nat
          BY <4>2, ArrivalFacts
        <5>2. holds'[q] = holds[q]
              \/ holds'[q] = [call |-> c.call, offset |-> c.offset,
                              payload |-> c.payload, decoder |-> dec[p]]
          BY <4>1, <4>2
        <5>3. QED
          BY <3>2, <5>1, <5>2
      <4>3. CASE ~(c.call = "OnData" /\ q = p)
        <5>1. holds'[q] = holds[q]
          BY <4>1, <4>3
        <5>2. QED
          BY <3>2, <5>1
      <4>4. QED
        BY <4>2, <4>3
    <3>3. QED
      BY <3>1, <3>2
  <2>4. CASE onPeerData(p)
    <3>1. raw' \in BOOLEAN /\ dloop' \in [Ids -> {"off", "reading", "ended"}]
      BY <2>4 DEF onPeerData, peerEndsWith
    <3>2. DOMAIN holds' = Ids /\ \A q \in Ids : holds'[q] = holds[q] \/ holds'[q] = Idle
      BY <2>4 DEF onPeerData
    <3>3. UNCHANGED <<entry, neg, dwatch, dclosed, dec, early, negotiations>>
      BY <2>4 DEF onPeerData, peerStep
    <3>4. ASSUME NEW q \in Ids, holds'[q] # Idle PROVE Len(holds'[q].payload) \in Nat
      BY <3>2, <3>4
    <3>5. QED
      BY <3>1, <3>2, <3>3, <3>4
  <2>5. CASE peerReadEnds(p)
    BY <2>5 DEF peerReadEnds, peerEndsWith, peerStep
  <2>6. CASE peerCloses(p)
    BY <2>6 DEF peerCloses, peerStep
  <2>7. CASE peerWatchClose(p)
    BY <2>7 DEF peerWatchClose, peerStep
  <2>8. QED
    BY <2>1, <2>2, <2>3, <2>4, <2>5, <2>6, <2>7
<1>5. QED
  BY <1>1, <1>2, <1>3, <1>4 DEF TypeOK, CoreOK, Gates

LEMMA TypeStep == TypeOK /\ [Next]_vars => TypeOK'
<1>1. ASSUME TypeOK, Next PROVE TypeOK'
  <2>1. ASSUME Returned PROVE TypeOK'
    BY <1>1, <2>1 DEF Returned, vars, TypeOK, FirstOK, CoreOK, PeersOK
  <2>2. QED
    BY <1>1, <2>1, TypeOnFrames, TypeCore, TypePeers DEF Next
<1>2. ASSUME TypeOK, UNCHANGED vars PROVE TypeOK'
  BY <1>2 DEF vars, TypeOK, FirstOK, CoreOK, PeersOK
<1>3. QED
  BY <1>1, <1>2

(* The receiver's variables keep their types. *)
THEOREM TypeCorrect == Spec => []TypeOK
  BY TypeInit, TypeStep, PTL DEF Spec
-----------------------------------------------------------------------------
(* Why a refused first channel never ends in success: only its loop sets endSeen,
   a refusal before that ends the loop, and nobody verifies without it. *)
EndInv ==
  /\ refused => ~endSeen /\ loop = "ended"
  /\ verifiers > 0 \/ gate = "verify" \/ file = "complete" => endSeen
  /\ outcome = "ok" => file = "complete"

LEMMA HandleEnds ==
  ASSUME TypeOK, NEW c \in Arrivals, handle(c), loop = "reading"
  PROVE  /\ endSeen \/ endSeen' = endSeen \/ (refused' = refused /\ endSeen' = TRUE)
         /\ endSeen => endSeen'
         /\ refused' # refused => ~endSeen' /\ loop' = "ended"
         /\ loop' = "reading" => refused' = refused
         /\ verifiers' = verifiers \/ endSeen'
         /\ gate' = gate \/ gate' = "fail"
<1>1. ASSUME NEW own \in BOOLEAN, endsWith(own)
      PROVE  /\ refused' = (refused \/ ~endSeen) /\ loop' = "ended"
             /\ gate' = gate \/ gate' = "fail"
  BY <1>1 DEF endsWith, failed
<1>2. CASE handleEnd(c)
  BY <1>1, <1>2 DEF handleEnd, goesOn, TypeOK, FirstOK
<1>3. CASE ~handleEnd(c)
  <2>1. UNCHANGED <<endSeen, verifiers>>
    BY <1>3 DEF handle, handleMetadata, handleData, handleAbort, handleOffer,
                handleUnexpected
  <2>2. \/ UNCHANGED <<loop, refused, gate>>
        \/ /\ refused' = (refused \/ ~endSeen) /\ loop' = "ended"
           /\ gate' = gate \/ gate' = "fail"
    BY <1>1, <1>3 DEF handle, handleMetadata, handleData, handleAbort, handleOffer,
                handleUnexpected, goesOn, ingested
  <2>3. QED
    BY <2>1, <2>2 DEF TypeOK, FirstOK
<1>4. QED
  BY <1>2, <1>3

LEMMA EndStep == TypeOK /\ EndInv /\ [Next]_vars => EndInv'
<1> SUFFICES ASSUME TypeOK, EndInv, [Next]_vars PROVE EndInv'
  OBVIOUS
<1> USE DEF EndInv
<1>1. CASE OnFrames
  <2>1. PICK c \in Arrivals : handle(c)
    BY <1>1 DEF OnFrames
  <2>2. loop = "reading" /\ UNCHANGED <<outcome, file>>
    BY <1>1 DEF OnFrames
  <2>3. ~refused
    BY <2>2
  <2>4. QED
    BY <2>1, <2>2, <2>3, HandleEnds DEF TypeOK, FirstOK
<1>2. CASE readEnds
  BY <1>2 DEF readEnds, endsWith, failed, TypeOK, FirstOK
<1>3. CASE closes \/ waitDone \/ cleanup
  BY <1>3 DEF closes, waitDone, cleanup, File!Report, TypeOK, CoreOK
<1>4. CASE watchClose
  BY <1>4 DEF watchClose, watchStep, fail, failed
<1>5. CASE verifyAndClose
  BY <1>5 DEF verifyAndClose, fail, failed, TypeOK, FirstOK
<1>6. CASE settle
  BY <1>6 DEF settle, File!Complete, File!Discard, TypeOK, CoreOK
<1>7. ASSUME NEW p \in Ids,
             \/ negotiateReceivePeer(p) \/ installDataPeer(p) \/ peerOnFrames(p)
             \/ onPeerData(p) \/ peerReadEnds(p) \/ peerCloses(p) \/ peerWatchClose(p)
      PROVE  EndInv'
  <2>1. UNCHANGED <<loop, outcome, file, endSeen, verifiers, refused>>
    BY <1>7 DEF negotiateReceivePeer, installDataPeer, peerOnFrames, onPeerData,
                peerReadEnds, peerCloses, peerWatchClose, peerStep
  <2>2. fail \/ UNCHANGED gate
    BY <1>7 DEF negotiateReceivePeer, installDataPeer, peerOnFrames, onPeerData,
                peerReadEnds, peerCloses, peerWatchClose, peerEndsWith, ingested
  <2>3. gate' = "verify" => gate = "verify"
    BY <2>2 DEF fail, failed
  <2>4. QED
    BY <2>1, <2>3
<1>8. CASE Returned \/ UNCHANGED vars
  BY <1>8 DEF Returned, vars
<1>9. QED
  BY <1>1, <1>2, <1>3, <1>4, <1>5, <1>6, <1>7, <1>8 DEF Next

(* A primary or control loop that ended in an error before the end frame is never
   followed by success. *)
THEOREM Refusal == Spec => []RefusedNeverSucceeds
<1>1. Init => EndInv
  BY DEF Init, EndInv, File!Init
<1>2. EndInv => RefusedNeverSucceeds
  BY DEF EndInv, RefusedNeverSucceeds
<1>3. QED
  BY <1>1, <1>2, EndStep, TypeCorrect, PTL DEF Spec
-----------------------------------------------------------------------------
(* An id without an entry in r.peers has never been negotiated. *)
NegInv ==
  \A p \in Ids :
    /\ negotiations[p] <= 1
    /\ entry[p] = "none" => negotiations[p] = 0 /\ neg[p] = "off"

LEMMA NegStep == TypeOK /\ NegInv /\ [Next]_vars => NegInv'
<1> SUFFICES ASSUME TypeOK, NegInv, [Next]_vars, NEW q \in Ids
             PROVE  /\ negotiations'[q] <= 1
                    /\ entry'[q] = "none" => negotiations'[q] = 0 /\ neg'[q] = "off"
  BY DEF NegInv
<1>0. /\ negotiations[q] <= 1 /\ negotiations[q] \in Nat
      /\ entry[q] = "none" => negotiations[q] = 0 /\ neg[q] = "off"
  BY DEF NegInv, TypeOK, PeersOK
<1>1. CASE OnFrames
  <2>1. PICK c : handle(c)
    BY <1>1 DEF OnFrames
  <2>2. CASE quiet
    BY <1>0, <2>2 DEF quiet
  <2>3. CASE entry[c.id] = "none" /\ entry' = [entry EXCEPT ![c.id] = "reserved"]
               /\ negotiates(c.id)
    <3>1. CASE q = c.id
      <4>1. negotiations'[q] = negotiations[q] + 1 /\ negotiations[q] = 0
        BY <1>0, <2>3, <3>1 DEF negotiates, TypeOK, PeersOK
      <4>2. entry'[q] = "reserved"
        BY <2>3, <3>1 DEF TypeOK, PeersOK
      <4>3. QED
        BY <4>1, <4>2
    <3>2. CASE q # c.id
      BY <1>0, <2>3, <3>2 DEF negotiates, TypeOK, PeersOK
    <3>3. QED
      BY <3>1, <3>2
  <2>4. QED
    BY <2>1, <2>2, <2>3, HandlePeers
<1>2. CASE readEnds \/ closes \/ watchClose \/ verifyAndClose \/ cleanup \/ settle
             \/ waitDone \/ Returned \/ UNCHANGED vars
  <2>1. UNCHANGED <<entry, neg, negotiations>>
    BY <1>2 DEF readEnds, closes, watchClose, watchStep, verifyAndClose, cleanup,
                settle, waitDone, Returned, vars
  <2>2. QED
    BY <1>0, <2>1
<1>3. ASSUME NEW p \in Ids, negotiateReceivePeer(p)
      PROVE  /\ negotiations'[q] <= 1
             /\ entry'[q] = "none" => negotiations'[q] = 0 /\ neg'[q] = "off"
  <2>1. UNCHANGED negotiations
    BY <1>3 DEF negotiateReceivePeer, peerStep
  <2>2. /\ neg[p] \in {"creating", "accepting"}
        /\ entry' = entry \/ entry' = [entry EXCEPT ![p] = "published"]
        /\ q # p => neg'[q] = neg[q]
    BY <1>3 DEF negotiateReceivePeer, TypeOK, PeersOK
  <2>3. QED
    BY <1>0, <2>1, <2>2 DEF TypeOK, PeersOK
<1>4. ASSUME NEW p \in Ids,
             \/ installDataPeer(p) \/ peerOnFrames(p) \/ onPeerData(p)
             \/ peerReadEnds(p) \/ peerCloses(p) \/ peerWatchClose(p)
      PROVE  /\ negotiations'[q] <= 1
             /\ entry'[q] = "none" => negotiations'[q] = 0 /\ neg'[q] = "off"
  <2>1. UNCHANGED <<entry, neg, negotiations>>
    BY <1>4 DEF installDataPeer, peerOnFrames, onPeerData, peerReadEnds, peerCloses,
                peerWatchClose, peerStep
  <2>2. QED
    BY <1>0, <2>1
<1>5. QED
  BY <1>1, <1>2, <1>3, <1>4 DEF Next

(* An id is negotiated once, whatever offers arrive. *)
THEOREM OnceNegotiated == Spec => []OneNegotiator
<1>1. Init => NegInv
  BY DEF Init, NegInv
<1>2. TypeOK /\ NegInv => OneNegotiator
  BY DEF NegInv, OneNegotiator, TypeOK, PeersOK
<1>3. QED
  BY <1>1, <1>2, NegStep, TypeCorrect, PTL DEF Spec
-----------------------------------------------------------------------------
(* A data channel has no decoder only when METADATA named none before it opened,
   unless doneOnce is taken. *)
RawAllowed(p) ==
  gate = "free" /\ p \notin early => meta # NoMeta /\ meta.codec # CodecZstd

DecInv ==
  /\ ~raw
  /\ \A p \in Ids :
       /\ dloop[p] = "reading" => dwatch[p] # "off"
       /\ dwatch[p] # "off" /\ dec[p] = "nil" => RawAllowed(p)
       /\ holds[p] # Idle /\ holds[p].decoder = "nil" => RawAllowed(p)

(* METADATA is accepted once, doneOnce is not given back. *)
LEMMA Irreversible ==
  ASSUME TypeOK, [Next]_vars
  PROVE  /\ gate' = "free" => gate = "free"
         /\ early \subseteq early'
         /\ meta # NoMeta => meta' = meta
<1>1. gate' = "free" => gate = "free"
  <2>1. CASE OnFrames
    BY <2>1 DEF OnFrames, handle, handleMetadata, handleData, handleEnd, handleAbort,
                handleOffer, handleUnexpected, endsWith, failed, ingested
  <2>2. CASE readEnds \/ closes \/ watchClose \/ verifyAndClose
    BY <2>2 DEF readEnds, endsWith, closes, watchClose, watchStep, verifyAndClose, fail,
                failed
  <2>3. CASE cleanup \/ settle \/ waitDone \/ Returned \/ UNCHANGED vars
    BY <2>3 DEF cleanup, settle, waitDone, Returned, vars
  <2>4. ASSUME NEW p \in Ids,
               \/ negotiateReceivePeer(p) \/ installDataPeer(p) \/ peerOnFrames(p)
               \/ onPeerData(p) \/ peerReadEnds(p) \/ peerCloses(p) \/ peerWatchClose(p)
        PROVE  gate' = "free" => gate = "free"
    BY <2>4 DEF negotiateReceivePeer, installDataPeer, peerOnFrames, onPeerData,
                peerReadEnds, peerCloses, peerWatchClose, peerEndsWith, ingested, fail,
                failed
  <2>5. QED
    BY <2>1, <2>2, <2>3, <2>4 DEF Next
<1>2. early \subseteq early'
  BY DEF Next, OnFrames, readEnds, closes, watchClose, watchStep, verifyAndClose,
         cleanup, settle, waitDone, negotiateReceivePeer, installDataPeer,
         peerOnFrames, onPeerData, peerReadEnds, peerCloses, peerWatchClose,
         peerStep, Returned, vars
<1>3. ASSUME meta # NoMeta PROVE meta' = meta
  <2>1. CASE OnFrames
    BY <1>3, <2>1 DEF OnFrames, handle, handleMetadata, handleData, handleEnd,
                      handleAbort, handleOffer, handleUnexpected, accepts
  <2>2. CASE ~OnFrames
    BY <2>2 DEF Next, readEnds, closes, watchClose, watchStep, verifyAndClose,
                cleanup, settle, waitDone, negotiateReceivePeer, installDataPeer,
                peerOnFrames, onPeerData, peerReadEnds, peerCloses, peerWatchClose,
                peerStep, Returned, vars
  <2>3. QED
    BY <2>1, <2>2
<1>4. QED
  BY <1>1, <1>2, <1>3

LEMMA DecStep == TypeOK /\ DecInv /\ [Next]_vars => DecInv'
<1> SUFFICES ASSUME TypeOK, DecInv, [Next]_vars PROVE DecInv'
  OBVIOUS
<1>1. ASSUME NEW q \in Ids, RawAllowed(q) PROVE RawAllowed(q)'
  BY <1>1, Irreversible DEF RawAllowed
<1>2. ASSUME UNCHANGED <<raw, dloop, dwatch, dec, holds>> PROVE DecInv'
  BY <1>1, <1>2 DEF DecInv
<1>3. CASE cleanup
  <2>1. ASSUME NEW q \in Ids PROVE RawAllowed(q)'
    BY <1>3 DEF cleanup, RawAllowed
  <2>2. QED
    BY <1>3, <2>1 DEF cleanup, DecInv
<1>4. CASE OnFrames \/ readEnds \/ closes \/ watchClose \/ verifyAndClose \/ settle
             \/ waitDone \/ Returned \/ UNCHANGED vars
  BY <1>2, <1>4 DEF OnFrames, readEnds, closes, watchClose, watchStep, verifyAndClose,
                    settle, waitDone, Returned, vars
<1>5. ASSUME NEW p \in Ids, negotiateReceivePeer(p) \/ peerCloses(p)
      PROVE  DecInv'
  BY <1>2, <1>5 DEF negotiateReceivePeer, peerCloses, peerStep
<1>6. ASSUME NEW p \in Ids, installDataPeer(p) PROVE DecInv'
  <2>1. /\ UNCHANGED <<raw, holds, meta, gate>>
        /\ dloop' = [dloop EXCEPT ![p] = "reading"]
        /\ dwatch' = [dwatch EXCEPT ![p] = "waiting"]
        /\ dec' = [dec EXCEPT ![p] = decoderFor]
        /\ early' = IF meta = NoMeta THEN early \cup {p} ELSE early
    BY <1>6 DEF installDataPeer, peerStep
  <2>2. decoderFor = "nil" => RawAllowed(p)'
    BY <2>1 DEF decoderFor, RawAllowed
  <2>3. ASSUME NEW q \in Ids
        PROVE  /\ dloop'[q] = "reading" => dwatch'[q] # "off"
               /\ dwatch'[q] # "off" /\ dec'[q] = "nil" => RawAllowed(q)'
               /\ holds'[q] # Idle /\ holds'[q].decoder = "nil" => RawAllowed(q)'
    <3>1. CASE q = p
      BY <1>1, <2>1, <2>2, <3>1 DEF DecInv, TypeOK, PeersOK
    <3>2. CASE q # p
      BY <1>1, <2>1, <3>2 DEF DecInv, TypeOK, PeersOK
    <3>3. QED
      BY <3>1, <3>2
  <2>4. QED
    BY <2>1, <2>3 DEF DecInv
<1>7. ASSUME NEW p \in Ids, peerOnFrames(p) PROVE DecInv'
  <2>1. UNCHANGED <<raw, dwatch, dec>> /\ dloop[p] = "reading"
    BY <1>7 DEF peerOnFrames, peerStep
  <2>2. ASSUME NEW q \in Ids PROVE dloop'[q] = "reading" => dloop[q] = "reading"
    BY <1>7 DEF peerOnFrames, peerEndsWith, TypeOK, PeersOK
  <2>3. ASSUME NEW q \in Ids PROVE holds'[q] = holds[q] \/ (q = p /\ holds'[q].decoder = dec[p])
    <3>1. PICK c \in DataArrivals :
            \/ holds' = [holds EXCEPT ![p] = [call |-> c.call, offset |-> c.offset,
                           payload |-> c.payload, decoder |-> dec[p]]]
            \/ UNCHANGED holds
      BY <1>7 DEF peerOnFrames
    <3>2. QED
      BY <3>1 DEF TypeOK, PeersOK
  <2>4. QED
    BY <1>1, <2>1, <2>2, <2>3 DEF DecInv
<1>8. ASSUME NEW p \in Ids, onPeerData(p) PROVE DecInv'
  <2>1. UNCHANGED <<dwatch, dec>> /\ holds[p] # Idle
    BY <1>8 DEF onPeerData, peerStep
  <2>2. ASSUME NEW q \in Ids PROVE dloop'[q] = "reading" => dloop[q] = "reading"
    BY <1>8 DEF onPeerData, peerEndsWith, TypeOK, PeersOK
  <2>3. ASSUME NEW q \in Ids PROVE holds'[q] = holds[q] \/ holds'[q] = Idle
    BY <1>8 DEF onPeerData, TypeOK, PeersOK
  <2>4. ~raw'
    BY <1>8, <2>1 DEF onPeerData, DecInv, RawAllowed
  <2>5. QED
    BY <1>1, <2>1, <2>2, <2>3, <2>4 DEF DecInv
<1>9. ASSUME NEW p \in Ids, peerReadEnds(p) \/ peerWatchClose(p) PROVE DecInv'
  <2>1. UNCHANGED <<raw, dec, holds>>
    BY <1>9 DEF peerReadEnds, peerWatchClose, peerStep
  <2>2. ASSUME NEW q \in Ids
        PROVE  /\ dloop'[q] = "reading" => dloop[q] = "reading"
               /\ dwatch'[q] = "off" <=> dwatch[q] = "off"
    BY <1>9 DEF peerReadEnds, peerWatchClose, peerEndsWith, TypeOK, PeersOK
  <2>3. QED
    BY <1>1, <2>1, <2>2 DEF DecInv
<1>10. QED
  BY <1>3, <1>4, <1>5, <1>6, <1>7, <1>8, <1>9 DEF Next

(* No byte of a zstd transfer reaches the file undecoded while the transfer is
   open, on a channel that opened after METADATA. *)
THEOREM Decoding == Spec => []DecodedUnlessOver
<1>1. Init => DecInv
  BY DEF Init, DecInv
<1>2. DecInv => DecodedUnlessOver
  BY DEF DecInv, DecodedUnlessOver
<1>3. QED
  BY <1>1, <1>2, DecStep, TypeCorrect, PTL DEF Spec
=============================================================================
