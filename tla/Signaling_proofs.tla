-------------------------- MODULE Signaling_proofs --------------------------
(* Theorems about the base45 codec and about the SDP exchange that uses it.

   First the codec, for byte strings and texts of any length: Encode and Decode
   are inverse to each other on everything Decode takes, and TrimSpace leaves an
   encoded SDP alone.  A length is 2 * h + b bytes, or 3 * h + 2 * b characters,
   with b 0 or 1: h whole groups and perhaps a short one.  The position of a byte
   or a character is a group and a place in it, and both directions are argued
   group by group: the word of a group is the value of its three digits.

   Then Signaling, for any SDPs and any texts a user may paste. *)
EXTENDS Signaling, WellFoundedInduction, TLAPS

-----------------------------------------------------------------------------
(* Division.  AtN splits a number, ByN reads quotient and remainder off a split. *)
LEMMA At45 ==
  ASSUME NEW w \in Nat
  PROVE  \E q \in Nat, r \in 0 .. 44 :
           w = 45 * q + r /\ (w \div 45) = q /\ (w % 45) = r
OBVIOUS

LEMMA By45 ==
  ASSUME NEW w \in Nat, NEW q \in Nat, NEW r \in Nat, r < 45, w = 45 * q + r
  PROVE  (w \div 45) = q /\ (w % 45) = r
OBVIOUS

LEMMA By2025 ==
  ASSUME NEW w \in Nat, NEW q \in Nat, NEW r \in Nat, r < 2025, w = 2025 * q + r
  PROVE  (w \div 2025) = q
OBVIOUS

LEMMA Shape ==
  ASSUME NEW d0 \in 0 .. 44, NEW d1 \in 0 .. 44, NEW d2 \in Nat
  PROVE  /\ 45 * d2 + d1 \in Nat /\ 45 * d1 + d0 \in Nat /\ 45 * d1 + d0 < 2025
         /\ d0 + 45 * d1 + 2025 * d2 = 45 * (45 * d2 + d1) + d0
         /\ d0 + 45 * d1 + 2025 * d2 = 2025 * d2 + (45 * d1 + d0)
         /\ d0 + 45 * d1 + 2025 * d2 \in Nat
OBVIOUS

(* What Encode's divisions by base and by its square are. *)
LEMMA DigitDef ==
  \A w : digit(w, 0) = (w % 45) /\ digit(w, 1) = ((w \div 45) % 45) /\ digit(w, 2) = (w \div 2025)
<1>1. base = 45 /\ base * base = 2025
  BY DEF base
<1>2. QED
  BY <1>1 DEF digit

(* The number of three digits, least significant first. *)
Value(x, y, z) == x + 45 * y + 2025 * z

LEMMA ValueOf ==
  ASSUME NEW x \in Nat, NEW y \in Nat, NEW z \in Nat
  PROVE  /\ Value(x, y, z) \in Nat
         /\ Value(x, y, z) = x + 45 * y + 2025 * z
BY DEF Value

LEMMA ValueNat == \A x, y, z \in Nat : Value(x, y, z) \in Nat
BY ValueOf

(* The digits of a value are what it was made of. *)
LEMMA Digits ==
  ASSUME NEW d0 \in Nat, NEW d1 \in Nat, NEW d2 \in Nat, d0 < 45, d1 < 45
  PROVE  /\ digit(Value(d0, d1, d2), 0) = d0
         /\ digit(Value(d0, d1, d2), 1) = d1
         /\ digit(Value(d0, d1, d2), 2) = d2
<1>1. PICK q \in Nat : q = 45 * d2 + d1
  OBVIOUS
<1>2. PICK r \in Nat : r = 45 * d1 + d0 /\ r < 2025
  OBVIOUS
<1>3. Value(d0, d1, d2) \in Nat
  BY ValueNat
<1>4. PICK w \in Nat : w = Value(d0, d1, d2)
  BY <1>3
<1>5. w = d0 + 45 * d1 + 2025 * d2
  BY <1>4, ValueOf
<1>6. w = 45 * q + d0
  BY <1>1, <1>5
<1>7. w = 2025 * d2 + r
  BY <1>2, <1>5
<1>8. (w \div 45) = q /\ (w % 45) = d0
  BY <1>6, By45
<1>9. (w \div 2025) = d2
  BY <1>2, <1>7, By2025
<1>10. (q % 45) = d1
  BY <1>1, By45
<1>11. digit(w, 0) = (w % 45) /\ digit(w, 1) = ((w \div 45) % 45) /\ digit(w, 2) = (w \div 2025)
  BY DigitDef
<1>12. QED
  BY <1>4, <1>8, <1>9, <1>10, <1>11

(* A 16-bit number is the value of its digits.  The third stays below the space,
   and so does the second of a byte. *)
LEMMA DigitsOf ==
  ASSUME NEW w \in Nat, w <= 65535
  PROVE  /\ digit(w, 0) \in 0 .. 44 /\ digit(w, 1) \in 0 .. 44
         /\ digit(w, 2) \in 0 .. 32
         /\ w = Value(digit(w, 0), digit(w, 1), digit(w, 2))
         /\ w <= 255 => digit(w, 1) \in 0 .. 5 /\ digit(w, 2) = 0
<1>1. PICK q \in Nat, d0 \in 0 .. 44 : w = 45 * q + d0 /\ (w \div 45) = q /\ (w % 45) = d0
  BY At45
<1>2. PICK d2 \in Nat, d1 \in 0 .. 44 : q = 45 * d2 + d1 /\ (q \div 45) = d2 /\ (q % 45) = d1
  BY At45
<1>3. w = d0 + 45 * d1 + 2025 * d2
  BY <1>1, <1>2, Shape
<1>4. PICK r \in Nat : r = 45 * d1 + d0 /\ r < 2025
  BY Shape
<1>5. w = 2025 * d2 + r
  BY <1>3, <1>4, Shape
<1>6. (w \div 2025) = d2
  BY <1>5, <1>4, By2025
<1>7. digit(w, 0) = (w % 45) /\ digit(w, 1) = ((w \div 45) % 45) /\ digit(w, 2) = (w \div 2025)
  BY DigitDef
<1>8. digit(w, 0) = d0 /\ digit(w, 1) = d1 /\ digit(w, 2) = d2
  BY <1>1, <1>2, <1>6, <1>7
<1>9. d2 \in 0 .. 32 /\ (w <= 255 => d1 \in 0 .. 5 /\ d2 = 0)
  BY <1>3
<1>10. w = Value(d0, d1, d2)
  BY <1>3 DEF Value
<1>11. QED
  BY <1>8, <1>9, <1>10

LEMMA Small == \A x : (x \in 0 .. 44 \/ x \in 0 .. 32) => x \in Nat
OBVIOUS

LEMMA At3 ==
  ASSUME NEW w \in Nat
  PROVE  \E q \in Nat, r \in 0 .. 2 : w = 3 * q + r /\ (w \div 3) = q /\ (w % 3) = r
OBVIOUS

LEMMA By3 ==
  ASSUME NEW w \in Nat, NEW q \in Nat, NEW r \in 0 .. 2, w = 3 * q + r
  PROVE  (w \div 3) = q /\ (w % 3) = r
OBVIOUS

LEMMA At2 ==
  ASSUME NEW w \in Nat
  PROVE  \E q \in Nat, r \in 0 .. 1 : w = 2 * q + r /\ (w \div 2) = q /\ (w % 2) = r
OBVIOUS

LEMMA By2 ==
  ASSUME NEW w \in Nat, NEW q \in Nat, NEW r \in 0 .. 1, w = 2 * q + r
  PROVE  (w \div 2) = q /\ (w % 2) = r
OBVIOUS

LEMMA At256 ==
  ASSUME NEW w \in Nat
  PROVE  \E q \in Nat, r \in Nat : r < 256 /\ w = 256 * q + r /\ (w \div 256) = q /\ (w % 256) = r
OBVIOUS

LEMMA By256 ==
  ASSUME NEW w \in Nat, NEW q \in Nat, NEW r \in Nat, r < 256, w = 256 * q + r
  PROVE  (w \div 256) = q /\ (w % 256) = r
OBVIOUS

-----------------------------------------------------------------------------
(* Lengths and positions. *)
LEMMA ByteIs == \A x : x \in Byte <=> x \in Nat /\ x < 256
BY DEF Byte

LEMMA LenEven ==
  ASSUME NEW n \in Nat, NEW h \in Nat, NEW b \in 0 .. 1, n = 2 * h + b
  PROVE  encodedLen(n) = 3 * h + 2 * b
<1>1. (n \div 2) = h /\ (n % 2) = b
  BY By2
<1>2. encodedLen(n) = h * 3 + b * 2
  BY <1>1 DEF encodedLen
<1>3. QED
  BY <1>2

LEMMA LenThird ==
  ASSUME NEW n \in Nat, NEW h \in Nat, NEW b \in 0 .. 1, n = 3 * h + 2 * b
  PROVE  /\ (n \div 3) = h /\ (n % 3) = 2 * b /\ decodedLen(n) = 2 * h + b
<1>1. PICK r \in 0 .. 2 : r = 2 * b
  OBVIOUS
<1>2. (n \div 3) = h /\ (n % 3) = r
  BY <1>1, By3
<1>3. (r \div 2) = b
  BY <1>1, By2
<1>4. decodedLen(n) = h * 2 + b
  BY <1>2, <1>3 DEF decodedLen
<1>5. QED
  BY <1>1, <1>2, <1>4

(* The character at place k of group g, and the byte at place k of it. *)
LEMMA EncodeAt ==
  ASSUME NEW s, NEW n \in 1 .. encodedLen(Len(s)), NEW g \in Nat, NEW k \in 0 .. 2,
         n - 1 \in Nat, n - 1 = 3 * g + k
  PROVE  Encode(s)[n] = digit(word(s, g), k)
<1>1. ((n - 1) \div 3) = g /\ ((n - 1) % 3) = k
  BY By3
<1>2. Encode(s)[n] = digit(word(s, (n - 1) \div 3), (n - 1) % 3)
  BY DEF Encode
<1>3. QED
  BY <1>1, <1>2

LEMMA EncodeGroup ==
  ASSUME NEW s, NEW m \in Nat, encodedLen(Len(s)) = m, NEW g \in Nat, 3 * g + 2 <= m
  PROVE  /\ Encode(s)[3 * g + 1] = digit(word(s, g), 0)
         /\ Encode(s)[3 * g + 2] = digit(word(s, g), 1)
         /\ 3 * g + 3 <= m => Encode(s)[3 * g + 3] = digit(word(s, g), 2)
<1>1. Encode(s)[3 * g + 1] = digit(word(s, g), 0)
  <2>1. PICK n \in 1 .. m : n = 3 * g + 1
    OBVIOUS
  <2>2. n - 1 \in Nat /\ n - 1 = 3 * g + 0
    BY <2>1
  <2>3. Encode(s)[n] = digit(word(s, g), 0)
    BY <2>2, EncodeAt
  <2>4. QED
    BY <2>1, <2>3
<1>2. Encode(s)[3 * g + 2] = digit(word(s, g), 1)
  <2>1. PICK n \in 1 .. m : n = 3 * g + 2
    OBVIOUS
  <2>2. n - 1 \in Nat /\ n - 1 = 3 * g + 1
    BY <2>1
  <2>3. Encode(s)[n] = digit(word(s, g), 1)
    BY <2>2, EncodeAt
  <2>4. QED
    BY <2>1, <2>3
<1>3. ASSUME 3 * g + 3 <= m PROVE Encode(s)[3 * g + 3] = digit(word(s, g), 2)
  <2>1. PICK n \in 1 .. m : n = 3 * g + 3
    BY <1>3
  <2>2. n - 1 \in Nat /\ n - 1 = 3 * g + 2
    BY <2>1
  <2>3. Encode(s)[n] = digit(word(s, g), 2)
    BY <2>2, EncodeAt
  <2>4. QED
    BY <2>1, <2>3
<1>4. QED
  BY <1>1, <1>2, <1>3

LEMMA DecodeAt ==
  ASSUME NEW t, NEW n \in 1 .. decodedLen(Len(t)), NEW g \in Nat, NEW k \in 0 .. 1,
         n - 1 \in Nat, n - 1 = 2 * g + k
  PROVE  Decode(t)[n] = IF 3 * g + 3 <= Len(t) /\ k = 0
                          THEN decodeChunk(t, g) \div 256 ELSE decodeChunk(t, g) % 256
<1>1. ((n - 1) \div 2) = g
  BY By2
<1>2. (n % 2) = 1 <=> k = 0
  <2>1. CASE k = 0
    <3>1. n \in Nat /\ n = 2 * g + 1
      BY <2>1
    <3>2. QED
      BY <3>1, <2>1, By2
  <2>2. CASE k = 1
    <3>1. PICK q \in Nat : q = g + 1
      OBVIOUS
    <3>2. n \in Nat /\ n = 2 * q + 0
      BY <3>1, <2>2
    <3>3. QED
      BY <3>2, <2>2, By2
  <2>3. QED
    BY <2>1, <2>2
<1>3. Decode(t)[n] =
        IF 3 * ((n - 1) \div 2) + 3 <= Len(t) /\ n % 2 = 1
          THEN decodeChunk(t, (n - 1) \div 2) \div 256
          ELSE decodeChunk(t, (n - 1) \div 2) % 256
  BY DEF Decode
<1>4. QED
  BY <1>1, <1>2, <1>3

(* Every length splits into whole groups and a short one. *)
LEMMA HalfLen ==
  ASSUME NEW n \in Nat
  PROVE  \E h \in Nat, b \in 0 .. 1 : n = 2 * h + b
BY At2

LEMMA ThirdLen ==
  ASSUME NEW n \in Nat, (n % 3) # 1
  PROVE  \E h \in Nat, b \in 0 .. 1 : n = 3 * h + 2 * b
<1>1. PICK q \in Nat, r \in 0 .. 2 : n = 3 * q + r /\ (n \div 3) = q /\ (n % 3) = r
  BY At3
<1>2. CASE r = 0
  <2>1. n = 3 * q + 2 * 0
    BY <1>1, <1>2
  <2>2. QED
    BY <2>1
<1>3. CASE r = 2
  <2>1. n = 3 * q + 2 * 1
    BY <1>1, <1>3
  <2>2. QED
    BY <2>1
<1>4. QED
  BY <1>1, <1>2, <1>3

(* A whole group's word has 16 bits, the last odd byte's has 8. *)
LEMMA WordOf ==
  ASSUME NEW s \in Seq(Byte), NEW h \in Nat, NEW b \in 0 .. 1, Len(s) = 2 * h + b,
         NEW g \in Nat, 2 * g < Len(s)
  PROVE  /\ word(s, g) \in Nat /\ word(s, g) <= 65535
         /\ g < h => word(s, g) = s[2 * g + 1] * 256 + s[2 * g + 2]
         /\ ~(g < h) => g = h /\ b = 1 /\ word(s, g) = s[2 * g + 1] /\ word(s, g) <= 255
<1>1. 2 * g + 1 \in 1 .. Len(s)
  OBVIOUS
<1>2. s[2 * g + 1] \in Nat /\ s[2 * g + 1] < 256
  BY <1>1, ByteIs
<1>3. CASE g < h
  <2>1. 2 * g + 2 \in 1 .. Len(s)
    BY <1>3
  <2>2. s[2 * g + 2] \in Nat /\ s[2 * g + 2] < 256
    BY <2>1, ByteIs
  <2>3. word(s, g) = s[2 * g + 1] * 256 + s[2 * g + 2]
    BY <2>1 DEF word
  <2>4. QED
    BY <1>2, <1>3, <2>2, <2>3
<1>4. CASE ~(g < h)
  <2>1. g = h /\ b = 1 /\ ~(2 * g + 2 <= Len(s))
    BY <1>4
  <2>2. word(s, g) = s[2 * g + 1]
    BY <2>1 DEF word
  <2>3. QED
    BY <1>2, <1>4, <2>1, <2>2
<1>5. QED
  BY <1>3, <1>4

LEMMA EncodeLen ==
  ASSUME NEW s \in Seq(Byte), NEW h \in Nat, NEW b \in 0 .. 1, Len(s) = 2 * h + b
  PROVE  /\ Len(Encode(s)) = 3 * h + 2 * b
         /\ DOMAIN Encode(s) = 1 .. 3 * h + 2 * b
<1>1. encodedLen(Len(s)) = 3 * h + 2 * b /\ 3 * h + 2 * b \in Nat
  BY LenEven
<1>2. QED
  BY <1>1 DEF Encode

LEMMA DecodeLen ==
  ASSUME NEW t, NEW h \in Nat, NEW b \in 0 .. 1, Len(t) = 3 * h + 2 * b
  PROVE  /\ Len(Decode(t)) = 2 * h + b
         /\ DOMAIN Decode(t) = 1 .. 2 * h + b
<1>1. decodedLen(Len(t)) = 2 * h + b /\ 2 * h + b \in Nat
  BY LenThird
<1>2. QED
  BY <1>1 DEF Decode

-----------------------------------------------------------------------------
(* Encode, then Decode. *)
LEMMA WholeChunk ==
  ASSUME NEW t, NEW g \in Nat, 3 * g + 3 <= Len(t),
         t[3 * g + 1] \in Nat, t[3 * g + 2] \in Nat, t[3 * g + 3] \in Nat
  PROVE  decodeChunk(t, g) = Value(t[3 * g + 1], t[3 * g + 2], t[3 * g + 3])
<1>1. PICK x \in Nat : x = t[3 * g + 1]
  OBVIOUS
<1>2. PICK y \in Nat : y = t[3 * g + 2]
  OBVIOUS
<1>3. PICK z \in Nat : z = t[3 * g + 3]
  OBVIOUS
<1>4. decodeChunk(t, g) = x + base * y + base * base * z
  BY <1>1, <1>2, <1>3 DEF decodeChunk
<1>5. base = 45 /\ base * base = 2025
  BY DEF base
<1>6. decodeChunk(t, g) = Value(x, y, z)
  BY <1>4, <1>5 DEF Value
<1>7. QED
  BY <1>1, <1>2, <1>3, <1>6

LEMMA ShortChunk ==
  ASSUME NEW t, NEW g \in Nat, ~(3 * g + 3 <= Len(t)),
         t[3 * g + 1] \in Nat, t[3 * g + 2] \in Nat
  PROVE  decodeChunk(t, g) = Value(t[3 * g + 1], t[3 * g + 2], 0)
<1>1. PICK x \in Nat : x = t[3 * g + 1]
  OBVIOUS
<1>2. PICK y \in Nat : y = t[3 * g + 2]
  OBVIOUS
<1>3. decodeChunk(t, g) = x + base * y + 0
  BY <1>1, <1>2 DEF decodeChunk
<1>4. decodeChunk(t, g) = Value(x, y, 0)
  BY <1>3 DEF base, Value
<1>5. QED
  BY <1>1, <1>2, <1>4

(* Decode reads from a group of characters the word Encode made them of. *)
LEMMA ChunkOfWord ==
  ASSUME NEW s \in Seq(Byte), NEW h \in Nat, NEW b \in 0 .. 1, Len(s) = 2 * h + b,
         NEW g \in Nat, 2 * g < Len(s)
  PROVE  decodeChunk(Encode(s), g) = word(s, g)
<1>1. /\ word(s, g) \in Nat /\ word(s, g) <= 65535
      /\ ~(g < h) => g = h /\ b = 1 /\ word(s, g) <= 255
  BY WordOf
<1>2. PICK w \in Nat : w = word(s, g)
  BY <1>1
<1>3. w <= 65535 /\ (~(g < h) => g = h /\ b = 1 /\ w <= 255)
  BY <1>1, <1>2
<1>4. PICK m \in Nat : m = 3 * h + 2 * b
  OBVIOUS
<1>5. encodedLen(Len(s)) = m /\ Len(Encode(s)) = m
  BY <1>4, LenEven, EncodeLen
<1>6. 3 * g + 2 <= m /\ (3 * g + 3 <= m <=> g < h)
  BY <1>3, <1>4
<1>7. digit(w, 0) \in 0 .. 44 /\ digit(w, 1) \in 0 .. 44 /\ digit(w, 2) \in 0 .. 32
  BY <1>3, DigitsOf
<1>8. digit(w, 0) \in Nat /\ digit(w, 1) \in Nat /\ digit(w, 2) \in Nat
  BY <1>7, Small
<1>9. w = Value(digit(w, 0), digit(w, 1), digit(w, 2)) /\ (w <= 255 => digit(w, 2) = 0)
  BY <1>3, DigitsOf
<1>10. /\ Encode(s)[3 * g + 1] = digit(w, 0) /\ Encode(s)[3 * g + 2] = digit(w, 1)
       /\ g < h => Encode(s)[3 * g + 3] = digit(w, 2)
  BY <1>2, <1>5, <1>6, EncodeGroup
<1>11. CASE g < h
  <2>1. 3 * g + 3 <= Len(Encode(s))
    BY <1>5, <1>6, <1>11
  <2>2. decodeChunk(Encode(s), g) = Value(digit(w, 0), digit(w, 1), digit(w, 2))
    BY <1>8, <1>10, <1>11, <2>1, WholeChunk
  <2>3. QED
    BY <1>2, <1>9, <2>2
<1>12. CASE ~(g < h)
  <2>1. ~(3 * g + 3 <= Len(Encode(s)))
    BY <1>5, <1>6, <1>12
  <2>2. decodeChunk(Encode(s), g) = Value(digit(w, 0), digit(w, 1), 0)
    BY <1>8, <1>10, <2>1, ShortChunk
  <2>3. digit(w, 2) = 0
    BY <1>3, <1>9, <1>12
  <2>4. QED
    BY <1>2, <1>9, <2>2, <2>3
<1>13. QED
  BY <1>11, <1>12

LEMMA NotInvalid == \A x \in 0 .. 44 : x # Invalid
BY DEF Invalid

LEMMA EncodeValid ==
  ASSUME NEW s \in Seq(Byte), NEW h \in Nat, NEW b \in 0 .. 1, Len(s) = 2 * h + b,
         NEW n \in 1 .. encodedLen(Len(s))
  PROVE  Encode(s)[n] \in 0 .. 44
<1>1. encodedLen(Len(s)) = 3 * h + 2 * b
  BY LenEven
<1>2. PICK m \in Nat : m = n - 1 /\ m < 3 * h + 2 * b
  BY <1>1
<1>3. PICK g \in Nat, k \in 0 .. 2 : m = 3 * g + k
  BY At3
<1>4. 2 * g < Len(s)
  BY <1>2, <1>3
<1>5. word(s, g) \in Nat /\ word(s, g) <= 65535
  BY <1>4, WordOf
<1>6. Encode(s)[n] = digit(word(s, g), k)
  BY <1>2, <1>3, EncodeAt
<1>7. PICK w \in Nat : w = word(s, g) /\ w <= 65535
  BY <1>5
<1>8. digit(w, 0) \in 0 .. 44 /\ digit(w, 1) \in 0 .. 44 /\ digit(w, 2) \in 0 .. 32
  BY <1>7, DigitsOf
<1>9. digit(w, k) \in 0 .. 44
  <2>1. k = 0 \/ k = 1 \/ k = 2
    OBVIOUS
  <2>2. digit(w, 2) \in 0 .. 44
    BY <1>8
  <2>3. QED
    BY <1>8, <2>1, <2>2
<1>10. QED
  BY <1>6, <1>7, <1>9

(* Encode writes nothing that Decode refuses. *)
LEMMA EncodeDecodable ==
  ASSUME NEW s \in Seq(Byte)
  PROVE  Decodable(Encode(s))
<1>1. PICK N \in Nat : N = Len(s)
  OBVIOUS
<1>2. PICK h \in Nat, b \in 0 .. 1 : Len(s) = 2 * h + b
  BY <1>1, HalfLen
<1>3. PICK m \in Nat : m = 3 * h + 2 * b
  OBVIOUS
<1>4. /\ Len(Encode(s)) = m /\ DOMAIN Encode(s) = 1 .. m /\ encodedLen(Len(s)) = m
  BY <1>2, <1>3, EncodeLen, LenEven
<1>5. (m \div 3) = h /\ (m % 3) = 2 * b
  BY <1>3, LenThird
<1>6. \A n \in DOMAIN Encode(s) : Encode(s)[n] # Invalid
  <2> SUFFICES ASSUME NEW n \in 1 .. encodedLen(Len(s)) PROVE Encode(s)[n] # Invalid
    BY <1>4
  <2>1. Encode(s)[n] \in 0 .. 44
    BY <1>2, EncodeValid
  <2>2. QED
    BY <2>1, NotInvalid
<1>7. \A g \in groups(Encode(s)) : decodeChunk(Encode(s), g) <= 65535
  <2> SUFFICES ASSUME NEW g \in Nat, g < h PROVE decodeChunk(Encode(s), g) <= 65535
    BY <1>4, <1>5 DEF groups
  <2>1. 2 * g < Len(s)
    BY <1>2
  <2>2. word(s, g) <= 65535
    BY <1>2, <2>1, WordOf
  <2>3. QED
    BY <1>2, <2>1, <2>2, ChunkOfWord
<1>8. ASSUME 2 * b = 2 PROVE decodeChunk(Encode(s), h) <= 255
  <2>1. 2 * h < Len(s) /\ ~(h < h)
    BY <1>2, <1>8
  <2>2. word(s, h) <= 255
    BY <1>2, <2>1, WordOf
  <2>3. QED
    BY <1>2, <2>1, <2>2, ChunkOfWord
<1>9. 2 * b # 1
  OBVIOUS
<1>10. QED
  BY <1>4, <1>5, <1>6, <1>7, <1>8, <1>9 DEF Decodable

LEMMA WordHalves ==
  ASSUME NEW s \in Seq(Byte), NEW g \in Nat, 2 * g + 2 <= Len(s)
  PROVE  (word(s, g) \div 256) = s[2 * g + 1] /\ (word(s, g) % 256) = s[2 * g + 2]
<1>1. 2 * g + 1 \in 1 .. Len(s) /\ 2 * g + 2 \in 1 .. Len(s)
  OBVIOUS
<1>2. PICK x \in Nat : x = s[2 * g + 1]
  BY <1>1, ByteIs
<1>3. PICK y \in Nat : y = s[2 * g + 2] /\ y < 256
  BY <1>1, ByteIs
<1>4. word(s, g) = x * 256 + y
  BY <1>1, <1>2, <1>3 DEF word
<1>5. (x * 256 + y) \div 256 = x /\ ((x * 256 + y) % 256) = y
  BY <1>3, SMTT(30)
<1>6. QED
  BY <1>2, <1>3, <1>4, <1>5

LEMMA WordLast ==
  ASSUME NEW s \in Seq(Byte), NEW g \in Nat, 2 * g + 1 = Len(s)
  PROVE  (word(s, g) % 256) = s[2 * g + 1]
<1>1. 2 * g + 1 \in 1 .. Len(s) /\ ~(2 * g + 2 <= Len(s))
  OBVIOUS
<1>2. PICK x \in Nat : x = s[2 * g + 1] /\ x < 256
  BY <1>1, ByteIs
<1>3. word(s, g) = x
  BY <1>1, <1>2 DEF word
<1>4. (x % 256) = x
  BY <1>2
<1>5. QED
  BY <1>2, <1>3, <1>4

(* Byte by byte, Decode gives back what Encode took. *)
LEMMA DecodeEncodeAt ==
  ASSUME NEW s \in Seq(Byte), NEW i \in 1 .. Len(s)
  PROVE  Decode(Encode(s))[i] = s[i]
<1>1. PICK N \in Nat : N = Len(s)
  OBVIOUS
<1>2. PICK h \in Nat, b \in 0 .. 1 : Len(s) = 2 * h + b
  BY <1>1, HalfLen
<1>3. PICK m \in Nat : m = i - 1
  OBVIOUS
<1>4. PICK g \in Nat, k \in 0 .. 1 : m = 2 * g + k
  BY At2
<1>5. 2 * g < Len(s) /\ 2 * g + k + 1 <= 2 * h + b /\ i = 2 * g + k + 1
  BY <1>2, <1>3, <1>4
<1>6. Len(Encode(s)) = 3 * h + 2 * b /\ decodedLen(Len(Encode(s))) = Len(s)
  BY <1>2, EncodeLen, LenThird
<1>7. decodeChunk(Encode(s), g) = word(s, g)
  BY <1>2, <1>5, ChunkOfWord
<1>8. Decode(Encode(s))[i] =
        IF 3 * g + 3 <= Len(Encode(s)) /\ k = 0
          THEN decodeChunk(Encode(s), g) \div 256 ELSE decodeChunk(Encode(s), g) % 256
  BY <1>3, <1>4, <1>6, DecodeAt
<1>9. 3 * g + 3 <= Len(Encode(s)) <=> g < h
  BY <1>6
<1>10. Decode(Encode(s))[i] = IF g < h /\ k = 0 THEN word(s, g) \div 256 ELSE word(s, g) % 256
  BY <1>7, <1>8, <1>9
<1>11. CASE g < h
  <2>1. 2 * g + 2 <= Len(s)
    BY <1>2, <1>11
  <2>2. (word(s, g) \div 256) = s[2 * g + 1] /\ (word(s, g) % 256) = s[2 * g + 2]
    BY <2>1, WordHalves
  <2>3. (k = 0 /\ i = 2 * g + 1) \/ (k = 1 /\ i = 2 * g + 2)
    BY <1>5
  <2>4. QED
    BY <1>10, <1>11, <2>2, <2>3
<1>12. CASE ~(g < h)
  <2>1. k = 0 /\ i = 2 * g + 1 /\ 2 * g + 1 = Len(s)
    BY <1>2, <1>5, <1>12
  <2>2. (word(s, g) % 256) = s[2 * g + 1]
    BY <2>1, WordLast
  <2>3. QED
    BY <1>10, <1>12, <2>1, <2>2
<1>13. QED
  BY <1>11, <1>12

LEMMA DecodeIsFun ==
  ASSUME NEW t
  PROVE  Decode(t) = [n \in 1 .. decodedLen(Len(t)) |-> Decode(t)[n]]
BY DEF Decode

LEMMA EncodeIsFun ==
  ASSUME NEW s
  PROVE  Encode(s) = [n \in 1 .. encodedLen(Len(s)) |-> Encode(s)[n]]
BY DEF Encode

(* Every byte string survives the round trip (base45.go:58, "Decode reverses
   Encode"): of odd or even length, with any bytes. *)
THEOREM RoundTrip ==
  ASSUME NEW s \in Seq(Byte)
  PROVE  Decodable(Encode(s)) /\ Decode(Encode(s)) = s
<1>1. PICK N \in Nat : N = Len(s)
  OBVIOUS
<1>2. PICK h \in Nat, b \in 0 .. 1 : Len(s) = 2 * h + b
  BY <1>1, HalfLen
<1>3. Len(Encode(s)) = 3 * h + 2 * b
  BY <1>2, EncodeLen
<1>4. decodedLen(Len(Encode(s))) = Len(s)
  BY <1>2, <1>3, LenThird
<1>5. Decode(Encode(s)) = [n \in 1 .. Len(s) |-> Decode(Encode(s))[n]]
  BY <1>4, DecodeIsFun
<1>6. s = [n \in 1 .. Len(s) |-> s[n]]
  OBVIOUS
<1>7. \A n \in 1 .. Len(s) : Decode(Encode(s))[n] = s[n]
  BY DecodeEncodeAt
<1>8. [n \in 1 .. Len(s) |-> Decode(Encode(s))[n]] = [n \in 1 .. Len(s) |-> s[n]]
  BY <1>7
<1>9. QED
  BY <1>5, <1>6, <1>8, EncodeDecodable

-----------------------------------------------------------------------------
(* Decode, then Encode. *)
LEMMA CharIs == \A x \in Char : x # Invalid => x \in Nat /\ x < 45
BY DEF Char

LEMMA CharsOf ==
  ASSUME NEW t \in Seq(Char), Decodable(t), NEW n \in 1 .. Len(t)
  PROVE  t[n] \in Nat /\ t[n] < 45
<1>1. t[n] \in Char /\ n \in DOMAIN t
  OBVIOUS
<1>2. t[n] # Invalid
  BY <1>1 DEF Decodable
<1>3. QED
  BY <1>1, <1>2, CharIs

LEMMA DigitsOfChunk ==
  ASSUME NEW t \in Seq(Char), Decodable(t), NEW g \in Nat, 3 * g + 2 <= Len(t)
  PROVE  /\ decodeChunk(t, g) \in Nat
         /\ digit(decodeChunk(t, g), 0) = t[3 * g + 1]
         /\ digit(decodeChunk(t, g), 1) = t[3 * g + 2]
         /\ 3 * g + 3 <= Len(t) => digit(decodeChunk(t, g), 2) = t[3 * g + 3]
<1>1. 3 * g + 1 \in 1 .. Len(t) /\ 3 * g + 2 \in 1 .. Len(t)
  OBVIOUS
<1>2. PICK x \in Nat : x = t[3 * g + 1] /\ x < 45
  BY <1>1, CharsOf
<1>3. PICK y \in Nat : y = t[3 * g + 2] /\ y < 45
  BY <1>1, CharsOf
<1>4. CASE 3 * g + 3 <= Len(t)
  <2>1. 3 * g + 3 \in 1 .. Len(t)
    BY <1>4
  <2>2. PICK z \in Nat : z = t[3 * g + 3]
    BY <2>1, CharsOf
  <2>3. decodeChunk(t, g) = Value(x, y, z)
    BY <1>2, <1>3, <1>4, <2>2, WholeChunk
  <2>4. /\ digit(Value(x, y, z), 0) = x /\ digit(Value(x, y, z), 1) = y
        /\ digit(Value(x, y, z), 2) = z
    BY <1>2, <1>3, Digits
  <2>5. Value(x, y, z) \in Nat
    BY ValueNat
  <2>6. QED
    BY <1>2, <1>3, <2>2, <2>3, <2>4, <2>5
<1>5. CASE ~(3 * g + 3 <= Len(t))
  <2>1. decodeChunk(t, g) = Value(x, y, 0)
    BY <1>2, <1>3, <1>5, ShortChunk
  <2>2. digit(Value(x, y, 0), 0) = x /\ digit(Value(x, y, 0), 1) = y
    BY <1>2, <1>3, Digits
  <2>3. Value(x, y, 0) \in Nat
    BY ValueNat
  <2>4. QED
    BY <1>2, <1>3, <1>5, <2>1, <2>2, <2>3
<1>6. QED
  BY <1>4, <1>5

(* What Decode's two range checks leave: 16 bits for a group, 8 for the last. *)
LEMMA RangeOfChunk ==
  ASSUME NEW t \in Seq(Char), Decodable(t),
         NEW h \in Nat, NEW b \in 0 .. 1, Len(t) = 3 * h + 2 * b,
         NEW g \in Nat, 3 * g + 2 <= Len(t)
  PROVE  /\ decodeChunk(t, g) \in Nat /\ decodeChunk(t, g) <= 65535
         /\ ~(g < h) => g = h /\ b = 1 /\ decodeChunk(t, g) <= 255
<1>1. decodeChunk(t, g) \in Nat
  BY DigitsOfChunk
<1>2. PICK c \in Nat : c = decodeChunk(t, g)
  BY <1>1
<1>3. PICK m \in Nat : m = Len(t)
  OBVIOUS
<1>4. (m \div 3) = h /\ (m % 3) = 2 * b
  BY <1>3, LenThird
<1>5. CASE g < h
  <2>1. g \in groups(t)
    BY <1>3, <1>4, <1>5 DEF groups
  <2>2. c <= 65535
    BY <1>2, <2>1 DEF Decodable
  <2>3. QED
    BY <1>2, <1>5, <2>2
<1>6. CASE ~(g < h)
  <2>1. g = h /\ b = 1
    BY <1>6
  <2>2. (m % 3) = 2
    BY <1>4, <2>1
  <2>3. c <= 255
    BY <1>2, <1>3, <1>4, <2>1, <2>2 DEF Decodable
  <2>4. c <= 65535
    BY <2>3
  <2>5. QED
    BY <1>2, <1>6, <2>1, <2>3, <2>4
<1>7. QED
  BY <1>5, <1>6

LEMMA DecodeBytes ==
  ASSUME NEW t \in Seq(Char), Decodable(t),
         NEW h \in Nat, NEW b \in 0 .. 1, Len(t) = 3 * h + 2 * b,
         NEW n \in 1 .. decodedLen(Len(t))
  PROVE  Decode(t)[n] \in Byte
<1>1. decodedLen(Len(t)) = 2 * h + b
  BY LenThird
<1>2. PICK m \in Nat : m = n - 1 /\ m < 2 * h + b
  BY <1>1
<1>3. PICK g \in Nat, k \in 0 .. 1 : m = 2 * g + k
  BY At2
<1>4. 3 * g + 2 <= Len(t)
  BY <1>2, <1>3
<1>5. decodeChunk(t, g) \in Nat /\ decodeChunk(t, g) <= 65535
  BY <1>4, RangeOfChunk
<1>6. PICK c \in Nat : c = decodeChunk(t, g) /\ c <= 65535
  BY <1>5
<1>7. Decode(t)[n] = IF 3 * g + 3 <= Len(t) /\ k = 0 THEN c \div 256 ELSE c % 256
  BY <1>2, <1>3, <1>6, DecodeAt
<1>8. PICK q \in Nat, r \in Nat : r < 256 /\ c = 256 * q + r /\ (c \div 256) = q /\ (c % 256) = r
  BY At256
<1>9. q < 256
  BY <1>6, <1>8
<1>10. Decode(t)[n] = q \/ Decode(t)[n] = r
  BY <1>7, <1>8
<1>11. QED
  BY <1>8, <1>9, <1>10, ByteIs

(* Encode finds in the decoded bytes the words Decode read: only the range
   checks make that so. *)
LEMMA WordOfDecode ==
  ASSUME NEW t \in Seq(Char), Decodable(t),
         NEW h \in Nat, NEW b \in 0 .. 1, Len(t) = 3 * h + 2 * b,
         NEW g \in Nat, 3 * g + 2 <= Len(t)
  PROVE  word(Decode(t), g) = decodeChunk(t, g)
<1>1. decodeChunk(t, g) \in Nat /\ (~(g < h) => g = h /\ b = 1 /\ decodeChunk(t, g) <= 255)
  BY RangeOfChunk
<1>2. PICK c \in Nat : c = decodeChunk(t, g)
  BY <1>1
<1>3. PICK N \in Nat : N = 2 * h + b
  OBVIOUS
<1>4. Len(Decode(t)) = 2 * h + b
  BY DecodeLen
<1>5. decodedLen(Len(t)) = 2 * h + b
  BY LenThird
<1>6. decodedLen(Len(t)) = N /\ Len(Decode(t)) = N
  BY <1>3, <1>4, <1>5
<1>7. 3 * g + 3 <= Len(t) <=> g < h
  OBVIOUS
<1>8. CASE g < h
  <2>1. PICK n \in 1 .. N : n = 2 * g + 1
    BY <1>3, <1>8
  <2>2. PICK n2 \in 1 .. N : n2 = 2 * g + 2
    BY <1>3, <1>8
  <2>3. n - 1 \in Nat /\ n - 1 = 2 * g + 0
    BY <2>1
  <2>4. n2 - 1 \in Nat /\ n2 - 1 = 2 * g + 1
    BY <2>2
  <2>5. Decode(t)[n] = IF 3 * g + 3 <= Len(t) /\ 0 = 0
                         THEN decodeChunk(t, g) \div 256 ELSE decodeChunk(t, g) % 256
    BY <1>6, <2>3, DecodeAt
  <2>6. Decode(t)[n2] = IF 3 * g + 3 <= Len(t) /\ 1 = 0
                          THEN decodeChunk(t, g) \div 256 ELSE decodeChunk(t, g) % 256
    BY <1>6, <2>4, DecodeAt
  <2>7. PICK q \in Nat, r \in Nat : r < 256 /\ c = 256 * q + r /\ (c \div 256) = q /\ (c % 256) = r
    BY At256
  <2>8. Decode(t)[n] = q /\ Decode(t)[n2] = r
    BY <1>2, <1>7, <1>8, <2>5, <2>6, <2>7
  <2>9. Decode(t)[2 * g + 1] = q /\ Decode(t)[2 * g + 2] = r /\ 2 * g + 2 <= Len(Decode(t))
    BY <1>6, <2>1, <2>2, <2>8
  <2>10. word(Decode(t), g) = q * 256 + r
    BY <2>9 DEF word
  <2>11. QED
    BY <1>2, <2>7, <2>10
<1>9. CASE ~(g < h)
  <2>1. g = h /\ b = 1 /\ c <= 255
    BY <1>1, <1>2, <1>9
  <2>2. PICK n \in 1 .. N : n = 2 * g + 1
    BY <1>3, <2>1
  <2>3. n - 1 \in Nat /\ n - 1 = 2 * g + 0
    BY <2>2
  <2>4. Decode(t)[n] = IF 3 * g + 3 <= Len(t) /\ 0 = 0
                         THEN decodeChunk(t, g) \div 256 ELSE decodeChunk(t, g) % 256
    BY <1>6, <2>3, DecodeAt
  <2>5. c < 256 /\ c = 256 * 0 + c
    BY <2>1
  <2>6. (c % 256) = c
    BY <2>5, By256
  <2>7. Decode(t)[n] = c
    BY <1>2, <1>7, <1>9, <2>4, <2>6
  <2>8. Decode(t)[2 * g + 1] = c /\ ~(2 * g + 2 <= Len(Decode(t)))
    BY <1>3, <1>6, <2>1, <2>2, <2>7
  <2>9. QED
    BY <1>2, <2>8 DEF word
<1>10. QED
  BY <1>8, <1>9

LEMMA ThirdsOf ==
  ASSUME NEW t \in Seq(Char), Decodable(t)
  PROVE  \E h \in Nat, b \in 0 .. 1 : Len(t) = 3 * h + 2 * b
<1>1. PICK n \in Nat : n = Len(t)
  OBVIOUS
<1>2. (n % 3) # 1
  BY <1>1 DEF Decodable
<1>3. QED
  BY <1>1, <1>2, ThirdLen

LEMMA EncodeDecodeAt ==
  ASSUME NEW t \in Seq(Char), Decodable(t),
         NEW h \in Nat, NEW b \in 0 .. 1, Len(t) = 3 * h + 2 * b,
         NEW i \in 1 .. Len(t)
  PROVE  Encode(Decode(t))[i] = t[i]
<1>1. PICK m \in Nat : m = i - 1
  OBVIOUS
<1>2. PICK g \in Nat, k \in 0 .. 2 : m = 3 * g + k
  BY At3
<1>3. 3 * g + 2 <= Len(t) /\ i = 3 * g + k + 1
  BY <1>1, <1>2
<1>4. PICK N \in Nat : N = 2 * h + b
  OBVIOUS
<1>5. Len(Decode(t)) = N /\ encodedLen(N) = Len(t)
  BY <1>4, DecodeLen, LenEven, SMTT(30)
<1>6. Encode(Decode(t))[i] = digit(word(Decode(t), g), k)
  BY <1>1, <1>2, <1>5, EncodeAt
<1>7. word(Decode(t), g) = decodeChunk(t, g)
  BY <1>3, WordOfDecode
<1>8. /\ digit(decodeChunk(t, g), 0) = t[3 * g + 1]
      /\ digit(decodeChunk(t, g), 1) = t[3 * g + 2]
      /\ 3 * g + 3 <= Len(t) => digit(decodeChunk(t, g), 2) = t[3 * g + 3]
  BY <1>3, DigitsOfChunk
<1>9. (k = 0 /\ i = 3 * g + 1) \/ (k = 1 /\ i = 3 * g + 2) \/ (k = 2 /\ i = 3 * g + 3 /\ 3 * g + 3 <= Len(t))
  BY <1>3
<1>10. QED
  BY <1>6, <1>7, <1>8, <1>9

(* Decode takes exactly the texts that Encode writes: what it accepts is the
   encoding of what it returns, so no two texts decode to one byte string. *)
THEOREM Canonical ==
  ASSUME NEW t \in Seq(Char), Decodable(t)
  PROVE  Decode(t) \in Seq(Byte) /\ Encode(Decode(t)) = t
<1>1. PICK h \in Nat, b \in 0 .. 1 : Len(t) = 3 * h + 2 * b
  BY ThirdsOf
<1>2. PICK N \in Nat : N = 2 * h + b
  OBVIOUS
<1>3. decodedLen(Len(t)) = N /\ Len(Decode(t)) = N /\ encodedLen(N) = Len(t)
  BY <1>1, <1>2, LenThird, DecodeLen, LenEven
<1>4. Decode(t) \in Seq(Byte)
  <2>1. \A n \in 1 .. N : Decode(t)[n] \in Byte
    BY <1>1, <1>3, DecodeBytes
  <2>2. Decode(t) = [n \in 1 .. N |-> Decode(t)[n]]
    BY <1>3, DecodeIsFun
  <2>3. [n \in 1 .. N |-> Decode(t)[n]] \in Seq(Byte)
    BY <2>1
  <2>4. QED
    BY <2>2, <2>3
<1>5. Encode(Decode(t)) = [n \in 1 .. Len(t) |-> Encode(Decode(t))[n]]
  BY <1>3, EncodeIsFun
<1>6. t = [n \in 1 .. Len(t) |-> t[n]]
  OBVIOUS
<1>7. \A n \in 1 .. Len(t) : Encode(Decode(t))[n] = t[n]
  BY <1>1, EncodeDecodeAt
<1>8. [n \in 1 .. Len(t) |-> Encode(Decode(t))[n]] = [n \in 1 .. Len(t) |-> t[n]]
  BY <1>7
<1>9. QED
  BY <1>4, <1>5, <1>6, <1>8

-----------------------------------------------------------------------------
(* TrimSpace. *)
LEMMA FirstAndLast ==
  ASSUME NEW S \in SUBSET Nat, NEW a \in S, NEW z \in S, \A n \in S : a <= n /\ n <= z
  PROVE  Min(S) = a /\ Max(S) = z
<1>1. Min(S) \in S /\ \A n \in S : Min(S) <= n
  BY DEF Min
<1>2. Max(S) \in S /\ \A n \in S : Max(S) >= n
  BY DEF Max
<1>3. Min(S) = a
  <2>1. PICK m \in S : m = Min(S)
    BY <1>1
  <2>2. m <= a /\ a <= m /\ m \in Nat /\ a \in Nat
    BY <1>1, <2>1
  <2>3. QED
    BY <2>1, <2>2
<1>4. Max(S) = z
  <2>1. PICK m \in S : m = Max(S)
    BY <1>2
  <2>2. m <= z /\ z <= m /\ m \in Nat /\ z \in Nat
    BY <1>2, <2>1
  <2>3. QED
    BY <2>1, <2>2
<1>5. QED
  BY <1>3, <1>4

(* TrimSpace takes off what is blank on both sides of a text with solid ends. *)
LEMMA TrimTo ==
  ASSUME NEW p \in Seq(Char), NEW t \in Seq(Char), NEW L \in Nat, L = Len(t), L > 0,
         NEW a \in Nat, a + L <= Len(p),
         \A n \in 1 .. L : p[a + n] = t[n],
         \A n \in 1 .. Len(p) : n <= a \/ a + L < n => p[n] = Space,
         t[1] # Space, t[L] # Space
  PROVE  TrimSpace(p) = t
<1> DEFINE solid == {n \in DOMAIN p : p[n] # Space}
<1>1. a + 1 \in solid /\ a + L \in solid
  OBVIOUS
<1>2. \A n \in solid : a + 1 <= n /\ n <= a + L
  OBVIOUS
<1>3. solid \in SUBSET Nat
  OBVIOUS
<1>4. Min(solid) = a + 1 /\ Max(solid) = a + L
  BY <1>1, <1>2, <1>3, FirstAndLast
<1>5. TrimSpace(p) = SubSeq(p, a + 1, a + L)
  BY <1>1, <1>4 DEF TrimSpace
<1>6. SubSeq(p, a + 1, a + L) = t
  <2>1. SubSeq(p, a + 1, a + L) = [n \in 1 .. L |-> p[a + n]]
    OBVIOUS
  <2>2. t = [n \in 1 .. L |-> t[n]]
    OBVIOUS
  <2>3. QED
    BY <2>1, <2>2
<1>7. QED
  BY <1>5, <1>6

LEMMA CharHas == \A x \in 0 .. 44 : x \in Char
BY DEF Char

LEMMA EncodeChars ==
  ASSUME NEW s \in Seq(Byte)
  PROVE  Encode(s) \in Seq(Char) /\ Len(Encode(s)) = encodedLen(Len(s))
<1>1. PICK N \in Nat : N = Len(s)
  OBVIOUS
<1>2. PICK h \in Nat, b \in 0 .. 1 : Len(s) = 2 * h + b
  BY <1>1, HalfLen
<1>3. PICK m \in Nat : m = encodedLen(Len(s))
  BY <1>2, LenEven
<1>4. \A n \in 1 .. m : Encode(s)[n] \in Char
  BY <1>2, <1>3, EncodeValid, CharHas
<1>5. Encode(s) = [n \in 1 .. m |-> Encode(s)[n]]
  BY <1>3, EncodeIsFun
<1>6. [n \in 1 .. m |-> Encode(s)[n]] \in Seq(Char) /\ Len([n \in 1 .. m |-> Encode(s)[n]]) = m
  BY <1>4
<1>7. QED
  BY <1>3, <1>5, <1>6

(* The magic number's first character, and the last one, are no blanks. *)
LEMMA FirstChar ==
  ASSUME NEW s \in Seq(Byte), IsFrame(s)
  PROVE  encodedLen(Len(s)) > 0 /\ Encode(s)[1] # Space
<1>1. PICK N \in Nat : N = Len(s) /\ N >= 2
  BY DEF IsFrame
<1>2. PICK h \in Nat, b \in 0 .. 1 : Len(s) = 2 * h + b
  BY <1>1, HalfLen
<1>3. PICK m \in Nat : m = encodedLen(Len(s)) /\ m = 3 * h + 2 * b
  BY <1>2, LenEven
<1>4. 3 * 0 + 2 <= m
  BY <1>1, <1>2, <1>3
<1>5. Encode(s)[3 * 0 + 1] = digit(word(s, 0), 0)
  BY <1>3, <1>4, EncodeGroup
<1>6. word(s, 0) = 10421
  <2>1. 2 * 0 + 2 <= Len(s) /\ 2 * 0 + 1 = 1 /\ 2 * 0 + 2 = 2
    BY <1>1
  <2>2. word(s, 0) = s[1] * 256 + s[2]
    BY <2>1 DEF word
  <2>3. QED
    BY <2>2 DEF IsFrame
<1>7. digit(10421, 0) = 26
  <2>1. digit(10421, 0) = (10421 % 45)
    BY DigitDef
  <2>2. QED
    BY <2>1
<1>8. QED
  BY <1>3, <1>4, <1>5, <1>6, <1>7 DEF Space

LEMMA NotSpace == \A x : (x \in 0 .. 5 \/ x \in 0 .. 32) => x # Space
BY DEF Space

LEMMA LastOfShort ==
  ASSUME NEW s \in Seq(Byte), NEW h \in Nat, Len(s) = 2 * h + 1
  PROVE  Encode(s)[encodedLen(Len(s))] # Space
<1>1. 2 * h < Len(s) /\ Len(s) = 2 * h + 1 /\ ~(h < h) /\ 1 \in 0 .. 1
  OBVIOUS
<1>2. word(s, h) \in Nat /\ word(s, h) <= 255
  BY <1>1, WordOf
<1>3. PICK w \in Nat : w = word(s, h) /\ w <= 255
  BY <1>2
<1>4. w <= 65535
  BY <1>3
<1>5. digit(w, 1) \in 0 .. 5
  BY <1>3, <1>4, DigitsOf
<1>6. encodedLen(Len(s)) = 3 * h + 2 * 1
  BY <1>1, LenEven
<1>7. PICK m \in Nat : m = 3 * h + 2 /\ encodedLen(Len(s)) = m /\ 3 * h + 2 <= m
  BY <1>6
<1>8. Encode(s)[3 * h + 2] = digit(word(s, h), 1)
  BY <1>7, EncodeGroup
<1>9. Encode(s)[m] = digit(w, 1)
  BY <1>3, <1>7, <1>8
<1>10. QED
  BY <1>5, <1>7, <1>9, NotSpace

LEMMA LastOfWhole ==
  ASSUME NEW s \in Seq(Byte), NEW g \in Nat, Len(s) = 2 * g + 2
  PROVE  Encode(s)[encodedLen(Len(s))] # Space
<1>1. PICK h \in Nat : h = g + 1
  OBVIOUS
<1>2. 2 * g < Len(s) /\ Len(s) = 2 * h + 0 /\ 0 \in 0 .. 1
  BY <1>1
<1>3. word(s, g) \in Nat /\ word(s, g) <= 65535
  BY <1>2, WordOf
<1>4. PICK w \in Nat : w = word(s, g) /\ w <= 65535
  BY <1>3
<1>5. digit(w, 2) \in 0 .. 32
  BY <1>4, DigitsOf
<1>6. encodedLen(Len(s)) = 3 * h + 2 * 0
  BY <1>2, LenEven
<1>7. PICK m \in Nat : m = 3 * g + 3 /\ encodedLen(Len(s)) = m /\ 3 * g + 2 <= m /\ 3 * g + 3 <= m
  BY <1>1, <1>6
<1>8. Encode(s)[3 * g + 3] = digit(word(s, g), 2)
  BY <1>7, EncodeGroup
<1>9. Encode(s)[m] = digit(w, 2)
  BY <1>4, <1>7, <1>8
<1>10. QED
  BY <1>5, <1>7, <1>9, NotSpace

LEMMA LastChar ==
  ASSUME NEW s \in Seq(Byte), IsFrame(s)
  PROVE  Encode(s)[encodedLen(Len(s))] # Space
<1>1. PICK N \in Nat : N = Len(s) /\ N >= 2
  BY DEF IsFrame
<1>2. PICK h \in Nat, b \in 0 .. 1 : Len(s) = 2 * h + b
  BY <1>1, HalfLen
<1>3. CASE b = 1
  BY <1>2, <1>3, LastOfShort
<1>4. CASE b = 0
  <2>1. PICK g \in Nat : Len(s) = 2 * g + 2
    <3>1. h - 1 \in Nat /\ Len(s) = 2 * (h - 1) + 2
      BY <1>1, <1>2, <1>4
    <3>2. QED
      BY <3>1
  <2>2. QED
    BY <2>1, LastOfWhole
<1>5. QED
  BY <1>3, <1>4

LEMMA SpaceIsChar == Space \in Char
BY DEF Space, Char

(* MustReadStream and ResolveSDPFlag trim what they read with strings.TrimSpace,
   although a blank is a character of the alphabet: an encoded zstd frame begins
   and ends with another one, so it comes out whole. *)
THEOREM TrimKeeps ==
  ASSUME NEW s \in Seq(Byte), IsFrame(s)
  PROVE  /\ TrimSpace(Encode(s)) = Encode(s)
         /\ TrimSpace(<<Space>> \o Encode(s) \o <<Space, Space>>) = Encode(s)
<1>1. PICK t \in Seq(Char) : t = Encode(s) /\ Len(t) = encodedLen(Len(s))
  BY EncodeChars
<1>2. PICK L \in Nat : L = Len(t)
  OBVIOUS
<1>3. L > 0 /\ t[1] # Space /\ t[L] # Space
  BY <1>1, <1>2, FirstChar, LastChar
<1>4. TrimSpace(t) = t
  <2>1. \A n \in 1 .. L : t[0 + n] = t[n]
    OBVIOUS
  <2>2. \A n \in 1 .. Len(t) : n <= 0 \/ 0 + L < n => t[n] = Space
    BY <1>2
  <2>3. 0 + L <= Len(t)
    BY <1>2
  <2>4. QED
    BY <1>2, <1>3, <2>1, <2>2, <2>3, TrimTo
<1>5. <<Space>> \o t \o <<Space, Space>> \in Seq(Char)
  <2>1. <<Space>> \in Seq(Char) /\ <<Space, Space>> \in Seq(Char)
    BY SpaceIsChar
  <2>2. <<Space>> \o t \in Seq(Char)
    BY <2>1
  <2>3. QED
    BY <2>1, <2>2
<1>6. PICK p \in Seq(Char) : p = <<Space>> \o t \o <<Space, Space>>
  BY <1>5
<1>7. TrimSpace(p) = t
  <2>1. Len(p) = L + 3
    BY <1>2, <1>6
  <2>2. \A n \in 1 .. L : p[1 + n] = t[n]
    BY <1>2, <1>6
  <2>3. p[1] = Space /\ p[L + 2] = Space /\ p[L + 3] = Space
    BY <1>2, <1>6
  <2>4. \A n \in 1 .. Len(p) : n <= 1 \/ 1 + L < n => p[n] = Space
    BY <2>1, <2>3
  <2>5. QED
    <3>1. 1 \in Nat /\ 1 + L <= Len(p)
      BY <2>1
    <3>2. QED
      BY <1>2, <1>3, <2>2, <2>4, <3>1, TrimTo
<1>8. QED
  BY <1>1, <1>4, <1>6, <1>7
-----------------------------------------------------------------------------
(* Lines. *)
LEMMA IntactIsLine ==
  ASSUME NEW s \in SDPs
  PROVE  intact(s) \subseteq Line
<1>1. Encode(s) \in Seq(Char)
  BY SDPAssumption, EncodeChars
<1>2. <<Space>> \o Encode(s) \o <<Space, Space>> \in Seq(Char)
  <2>1. <<Space>> \in Seq(Char) /\ <<Space, Space>> \in Seq(Char)
    BY SpaceIsChar
  <2>2. <<Space>> \o Encode(s) \in Seq(Char)
    BY <1>1, <2>1
  <2>3. QED
    BY <2>1, <2>2
<1>3. QED
  BY <1>1, <1>2 DEF intact, bare, padded, envelope, Line

LEMMA PastedIsLine == Pasted \subseteq Line
<1>1. \A s \in SDPs : intact(s) \subseteq Line
  BY IntactIsLine
<1>2. ASSUME NEW t \in Garbage PROVE bare(t) \in Line /\ envelope(t) \in Line
  BY GarbageAssumption DEF bare, envelope, Line
<1>3. ASSUME NEW l \in Pasted PROVE l \in Line
  <2>1. \/ \E s \in SDPs : l \in intact(s)
        \/ \E t \in Garbage : l = bare(t) \/ l = envelope(t)
    BY <1>3 DEF Pasted
  <2>2. CASE \E s \in SDPs : l \in intact(s)
    BY <1>1, <2>2
  <2>3. CASE \E t \in Garbage : l = bare(t) \/ l = envelope(t)
    BY <1>2, <2>3
  <2>4. QED
    BY <2>1, <2>2, <2>3
<1>4. QED
  BY <1>3

(* A bounded set of numbers has its ends. *)
LEMMA Least ==
  ASSUME NEW S \in SUBSET Nat, S # {}
  PROVE  \E x \in S : \A y \in S : x <= y
<1>1. PICK x \in S : \A y \in S : ~(<<y, x>> \in OpToRel(<, Nat))
  BY NatLessThanWellFounded, WFMin
<1>2. \A y \in S : ~(y < x)
  BY <1>1 DEF OpToRel
<1>3. \A y \in S : x <= y
  BY <1>2
<1>4. QED
  BY <1>3

LEMMA Greatest ==
  ASSUME NEW N \in Nat, NEW S \in SUBSET (1 .. N), S # {}
  PROVE  \E x \in S : \A y \in S : y <= x
<1> DEFINE T == {N - n : n \in S}
<1>1. T \in SUBSET Nat /\ T # {}
  <2>1. \A n \in S : N - n \in Nat
    OBVIOUS
  <2>2. PICK n \in S : TRUE
    OBVIOUS
  <2>3. N - n \in T
    OBVIOUS
  <2>4. QED
    BY <2>1, <2>3
<1>2. PICK m \in T : \A y \in T : m <= y
  BY <1>1, Least
<1>3. PICK x \in S : m = N - x
  BY <1>2
<1>4. ASSUME NEW y \in S PROVE y <= x
  <2>1. N - y \in T
    OBVIOUS
  <2>2. m <= N - y
    BY <1>2, <2>1
  <2>3. QED
    BY <1>3, <2>2
<1>5. QED
  BY <1>4

LEMMA MinMaxIn ==
  ASSUME NEW N \in Nat, NEW S \in SUBSET (1 .. N), S # {}
  PROVE  Min(S) \in S /\ Max(S) \in S
<1>1. PICK a \in S : \A y \in S : a <= y
  <2>1. S \in SUBSET Nat
    OBVIOUS
  <2>2. QED
    BY <2>1, Least
<1>2. PICK z \in S : \A y \in S : y <= z
  BY Greatest
<1>3. Min(S) = a /\ Max(S) = z
  BY <1>1, <1>2, FirstAndLast
<1>4. QED
  BY <1>3

LEMMA CutIsText ==
  ASSUME NEW t \in Seq(Char), NEW a \in 1 .. Len(t), NEW z \in 1 .. Len(t)
  PROVE  SubSeq(t, a, z) \in Seq(Char)
OBVIOUS

LEMMA TrimIsText ==
  ASSUME NEW t \in Seq(Char)
  PROVE  TrimSpace(t) \in Seq(Char)
<1> DEFINE solid == {n \in DOMAIN t : t[n] # Space}
<1>1. CASE solid = {}
  <2>1. TrimSpace(t) = <<>>
    BY <1>1 DEF TrimSpace
  <2>2. QED
    BY <2>1
<1>2. CASE solid # {}
  <2>1. TrimSpace(t) = SubSeq(t, Min(solid), Max(solid))
    BY <1>2 DEF TrimSpace
  <2>2. solid \in SUBSET (1 .. Len(t)) /\ Len(t) \in Nat
    OBVIOUS
  <2>3. Min(solid) \in solid /\ Max(solid) \in solid
    BY <1>2, <2>2, MinMaxIn
  <2> HIDE DEF solid
  <2>4. Min(solid) \in 1 .. Len(t) /\ Max(solid) \in 1 .. Len(t)
    BY <2>2, <2>3
  <2>5. SubSeq(t, Min(solid), Max(solid)) \in Seq(Char)
    BY <2>4, CutIsText
  <2>6. QED
    BY <2>1, <2>5
<1>3. QED
  BY <1>1, <1>2

LEMMA TrimmedIsText ==
  ASSUME NEW l \in Line
  PROVE  trimmed(l) \in Seq(Char)
BY TrimIsText DEF trimmed, Line
-----------------------------------------------------------------------------
(* Types. *)
LEMMA TypeInit == Init => TypeOK
BY PastedIsLine, GarbageAssumption DEF Init, TypeOK

LEMMA ReadKeepsTypes ==
  ASSUME TypeOK, MustReadStream
  PROVE  TypeOK'
<1>1. /\ pc = "read" /\ buf # <<>> /\ buf' = Tail(buf)
      /\ UNCHANGED <<flag, avail, ended, pastes, refused, accepted>>
  BY DEF MustReadStream
<1>2. \/ pc' = "read" /\ line' = line
      \/ pc' = "decode" /\ line' = Head(buf)
  <2>1. CASE blank(Head(buf))
    BY <1>1, <2>1 DEF MustReadStream
  <2>2. CASE ~blank(Head(buf))
    BY <1>1, <2>2 DEF MustReadStream
  <2>3. QED
    BY <2>1, <2>2
<1>3. buf \in Seq(Line)
  BY DEF TypeOK
<1>4. Head(buf) \in Line /\ Tail(buf) \in Seq(Line)
  BY <1>1, <1>3
<1>5. Head(buf) # NoLine
  BY <1>4, NoLineAssumption DEF Line
<1>6. QED
  BY <1>1, <1>2, <1>4, <1>5 DEF TypeOK

LEMMA FlagKeepsTypes ==
  ASSUME TypeOK, ResolveSDPFlag
  PROVE  TypeOK'
<1> DEFINE l == Head(avail)
<1>1. /\ pc = "flag"
      /\ UNCHANGED <<flag, ended, buf, line, pastes, accepted>>
  BY DEF ResolveSDPFlag, resolved
<1>2. avail \in Seq(Line) /\ avail # <<>>
  BY <1>1 DEF TypeOK
<1>3. l \in Line
  BY <1>2
<1>4. bare(trimmed(l)) \in Line
  BY <1>3, TrimmedIsText DEF bare, Line
<1>5. \/ avail' = <<bare(trimmed(l))>> /\ pc' = "read" /\ refused' = refused
      \/ pc' = "failed" /\ refused' = l /\ avail' = avail
  <2>1. CASE ~l.json /\ DecodeSDP(trimmed(l))
    BY <2>1 DEF ResolveSDPFlag, resolved
  <2>2. CASE ~(~l.json /\ DecodeSDP(trimmed(l)))
    BY <2>2 DEF ResolveSDPFlag, resolved
  <2>3. QED
    BY <2>1, <2>2
<1>6. avail' \in Seq(Line)
  <2>1. <<bare(trimmed(l))>> \in Seq(Line)
    BY <1>4
  <2>2. QED
    BY <1>2, <1>5, <2>1
<1>7. refused' \in Line \cup {NoLine}
  BY <1>3, <1>5 DEF TypeOK
<1> HIDE DEF l
<1>8. QED
  BY <1>1, <1>5, <1>6, <1>7 DEF TypeOK

LEMMA DecodeKeepsTypes ==
  ASSUME TypeOK, ReadRemoteSDP
  PROVE  TypeOK'
<1>1. pc = "decode" /\ UNCHANGED <<flag, avail, ended, line, pastes>>
  BY DEF ReadRemoteSDP
<1>2. line \in Line
  BY <1>1 DEF TypeOK
<1>3. trimmed(line) \in Seq(Char)
  BY <1>2, TrimmedIsText
<1>4. CASE DecodeSDP(trimmed(line))
  <2>1. /\ pc' = "done" /\ accepted' = trimmed(line)
        /\ buf' = buf /\ refused' = refused
    BY <1>4 DEF ReadRemoteSDP
  <2>2. QED
    BY <1>1, <1>3, <2>1 DEF TypeOK
<1>5. CASE ~DecodeSDP(trimmed(line))
  <2>1. /\ pc' = "read" /\ buf' = <<>>
        /\ refused' = line /\ accepted' = accepted
    BY <1>5 DEF ReadRemoteSDP, again
  <2>2. buf' \in Seq(Line)
    BY <2>1
  <2>3. QED
    BY <1>1, <1>2, <2>1, <2>2 DEF TypeOK
<1>6. QED
  BY <1>4, <1>5

LEMMA TypeStep == TypeOK /\ [Next]_vars => TypeOK'
<1> SUFFICES ASSUME TypeOK, [Next]_vars PROVE TypeOK'
  OBVIOUS
<1>1. CASE ResolveSDPFlag
  BY <1>1, FlagKeepsTypes
<1>2. CASE \E l \in Pasted : paste(l)
  BY <1>2, PastedIsLine, GarbageAssumption DEF paste, TypeOK
<1>3. CASE closeInput
  BY <1>3 DEF closeInput, TypeOK
<1>4. CASE fill
  BY <1>4 DEF fill, TypeOK
<1>5. CASE MustReadStream
  BY <1>5, ReadKeepsTypes
<1>6. CASE ReadRemoteSDP
  BY <1>6, DecodeKeepsTypes
<1>7. CASE UNCHANGED vars
  BY <1>7 DEF vars, TypeOK
<1>8. QED
  BY <1>1, <1>2, <1>3, <1>4, <1>5, <1>6, <1>7 DEF Next, prompt

(* Type correctness: what is read, trimmed and accepted stays text. *)
THEOREM TypeCorrect == Spec => []TypeOK
<1>1. QED
  BY TypeInit, TypeStep, PTL DEF Spec
-----------------------------------------------------------------------------
(* An SDP as its peer printed it is decoded, in all its forms. *)
LEMMA EncodedDecodes ==
  ASSUME NEW s \in SDPs
  PROVE  DecodeSDP(Encode(s))
<1>1. s \in Seq(Byte)
  BY SDPAssumption
<1>2. Decodable(Encode(s)) /\ Decode(Encode(s)) = s
  BY <1>1, RoundTrip
<1>3. QED
  BY <1>2 DEF DecodeSDP

LEMMA IntactDecodes ==
  ASSUME NEW s \in SDPs, NEW l \in intact(s)
  PROVE  DecodeSDP(trimmed(l))
<1>1. s \in Seq(Byte) /\ IsFrame(s)
  BY SDPAssumption
<1>2. /\ TrimSpace(Encode(s)) = Encode(s)
      /\ TrimSpace(<<Space>> \o Encode(s) \o <<Space, Space>>) = Encode(s)
  BY <1>1, TrimKeeps
<1>3. trimmed(l) = Encode(s)
  <2>1. CASE l = bare(Encode(s))
    BY <1>2, <2>1 DEF trimmed, bare
  <2>2. CASE l = padded(Encode(s))
    BY <1>2, <2>2 DEF trimmed, padded, bare
  <2>3. CASE l = envelope(Encode(s))
    BY <2>3 DEF trimmed, envelope
  <2>4. QED
    BY <2>1, <2>2, <2>3 DEF intact
<1>4. QED
  BY <1>3, EncodedDecodes

FlagIsRead == pc = "flag" => flag

LEMMA RefusedInit == Init => IntactNeverRefused /\ FlagIsRead
<1> SUFFICES ASSUME Init PROVE IntactNeverRefused /\ FlagIsRead
  OBVIOUS
<1>1. ASSUME NEW s \in SDPs PROVE refused \notin intact(s)
  BY IntactIsLine, NoLineAssumption DEF Init, Line
<1>2. IntactNeverRefused
  BY <1>1 DEF IntactNeverRefused, intact
<1>3. FlagIsRead
  BY DEF Init, FlagIsRead
<1>4. QED
  BY <1>2, <1>3

(* ResolveSDPFlag refuses an envelope, and nothing else that is intact. *)
LEMMA FlagRefuses ==
  ASSUME IntactNeverRefused, FlagIsRead, ResolveSDPFlag
  PROVE  IntactNeverRefused' /\ FlagIsRead'
<1> DEFINE l == Head(avail)
<1>1. pc = "flag" /\ flag' = flag /\ flag
  BY DEF ResolveSDPFlag, resolved, FlagIsRead
<1>2. CASE ~l.json /\ DecodeSDP(trimmed(l))
  <2>1. pc' = "read" /\ refused' = refused
    BY <1>2 DEF ResolveSDPFlag, resolved
  <2>2. QED
    BY <1>1, <2>1 DEF IntactNeverRefused, FlagIsRead
<1>3. CASE ~(~l.json /\ DecodeSDP(trimmed(l)))
  <2>1. pc' = "failed" /\ refused' = l
    BY <1>3 DEF ResolveSDPFlag, resolved
  <2>2. ASSUME NEW s \in SDPs PROVE l \notin {bare(Encode(s)), padded(Encode(s))}
    <3>1. ~bare(Encode(s)).json /\ ~padded(Encode(s)).json
      BY DEF bare, padded
    <3>2. l \in {bare(Encode(s)), padded(Encode(s))} => l \in intact(s) /\ ~l.json
      BY <3>1 DEF intact
    <3>3. QED
      BY <1>3, <3>2, IntactDecodes
  <2>3. QED
    BY <1>1, <2>1, <2>2 DEF IntactNeverRefused, FlagIsRead
<1>4. QED
  BY <1>2, <1>3

LEMMA DecodeRefuses ==
  ASSUME IntactNeverRefused, FlagIsRead, ReadRemoteSDP
  PROVE  IntactNeverRefused' /\ FlagIsRead'
<1>1. pc = "decode" /\ flag' = flag
  BY DEF ReadRemoteSDP
<1>2. CASE DecodeSDP(trimmed(line))
  <2>1. pc' = "done" /\ refused' = refused
    BY <1>2 DEF ReadRemoteSDP
  <2>2. QED
    BY <1>1, <2>1 DEF IntactNeverRefused, FlagIsRead
<1>3. CASE ~DecodeSDP(trimmed(line))
  <2>1. pc' = "read" /\ refused' = line
    BY <1>3 DEF ReadRemoteSDP, again
  <2>2. ASSUME NEW s \in SDPs PROVE line \notin intact(s)
    BY <1>3, IntactDecodes
  <2>3. QED
    BY <1>1, <2>1, <2>2 DEF IntactNeverRefused, FlagIsRead, intact
<1>4. QED
  BY <1>2, <1>3

LEMMA RefusedStep ==
  IntactNeverRefused /\ FlagIsRead /\ [Next]_vars
    => IntactNeverRefused' /\ FlagIsRead'
<1> SUFFICES ASSUME IntactNeverRefused, FlagIsRead, [Next]_vars
             PROVE  IntactNeverRefused' /\ FlagIsRead'
  OBVIOUS
<1>1. CASE ResolveSDPFlag
  BY <1>1, FlagRefuses
<1>2. CASE ReadRemoteSDP
  BY <1>2, DecodeRefuses
<1>3. ASSUME flag' = flag, refused' = refused, pc' = "flag" => pc = "flag"
      PROVE  IntactNeverRefused' /\ FlagIsRead'
  BY <1>3 DEF IntactNeverRefused, FlagIsRead
<1>4. CASE \E l \in Pasted : paste(l)
  BY <1>3, <1>4 DEF paste
<1>5. CASE closeInput
  BY <1>3, <1>5 DEF closeInput
<1>6. CASE fill
  BY <1>3, <1>6 DEF fill
<1>7. CASE MustReadStream
  <2>1. flag' = flag /\ refused' = refused
    BY <1>7 DEF MustReadStream
  <2>2. pc' = pc \/ pc' = "decode"
    <3>1. CASE blank(Head(buf))
      BY <1>7, <3>1 DEF MustReadStream
    <3>2. CASE ~blank(Head(buf))
      BY <1>7, <3>2 DEF MustReadStream
    <3>3. QED
      BY <3>1, <3>2
  <2>3. QED
    BY <1>3, <2>1, <2>2
<1>8. CASE UNCHANGED vars
  BY <1>3, <1>8 DEF vars
<1>9. QED
  BY <1>1, <1>2, <1>4, <1>5, <1>6, <1>7, <1>8 DEF Next, prompt

(* No SDP that arrives as its peer printed it is refused, whatever the user pastes
   around it: RoundTrip says it decodes, TrimKeeps that trimming leaves it whole. *)
THEOREM NeverRefused == Spec => []IntactNeverRefused
<1>1. Init => IntactNeverRefused /\ FlagIsRead
  BY RefusedInit
<1>2. QED
  BY <1>1, RefusedStep, PTL DEF Spec
-----------------------------------------------------------------------------
(* What is accepted is the one text of an SDP. *)
LEMMA AcceptedStep == TypeOK /\ AcceptedIsCanonical /\ [Next]_vars => AcceptedIsCanonical'
<1> SUFFICES ASSUME TypeOK, AcceptedIsCanonical, [Next]_vars PROVE AcceptedIsCanonical'
  OBVIOUS
<1>1. CASE ReadRemoteSDP
  <2>1. CASE DecodeSDP(trimmed(line))
    <3>1. pc = "decode" /\ pc' = "done" /\ accepted' = trimmed(line)
      BY <1>1, <2>1 DEF ReadRemoteSDP
    <3>2. line \in Line
      BY <3>1 DEF TypeOK
    <3>3. PICK t \in Seq(Char) : t = trimmed(line)
      BY <3>2, TrimmedIsText
    <3>4. Decodable(t) /\ Decode(t) \in SDPs
      BY <2>1, <3>3 DEF DecodeSDP
    <3>5. Encode(Decode(t)) = t
      BY <3>4, Canonical
    <3>6. QED
      BY <3>1, <3>3, <3>4, <3>5 DEF AcceptedIsCanonical
  <2>2. CASE ~DecodeSDP(trimmed(line))
    <3>1. pc' = "read"
      BY <1>1, <2>2 DEF ReadRemoteSDP, again
    <3>2. QED
      BY <3>1 DEF AcceptedIsCanonical
  <2>3. QED
    BY <2>1, <2>2
<1>2. ASSUME accepted' = accepted, pc' = "done" => pc = "done"
      PROVE  AcceptedIsCanonical'
  BY <1>2 DEF AcceptedIsCanonical
<1>3. CASE ResolveSDPFlag
  <2>1. accepted' = accepted
    BY <1>3 DEF ResolveSDPFlag, resolved
  <2>2. pc' = "read" \/ pc' = "failed"
    <3> DEFINE ok == ~Head(avail).json /\ DecodeSDP(trimmed(Head(avail)))
    <3>1. CASE ok
      BY <1>3, <3>1 DEF ResolveSDPFlag, resolved
    <3>2. CASE ~ok
      BY <1>3, <3>2 DEF ResolveSDPFlag, resolved
    <3>3. QED
      BY <3>1, <3>2
  <2>3. QED
    BY <1>2, <2>1, <2>2
<1>4. CASE \E l \in Pasted : paste(l)
  BY <1>2, <1>4 DEF paste
<1>5. CASE closeInput
  BY <1>2, <1>5 DEF closeInput
<1>6. CASE fill
  BY <1>2, <1>6 DEF fill
<1>7. CASE MustReadStream
  <2>1. accepted' = accepted
    BY <1>7 DEF MustReadStream
  <2>2. pc' = pc \/ pc' = "decode"
    <3>1. CASE blank(Head(buf))
      BY <1>7, <3>1 DEF MustReadStream
    <3>2. CASE ~blank(Head(buf))
      BY <1>7, <3>2 DEF MustReadStream
    <3>3. QED
      BY <3>1, <3>2
  <2>3. QED
    BY <1>2, <2>1, <2>2
<1>8. CASE UNCHANGED vars
  BY <1>2, <1>8 DEF vars
<1>9. QED
  BY <1>1, <1>3, <1>4, <1>5, <1>6, <1>7, <1>8 DEF Next, prompt

(* ReadRemoteSDP returns nothing but the encoding of the bytes its text decodes to:
   a damaged text is refused, never taken for another. *)
THEOREM OnlyCanonical == Spec => []AcceptedIsCanonical
<1>1. Init => AcceptedIsCanonical
  BY DEF Init, AcceptedIsCanonical
<1>2. Spec => []TypeOK
  BY TypeCorrect
<1>3. QED
  BY <1>1, <1>2, AcceptedStep, PTL DEF Spec
=============================================================================
