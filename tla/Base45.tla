------------------------------- MODULE Base45 -------------------------------
(* The base45 codec of internal/utils/base45 and what the SDP exchange relies on
   around it.  A text is a sequence of characters, a character is its place in
   the alphabet, and any character outside the alphabet is Invalid.  The loops
   over groups are functions of the position, so that theorems can speak of them.

   x_Flaw is x with one plausible mistake; nothing uses it. *)
EXTENDS Integers, Sequences, FiniteSetsExt

base == 45
Invalid == 255                 \* index[] of a character outside the alphabet
Space == 36                    \* the alphabet has a space
Byte == 0 .. 255
Char == 0 .. 44 \cup {Invalid}

(* Encode: two bytes become three characters, a last odd byte two. *)
word(src, g) ==
  IF 2 * g + 2 <= Len(src) THEN src[2 * g + 1] * 256 + src[2 * g + 2]
                           ELSE src[2 * g + 1]

digit(w, k) ==
  CASE k = 0 -> w % base
    [] k = 1 -> (w \div base) % base
    [] k = 2 -> w \div (base * base)

encodedLen(n) == (n \div 2) * 3 + (n % 2) * 2

Encode(src) ==
  [n \in 1 .. encodedLen(Len(src)) |->
     digit(word(src, (n - 1) \div 3), (n - 1) % 3)]
-----------------------------------------------------------------------------
(* Decode: groups of three characters, and of two at the end. *)
decodeChunk(t, g) ==
  t[3 * g + 1] + base * t[3 * g + 2]
    + (IF 3 * g + 3 <= Len(t) THEN base * base * t[3 * g + 3] ELSE 0)

groups(t) == 0 .. (Len(t) \div 3) - 1

\* A group of three may not exceed 16 bits; the last byte is cut down to 8.
Decodable_NoLastCheck(t) ==
  /\ Len(t) % 3 # 1
  /\ \A n \in DOMAIN t : t[n] # Invalid
  /\ \A g \in groups(t) : decodeChunk(t, g) <= 65535

Decodable(t) ==
  /\ Len(t) % 3 # 1
  /\ \A n \in DOMAIN t : t[n] # Invalid
  /\ \A g \in groups(t) : decodeChunk(t, g) <= 65535
  /\ Len(t) % 3 = 2 => decodeChunk(t, Len(t) \div 3) <= 255

decodedLen(n) == (n \div 3) * 2 + (n % 3) \div 2

Decode(t) ==
  [n \in 1 .. decodedLen(Len(t)) |->
     LET g == (n - 1) \div 2
         w == decodeChunk(t, g)
     IN IF 3 * g + 3 <= Len(t) /\ n % 2 = 1 THEN w \div 256 ELSE w % 256]
-----------------------------------------------------------------------------
(* strings.TrimSpace, on one line. *)
TrimSpace(t) ==
  LET solid == {n \in DOMAIN t : t[n] # Space}
  IN IF solid = {} THEN <<>> ELSE SubSeq(t, Min(solid), Max(solid))

(* The frame zstd writes begins with the bytes of its magic number. *)
IsFrame(src) == Len(src) >= 2 /\ src[1] = 40 /\ src[2] = 181
=============================================================================
