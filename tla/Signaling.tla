----------------------------- MODULE Signaling ------------------------------
(* How a peer gets the other's SDP: the --sdp flag (utils.ResolveSDPFlag) or the
   prompt (transfer.ReadRemoteSDP over stream.MustReadStream).

   A line is what the user pastes, bare or in the envelope {"sdp": "..."}.  The
   input hands out lines in any grouping, as Read does; the user may paste
   several before the first is read, damage one, or close the input.

   x_Flaw is x with one plausible mistake; no action uses it. *)
EXTENDS Base45

CONSTANTS
  SDPs,         \* byte strings that decompress and parse as a description
  Garbage,      \* other texts a user may paste
  MaxPastes,    \* bound on the lines pasted
  NoLine

ASSUME SDPAssumption == SDPs \subseteq Seq(Byte) /\ \A s \in SDPs : IsFrame(s)
ASSUME GarbageAssumption == Garbage \subseteq Seq(Char) /\ MaxPastes \in Nat
ASSUME NoLineAssumption == NoLine \notin [json : BOOLEAN, text : Seq(Char)]

VARIABLES
  flag,         \* --sdp is given
  avail,        \* lines pasted and not read
  ended,        \* the input is closed
  pc,           \* flag, read, decode, done, failed
  buf,          \* the bufio.Reader of the MustReadStream call under way
  line,         \* the line it returned, before TrimSpace
  pastes,       \* history: lines pasted
  refused,      \* history: the line refused last
  accepted      \* what ReadRemoteSDP returned

vars == <<flag, avail, ended, pc, buf, line, pastes, refused, accepted>>

bare(t) == [json |-> FALSE, text |-> t]
envelope(t) == [json |-> TRUE, text |-> t]
padded(t) == bare(<<Space>> \o t \o <<Space, Space>>)

intact(s) == {bare(Encode(s)), padded(Encode(s)), envelope(Encode(s))}

Pasted ==
  (UNION {intact(s) : s \in SDPs}) \cup {bare(t) : t \in Garbage}
    \cup {envelope(t) : t \in Garbage}

Init ==
  /\ flag \in BOOLEAN /\ pc = IF flag THEN "flag" ELSE "read"
  /\ \E l \in Pasted : avail = IF flag THEN <<l>> ELSE <<>>
  /\ ended = flag
  /\ buf = <<>> /\ line = NoLine /\ pastes = 0 /\ refused = NoLine
  /\ accepted = <<>>
-----------------------------------------------------------------------------
\* What TrimSpace leaves of a line, which for an envelope is the envelope.
trimmed(l) == IF l.json THEN l.text ELSE TrimSpace(l.text)

blank(l) == ~l.json /\ trimmed(l) = <<>>

DecodeSDP(t) == Decodable(t) /\ Decode(t) \in SDPs

(* The flag's value, the file or stdin it names, is trimmed and tried once; an
   envelope is no base45. *)
resolved(l, ok) ==
  /\ IF ok THEN avail' = <<bare(trimmed(l))>> /\ pc' = "read" /\ UNCHANGED refused
           ELSE pc' = "failed" /\ refused' = l /\ UNCHANGED avail
  /\ UNCHANGED <<flag, ended, buf, line, pastes, accepted>>

\* Tries the base45 only.
ResolveSDPFlag_Undecoded ==
  /\ pc = "flag"
  /\ LET l == Head(avail) IN resolved(l, ~l.json /\ Decodable(trimmed(l)))

ResolveSDPFlag ==
  /\ pc = "flag"
  /\ LET l == Head(avail) IN resolved(l, ~l.json /\ DecodeSDP(trimmed(l)))
-----------------------------------------------------------------------------
(* The user. *)
paste(l) ==
  /\ ~ended /\ pastes < MaxPastes
  /\ avail' = Append(avail, l) /\ pastes' = pastes + 1
  /\ UNCHANGED <<flag, ended, pc, buf, line, refused, accepted>>

closeInput ==
  /\ ~ended /\ ended' = TRUE
  /\ UNCHANGED <<flag, avail, pc, buf, line, pastes, refused, accepted>>
-----------------------------------------------------------------------------
(* MustReadStream: at the end of the input ReadString returns an empty string for
   ever, and the loop goes round without a step.  A Read that fails, fails on an
   empty buffer; ReadRemoteSDP calls again, and no state has changed. *)
fill ==
  /\ pc = "read" /\ buf = <<>>
  /\ \E n \in 1 .. Len(avail) :
       buf' = SubSeq(avail, 1, n) /\ avail' = SubSeq(avail, n + 1, Len(avail))
  /\ UNCHANGED <<flag, ended, pc, line, pastes, refused, accepted>>

\* Every line is returned, the blank ones too, and the reader with what it holds
\* is gone at each.
MustReadStream_OneLine ==
  /\ pc = "read" /\ buf # <<>>
  /\ buf' = <<>>
  /\ IF blank(Head(buf)) THEN UNCHANGED <<pc, line>>
                         ELSE pc' = "decode" /\ line' = Head(buf)
  /\ UNCHANGED <<flag, avail, ended, pastes, refused, accepted>>

MustReadStream ==
  /\ pc = "read" /\ buf # <<>>
  /\ buf' = Tail(buf)
  /\ IF blank(Head(buf)) THEN UNCHANGED <<pc, line>>
                         ELSE pc' = "decode" /\ line' = Head(buf)
  /\ UNCHANGED <<flag, avail, ended, pastes, refused, accepted>>

(* A refused line sends ReadRemoteSDP into another MustReadStream, whose new
   reader starts empty: lines that came with the refused one are gone. *)
again == pc' = "read" /\ buf' = <<>> /\ refused' = line /\ UNCHANGED accepted

\* Takes the envelope for the answer.
ReadRemoteSDP_Wrapped ==
  /\ pc = "decode"
  /\ IF ~line.json /\ DecodeSDP(trimmed(line))
       THEN pc' = "done" /\ accepted' = trimmed(line) /\ UNCHANGED <<buf, refused>>
       ELSE again
  /\ UNCHANGED <<flag, avail, ended, line, pastes>>

ReadRemoteSDP ==
  /\ pc = "decode"
  /\ IF DecodeSDP(trimmed(line))
       THEN pc' = "done" /\ accepted' = trimmed(line) /\ UNCHANGED <<buf, refused>>
       ELSE again
  /\ UNCHANGED <<flag, avail, ended, line, pastes>>

prompt == fill \/ MustReadStream \/ ReadRemoteSDP

Next ==
  \/ ResolveSDPFlag \/ prompt
  \/ (\E l \in Pasted : paste(l)) \/ closeInput

Spec == Init /\ [][Next]_vars

FairSpec == Spec /\ WF_vars(ResolveSDPFlag) /\ WF_vars(prompt)
-----------------------------------------------------------------------------
Line == [json : BOOLEAN, text : Seq(Char)]

TypeOK ==
  /\ flag \in BOOLEAN /\ ended \in BOOLEAN
  /\ avail \in Seq(Line) /\ buf \in Seq(Line)
  /\ pc \in {"flag", "read", "decode", "done", "failed"}
  /\ line \in Line \cup {NoLine} /\ refused \in Line \cup {NoLine}
  /\ pc = "flag" => avail # <<>>
  /\ pc = "decode" => line # NoLine
  /\ pastes \in 0 .. MaxPastes
  /\ accepted \in Seq(Char)

(* An SDP that arrives as the other peer printed it is never refused, also with
   blanks around it, in an envelope, of odd or even length, although the alphabet
   itself has a blank that TrimSpace could take off.  The flag takes no envelope. *)
IntactNeverRefused ==
  \A s \in SDPs :
    /\ refused \notin {bare(Encode(s)), padded(Encode(s))}
    /\ ~flag => refused # envelope(Encode(s))

(* What is accepted is, character for character, the encoding of the bytes it
   decodes to: no damaged text passes for an SDP by decoding to one.  (Which bytes
   a peer's zstd makes of a description is not part of this.) *)
AcceptedIsCanonical ==
  pc = "done" => accepted \in {Encode(s) : s \in SDPs}

(* An intact SDP behind nothing but blank lines is taken, however the lines were
   grouped.  (Behind a refused line it may be lost: see the README.) *)
pending == (IF pc = "decode" THEN <<line>> ELSE <<>>) \o buf \o avail

firstIntact ==
  /\ pc \in {"read", "decode"}
  /\ \E n \in DOMAIN pending :
       /\ \A m \in 1 .. n - 1 : blank(pending[m])
       /\ \E s \in SDPs : pending[n] \in intact(s)

AnswerTaken == firstIntact ~> pc = "done"

(* With --sdp nobody sits at the prompt: what ResolveSDPFlag let through is
   accepted at once, and what it did not ends the program. *)
FlagSettles == flag ~> pc \in {"done", "failed"}
=============================================================================
