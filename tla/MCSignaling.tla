---------------------------- MODULE MCSignaling -----------------------------
(* An instance of Signaling for TLC: an SDP of odd and one of even length, the
   second at the end of the 16-bit range, and texts near them. *)
EXTENDS Signaling

odd == <<40, 181, 3>>
even == <<40, 181, 255, 255>>

MCSDPs == {odd, even}

\* Blank, cut short, one character wrong, and a last group that is
\* one of an SDP but for a bit above its eight.
MCGarbage ==
  {<<>>, <<Space>>, <<26, 6, 5, 3>>, <<26, Invalid, 5>>,
   <<26, 6, 5, 34, 5>>}
=============================================================================
