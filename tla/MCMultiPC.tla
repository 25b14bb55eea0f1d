----------------------------- MODULE MCMultiPC -----------------------------
(* Instances of MultiPC for TLC: two data peers, and a file of two
   equal chunks, or of a whole chunk and a short one. *)
EXTENDS MultiPC, TLC

TwoBytes == <<1, 1>>
ThreeBytes == <<1, 0, 1>>

PeerSymmetry == Permutations(Peers)
=============================================================================
