----------------------------- MODULE MCSinglePC -----------------------------
(* Instances of SinglePC for TLC: a file of three bytes in chunks of two that
   may shrink, grow or change in place, or one of two bytes that may change. *)
EXTENDS SinglePC

ThreeBytes == {<<1, 1, 1>>}
Changing == {<<1, 1, 1>>, <<1>>, <<0, 1, 1>>}
TwoBytes == {<<1, 1>>, <<>>}
=============================================================================
