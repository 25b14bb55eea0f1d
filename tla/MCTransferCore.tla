--------------------------- MODULE MCTransferCore ---------------------------
(* Instances of TransferCore for TLC: a file of at most MaxSize cells, and every
   chunk of one or two cells that starts at or before its end. *)
EXTENDS TransferCore

CONSTANTS MaxSize, r1, r2, v1, v2

TheFile == [o \in 0 .. MaxSize - 1 |-> 1]

MCMetas ==
  {[known |-> TRUE, size |-> s, sha |-> [o \in 0 .. s - 1 |-> TheFile[o]]] :
     s \in {0, MaxSize}}
  \cup {[known |-> FALSE, size |-> MaxSize, sha |-> TheFile]}

\* The announced bytes at every place, one chunk of other bytes (the source
\* changed after it was hashed) and one whose end wraps around.
MCChunks ==
  [at : 0 .. MaxSize, data : {<<1>>, <<1, 1>>}]
  \cup {[at |-> 0, data |-> <<0, 1>>], [at |-> Wrap - 1, data |-> <<1, 1>>]}
=============================================================================
