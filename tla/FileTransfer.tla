---------------------------- MODULE FileTransfer ----------------------------
(* What the receiving half of a gfile transfer promises to whoever waits for
   it, and nothing about how: the output file is first settled, once and for
   all, as either complete or discarded, and only then is the outcome
   reported, and the report never contradicts the file. *)

VARIABLES outcome,   \* what waitDone has returned: "pending", "ok" or "failed"
          file       \* the output: "partial", "complete" or "discarded"

fileVars == <<outcome, file>>

Init == outcome = "pending" /\ file = "partial"

Complete == file = "partial" /\ file' = "complete" /\ UNCHANGED outcome

Discard == file = "partial" /\ file' = "discarded" /\ UNCHANGED outcome

Report ==
  /\ outcome = "pending"
  /\ file # "partial"
  /\ outcome' = IF file = "complete" THEN "ok" ELSE "failed"
  /\ UNCHANGED file

Next == Complete \/ Discard \/ Report

Spec == Init /\ [][Next]_fileVars
=============================================================================
