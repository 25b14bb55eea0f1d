----------------------------- MODULE MCCommand -----------------------------
(* Instances of Command for TLC: send, with one and with several connections,
   receive, and both sides of bench. *)
EXTENDS Command

cmd(role, bench, parallel) == [role |-> role, bench |-> bench, parallel |-> parallel]

MCCommands ==
  {cmd("sender", FALSE, FALSE), cmd("sender", FALSE, TRUE), cmd("sender", TRUE, FALSE),
   cmd("receiver", FALSE, FALSE), cmd("receiver", TRUE, FALSE)}
=============================================================================
