---------------------------- MODULE MCMemorySync ----------------------------
(* One message, its memories and the processes for TLC.                     *)
EXTENDS MemorySync, TLC
CONSTANT msg, p, q
MCJob == {msg} \cup Memory
MCVerdict == (p :> {TRUE}) @@ (q :> {FALSE})
MCFinds == (msg :> {Memory})
=============================================================================
