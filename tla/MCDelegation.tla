---------------------------- MODULE MCDelegation ----------------------------
(* Two siblings and two agents for TLC.                                     *)
EXTENDS Delegation, TLC
CONSTANTS t1, t2
=============================================================================
