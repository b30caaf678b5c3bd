------------------------------ MODULE ToolLoop ------------------------------
(***************************************************************************)
(* What a conversation turn promises its user, without runners, leases,     *)
(* approvals or crashes: the turn is opened once; the model asks for tool   *)
(* calls in batches and gets the calls of a batch settled one by one, in    *)
(* order; no call is asked twice; and the turn is answered once, when no    *)
(* call is outstanding, and stays answered.  TurnLifecycle implements this  *)
(* specification as long as calls are local and no turn is streamed.        *)
(***************************************************************************)
EXTENDS Sequences

CONSTANTS Call, Batch

VARIABLES phase,        \* "absent", "open" or "answered"
          outstanding,  \* the calls of the last batch that are not settled
          asked         \* every call the model has ever asked for

vars == <<phase, outstanding, asked>>

CallsOf(b) == {b[i] : i \in DOMAIN b}

Init ==
    /\ phase = "absent"
    /\ outstanding = <<>>
    /\ asked = {}

Open ==
    /\ phase = "absent"
    /\ phase' = "open"
    /\ UNCHANGED <<outstanding, asked>>

Ask(b) ==
    /\ phase = "open"
    /\ outstanding = <<>>
    /\ CallsOf(b) \cap asked = {}
    /\ outstanding' = b
    /\ asked' = asked \cup CallsOf(b)
    /\ UNCHANGED phase

Settle ==
    /\ phase = "open"
    /\ outstanding # <<>>
    /\ outstanding' = Tail(outstanding)
    /\ UNCHANGED <<phase, asked>>

Answer ==
    /\ phase = "open"
    /\ outstanding = <<>>
    /\ phase' = "answered"
    /\ UNCHANGED <<outstanding, asked>>

Next ==
    \/ Open
    \/ \E b \in Batch : Ask(b)
    \/ Settle
    \/ Answer

Spec == Init /\ [][Next]_vars
=============================================================================
