------------------------- MODULE MCPersonaMigration -------------------------
(* Two batches that share a memory with the conversation, for TLC.          *)
EXTENDS PersonaMigration, TLC
CONSTANTS b1, b2, p, q, s
MCImports == (b1 :> {p, q}) @@ (b2 :> {s})
MCTrusted == (b1 :> {q}) @@ (b2 :> {})
=============================================================================
