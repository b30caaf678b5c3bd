-------------------------- MODULE PersonaMigration --------------------------
(***************************************************************************)
(* Migration batches, personas and the briefing that draws on both.         *)
(*                                                                          *)
(* A batch imports memory records in one transaction, is activated together *)
(* with a new persona version in another, and may be rolled back; meanwhile *)
(* conversations store memories and the user reviews, pins and deletes      *)
(* them, imported or not.  Persona versions are numbered 1, 2, ... and one  *)
(* of them is active; a PUT reads the active version in one transaction and *)
(* saves its own under the next number in another.  A turn's context is     *)
(* compiled from the promoted memories, read first, and the active persona, *)
(* read second.                                                             *)
(*                                                                          *)
(* The vector jobs that the routes enqueue after their commit are left to   *)
(* MemorySync.                                                              *)
(***************************************************************************)
EXTENDS Naturals, FiniteSets, MemoryRecords

CONSTANTS Batch,        \* (source system, fingerprint) of an import
          Imports,      \* the contents of each batch
          Trusted,      \* those of each batch with a trust of 0.8 or more
          Said,         \* what the conversations are about
          Editor,       \* requests that edit the persona
          MemoryLimit,  \* memory_limit of a briefing
          MaxVersion,   \* bound: persona versions
          None          \* no batch, no author

ASSUME MigrationAssumption ==
    /\ Imports \in [Batch -> SUBSET Memory]
    /\ Trusted \in [Batch -> SUBSET Memory]
    /\ Said \subseteq Memory
    /\ MemoryLimit \in Nat
    /\ MaxVersion \in Nat
    /\ None \notin Batch \cup Editor

VARIABLES batches,       \* state of each row of migration_batches
          persona_of,    \* the version each batch was activated with
          import_batch,  \* import_batch_id of each record
          reviewed,      \* records with a reviewed_by
          pinned,        \* records with the flag pinned
          profiles,      \* who brought each version in persona_profiles
          active,        \* version in active_personas, 0 without a row
          edits,         \* version each request will save, 0 before it reads
          briefing       \* what the compilation of a context has read so far

batchVars == <<batches, persona_of, import_batch>>
curationVars == <<records, reviewed, pinned>>
personaVars == <<profiles, active>>
vars == <<batchVars, curationVars, personaVars, edits, briefing>>

Version == 0 .. MaxVersion
NoBriefing == [pc |-> "recall", imported |-> {}, early |-> {},
               persona |-> 0, newest |-> 0]

\* The highest version there is.
latest == Cardinality({v \in 1 .. MaxVersion : profiles[v] # None})

TypeOK ==
    /\ RecordsTypeOK
    /\ batches \in [Batch -> {"absent", "staged", "active", "rolled_back"}]
    /\ persona_of \in [Batch -> Version]
    /\ import_batch \in [Memory -> Batch \cup {None}]
    /\ reviewed \in SUBSET Memory
    /\ pinned \in SUBSET Memory
    /\ profiles \in [1 .. MaxVersion -> Batch \cup Editor \cup {None}]
    /\ active \in Version
    /\ edits \in [Editor -> 0 .. MaxVersion + 1]
    /\ briefing \in [pc : {"recall", "persona", "done"},
                     imported : SUBSET Batch,   \* active ones it has facts of
                     early : SUBSET Memory,     \* its facts of other batches
                     persona : Version,         \* active, as it was read
                     newest : Version]          \* latest at that time

Init ==
    /\ RecordsInit
    /\ batches = [b \in Batch |-> "absent"]
    /\ persona_of = [b \in Batch |-> 0]
    /\ import_batch = [m \in Memory |-> None]
    /\ reviewed = {}
    /\ pinned = {}
    /\ profiles = [v \in 1 .. MaxVersion |-> None]
    /\ active = 0
    /\ edits = [e \in Editor |-> 0]
    /\ briefing = NoBriefing
-----------------------------------------------------------------------------
(* Memories outside batches.                                                *)

\* A conversation stores a memory: by the extraction of a message, which may
\* ask for a review, or by the controller's tool.  A deleted import comes
\* back under its batch, still pinned if it was, and not reviewed.
Remember(m) ==
    /\ m \in Said
    /\ ~Live(m)
    /\ \E promoted \in BOOLEAN : Store(m, promoted)
    /\ reviewed' = reviewed \ {m}
    /\ UNCHANGED <<batchVars, pinned, personaVars, edits, briefing>>

\* review_memory; it does not look at batches.
Review(m) ==
    /\ \/ PromoteRecord(m)
       \/ RejectRecord(m)
       \/ \E old \in Memory : ReplaceRecord(m, old)
    /\ reviewed' = reviewed \cup {m}
    /\ UNCHANGED <<batchVars, pinned, personaVars, edits, briefing>>

Delete(m) ==
    /\ DeleteRecord(m)
    /\ UNCHANGED <<batchVars, reviewed, pinned, personaVars, edits, briefing>>

\* pin_memory: of promoted records only.
Pin(m) ==
    /\ records[m] = "promoted"
    /\ pinned' \in {pinned \cup {m}, pinned \ {m}}
    /\ UNCHANGED <<batchVars, records, reviewed, personaVars, edits, briefing>>
-----------------------------------------------------------------------------
(* Batches.                                                                 *)

Of(b) == {m \in Memory : import_batch[m] = b}

\* Faulty: a record takes over the state of its batch.
StagedAsBatch(b, m) == IF m \in Trusted[b] THEN "promoted" ELSE "staged"

\* Faulty: every fact counts as trusted.
StagedPromoted(b, m) == "promoted"

\* stage_records, stage_profile_records: how a fact of a batch is stored.
StagedState(b, m) == IF m \in Trusted[b] THEN "promoted" ELSE "candidate"

\* normalized_content is unique: one memory that already has a row, deleted
\* or not, and the whole import fails.
Stageable(b) == \A m \in Imports[b] : records[m] = "absent"

\* stage_migration_batch; for a batch that exists, rolled back or not, it
\* changes nothing.
Stage(b) ==
    /\ batches[b] = "absent"
    /\ Stageable(b)
    /\ records' = [m \in Memory |-> IF m \in Imports[b] THEN StagedState(b, m)
                                    ELSE records[m]]
    /\ import_batch' = [m \in Memory |-> IF m \in Imports[b] THEN b
                                         ELSE import_batch[m]]
    /\ batches' = [batches EXCEPT ![b] = "staged"]
    /\ UNCHANGED <<persona_of, reviewed, pinned, personaVars, edits, briefing>>

\* Faulty: rejected records of the batch are promoted as well.
AwaitingAnyState(b) == {m \in Of(b) : records[m] # "deleted"}

Awaiting(b) == {m \in Of(b) : records[m] = "candidate"}

\* A version is written, and becomes the active one.
NewVersion(v, author) ==
    /\ profiles' = [profiles EXCEPT ![v] = author]
    /\ active' = v

\* Faulty: the facts come first, and the persona with an edit later.
ActivateFactsOnly(b) ==
    /\ batches[b] = "staged"
    /\ \E m \in Of(b) : records[m] \in {"candidate", "promoted"}
    /\ latest < MaxVersion
    /\ records' = [m \in Memory |-> IF m \in Awaiting(b) THEN "promoted"
                                    ELSE records[m]]
    /\ reviewed' = reviewed \cup Awaiting(b)
    /\ persona_of' = [persona_of EXCEPT ![b] = latest + 1]
    /\ batches' = [batches EXCEPT ![b] = "active"]
    /\ UNCHANGED <<import_batch, pinned, personaVars, edits, briefing>>

\* activate_migration_batch: what nobody reviewed is promoted, a new persona
\* version becomes active and the batch is active, all at once.
Activate(b) ==
    /\ batches[b] = "staged"
    /\ \E m \in Of(b) : records[m] \in {"candidate", "promoted"}
    /\ latest < MaxVersion
    /\ records' = [m \in Memory |-> IF m \in Awaiting(b) THEN "promoted"
                                    ELSE records[m]]
    /\ reviewed' = reviewed \cup Awaiting(b)
    /\ NewVersion(latest + 1, b)
    /\ persona_of' = [persona_of EXCEPT ![b] = latest + 1]
    /\ batches' = [batches EXCEPT ![b] = "active"]
    /\ UNCHANGED <<import_batch, pinned, edits, briefing>>

\* Faulty: only what is promoted is taken back.
GonePromoted(b) == {m \in Of(b) : records[m] = "promoted"}

Gone(b) == {m \in Of(b) : records[m] # "deleted"}

\* rollback_migration_batch, of a staged or active batch.  Its persona stays.
RollBack(b) ==
    /\ batches[b] \in {"staged", "active"}
    /\ records' = [m \in Memory |-> IF m \in Gone(b) THEN "deleted"
                                    ELSE records[m]]
    /\ batches' = [batches EXCEPT ![b] = "rolled_back"]
    /\ UNCHANGED <<persona_of, import_batch, reviewed, pinned, personaVars, edits,
                   briefing>>
-----------------------------------------------------------------------------
(* Personas.                                                                *)

\* PUT persona: read the active version ...
OpenEdit(e) ==
    /\ edits[e] = 0
    /\ edits' = [edits EXCEPT ![e] = active + 1]
    /\ UNCHANGED <<batchVars, curationVars, personaVars, briefing>>

\* ... and create_persona_profile under the number after it, which is refused
\* unless it is the next number of all.
SaveEdit(e) ==
    /\ edits[e] # 0
    /\ edits[e] = latest + 1
    /\ latest < MaxVersion
    /\ NewVersion(edits[e], e)
    /\ edits' = [edits EXCEPT ![e] = 0]
    /\ UNCHANGED <<batchVars, curationVars, briefing>>

EditRefused(e) ==
    /\ edits[e] # 0
    /\ edits[e] # latest + 1
    /\ edits' = [edits EXCEPT ![e] = 0]
    /\ UNCHANGED <<batchVars, curationVars, personaVars, briefing>>

\* revert_persona_profile: any version that exists becomes the active one.
Revert(v) ==
    /\ active # 0
    /\ v \in 1 .. latest
    /\ active' = v
    /\ UNCHANGED <<batchVars, curationVars, profiles, edits, briefing>>
-----------------------------------------------------------------------------
(* The context of a turn.                                                   *)

\* recall: pinned memories first, then by relevance, up to the limit.
Recalled(chosen) ==
    /\ chosen \subseteq Authorized
    /\ Cardinality(chosen) <= MemoryLimit
    /\ chosen # Authorized => Cardinality(chosen) = MemoryLimit
    /\ pinned \cap Authorized \subseteq chosen \/ chosen \subseteq pinned

Recall ==
    /\ briefing.pc # "persona"
    /\ \E chosen \in SUBSET Authorized :
        /\ Recalled(chosen)
        /\ briefing' = [pc |-> "persona",
                        imported |-> {b \in Batch : /\ batches[b] = "active"
                                                    /\ Of(b) \cap chosen # {}},
                        early |-> {m \in chosen : \E b \in Batch :
                                      m \in Of(b) /\ batches[b] # "active"},
                        persona |-> 0, newest |-> 0]
    /\ UNCHANGED <<batchVars, curationVars, personaVars, edits>>

\* get_active_persona, in another transaction.
ReadPersona ==
    /\ briefing.pc = "persona"
    /\ briefing' = [briefing EXCEPT !.pc = "done", !.persona = active,
                                    !.newest = latest]
    /\ UNCHANGED <<batchVars, curationVars, personaVars, edits>>

Next ==
    \/ \E m \in Memory : Remember(m) \/ Review(m) \/ Delete(m) \/ Pin(m)
    \/ \E b \in Batch : Stage(b) \/ Activate(b) \/ RollBack(b)
    \/ \E e \in Editor : OpenEdit(e) \/ SaveEdit(e) \/ EditRefused(e)
    \/ \E v \in Version : Revert(v)
    \/ Recall \/ ReadPersona

Spec == Init /\ [][Next]_vars
-----------------------------------------------------------------------------
(* What the user rejected is not promoted behind his back: not by the       *)
(* activation of its batch, not by saying it again, not by a second import. *)
(* He would have to delete it first.                                        *)
RejectedStaysRejected ==
    [][\A m \in Memory :
          records[m] = "rejected" => records'[m] \in {"rejected", "deleted"}]_vars

(* Nothing of a batch that was rolled back is left, staged or activated,    *)
(* reviewed or not, and no second import brings it back; only what is also  *)
(* talked about may live again (rollback_migration_batch).                  *)
RolledBackIsGone ==
    \A b \in Batch : batches[b] = "rolled_back"
        => \A m \in Of(b) : records[m] = "deleted" \/ m \in Said

(* A promoted memory was reviewed by the user, one by one or with its       *)
(* batch, or said in a conversation, or imported with enough trust.         *)
PromotedForAReason ==
    \A m \in Authorized :
        \/ m \in reviewed
        \/ m \in Said
        \/ \E b \in Batch : import_batch[m] = b /\ m \in Trusted[b]

(* A briefing that has facts of a batch without the persona it was          *)
(* activated with, or a later one, came about in two ways only: the batch   *)
(* was not active as the facts were read, and they were there all the same, *)
(* imported with enough trust, reviewed one by one or said; or the user had *)
(* gone back to an earlier version.  The activation in itself never leaves  *)
(* the facts without the persona, though a briefing reads them in two       *)
(* transactions (activate_migration_batch, MemoryContextCompiler.compile).  *)
OnlyTheseLackThePersona ==
    briefing.pc = "done" =>
        /\ \A m \in briefing.early :
              m \in Trusted[import_batch[m]] \cup reviewed \cup Said
        /\ \A b \in briefing.imported :
              briefing.persona >= persona_of[b] \/ briefing.persona < briefing.newest
=============================================================================
