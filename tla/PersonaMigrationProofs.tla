----------------------- MODULE PersonaMigrationProofs -----------------------
(***************************************************************************)
(* Proofs about PersonaMigration, for every set of batches, memories and    *)
(* editors, every content of a batch and every size of a briefing.          *)
(***************************************************************************)
EXTENDS PersonaMigration, FiniteSetTheorems, TLAPS

USE MigrationAssumption

-----------------------------------------------------------------------------
(* Versions.                                                                *)

Written == {v \in 1 .. MaxVersion : profiles[v] # None}

\* Versions are numbered without a gap.
Gapless == Written = 1 .. latest

\* latest is a version, or 0.
LEMMA LatestType ==
  ASSUME TypeOK
  PROVE  latest \in Version
<1>1. IsFiniteSet(1 .. MaxVersion) /\ Cardinality(1 .. MaxVersion) = MaxVersion
  BY FS_Interval
<1>2. Written \in SUBSET (1 .. MaxVersion)
  BY DEF Written
<1>3. IsFiniteSet(Written) /\ Cardinality(Written) <= Cardinality(1 .. MaxVersion)
  BY <1>1, <1>2, FS_Subset
<1>4. Cardinality(Written) \in Nat
  BY <1>3, FS_CardinalityType
<1> QED
  BY <1>1, <1>3, <1>4 DEF latest, Written, Version

\* Where no version is written, latest stays.
LEMMA LatestStays ==
  ASSUME UNCHANGED profiles
  PROVE  latest' = latest /\ Written' = Written /\ (Gapless => Gapless')
  BY DEF latest, Written, Gapless

\* The version after the latest is a new one.
LEMMA NewVersionEffect ==
  ASSUME TypeOK, Gapless, latest < MaxVersion,
         NEW author \in Batch \cup Editor, NewVersion(latest + 1, author)
  PROVE  /\ profiles' \in [1 .. MaxVersion -> Batch \cup Editor \cup {None}]
         /\ active' \in Version
         /\ latest' = latest + 1
         /\ Gapless'
<1> DEFINE n == latest + 1
<1>1. latest \in 0 .. MaxVersion /\ MaxVersion \in Nat
  BY LatestType DEF Version
<1>2. n \in 1 .. MaxVersion
  BY <1>1
<1>3. profiles' = [profiles EXCEPT ![n] = author] /\ active' = n
  BY DEF NewVersion
<1>4. profiles' \in [1 .. MaxVersion -> Batch \cup Editor \cup {None}]
  BY <1>2, <1>3 DEF TypeOK
<1>5. \A v \in 1 .. MaxVersion : profiles'[v] # None <=> v = n \/ profiles[v] # None
  BY <1>2, <1>3 DEF TypeOK
<1>6. Written' = Written \cup {n}
  BY <1>2, <1>5 DEF Written
<1>7. Written' = 1 .. n
  BY <1>1, <1>6 DEF Gapless
<1>8. Cardinality(1 .. n) = n
  BY <1>1, FS_Interval
<1>9. latest' = n
  BY <1>7, <1>8 DEF latest, Written
<1>10. active' \in Version
  BY <1>2, <1>3 DEF Version
<1> QED
  BY <1>4, <1>7, <1>9, <1>10 DEF Gapless
-----------------------------------------------------------------------------
(* The inductive invariant.                                                 *)

\* A batch's persona is one of the versions there are, and a briefing draws on
\* batches that were activated before it.
PersonaOrder ==
    /\ \A b \in Batch : persona_of[b] <= latest
    /\ briefing.imported \subseteq {b \in Batch : batches[b] \in {"active", "rolled_back"}}

\* What a briefing has of a batch that was not active is there for a reason.
EarlyForAReason ==
    \A m \in briefing.early :
        /\ import_batch[m] \in Batch /\ records[m] # "absent"
        /\ m \in Trusted[import_batch[m]] \cup reviewed \cup Said

PersonaInv ==
    /\ TypeOK
    /\ Gapless
    /\ PersonaOrder
    /\ EarlyForAReason
    /\ RolledBackIsGone
    /\ PromotedForAReason
    /\ OnlyTheseLackThePersona

LEMMA InitPersonaInv == Init => PersonaInv
<1> SUFFICES ASSUME Init PROVE PersonaInv
  OBVIOUS
<1> USE DEF Init, RecordsInit
<1>1. TypeOK
  BY DEF TypeOK, RecordsTypeOK, Version, NoBriefing
<1>2. Written = {}
  BY DEF Written
<1>3. latest = 0
  BY <1>2, FS_EmptySet DEF latest, Written
<1>4. Gapless
  BY <1>2, <1>3 DEF Gapless
<1>5. PersonaOrder
  BY <1>3 DEF PersonaOrder, NoBriefing
<1>6. RolledBackIsGone
  BY DEF RolledBackIsGone
<1>7. PromotedForAReason
  BY DEF PromotedForAReason, Authorized
<1>8. EarlyForAReason /\ OnlyTheseLackThePersona
  BY DEF EarlyForAReason, OnlyTheseLackThePersona, NoBriefing
<1> QED
  BY <1>1, <1>4, <1>5, <1>6, <1>7, <1>8 DEF PersonaInv
-----------------------------------------------------------------------------
(* Types.                                                                   *)

\* The operations on records keep their type.
LEMMA RecordsStep ==
  ASSUME RecordsTypeOK, NEW m \in Memory,
         \/ \E promoted \in BOOLEAN : Store(m, promoted)
         \/ PromoteRecord(m)
         \/ RejectRecord(m)
         \/ \E old \in Memory : ReplaceRecord(m, old)
         \/ DeleteRecord(m)
  PROVE  RecordsTypeOK'
<1> USE DEF RecordsTypeOK, State
<1>1. CASE \E promoted \in BOOLEAN : Store(m, promoted)
  BY <1>1 DEF Store, Upsert, Live
<1>2. CASE PromoteRecord(m)
  BY <1>2 DEF PromoteRecord
<1>3. CASE RejectRecord(m)
  BY <1>3 DEF RejectRecord
<1>4. CASE \E old \in Memory : ReplaceRecord(m, old)
  BY <1>4 DEF ReplaceRecord
<1>5. CASE DeleteRecord(m)
  BY <1>5 DEF DeleteRecord
<1> QED
  BY <1>1, <1>2, <1>3, <1>4, <1>5

\* A step keeps every variable's type.
LEMMA TypeStep ==
  ASSUME TypeOK, Gapless, [Next]_vars
  PROVE  TypeOK'
<1> USE DEF TypeOK
<1>1. ASSUME NEW m \in Memory, Remember(m) PROVE TypeOK'
  BY <1>1, RecordsStep DEF Remember, batchVars, personaVars
<1>2. ASSUME NEW m \in Memory, Review(m) PROVE TypeOK'
  BY <1>2, RecordsStep DEF Review, batchVars, personaVars
<1>3. ASSUME NEW m \in Memory, Delete(m) PROVE TypeOK'
  BY <1>3, RecordsStep DEF Delete, batchVars, personaVars
<1>4. ASSUME NEW m \in Memory, Pin(m) PROVE TypeOK'
  BY <1>4 DEF Pin, batchVars, personaVars, RecordsTypeOK
<1>5. ASSUME NEW b \in Batch, Stage(b) PROVE TypeOK'
  BY <1>5 DEF Stage, StagedState, personaVars, RecordsTypeOK, State
<1>6. ASSUME NEW b \in Batch, Activate(b) PROVE TypeOK'
  <2>1. latest \in Version /\ latest < MaxVersion
    BY <1>6, LatestType DEF Activate
  <2>2. /\ profiles' \in [1 .. MaxVersion -> Batch \cup Editor \cup {None}]
        /\ active' \in Version
    BY <1>6, <2>1, NewVersionEffect DEF Activate
  <2>3. RecordsTypeOK'
    BY <1>6 DEF Activate, RecordsTypeOK, State
  <2>4. persona_of' \in [Batch -> Version]
    BY <1>6, <2>1 DEF Activate, Version
  <2>5. reviewed' \in SUBSET Memory
    BY <1>6 DEF Activate, Awaiting, Of
  <2>6. batches' \in [Batch -> {"absent", "staged", "active", "rolled_back"}]
    BY <1>6 DEF Activate
  <2> QED
    BY <1>6, <2>2, <2>3, <2>4, <2>5, <2>6 DEF Activate
<1>7. ASSUME NEW b \in Batch, RollBack(b) PROVE TypeOK'
  BY <1>7 DEF RollBack, personaVars, RecordsTypeOK, State
<1>8. ASSUME NEW e \in Editor, OpenEdit(e) PROVE TypeOK'
  BY <1>8 DEF OpenEdit, batchVars, curationVars, personaVars, RecordsTypeOK, Version
<1>9. ASSUME NEW e \in Editor, SaveEdit(e) PROVE TypeOK'
  <2>1. /\ profiles' \in [1 .. MaxVersion -> Batch \cup Editor \cup {None}]
        /\ active' \in Version
    BY <1>9, NewVersionEffect DEF SaveEdit
  <2>2. edits' \in [Editor -> 0 .. MaxVersion + 1]
    BY <1>9 DEF SaveEdit
  <2> QED
    BY <1>9, <2>1, <2>2 DEF SaveEdit, batchVars, curationVars, RecordsTypeOK
<1>10. ASSUME NEW e \in Editor, EditRefused(e) PROVE TypeOK'
  BY <1>10 DEF EditRefused, batchVars, curationVars, personaVars, RecordsTypeOK
<1>11. ASSUME NEW v \in Version, Revert(v) PROVE TypeOK'
  BY <1>11 DEF Revert, batchVars, curationVars, RecordsTypeOK
<1>12. ASSUME Recall PROVE TypeOK'
  <2>1. briefing' \in [pc : {"recall", "persona", "done"}, imported : SUBSET Batch,
                        early : SUBSET Memory, persona : Version, newest : Version]
    BY <1>12 DEF Recall, Version, Authorized
  <2> QED
    BY <1>12, <2>1 DEF Recall, batchVars, curationVars, personaVars, RecordsTypeOK
<1>13. ASSUME ReadPersona PROVE TypeOK'
  BY <1>13, LatestType DEF ReadPersona, batchVars, curationVars, personaVars, RecordsTypeOK
<1>14. CASE UNCHANGED vars
  BY <1>14 DEF vars, batchVars, curationVars, personaVars, RecordsTypeOK
<1> QED
  BY <1>1, <1>2, <1>3, <1>4, <1>5, <1>6, <1>7, <1>8, <1>9, <1>10, <1>11, <1>12,
     <1>13, <1>14 DEF Next
-----------------------------------------------------------------------------
(* Versions, steps and briefings.                                           *)

\* Only an activation and an edit write a version; they write the next one.
LEMMA VersionStep ==
  ASSUME TypeOK, Gapless, [Next]_vars
  PROVE  Gapless' /\ latest' \in Nat /\ latest' >= latest
<1>1. latest \in Nat
  BY LatestType DEF Version
<1>2. CASE UNCHANGED profiles
  BY <1>1, <1>2, LatestStays
<1>3. ASSUME NEW b \in Batch, Activate(b) PROVE Gapless' /\ latest' = latest + 1
  BY <1>3, NewVersionEffect DEF Activate
<1>4. ASSUME NEW e \in Editor, SaveEdit(e) PROVE Gapless' /\ latest' = latest + 1
  BY <1>4, NewVersionEffect DEF SaveEdit
<1>5. \/ UNCHANGED profiles
      \/ \E b \in Batch : Activate(b)
      \/ \E e \in Editor : SaveEdit(e)
  BY DEF Next, vars, personaVars, Remember, Review, Delete, Pin, Stage, RollBack,
         OpenEdit, EditRefused, Revert, Recall, ReadPersona
<1> QED
  BY <1>1, <1>2, <1>3, <1>4, <1>5

\* No row of a memory is ever removed.
LEMMA RecordKept ==
  ASSUME TypeOK, [Next]_vars, NEW m \in Memory, records[m] # "absent"
  PROVE  records'[m] # "absent"
<1> USE DEF TypeOK, RecordsTypeOK, State
<1>1. ASSUME NEW b \in Batch, Stage(b) \/ Activate(b) \/ RollBack(b)
      PROVE  records'[m] # "absent"
  <2>1. CASE Stage(b)
    BY <2>1 DEF Stage, Stageable
  <2>2. CASE Activate(b)
    <3>1. records'[m] \in {"promoted", records[m]}
      BY <2>2 DEF Activate
    <3> QED
      BY <3>1
  <2>3. CASE RollBack(b)
    <3>1. records'[m] \in {"deleted", records[m]}
      BY <2>3 DEF RollBack
    <3> QED
      BY <3>1
  <2> QED
    BY <1>1, <2>1, <2>2, <2>3
<1>2. ASSUME NEW k \in Memory, Remember(k) \/ Delete(k)
      PROVE  records'[m] # "absent"
  BY <1>2 DEF Remember, Store, Upsert, Live, Delete, DeleteRecord
<1>3. ASSUME NEW k \in Memory, Review(k)
      PROVE  records'[m] # "absent"
  BY <1>3 DEF Review, PromoteRecord, RejectRecord, ReplaceRecord
<1> QED
  BY <1>1, <1>2, <1>3 DEF Next, vars, curationVars, Pin, OpenEdit, SaveEdit, EditRefused,
     Revert, Recall, ReadPersona

\* The memories a briefing took before an activation keep their reason.
LEMMA EarlyStep ==
  ASSUME TypeOK, EarlyForAReason, PromotedForAReason, [Next]_vars
  PROVE  EarlyForAReason'
<1> USE DEF EarlyForAReason
<1>1. CASE Recall
  <2>1. ASSUME NEW m \in briefing'.early
        PROVE  /\ import_batch[m] \in Batch /\ records[m] # "absent"
               /\ m \in Trusted[import_batch[m]] \cup reviewed \cup Said
    <3>1. m \in Authorized /\ import_batch[m] \in Batch
      BY <1>1, <2>1 DEF Recall, Recalled, Of
    <3> QED
      BY <3>1 DEF PromotedForAReason, Authorized
  <2> QED
    BY <1>1, <2>1 DEF Recall, batchVars, curationVars
<1>2. ASSUME NEW m \in briefing.early, briefing'.early \subseteq briefing.early
      PROVE  /\ import_batch'[m] = import_batch[m] /\ records'[m] # "absent"
             /\ m \in Said \/ (m \in reviewed => m \in reviewed')
  <2>1. m \in Memory /\ import_batch[m] \in Batch /\ records[m] # "absent"
    BY <1>2 DEF TypeOK
  <2>2. CASE \E b \in Batch : Stage(b)
    BY <2>1, <2>2 DEF Stage, Stageable, TypeOK
  <2>3. records'[m] # "absent"
    BY <2>1, RecordKept
  <2> QED
    BY <2>1, <2>2, <2>3 DEF Next, vars, batchVars, curationVars, Remember, Review, Delete, Pin,
       Activate, RollBack, OpenEdit, SaveEdit, EditRefused, Revert, Recall, ReadPersona
<1>3. CASE briefing'.early \subseteq briefing.early
  BY <1>2, <1>3
<1>4. Recall \/ briefing'.early = briefing.early
  BY DEF Next, vars, Remember, Review, Delete, Pin, Stage, Activate, RollBack, OpenEdit,
     SaveEdit, EditRefused, Revert, ReadPersona, TypeOK
<1> QED
  BY <1>1, <1>3, <1>4

(* The part of OnlyTheseLackThePersona about activated batches.             *)
ActiveHasPersona ==
    briefing.pc = "done" => \A b \in briefing.imported :
        briefing.persona >= persona_of[b] \/ briefing.persona < briefing.newest

\* A persona is given to a batch that no briefing has drawn on yet.
LEMMA PersonaStep ==
  ASSUME TypeOK, Gapless, PersonaOrder, ActiveHasPersona, [Next]_vars
  PROVE  PersonaOrder' /\ ActiveHasPersona'
<1> DEFINE Drawn == {b \in Batch : batches[b] \in {"active", "rolled_back"}}
<1>1. /\ latest \in Nat /\ latest' \in Nat /\ latest' >= latest
      /\ \A b \in Batch : persona_of[b] \in Nat
      /\ active \in Nat
  BY LatestType, VersionStep DEF Version, TypeOK
<1>2. CASE UNCHANGED <<persona_of, briefing>> /\ Drawn \subseteq Drawn'
  BY <1>1, <1>2 DEF PersonaOrder, ActiveHasPersona, TypeOK
<1>3. ASSUME NEW b \in Batch, Stage(b) \/ RollBack(b)
      PROVE  UNCHANGED <<persona_of, briefing>> /\ Drawn \subseteq Drawn'
  BY <1>3 DEF Stage, RollBack, TypeOK
<1>4. ASSUME NEW b \in Batch, Activate(b)
      PROVE  PersonaOrder' /\ ActiveHasPersona'
  <2>1. latest' = latest + 1
    BY <1>4, NewVersionEffect DEF Activate
  <2>2. /\ batches[b] = "staged" /\ batches' = [batches EXCEPT ![b] = "active"]
        /\ persona_of' = [persona_of EXCEPT ![b] = latest + 1]
        /\ UNCHANGED briefing
    BY <1>4 DEF Activate
  <2>3. b \notin briefing.imported
    BY <2>2 DEF PersonaOrder
  <2>4. \A c \in Batch : /\ c # b => persona_of'[c] = persona_of[c]
                         /\ persona_of'[c] <= latest'
    BY <1>1, <2>1, <2>2 DEF PersonaOrder, TypeOK
  <2>5. Drawn \subseteq Drawn'
    BY <2>2 DEF TypeOK
  <2> QED
    BY <2>2, <2>3, <2>4, <2>5 DEF PersonaOrder, ActiveHasPersona, TypeOK
<1>5. CASE Recall
  BY <1>1, <1>5 DEF Recall, batchVars, PersonaOrder, ActiveHasPersona
<1>6. CASE ReadPersona
  <2>1. /\ briefing'.imported = briefing.imported /\ briefing'.newest = latest
        /\ briefing'.persona = active /\ UNCHANGED <<batches, persona_of>>
    BY <1>6 DEF ReadPersona, batchVars, TypeOK
  <2> QED
    BY <1>1, <2>1 DEF PersonaOrder, ActiveHasPersona
<1>7. \/ UNCHANGED <<batches, persona_of, briefing>>
      \/ \E b \in Batch : Stage(b) \/ RollBack(b)
      \/ \E b \in Batch : Activate(b)
      \/ Recall \/ ReadPersona
  BY DEF Next, vars, batchVars, Remember, Review, Delete, Pin, OpenEdit, SaveEdit,
         EditRefused, Revert
<1> QED
  BY <1>2, <1>3, <1>4, <1>5, <1>6, <1>7
-----------------------------------------------------------------------------
(* Records.                                                                 *)

\* What a step outside of batches does to the records: a memory that is not
\* talked about is promoted only by a review.
OutsideStep ==
    /\ UNCHANGED <<batches, import_batch>>
    /\ \A m \in Memory :
        /\ records[m] = "deleted" /\ m \notin Said => records'[m] = "deleted"
        /\ records[m] = "rejected" => records'[m] \in {"rejected", "deleted"}
        /\ records'[m] = "promoted" /\ m \notin Said
              => m \in reviewed' \/ (records[m] = "promoted" /\ m \notin reviewed)

\* Every step that is not a batch's is of that kind.
LEMMA OutsideSteps ==
  ASSUME TypeOK, [Next]_vars, \A b \in Batch : ~Stage(b) /\ ~Activate(b) /\ ~RollBack(b)
  PROVE  OutsideStep
<1> USE DEF TypeOK, RecordsTypeOK, State, OutsideStep
<1>1. ASSUME NEW m \in Memory, Remember(m) PROVE OutsideStep
  BY <1>1 DEF Remember, Store, Upsert, Live, batchVars
<1>2. ASSUME NEW m \in Memory, Review(m) PROVE OutsideStep
  <2>1. CASE PromoteRecord(m)
    BY <1>2, <2>1 DEF Review, PromoteRecord, batchVars
  <2>2. CASE RejectRecord(m)
    BY <1>2, <2>2 DEF Review, RejectRecord, batchVars
  <2>3. ASSUME NEW old \in Memory, ReplaceRecord(m, old) PROVE OutsideStep
    BY <1>2, <2>3 DEF Review, ReplaceRecord, batchVars
  <2> QED
    BY <1>2, <2>1, <2>2, <2>3 DEF Review
<1>3. ASSUME NEW m \in Memory, Delete(m) PROVE OutsideStep
  BY <1>3 DEF Delete, DeleteRecord, Live, batchVars
<1>4. CASE UNCHANGED <<batches, import_batch, records, reviewed>>
  BY <1>4
<1>5. \/ UNCHANGED <<batches, import_batch, records, reviewed>>
      \/ \E m \in Memory : Remember(m) \/ Review(m) \/ Delete(m)
  BY DEF Next, vars, batchVars, curationVars, Pin, OpenEdit, SaveEdit,
         EditRefused, Revert, Recall, ReadPersona
<1> QED
  BY <1>1, <1>2, <1>3, <1>4, <1>5

\* A batch's steps leave the records of other batches alone.
LEMMA RolledBackStep ==
  ASSUME TypeOK, RolledBackIsGone, [Next]_vars
  PROVE  RolledBackIsGone'
<1> USE DEF RolledBackIsGone, Of, TypeOK, RecordsTypeOK, State
<1>1. ASSUME NEW b \in Batch, Stage(b) PROVE RolledBackIsGone'
  BY <1>1 DEF Stage, Stageable
<1>2. ASSUME NEW b \in Batch, Activate(b) PROVE RolledBackIsGone'
  BY <1>2 DEF Activate, Awaiting
<1>3. ASSUME NEW b \in Batch, RollBack(b) PROVE RolledBackIsGone'
  BY <1>3 DEF RollBack, Gone
<1>4. CASE OutsideStep
  BY <1>4 DEF OutsideStep
<1> QED
  BY <1>1, <1>2, <1>3, <1>4, OutsideSteps

\* An activation counts as a review of what it promotes.
LEMMA PromotedStep ==
  ASSUME TypeOK, PromotedForAReason, [Next]_vars
  PROVE  PromotedForAReason'
<1> USE DEF PromotedForAReason, Authorized, TypeOK, RecordsTypeOK, State
<1>1. ASSUME NEW b \in Batch, Stage(b) PROVE PromotedForAReason'
  BY <1>1 DEF Stage, Stageable, StagedState
<1>2. ASSUME NEW b \in Batch, Activate(b) PROVE PromotedForAReason'
  BY <1>2 DEF Activate, Awaiting, Of
<1>3. ASSUME NEW b \in Batch, RollBack(b) PROVE PromotedForAReason'
  BY <1>3 DEF RollBack, Gone, Of
<1>4. CASE OutsideStep
  BY <1>4 DEF OutsideStep
<1> QED
  BY <1>1, <1>2, <1>3, <1>4, OutsideSteps

\* No step promotes what was rejected.
LEMMA RejectedStep ==
  ASSUME TypeOK, [Next]_vars, NEW m \in Memory, records[m] = "rejected"
  PROVE  records'[m] \in {"rejected", "deleted"}
<1> USE DEF TypeOK, RecordsTypeOK, State
<1>1. ASSUME NEW b \in Batch, Stage(b) PROVE records'[m] = "rejected"
  BY <1>1 DEF Stage, Stageable
<1>2. ASSUME NEW b \in Batch, Activate(b) PROVE records'[m] = "rejected"
  BY <1>2 DEF Activate, Awaiting
<1>3. ASSUME NEW b \in Batch, RollBack(b) PROVE records'[m] \in {"rejected", "deleted"}
  BY <1>3 DEF RollBack
<1>4. CASE OutsideStep
  BY <1>4 DEF OutsideStep
<1> QED
  BY <1>1, <1>2, <1>3, <1>4, OutsideSteps
-----------------------------------------------------------------------------
(* Theorems.                                                                *)

LEMMA StepPersonaInv == PersonaInv /\ [Next]_vars => PersonaInv'
<1> SUFFICES ASSUME PersonaInv, [Next]_vars PROVE PersonaInv'
  OBVIOUS
<1> USE DEF PersonaInv
<1>1. TypeOK' /\ Gapless'
  BY TypeStep, VersionStep
<1>2. PersonaOrder' /\ EarlyForAReason' /\ OnlyTheseLackThePersona'
  <2>1. ActiveHasPersona
    BY DEF ActiveHasPersona, OnlyTheseLackThePersona
  <2>2. PersonaOrder' /\ ActiveHasPersona' /\ EarlyForAReason'
    BY <2>1, PersonaStep, EarlyStep
  <2> QED
    BY <2>2 DEF ActiveHasPersona, EarlyForAReason, OnlyTheseLackThePersona
<1>3. RolledBackIsGone' /\ PromotedForAReason'
  BY RolledBackStep, PromotedStep
<1> QED
  BY <1>1, <1>2, <1>3

\* The inductive invariant holds in every reachable state of batches,
\* memories, personas and briefings.
THEOREM PersonaInvariant == Spec => []PersonaInv
  BY InitPersonaInv, StepPersonaInv, PTL DEF Spec

\* Every reachable state of migration_batches, memory_records, the persona
\* tables and a briefing has the declared types.
THEOREM TypeCorrect == Spec => []TypeOK
<1>1. PersonaInv => TypeOK
  BY DEF PersonaInv
<1> QED
  BY <1>1, PersonaInvariant, PTL

\* What rollback_migration_batch takes back stays away, whatever else happens
\* to the memories of the batch before and afterwards.
THEOREM RollBackHolds == Spec => []RolledBackIsGone
<1>1. PersonaInv => RolledBackIsGone
  BY DEF PersonaInv
<1> QED
  BY <1>1, PersonaInvariant, PTL

\* No memory is promoted that was neither reviewed, nor said, nor imported
\* with enough trust.
THEOREM PromotionHasReason == Spec => []PromotedForAReason
<1>1. PersonaInv => PromotedForAReason
  BY DEF PersonaInv
<1> QED
  BY <1>1, PersonaInvariant, PTL

\* MemoryContextCompiler may read facts and persona in two transactions: facts
\* of an active batch come with its persona or a later one, unless the user
\* went back; and facts of a batch that was not active had a reason to be there.
THEOREM BriefingLacksPersonaOnlyThus == Spec => []OnlyTheseLackThePersona
<1>1. PersonaInv => OnlyTheseLackThePersona
  BY DEF PersonaInv
<1> QED
  BY <1>1, PersonaInvariant, PTL

\* A rejection by review_memory outlives activations, imports and
\* conversations, until the user deletes the record.
THEOREM RejectionHolds == Spec => RejectedStaysRejected
<1>1. TypeOK /\ [Next]_vars
        => [\A m \in Memory :
              records[m] = "rejected" => records'[m] \in {"rejected", "deleted"}]_vars
  BY RejectedStep
<1> QED
  BY <1>1, TypeCorrect, PTL DEF Spec, RejectedStaysRejected
=============================================================================
