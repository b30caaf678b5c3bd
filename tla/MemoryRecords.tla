--------------------------- MODULE MemoryRecords ----------------------------
(***************************************************************************)
(* The rows of memory_records of one tenant and the transactions of         *)
(* runtime/sql.py that change their state.                                  *)
(*                                                                          *)
(* A memory is named by its normalised content: a tenant has one row for it *)
(* at most, no row is ever removed, and a deleted memory that is said again *)
(* gets its old row back.                                                   *)
(*                                                                          *)
(* Each operation says what becomes of records; the modules that use them   *)
(* say who calls it and what follows the commit.                            *)
(***************************************************************************)
CONSTANT Memory      \* normalised contents

VARIABLE records     \* state of the row of each memory

State == {"candidate", "promoted", "rejected", "deleted"}
RecordsTypeOK == records \in [Memory -> State \cup {"absent"}]
RecordsInit == records = [m \in Memory |-> "absent"]

Live(m) == records[m] \notin {"absent", "deleted"}
Authorized == {m \in Memory : records[m] = "promoted"}

\* Faulty: a record that waits for a review is given the state of a job.
UpsertPending(m, promoted) ==
    IF Live(m) THEN records[m]
    ELSE IF promoted THEN "promoted" ELSE "pending"

\* upsert_memory: what the row holds afterwards.  A live row stays as it is,
\* even for a caller that would promote it.
Upsert(m, promoted) ==
    IF Live(m) THEN records[m]
    ELSE IF promoted THEN "promoted" ELSE "candidate"

Store(m, promoted) == records' = [records EXCEPT ![m] = Upsert(m, promoted)]

\* review_memory of a candidate.
PromoteRecord(m) ==
    /\ records[m] = "candidate"
    /\ records' = [records EXCEPT ![m] = "promoted"]

RejectRecord(m) ==
    /\ records[m] = "candidate"
    /\ records' = [records EXCEPT ![m] = "rejected"]

\* ... that contradicts a promoted memory: both change together.
ReplaceRecord(m, old) ==
    /\ records[m] = "candidate" /\ m # old
    /\ records[old] = "promoted"
    /\ records' = [records EXCEPT ![m] = "promoted", ![old] = "deleted"]

\* delete_memory: any live record, a rejected one as well.
DeleteRecord(m) ==
    /\ Live(m)
    /\ records' = [records EXCEPT ![m] = "deleted"]
=============================================================================
