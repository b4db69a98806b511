----------------------------- MODULE VectorDBApi -----------------------------
(***************************************************************************)
(* The VectorStore interface used directly: any sequence of add and       *)
(* delete calls a caller of Memory.store / VectorDBStore can make         *)
(* (vector_store.py: VectorDBStore.add, VectorDBStore.delete, which        *)
(* forward to VectorDB.add and VectorDB.delete).                           *)
(*                                                                         *)
(* issued is a history variable: the records whose id some add call       *)
(* returned and that no delete of that id has removed since.  The caller   *)
(* holds those ids and expects get(id) to return what it stored.           *)
(***************************************************************************)
EXTENDS VectorDB, FiniteSets

CONSTANT MaxCalls   \* bound on the number of add and delete calls

VARIABLES
    issued,   \* history: [id, text] records the caller believes are stored
    calls     \* number of calls made, to bound the model

vars == <<recs, issued, calls>>

TypeOK ==
    /\ recs \in Seq(Record)
    /\ issued \subseteq Record
    /\ calls \in 0..MaxCalls

Init ==
    /\ recs = <<>>
    /\ issued = {}
    /\ calls = 0

(* VectorDBStore.add(vector, metadata, text): returns the new record id. *)
Add(t) ==
    /\ calls < MaxCalls
    /\ StoreMemory(t)
    /\ issued' = issued \cup {[id |-> NextId, text |-> t]}
    /\ calls' = calls + 1

(* VectorDBStore.delete(record_id), for an id the caller was given. *)
Delete(id) ==
    /\ calls < MaxCalls
    /\ DeleteRecord(id)
    /\ issued' = {r \in issued : r.id # id}
    /\ calls' = calls + 1

Next ==
    \/ \E t \in Texts : Add(t)
    \/ \E r \in issued : Delete(r.id)

Spec == Init /\ [][Next]_vars

(***************************************************************************)
(* Spec 4.4 and 3: a MemoryRecord has a unique id and is immutable once   *)
(* stored except for deletion by id.  So every record an add call         *)
(* returned, and that was not deleted by its id since, is still held with *)
(* the text it was stored with.  VectorDB.add derives the id from         *)
(* len(self.records); after a delete that id can be one still in use, and *)
(* the dict assignment then overwrites that record.                        *)
(***************************************************************************)
NoRecordLost ==
    \A r \in issued : \E i \in DOMAIN recs : recs[i] = r

=============================================================================
