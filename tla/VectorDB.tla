------------------------------ MODULE VectorDB ------------------------------
(***************************************************************************)
(* The in-memory vector store behind Memory (src/bantu_os/memory/         *)
(* vector_db.py, reached through the VectorDBStore adapter of             *)
(* vector_store.py and Memory.store_memory of memory.py).                  *)
(*                                                                         *)
(* VectorDB.records is a Python dict from a record id to a record; a dict  *)
(* iterates in insertion order, and assigning to a key that is already     *)
(* present replaces the value in place, keeping its position.  The store   *)
(* is modelled as the sequence recs of its records in iteration order.     *)
(* Vectors are abstracted to their dimension: the embedder always returns  *)
(* vectors of dimension EmbedDim, and the store was built for Dim.         *)
(***************************************************************************)
EXTENDS Naturals, Sequences

CONSTANTS
    Texts,      \* the document texts a caller may store
    Dim,        \* Memory.dim = VectorDB.dim (the configured dimension)
    EmbedDim    \* the dimension of the vectors the embedder returns

ASSUME DimAssumption == Dim \in Nat \ {0} /\ EmbedDim \in Nat \ {0}

VARIABLE recs   \* VectorDB.records, in dict iteration order

Record == [id : Nat \ {0}, text : Texts]

(* The ids of the records the store holds. *)
Ids == {recs[i].id : i \in DOMAIN recs}

(* Mutant: f"vec_{len(self.records)}", an id one lower. *)
NextIdZeroBased == Len(recs)

(***************************************************************************)
(* record_id = f"vec_{len(self.records) + 1}": the next id is derived     *)
(* from the current number of records, not from a counter.                 *)
(***************************************************************************)
NextId == Len(recs) + 1

(***************************************************************************)
(* self.records[record_id] = VectorRecord(...): a new key is appended, an  *)
(* existing key is overwritten where it stands.                            *)
(***************************************************************************)
Put(id, t) ==
    IF id \in Ids
    THEN [i \in DOMAIN recs |->
            IF recs[i].id = id THEN [id |-> id, text |-> t] ELSE recs[i]]
    ELSE Append(recs, [id |-> id, text |-> t])

(***************************************************************************)
(* Memory.store_memory raises ValueError when embedding.shape[-1] # dim,   *)
(* and VectorDB.add and VectorDB.search raise when len(vector) # dim.      *)
(* Every vector comes from the embedder, so all of these checks succeed   *)
(* exactly when the two dimensions agree.                                  *)
(***************************************************************************)
DimOk == EmbedDim = Dim

(***************************************************************************)
(* Memory.store_memory(text, embedding) through VectorDBStore.add and      *)
(* VectorDB.add, when the dimension check passes.  When it fails the call  *)
(* raises and recs is unchanged; callers model that branch themselves.    *)
(***************************************************************************)
StoreMemory(t) ==
    /\ DimOk
    /\ recs' = Put(NextId, t)

(***************************************************************************)
(* VectorDB.delete(record_id): removes the record when the key exists and  *)
(* returns whether it did; an absent id leaves the store unchanged.        *)
(***************************************************************************)
DeleteRecord(id) ==
    LET Keep(r) == r.id # id
    IN  recs' = SelectSeq(recs, Keep)

=============================================================================
