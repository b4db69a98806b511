---------------------------- MODULE VectorSearch ----------------------------
(***************************************************************************)
(* VectorDB.search (src/bantu_os/memory/vector_db.py), reached through    *)
(* VectorDBStore.search and Memory.retrieve_memory.                        *)
(*                                                                         *)
(* A stored vector is abstracted to whether its norm is zero.  The cosine *)
(* similarity of two non-zero vectors is an arbitrary real; a small set    *)
(* Levels of integers stands for the values a search can see, so a search *)
(* picks any assignment of levels to the records.  A zero vector on either *)
(* side makes numpy divide 0 by 0: the similarity is NaN (with a warning, *)
(* not an exception).                                                      *)
(*                                                                         *)
(* similarities.sort(key=lambda x: x[1], reverse=True) is CPython's        *)
(* list.sort, modelled by what it does on fewer than 64 elements (a single *)
(* run, minrun = n): reverse the list, count the initial run and reverse  *)
(* it if strictly descending, binary-insert the rest, reverse back.  Its  *)
(* only comparison is the keys' <, which is FALSE whenever a NaN is on     *)
(* either side.                                                            *)
(***************************************************************************)
EXTENDS Naturals, Integers, SequencesExt

CONSTANTS
    MaxRecs,       \* bound on the number of stored records
    TopK,          \* top_k of the search (Kernel passes memory_top_k = 3)
    Levels,        \* the similarity values of non-zero vectors, as integers
    ZeroVectors,   \* whether a zero vector may be stored or queried
    NaN            \* the float NaN

ASSUME SearchAssumption ==
    /\ MaxRecs \in 1..63      \* below 64, list.sort is one binary insertion sort
    /\ TopK \in Nat
    /\ Levels \subseteq Int
    /\ ZeroVectors \in BOOLEAN
    /\ NaN \notin Levels

VARIABLES
    recs,      \* VectorDB.records in iteration order: [id, zero]
    query,     \* history: the (record, similarity) pairs of the last search
    result     \* the last search's return value, as [id, sim] records

vars == <<recs, query, result>>

Sims == Levels \cup {NaN}
Keyed == [id : 1..MaxRecs, sim : Sims]

TypeOK ==
    /\ recs \in Seq([id : 1..MaxRecs, zero : BOOLEAN])
    /\ query \in Seq(Keyed)
    /\ result \in Seq(Keyed)

(* The key comparison x[1] < y[1] on numpy floats: NaN is unordered. *)
Lt(a, b) == a.sim # NaN /\ b.sim # NaN /\ a.sim < b.sim

(***************************************************************************)
(* count_run: the length of the run at the start of a, and whether it is  *)
(* strictly descending (then list.sort reverses it in place).              *)
(***************************************************************************)
CountRun(a) ==
    IF Len(a) = 1 THEN [n |-> 1, desc |-> FALSE]
    ELSE LET desc == Lt(a[2], a[1])
             Breaks(i) == IF desc THEN ~Lt(a[i], a[i - 1]) ELSE Lt(a[i], a[i - 1])
             stops == {i \in 3..Len(a) : Breaks(i)}
         IN  [n |-> IF stops = {} THEN Len(a) ELSE Min(stops) - 1, desc |-> desc]

(***************************************************************************)
(* binarysort's search for the pivot's place in a[l..r-1]: p is the middle *)
(* of l..r; the pivot goes left of p when pivot < a[p], else right of it.  *)
(***************************************************************************)
Bisect(a, piv, l, r) ==
    LET F[lr \in (1..Len(a) + 1) \X (1..Len(a) + 1)] ==
          IF lr[1] >= lr[2] THEN lr[1]
          ELSE LET p == lr[1] + (lr[2] - lr[1]) \div 2
               IN  IF Lt(piv, a[p]) THEN F[<<lr[1], p>>] ELSE F[<<p + 1, lr[2]>>]
    IN  F[<<l, r>>]

(***************************************************************************)
(* binarysort(lo, hi, start): every element from start on is taken out and *)
(* inserted at the place Bisect finds in the part before it.               *)
(***************************************************************************)
BinarySort(a, start) ==
    LET Step(b, i) == InsertAt(RemoveAt(b, i), Bisect(b, b[i], 1, i), b[i])
        F[i \in start..(Len(a) + 1)] ==
          IF i = start THEN a ELSE Step(F[i - 1], i - 1)
    IN  F[Len(a) + 1]

(***************************************************************************)
(* list.sort(key=..., reverse=True) on fewer than 64 elements.             *)
(***************************************************************************)
SortDesc(s) ==
    IF Len(s) < 2 THEN s
    ELSE LET a   == Reverse(s)
             run == CountRun(a)
             b   == IF run.desc
                    THEN Reverse(SubSeq(a, 1, run.n)) \o SubSeq(a, run.n + 1, Len(a))
                    ELSE a
         IN  Reverse(BinarySort(b, run.n + 1))

(* similarities[:top_k] *)
Take(s, k) == SubSeq(s, 1, IF k < Len(s) THEN k ELSE Len(s))

-----------------------------------------------------------------------------
(* VectorDB.__init__: an empty records dict. *)
Init ==
    /\ recs = <<>>
    /\ query = <<>>
    /\ result = <<>>

(* Mutant: f"vec_{len(self.records)}", ids from 0. *)
AddZeroBased ==
    /\ Len(recs) < MaxRecs
    /\ \E z \in IF ZeroVectors THEN BOOLEAN ELSE {FALSE} :
         recs' = Append(recs, [id |-> Len(recs), zero |-> z])
    /\ UNCHANGED <<query, result>>

(* VectorDB.add: the next record, id len(records) + 1, appended. *)
Add ==
    /\ Len(recs) < MaxRecs
    /\ \E z \in IF ZeroVectors THEN BOOLEAN ELSE {FALSE} :
         recs' = Append(recs, [id |-> Len(recs) + 1, zero |-> z])
    /\ UNCHANGED <<query, result>>

(***************************************************************************)
(* VectorDB.search(query_vector, top_k): one similarity per record in     *)
(* iteration order, the stable descending sort, the first top_k.          *)
(***************************************************************************)
Search ==
    \E qzero \in IF ZeroVectors THEN BOOLEAN ELSE {FALSE},
       s \in [DOMAIN recs -> Levels] :
       LET keyed == [i \in DOMAIN recs |->
                       [id |-> recs[i].id,
                        sim |-> IF qzero \/ recs[i].zero THEN NaN ELSE s[i]]]
       IN  /\ query' = keyed
           /\ result' = Take(SortDesc(keyed), TopK)
           /\ UNCHANGED recs

Next == Add \/ Search

Spec == Init /\ [][Next]_vars

-----------------------------------------------------------------------------
(***************************************************************************)
(* Spec 4.4 and 8: retrieve returns the first top_k records in order of    *)
(* non-increasing similarity, ties in insertion order, and a record whose  *)
(* similarity is NaN because a norm is zero counts as similarity 0.        *)
(***************************************************************************)
SpecSim(x) == IF x.sim = NaN THEN 0 ELSE x.sim

Ahead(q, j, i) ==
    \/ SpecSim(q[j]) > SpecSim(q[i])
    \/ SpecSim(q[j]) = SpecSim(q[i]) /\ j < i

Ranked(q) ==
    LET Rank(i) == 1 + Cardinality({j \in DOMAIN q : Ahead(q, j, i)})
    IN  [r \in DOMAIN q |-> q[CHOOSE i \in DOMAIN q : Rank(i) = r]]

(***************************************************************************)
(* The list VectorDB.search returned (vector_db.py:52-55) is the spec's    *)
(* ranking of the records it scored, cut at top_k.  Once a zero vector     *)
(* makes a similarity NaN, list.sort's < is false on both sides of it and  *)
(* the binary insertion leaves the NaN record where the search stopped:    *)
(* it can come ahead of a similarity of 1 and push that record out.        *)
(***************************************************************************)
SearchFollowsSpec == result = Take(Ranked(query), TopK)
=============================================================================
