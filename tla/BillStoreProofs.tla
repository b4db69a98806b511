--------------------------- MODULE BillStoreProofs ---------------------------
(***************************************************************************)
(* Proofs about the smart bill store of module BillStore, for every number *)
(* of request threads, bills, requests and clock ticks that satisfy        *)
(* BillAssumption: whatever the loads and stores of concurrent requests,   *)
(* every stored list, every list a thread loaded and every bill a thread   *)
(* holds is well formed.                                                   *)
(***************************************************************************)
EXTENDS BillStore, SequenceTheorems, TLAPS

-----------------------------------------------------------------------------
LEMMA IdleType == BillAssumption => Idle \in ReqStates /\ NoBill \in Bill
  BY DEF BillAssumption, Idle, NoBill, ReqStates, Bill, Rems, Acts

(* Marking the old bills of a list keeps it a list of bills. *)
LEMMA MarkType ==
  ASSUME NEW l \in Seq(Bill), NEW t \in Int
  PROVE  [i \in DOMAIN l |-> IF l[i].created # NoTime /\ l[i].created < t - Months /\ ~l[i].archived
                             THEN [l[i] EXCEPT !.archived = TRUE] ELSE l[i]] \in Seq(Bill)
  <1> DEFINE m == [i \in DOMAIN l |-> IF l[i].created # NoTime /\ l[i].created < t - Months /\ ~l[i].archived
                                     THEN [l[i] EXCEPT !.archived = TRUE] ELSE l[i]]
  <1>1. ASSUME NEW i \in 1..Len(l) PROVE m[i] \in Bill
    <2>1. l[i] \in Bill /\ i \in DOMAIN l
      BY ElementOfSeq
    <2>2. [l[i] EXCEPT !.archived = TRUE] \in Bill
      BY <2>1 DEF Bill
    <2> QED
      BY <2>1, <2>2
  <1>0. DOMAIN l = 1..Len(l)
    BY LenProperties
  <1>2. m \in [1..Len(l) -> Bill]
    BY <1>0, <1>1
  <1> QED
    BY <1>2

(* Whatever a load returns is a list of bills. *)
LEMMA LoadsType == TypeOK => Loads \subseteq Seq(Bill)
  <1>1. << >> \in Seq(Bill)
    BY EmptySeq
  <1> QED
    BY <1>1, Zenon DEF Loads, TypeOK

(* Replacing one thread's state by a well-formed one keeps req well formed. *)
LEMMA ReqUpdate ==
  ASSUME NEW f \in [Requests -> ReqStates], NEW r \in Requests, NEW x \in ReqStates
  PROVE  [f EXCEPT ![r] = x] \in [Requests -> ReqStates]
  OBVIOUS

(* A bill with one field changed within its range is a bill. *)
LEMMA BillUpdate ==
  ASSUME NEW b \in Bill, NEW t \in 0..MaxClock, NEW rm \in Rems
  PROVE  /\ [b EXCEPT !.archived = TRUE] \in Bill
         /\ [b EXCEPT !.paid = TRUE] \in Bill
         /\ [b EXCEPT !.rem = rm] \in Bill
         /\ [b EXCEPT !.created = IF @ = NoTime THEN t ELSE @] \in Bill
  BY DEF Bill

LEMMA TypeStep == BillAssumption /\ TypeOK /\ [Next]_vars => TypeOK'
  <1> SUFFICES ASSUME BillAssumption, TypeOK, [Next]_vars PROVE TypeOK'
    OBVIOUS
  <1> USE IdleType DEF BillAssumption, TypeOK
  <1>0. req \in [Requests -> ReqStates]
    BY DEF ReqStates
  <1>1. CASE Tick
    BY <1>1 DEF Tick
  <1>2. ASSUME NEW r \in Requests, ParseSample(r) PROVE TypeOK'
    <2>1. [NoBill EXCEPT !.uid = nextUid] \in Bill
      <3>1. nextUid \in 1..MaxBills
        BY <1>2 DEF ParseSample
      <3> QED
        BY <3>1 DEF NoBill, Bill, Rems
    <2>2. [Idle EXCEPT !.pc = "save_load", !.op = "parse",
                       !.bill = [NoBill EXCEPT !.uid = nextUid]] \in ReqStates
      BY <2>1 DEF Idle, ReqStates
    <2>3. req' \in [Requests -> ReqStates]
      BY <1>0, <1>2, <2>2, ReqUpdate DEF ParseSample, Begin
    <2> QED
      BY <1>2, <2>3 DEF ParseSample, Begin
  <1>3. ASSUME NEW r \in Requests, SaveLoad(r) PROVE TypeOK'
    <2>1. PICK l \in Loads : req' = [req EXCEPT ![r].loaded = l, ![r].pc = "save_store"]
      BY <1>3 DEF SaveLoad
    <2>2. [req[r] EXCEPT !.loaded = l, !.pc = "save_store"] \in ReqStates
      <3>1. l \in Seq(Bill) /\ req[r] \in ReqStates
        BY <1>0, LoadsType
      <3> QED
        BY <3>1, Zenon DEF ReqStates
    <2>3. req' \in [Requests -> ReqStates]
      BY <1>0, <2>1, <2>2, ReqUpdate
    <2> QED
      BY <1>3, <2>3 DEF SaveLoad, ReqStates
  <1>4. ASSUME NEW r \in Requests, SaveStore(r) PROVE TypeOK'
    <2>0. req[r].bill \in Bill /\ now \in 0..MaxClock
      BY <1>0 DEF ReqStates
    <2>1. [req[r].bill EXCEPT !.created = IF @ = NoTime THEN now ELSE @] \in Bill
      BY <2>0 DEF Bill
    <2>2. kv' \in Seq(Bill)
      BY <1>0, <1>4, <2>1 DEF SaveStore, ReqStates
    <2>3. req' \in [Requests -> ReqStates]
      BY <1>0, <1>4, ReqUpdate DEF SaveStore, Finish
    <2>4. saved' \subseteq 1..MaxBills /\ archivedAck' \subseteq 1..MaxBills
      BY <1>0, <1>4 DEF SaveStore, ReqStates, Bill
    <2> QED
      BY <1>4, <2>2, <2>3, <2>4 DEF SaveStore, Finish, ReqStates
  <1>5. ASSUME NEW r \in Requests, GetBills(r) PROVE TypeOK'
    <2>1. [Idle EXCEPT !.pc = "arch_load", !.op = "list"] \in ReqStates
      BY DEF Idle, ReqStates
    <2>2. req' \in [Requests -> ReqStates]
      BY <1>0, <1>5, <2>1, ReqUpdate DEF GetBills, Begin
    <2> QED
      BY <1>5, <2>2 DEF GetBills, Begin
  <1>6. ASSUME NEW r \in Requests, ArchLoad(r) PROVE TypeOK'
    <2>1. [req[r] EXCEPT !.loaded = kv, !.pc = "arch_store"] \in ReqStates
      BY <1>0 DEF ReqStates
    <2>2. req' \in [Requests -> ReqStates]
      BY <1>0, <1>6, <2>1, ReqUpdate DEF ArchLoad, Finish
    <2> QED
      BY <1>6, <2>2 DEF ArchLoad, ReqStates
  <1>7. ASSUME NEW r \in Requests, ArchStore(r) PROVE TypeOK'
    <2>1. req[r].loaded \in Seq(Bill) /\ now \in Int
      BY <1>0 DEF ReqStates
    <2>2. kv' \in Seq(Bill)
      BY <1>7, <2>1, MarkType DEF ArchStore, IsOld
    <2>3. req' \in [Requests -> ReqStates]
      BY <1>0, <1>7, ReqUpdate DEF ArchStore, Finish
    <2> QED
      BY <1>7, <2>2, <2>3 DEF ArchStore, ReqStates
  <1>8. ASSUME NEW r \in Requests, ActionOnBill(r) PROVE TypeOK'
    <2>1. PICK i \in 0..MaxBills, a \in Acts, c \in BOOLEAN :
            Begin(r, [Idle EXCEPT !.pc = "act_load", !.op = "action",
                                  !.idx = i, !.act = a, !.confirm = c])
      BY <1>8 DEF ActionOnBill
    <2>2. [Idle EXCEPT !.pc = "act_load", !.op = "action",
                       !.idx = i, !.act = a, !.confirm = c] \in ReqStates
      BY DEF Idle, ReqStates
    <2>3. req' \in [Requests -> ReqStates]
      BY <1>0, <2>1, <2>2, ReqUpdate DEF Begin
    <2> QED
      BY <1>8, <2>1, <2>3 DEF ActionOnBill, Begin
  <1>9. ASSUME NEW r \in Requests, ActLoad(r) PROVE TypeOK'
    <2>1. \A l \in Loads : req[r].idx < Len(l) => l[req[r].idx + 1] \in Bill
      BY <1>0, LoadsType DEF ReqStates
    <2>2. \/ req' = [req EXCEPT ![r] = Idle]
          \/ \E nb \in Bill : req' = [req EXCEPT ![r].bill = nb, ![r].pc = "save_load"]
      BY <1>9, <2>1, BillUpdate DEF ActLoad, Finish, Rems
    <2>3. ASSUME NEW nb \in Bill
          PROVE  [req EXCEPT ![r].bill = nb, ![r].pc = "save_load"] \in [Requests -> ReqStates]
      <3>1. [req[r] EXCEPT !.bill = nb, !.pc = "save_load"] \in ReqStates
        BY <1>0 DEF ReqStates
      <3> QED
        BY <1>0, <3>1, ReqUpdate
    <2>4. req' \in [Requests -> ReqStates]
      <3>1. CASE req' = [req EXCEPT ![r] = Idle]
        BY <1>0, <3>1, IdleType, ReqUpdate
      <3>2. CASE \E nb \in Bill : req' = [req EXCEPT ![r].bill = nb, ![r].pc = "save_load"]
        BY <3>2, <2>3
      <3> QED
        BY <2>2, <3>1, <3>2
    <2> QED
      BY <1>9, <2>4 DEF ActLoad, ReqStates
  <1>10. CASE UNCHANGED vars
    BY <1>10 DEF vars
  <1> QED
    BY <1>1, <1>2, <1>3, <1>4, <1>5, <1>6, <1>7, <1>8, <1>9, <1>10 DEF Next

LEMMA InitType == BillAssumption /\ Init => TypeOK
  <1> SUFFICES ASSUME BillAssumption, Init PROVE TypeOK
    OBVIOUS
  <1>1. kv \in Seq(Bill)
    BY EmptySeq DEF Init
  <1>2. req \in [Requests -> ReqStates]
    BY IdleType DEF Init
  <1> QED
    BY <1>1, <1>2 DEF BillAssumption, Init, TypeOK

-----------------------------------------------------------------------------
(***************************************************************************)
(* For every number of request threads, bills, requests and clock ticks,   *)
(* and however the loads and stores of concurrent save_bill,               *)
(* archive_old_bills and action_on_bill requests interleave (a raising     *)
(* load included), every reachable state of the bill store is well typed: *)
(* the stored value is always a list of bills.                             *)
(***************************************************************************)
THEOREM BillStoreTypeCorrect == BillAssumption => (Spec => []TypeOK)
  <1> SUFFICES ASSUME BillAssumption PROVE Spec => []TypeOK
    OBVIOUS
  <1>1. Init => TypeOK
    BY InitType
  <1>2. TypeOK /\ [Next]_vars => TypeOK'
    BY TypeStep
  <1> QED
    BY <1>1, <1>2, PTL DEF Spec
=============================================================================
