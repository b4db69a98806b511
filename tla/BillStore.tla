------------------------------ MODULE BillStore ------------------------------
(***************************************************************************)
(* The smart bill assistant of one user (src/onyx-main/onyx-main/backend/ *)
(* onyx/assistants/smart_bill_assistant): the FastAPI routes of api.py     *)
(* over the helpers of store.py.                                           *)
(*                                                                         *)
(* All of a user's bills are one JSON list under one key of Onyx's key-   *)
(* value store; load and store are atomic reads and writes of that value,  *)
(* and a load returns a fresh copy.  The routes are plain `def`s, which    *)
(* FastAPI runs on a thread pool: requests run concurrently, and each load *)
(* and each store is a step of its own.  A load may raise (the key is      *)
(* missing, or the database fails); store.py treats that as [].            *)
(*                                                                         *)
(* A bill is abstracted to an identity uid (what parse_bill_text extracted *)
(* from one text) and the fields the routes change.  Time is counted in    *)
(* units of 30 days, the unit of archive_old_bills' cutoff.                *)
(***************************************************************************)
EXTENDS Naturals, Integers, Sequences

CONSTANTS
    Requests,      \* the worker threads serving this user's requests
    MaxBills,      \* bound on the bills parse-sample creates
    MaxRequests,   \* bound on the requests served
    MaxClock,      \* bound on the clock, in 30-day units
    LoadFails      \* whether store.load may raise

(* What the proofs assume of the constants: at least one bill, so that  *)
(* the idle thread's placeholder bill is one.                              *)
BillAssumption ==
    /\ MaxBills \in Nat \ {0} /\ MaxRequests \in Nat /\ MaxClock \in Nat
    /\ LoadFails \in BOOLEAN

(* archive_old_bills(user_id, months=3), as get_bills calls it *)
Months == 3

NoTime == -1    \* no created_at key
Rems == {"none", "pending", "confirmed"}   \* no reminder, one pending, all confirmed
Acts == {"confirm-payment", "set-reminder", "archive"}
Bill == [uid : 1..MaxBills, created : {NoTime} \cup 0..MaxClock,
         archived : BOOLEAN, paid : BOOLEAN, rem : Rems]
NoBill == [uid |-> 1, created |-> NoTime, archived |-> FALSE, paid |-> FALSE, rem |-> "none"]

Idle == [pc |-> "idle", op |-> "none", bill |-> NoBill, loaded |-> <<>>,
         idx |-> 0, act |-> "archive", confirm |-> FALSE]

VARIABLES
    kv,            \* the stored list of bills, in list order
    now,           \* datetime.utcnow(), in 30-day units
    nextUid,       \* the identity of the next bill parse-sample extracts
    started,       \* requests served so far
    req,           \* req[r]: the handler thread r is running
    saved,         \* history: bills parse-sample answered "ok" for
    archivedAck    \* history: bills the archive action answered "ok" for

vars == <<kv, now, nextUid, started, req, saved, archivedAck>>

(* The states of a request thread: where it is, and its local copies. *)
ReqStates == [pc : {"idle", "save_load", "save_store", "arch_load", "arch_store", "act_load"},
              op : {"none", "parse", "list", "action"},
              bill : Bill, loaded : Seq(Bill),
              idx : 0..MaxBills, act : Acts, confirm : BOOLEAN]

TypeOK ==
    /\ kv \in Seq(Bill)
    /\ now \in 0..MaxClock
    /\ nextUid \in 1..(MaxBills + 1)
    /\ started \in 0..MaxRequests
    /\ req \in [Requests -> ReqStates]
    /\ saved \subseteq 1..MaxBills
    /\ archivedAck \subseteq 1..MaxBills

Init ==
    /\ kv = <<>>
    /\ now = 0
    /\ nextUid = 1
    /\ started = 0
    /\ req = [r \in Requests |-> Idle]
    /\ saved = {}
    /\ archivedAck = {}

(* store.load(key) or [], and [] when load raises. *)
Loads == {kv} \cup (IF LoadFails THEN {<<>>} ELSE {})

(* A request thread starts a handler. *)
Begin(r, rec) ==
    /\ req[r].pc = "idle"
    /\ started < MaxRequests
    /\ started' = started + 1
    /\ req' = [req EXCEPT ![r] = rec]

Finish(r) == req' = [req EXCEPT ![r] = Idle]

-----------------------------------------------------------------------------
(* Time passes. *)
Tick ==
    /\ now < MaxClock
    /\ now' = now + 1
    /\ UNCHANGED <<kv, nextUid, started, req, saved, archivedAck>>

(***************************************************************************)
(* POST /parse-sample: parse_bill_text extracts a new bill (its fields are *)
(* abstracted away), then save_bill(user_id, parsed).                      *)
(***************************************************************************)
ParseSample(r) ==
    /\ nextUid <= MaxBills
    /\ Begin(r, [Idle EXCEPT !.pc = "save_load", !.op = "parse",
                             !.bill = [NoBill EXCEPT !.uid = nextUid]])
    /\ nextUid' = nextUid + 1
    /\ UNCHANGED <<kv, now, saved, archivedAck>>

(* save_bill: existing = store.load(key) or [] (or [] if it raises). *)
SaveLoad(r) ==
    /\ req[r].pc = "save_load"
    /\ \E l \in Loads :
         req' = [req EXCEPT ![r].loaded = l, ![r].pc = "save_store"]
    /\ UNCHANGED <<kv, now, nextUid, started, saved, archivedAck>>

(* Mutant: store.store(key, [bill_copy]), the loaded list dropped. *)
SaveStoreNoAppend(r) ==
    /\ req[r].pc = "save_store"
    /\ LET b == req[r].bill
           copy == [b EXCEPT !.created = IF @ = NoTime THEN now ELSE @]
       IN  /\ kv' = <<copy>>
           /\ saved' = IF req[r].op = "parse" THEN saved \cup {b.uid} ELSE saved
           /\ archivedAck' = IF req[r].op = "action" /\ req[r].act = "archive"
                             THEN archivedAck \cup {b.uid} ELSE archivedAck
    /\ Finish(r)
    /\ UNCHANGED <<now, nextUid, started>>

(***************************************************************************)
(* save_bill: bill_copy with created_at and archived defaulted, appended  *)
(* to the loaded list, and the list stored back.  The route then answers  *)
(* "ok".                                                                   *)
(***************************************************************************)
SaveStore(r) ==
    /\ req[r].pc = "save_store"
    /\ LET b == req[r].bill
           copy == [b EXCEPT !.created = IF @ = NoTime THEN now ELSE @]
       IN  /\ kv' = Append(req[r].loaded, copy)
           /\ saved' = IF req[r].op = "parse" THEN saved \cup {b.uid} ELSE saved
           /\ archivedAck' = IF req[r].op = "action" /\ req[r].act = "archive"
                             THEN archivedAck \cup {b.uid} ELSE archivedAck
    /\ Finish(r)
    /\ UNCHANGED <<now, nextUid, started>>

(* GET /list: archive_old_bills(user_id) first. *)
GetBills(r) ==
    /\ Begin(r, [Idle EXCEPT !.pc = "arch_load", !.op = "list"])
    /\ UNCHANGED <<kv, now, nextUid, saved, archivedAck>>

(***************************************************************************)
(* archive_old_bills: bills = store.load(key) or []; when load raises it  *)
(* returns 0.  The list_bills that follows only reads, and the urgency of  *)
(* each bill is computed on the answer: neither changes state.             *)
(***************************************************************************)
ArchLoad(r) ==
    /\ req[r].pc = "arch_load"
    /\ \/ req' = [req EXCEPT ![r].loaded = kv, ![r].pc = "arch_store"]
       \/ LoadFails /\ Finish(r)
    /\ UNCHANGED <<kv, now, nextUid, started, saved, archivedAck>>

(* created_dt < cutoff and not archived, cutoff = utcnow() - 30 * months days. *)
IsOld(b) == b.created # NoTime /\ b.created < now - Months /\ ~b.archived

(***************************************************************************)
(* archive_old_bills: every old bill of the loaded list is marked archived *)
(* and, if any was, the whole loaded list is stored back.                  *)
(***************************************************************************)
ArchStore(r) ==
    /\ req[r].pc = "arch_store"
    /\ LET l == req[r].loaded
       IN  kv' = IF \E i \in DOMAIN l : IsOld(l[i])
                 THEN [i \in DOMAIN l |-> IF IsOld(l[i]) THEN [l[i] EXCEPT !.archived = TRUE]
                                          ELSE l[i]]
                 ELSE kv
    /\ Finish(r)
    /\ UNCHANGED <<now, nextUid, started, saved, archivedAck>>

(* POST /action with bill_index, action and confirm. *)
ActionOnBill(r) ==
    /\ \E i \in 0..MaxBills, a \in Acts, c \in BOOLEAN :
         Begin(r, [Idle EXCEPT !.pc = "act_load", !.op = "action",
                               !.idx = i, !.act = a, !.confirm = c])
    /\ UNCHANGED <<kv, now, nextUid, saved, archivedAck>>

(***************************************************************************)
(* action_on_bill: bills = list_bills(include_archived=True); an index    *)
(* out of range and an unconfirmed payment answer at once; otherwise the   *)
(* loaded bill is changed and handed to save_bill.                         *)
(***************************************************************************)
ActLoad(r) ==
    /\ req[r].pc = "act_load"
    /\ \E l \in Loads :
         LET q == req[r]
             b == l[q.idx + 1]
             Save(nb) == req' = [req EXCEPT ![r].bill = nb, ![r].pc = "save_load"]
         IN  \/ /\ q.idx >= Len(l)
                /\ Finish(r)
             \/ /\ q.idx < Len(l)
                /\ \/ q.act = "confirm-payment" /\ ~q.confirm
                      /\ Finish(r)
                   \/ q.act = "confirm-payment" /\ q.confirm
                      /\ Save([b EXCEPT !.paid = TRUE])
                   \/ q.act = "set-reminder" /\ ~q.confirm
                      /\ Save([b EXCEPT !.rem = "pending"])
                   \/ q.act = "set-reminder" /\ q.confirm
                      /\ Save([b EXCEPT !.rem = IF @ = "none" THEN "none" ELSE "confirmed"])
                   \/ q.act = "archive"
                      /\ Save([b EXCEPT !.archived = TRUE])
    /\ UNCHANGED <<kv, now, nextUid, started, saved, archivedAck>>

Next ==
    \/ Tick
    \/ \E r \in Requests :
         \/ ParseSample(r) \/ SaveLoad(r) \/ SaveStore(r)
         \/ GetBills(r) \/ ArchLoad(r) \/ ArchStore(r)
         \/ ActionOnBill(r) \/ ActLoad(r)

Spec == Init /\ [][Next]_vars

-----------------------------------------------------------------------------
(***************************************************************************)
(* Every bill parse-sample answered "ok" for is still stored: no later     *)
(* save_bill or archive_old_bills writes back a list that lacks it.  Two   *)
(* requests that load the same list and both store (store.py:17 and 25,    *)
(* 44 and 62), or a load that raises and is read as [], break it.          *)
(***************************************************************************)
NoBillLost == \A u \in saved : \E i \in DOMAIN kv : kv[i].uid = u

(***************************************************************************)
(* Once the archive action answered "Archived", every stored copy of that *)
(* bill is archived, so GET /list no longer shows it.  action_on_bill      *)
(* hands the changed bill to save_bill, which appends it (api.py:84), so   *)
(* the unarchived original stays.                                          *)
(***************************************************************************)
ArchivedStaysArchived ==
    \A u \in archivedAck : \A i \in DOMAIN kv : kv[i].uid = u => kv[i].archived

=============================================================================
