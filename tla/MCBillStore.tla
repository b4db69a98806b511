---------------------------- MODULE MCBillStore ----------------------------
(* TLC instance of BillStore: the request threads are model values. *)
EXTENDS BillStore

CONSTANTS r1, r2

MCRequestsOne == {r1}
MCRequestsTwo == {r1, r2}
=============================================================================
