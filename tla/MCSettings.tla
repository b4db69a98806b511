---------------------------- MODULE MCSettings ----------------------------
(* TLC instance of Settings: two keys, one of them a default key. *)
EXTENDS Settings

CONSTANTS k1, k2, v1, v2

MCKeys == {k1, k2}
MCValues == {v1, v2}
=============================================================================
