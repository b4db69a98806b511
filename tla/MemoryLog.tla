----------------------------- MODULE MemoryLog -----------------------------
(***************************************************************************)
(* What the spec promises of one session's memory and output, with no     *)
(* event loop, no program counter and no failure paths:                    *)
(*   - spec 4.4: store assigns a fresh sequential id and appends; records  *)
(*     are immutable once stored;                                          *)
(*   - spec 4.1 and 5: a turn's model output is stored only after that     *)
(*     turn's user text; other texts (user texts, event notes) may be      *)
(*     stored at any time;                                                 *)
(*   - spec 4.3: each turn prints one result, once, and printing stores    *)
(*     nothing.                                                            *)
(***************************************************************************)
EXTENDS Naturals, Sequences

CONSTANTS
    Texts,         \* the texts that may be stored
    Turns,         \* the turns of the session
    Results,       \* what a turn may print
    UserText(_),   \* UserText(n): the user's line of turn n
    OutText(_)     \* OutText(n): the model's output of turn n

VARIABLES
    log,       \* the memory records in the order they were stored
    printed    \* printed[n]: what turn n printed, or "none"

Outputs == {OutText(n) : n \in Turns}

Init ==
    /\ log = <<>>
    /\ printed = [n \in Turns |-> "none"]

(* store: a fresh sequential id, appended. *)
Store(t) ==
    /\ log' = Append(log, [id |-> Len(log) + 1, text |-> t])
    /\ UNCHANGED printed

(* A text that is no model output may be stored at any time. *)
StoreOther(t) ==
    /\ t \notin Outputs
    /\ Store(t)

(* The output of turn n is stored only once its user text is. *)
StoreOutput(n) ==
    /\ \E i \in DOMAIN log : log[i].text = UserText(n)
    /\ Store(OutText(n))

(* Turn n prints its one result. *)
PrintResult(n) ==
    /\ printed[n] = "none"
    /\ \E r \in Results : printed' = [printed EXCEPT ![n] = r]
    /\ UNCHANGED log

Next ==
    \/ \E t \in Texts : StoreOther(t)
    \/ \E n \in Turns : StoreOutput(n) \/ PrintResult(n)

Spec == Init /\ [][Next]_<<log, printed>>

=============================================================================
