------------------------------- MODULE MCAgent -------------------------------
(* Model-checking instance of Agent: two registered tools, one of them    *)
(* add_event, and the texts of MaxTurns turns.                             *)
EXTENDS Agent

MCTools == {"add_event", "calculator"}

MCTexts == {[kind |-> k, turn |-> n] : k \in {"user", "out", "note"}, n \in 1..MaxTurns}

=============================================================================
