----------------------------- MODULE AgentProofs -----------------------------
(***************************************************************************)
(* Proofs about the CLI session of module Agent, for every value of the   *)
(* constants: type correctness, and that an output is never stored in     *)
(* memory ahead of the input of its turn (OutputStoredAfterInput).        *)
(*                                                                         *)
(* OutputStoredAfterInput is not inductive by itself.  It needs two more  *)
(* facts: the ids of the records are their positions, so that the id       *)
(* len(records) + 1 given to a new record is never one in use and          *)
(* VectorDB.add appends (no overwrite can move a user text behind its      *)
(* output); and while the main task is between the two store_text calls,   *)
(* the current turn's user text is already in memory.                      *)
(***************************************************************************)
EXTENDS Agent, TLAPS

(* Every record's id is its position in insertion order. *)
IdsArePositions == \A i \in DOMAIN recs : recs[i].id = i

(* A turn is under way: the current turn number names a turn. *)
TurnUnderWay ==
    pc \in {"retrieve", "generate", "store1", "store2", "dispatch"} => turn \in Turns

(* Between the two store_text calls, the turn's user text is stored. *)
InputStoredBeforeOutput ==
    pc = "store2" => \E j \in DOMAIN recs : recs[j].text = User(turn)

(* The main task is inside a turn: between input() and the print. *)
Busy == {"retrieve", "generate", "store1", "store2", "dispatch"}

(* The turn under way has printed nothing yet, and later turns neither. *)
ResultPending ==
    /\ pc \in Busy => result[turn] = "none"
    /\ \A n \in Turns : n > turn => result[n] = "none"

(* Every stored text is the user text, output or note of a turn so far. *)
StoredUpToTurn ==
    \A i \in DOMAIN recs : \E n \in 1..turn : recs[i].text \in {User(n), Out(n), Note(n)}

(* Only turns already read have started a note task. *)
NotesOfPastTurns ==
    \A n \in Turns : note[n] # "none" => n <= turn

(* Until the model call returns, the turn has stored nothing of its own. *)
NothingStoredYet ==
    pc \in {"retrieve", "generate"} =>
        \A i \in DOMAIN recs : recs[i].text # User(turn) /\ recs[i].text # Out(turn)

(* What OutputStoredAfterInput rests on. *)
IInvCore ==
    /\ TypeOK
    /\ IdsArePositions
    /\ TurnUnderWay
    /\ InputStoredBeforeOutput
    /\ OutputStoredAfterInput

(* What NoWritesFromFailedGeneration and the printing of each turn once rest on. *)
IInvTurns ==
    /\ ResultPending
    /\ StoredUpToTurn
    /\ NotesOfPastTurns
    /\ NothingStoredYet
    /\ NoWritesFromFailedGeneration

IInv == IInvCore /\ IInvTurns

-----------------------------------------------------------------------------
(***************************************************************************)
(* With ids equal to positions, VectorDB.add appends: the id              *)
(* len(records) + 1 is in use by no record.                                *)
(***************************************************************************)
LEMMA StoreAppends ==
    ASSUME recs \in Seq(Record), IdsArePositions,
           NEW t \in Texts, StoreMemory(t)
    PROVE  recs' = Append(recs, [id |-> Len(recs) + 1, text |-> t])
<1>1. NextId \notin Ids
  BY DEF NextId, Ids, IdsArePositions
<1>2. QED
  BY <1>1 DEF StoreMemory, Put, NextId

(***************************************************************************)
(* Appending the record with the next id keeps the ids positions, keeps   *)
(* every text that is stored, and keeps outputs behind their inputs as     *)
(* long as an appended output finds its input already stored.              *)
(***************************************************************************)
LEMMA AppendKeeps ==
    ASSUME recs \in Seq(Record), IdsArePositions, OutputStoredAfterInput,
           NEW t \in Texts,
           t.kind = "out" => \E j \in DOMAIN recs : recs[j].text = User(t.turn),
           recs' = Append(recs, [id |-> Len(recs) + 1, text |-> t])
    PROVE  /\ recs' \in Seq(Record)
           /\ IdsArePositions'
           /\ OutputStoredAfterInput'
           /\ \A u : (\E j \in DOMAIN recs : recs[j].text = u)
                        => \E j \in DOMAIN recs' : recs'[j].text = u
<1>1. recs' \in Seq(Record)
  BY DEF Record
<1>2. IdsArePositions'
  BY DEF IdsArePositions
<1>3. OutputStoredAfterInput'
  <2> SUFFICES ASSUME NEW i \in DOMAIN recs', recs'[i].text.kind = "out"
               PROVE  \E j \in 1..(i - 1) : recs'[j].text = User(recs'[i].text.turn)
    BY DEF OutputStoredAfterInput
  <2>1. CASE i \in 1..Len(recs)
    <3>1. PICK j \in 1..(i - 1) : recs[j].text = User(recs[i].text.turn)
      BY <2>1 DEF OutputStoredAfterInput
    <3>2. QED
      BY <2>1, <3>1
  <2>2. CASE i = Len(recs) + 1
    <3>1. PICK j \in DOMAIN recs : recs[j].text = User(t.turn)
      BY <2>2
    <3>2. QED
      BY <2>2, <3>1
  <2>3. QED
    BY <2>1, <2>2
<1>4. \A u : (\E j \in DOMAIN recs : recs[j].text = u)
                => \E j \in DOMAIN recs' : recs'[j].text = u
  OBVIOUS
<1>5. QED
  BY <1>1, <1>2, <1>3, <1>4

-----------------------------------------------------------------------------
(* The initial state satisfies the inductive invariant. *)
LEMMA InitIInv == Init => IInv
<1> SUFFICES ASSUME Init PROVE IInv
  OBVIOUS
<1>1. TypeOK
  <2>1. recs \in Seq(Record)
    BY DEF Init
  <2>2. plan \in ModelOutputs \cup {NoPlan}
    BY DEF Init
  <2>3. QED
    BY <2>1, <2>2, AgentAssumption DEF Init, TypeOK, PCs, Results, NoteStates
<1>2. IdsArePositions /\ InputStoredBeforeOutput /\ OutputStoredAfterInput
  BY DEF Init, IdsArePositions, InputStoredBeforeOutput, OutputStoredAfterInput
<1>3. TurnUnderWay
  BY DEF Init, TurnUnderWay
<1>4. IInvTurns
  BY AgentAssumption DEF Init, IInvTurns, ResultPending, StoredUpToTurn, NotesOfPastTurns,
                          NothingStoredYet, NoWritesFromFailedGeneration, Busy, Turns
<1>5. QED
  BY <1>1, <1>2, <1>3, <1>4 DEF IInv, IInvCore

(* Every outcome of the dispatch chain is a result the REPL can print. *)
LEMMA ExecuteType ==
    ASSUME NEW p, NEW raises
    PROVE  Execute(p, raises) \in Results
BY DEF Execute, Results

(* A store of a text of the current turn appends a record of a valid text. *)
LEMMA TurnTexts ==
    ASSUME NEW n \in Turns
    PROVE  /\ User(n) \in Texts /\ Out(n) \in Texts /\ Note(n) \in Texts
           /\ User(n).kind = "user" /\ Out(n).kind = "out" /\ Note(n).kind = "note"
           /\ Out(n).turn = n
BY TextsAssumption DEF User, Out, Note

LEMMA NextCore == IInv /\ [Next]_vars => IInvCore'
<1> SUFFICES ASSUME IInv, [Next]_vars PROVE IInvCore'
  OBVIOUS
<1> USE DEF IInv, IInvCore
<1>a. MaxTurns \in Nat
  BY AgentAssumption
<1>1. CASE ReadLine
  BY <1>1, <1>a DEF ReadLine, TypeOK, PCs, IdsArePositions, TurnUnderWay,
                    InputStoredBeforeOutput, OutputStoredAfterInput, Turns
<1>2. CASE Exit
  BY <1>2 DEF Exit, TypeOK, PCs, NoteStates, IdsArePositions, TurnUnderWay,
              InputStoredBeforeOutput, OutputStoredAfterInput
<1>3. CASE Retrieve
  BY <1>3 DEF Retrieve, TypeOK, PCs, IdsArePositions, TurnUnderWay,
              InputStoredBeforeOutput, OutputStoredAfterInput
<1>4. CASE GenerateOk
  BY <1>4 DEF GenerateOk, TypeOK, PCs, IdsArePositions, TurnUnderWay,
              InputStoredBeforeOutput, OutputStoredAfterInput
<1>5. CASE GenerateFail
  BY <1>5 DEF GenerateFail, TypeOK, PCs, Results, IdsArePositions, TurnUnderWay,
              InputStoredBeforeOutput, OutputStoredAfterInput
<1>6. CASE Store1Ok
  <2>1. turn \in Turns
    BY <1>6 DEF Store1Ok, TurnUnderWay, TypeOK
  <2>2. recs' = Append(recs, [id |-> Len(recs) + 1, text |-> User(turn)])
    BY <1>6, <2>1, TurnTexts, StoreAppends DEF Store1Ok, TypeOK
  <2>3. /\ recs' \in Seq(Record) /\ IdsArePositions' /\ OutputStoredAfterInput'
    BY <2>1, <2>2, TurnTexts, AppendKeeps DEF TypeOK
  <2>4. InputStoredBeforeOutput'
    BY <1>6, <2>2 DEF Store1Ok, InputStoredBeforeOutput
  <2>5. TypeOK' /\ TurnUnderWay'
    BY <1>6, <2>1, <2>3 DEF Store1Ok, TypeOK, PCs, TurnUnderWay
  <2>6. QED
    BY <2>3, <2>4, <2>5
<1>7. CASE Store1Fail
  BY <1>7 DEF Store1Fail, TypeOK, PCs, IdsArePositions, TurnUnderWay,
              InputStoredBeforeOutput, OutputStoredAfterInput
<1>8. CASE Store2Ok
  <2>1. turn \in Turns
    BY <1>8 DEF Store2Ok, TurnUnderWay, TypeOK
  <2>2. recs' = Append(recs, [id |-> Len(recs) + 1, text |-> Out(turn)])
    BY <1>8, <2>1, TurnTexts, StoreAppends DEF Store2Ok, TypeOK
  <2>3. \E j \in DOMAIN recs : recs[j].text = User(Out(turn).turn)
    BY <1>8, <2>1, TurnTexts DEF Store2Ok, InputStoredBeforeOutput
  <2>4. /\ recs' \in Seq(Record) /\ IdsArePositions' /\ OutputStoredAfterInput'
    BY <2>1, <2>2, <2>3, TurnTexts, AppendKeeps DEF TypeOK
  <2>5. TypeOK' /\ TurnUnderWay' /\ InputStoredBeforeOutput'
    BY <1>8, <2>1, <2>4 DEF Store2Ok, TypeOK, PCs, TurnUnderWay, InputStoredBeforeOutput
  <2>6. QED
    BY <2>4, <2>5
<1>9. CASE Store2Fail
  BY <1>9 DEF Store2Fail, TypeOK, PCs, IdsArePositions, TurnUnderWay,
              InputStoredBeforeOutput, OutputStoredAfterInput
<1>10. CASE Dispatch
  <2>1. turn \in Turns
    BY <1>10 DEF Dispatch, TurnUnderWay, TypeOK
  <2>2. PICK raises \in BOOLEAN :
          /\ result' = [result EXCEPT ![turn] = Execute(plan, raises)]
          /\ note' = IF Execute(plan, raises) = "ok" /\ plan.action = AddEvent /\ MemConfigured
                     THEN [note EXCEPT ![turn] = "pending"]
                     ELSE note
    BY <1>10 DEF Dispatch
  <2>3. TypeOK'
    BY <1>10, <2>1, <2>2, ExecuteType DEF Dispatch, TypeOK, PCs, NoteStates
  <2>4. QED
    BY <1>10, <2>3 DEF Dispatch, IdsArePositions, TurnUnderWay,
                       InputStoredBeforeOutput, OutputStoredAfterInput
<1>11. ASSUME NEW n \in Turns, NoteStore(n) PROVE IInvCore'
  <2>1. recs' = Append(recs, [id |-> Len(recs) + 1, text |-> Note(n)])
    BY <1>11, TurnTexts, StoreAppends DEF NoteStore, TypeOK
  <2>2. /\ recs' \in Seq(Record) /\ IdsArePositions' /\ OutputStoredAfterInput'
        /\ \A u : (\E j \in DOMAIN recs : recs[j].text = u)
                  => \E j \in DOMAIN recs' : recs'[j].text = u
    BY <2>1, TurnTexts, AppendKeeps DEF TypeOK
  <2>3. InputStoredBeforeOutput'
    BY <1>11, <2>2 DEF NoteStore, InputStoredBeforeOutput
  <2>4. TypeOK' /\ TurnUnderWay'
    BY <1>11, <2>2 DEF NoteStore, TypeOK, NoteStates, TurnUnderWay
  <2>5. QED
    BY <2>2, <2>3, <2>4
<1>12. ASSUME NEW n \in Turns, NoteFail(n) PROVE IInvCore'
  BY <1>12 DEF NoteFail, TypeOK, NoteStates, IdsArePositions, TurnUnderWay,
               InputStoredBeforeOutput, OutputStoredAfterInput
<1>13. CASE UNCHANGED vars
  BY <1>13 DEF vars, TypeOK, IdsArePositions, TurnUnderWay,
               InputStoredBeforeOutput, OutputStoredAfterInput
<1>14. QED
  BY <1>1, <1>2, <1>3, <1>4, <1>5, <1>6, <1>7, <1>8, <1>9, <1>10, <1>11,
     <1>12, <1>13 DEF Next

(* Execute never reports a failed model call: that is GenerateFail's. *)
LEMMA ExecuteNotGenerate ==
    ASSUME NEW p, NEW raises
    PROVE  Execute(p, raises) # "error_generate"
BY DEF Execute

(***************************************************************************)
(* Appending a text of a turn read so far keeps every stored text one of   *)
(* a turn read so far, and keeps failed turns out of memory when the new   *)
(* text's turn has not failed.                                             *)
(***************************************************************************)
LEMMA AppendTurns ==
    ASSUME recs \in Seq(Record), StoredUpToTurn, NoWritesFromFailedGeneration,
           NEW m \in 1..turn, NEW t \in {User(m), Out(m), Note(m)},
           t.kind \in {"user", "out"} => result[t.turn] # "error_generate",
           recs' = Append(recs, [id |-> Len(recs) + 1, text |-> t]),
           turn' = turn, result' = result
    PROVE  StoredUpToTurn' /\ NoWritesFromFailedGeneration'
<1>1. StoredUpToTurn'
  <2> SUFFICES ASSUME NEW i \in DOMAIN recs'
               PROVE  \E n \in 1..turn : recs'[i].text \in {User(n), Out(n), Note(n)}
    BY DEF StoredUpToTurn
  <2>1. CASE i \in 1..Len(recs)
    BY <2>1 DEF StoredUpToTurn
  <2>2. CASE i = Len(recs) + 1
    BY <2>2
  <2>3. QED
    BY <2>1, <2>2
<1>2. NoWritesFromFailedGeneration'
  <2> SUFFICES ASSUME NEW i \in DOMAIN recs', recs'[i].text.kind \in {"user", "out"}
               PROVE  result[recs'[i].text.turn] # "error_generate"
    BY DEF NoWritesFromFailedGeneration
  <2>1. CASE i \in 1..Len(recs)
    BY <2>1 DEF NoWritesFromFailedGeneration
  <2>2. CASE i = Len(recs) + 1
    BY <2>2
  <2>3. QED
    BY <2>1, <2>2
<1>3. QED
  BY <1>1, <1>2

(* The texts of two turns differ, and so do the three texts of a turn. *)
LEMMA TextsDistinct ==
    ASSUME NEW n, NEW m
    PROVE  /\ User(n) # Out(m) /\ User(n) # Note(m) /\ Out(n) # Note(m)
           /\ User(n) = User(m) => n = m
           /\ Out(n) = Out(m) => n = m
           /\ User(n).turn = n /\ Out(n).turn = n /\ Note(n).turn = n
BY DEF User, Out, Note

(* Every step keeps the facts about turns, results and notes. *)
LEMMA NextTurns == IInv /\ [Next]_vars => IInvTurns'
<1> SUFFICES ASSUME IInv, [Next]_vars PROVE IInvTurns'
  OBVIOUS
<1> USE DEF IInv, IInvCore, IInvTurns
<1>a. MaxTurns \in Nat
  BY AgentAssumption
<1>1. CASE ReadLine
  <2>1. turn + 1 \in Turns /\ turn \in Nat
    BY <1>1, <1>a DEF ReadLine, TypeOK, Turns
  <2>2. ResultPending'
    <3>1. result[turn + 1] = "none"
      BY <1>1, <2>1 DEF ReadLine, ResultPending
    <3>2. \A n \in Turns : n > turn + 1 => result[n] = "none"
      BY <1>1, <2>1 DEF ReadLine, ResultPending, Turns
    <3>3. QED
      BY <1>1, <3>1, <3>2 DEF ReadLine, ResultPending
  <2>3. StoredUpToTurn'
    <3> SUFFICES ASSUME NEW i \in DOMAIN recs
                 PROVE  \E n \in 1..(turn + 1) : recs[i].text \in {User(n), Out(n), Note(n)}
      BY <1>1 DEF ReadLine, StoredUpToTurn
    <3>1. PICK n \in 1..turn : recs[i].text \in {User(n), Out(n), Note(n)}
      BY DEF StoredUpToTurn
    <3>2. QED
      BY <2>1, <3>1
  <2>3a. NotesOfPastTurns'
    BY <1>1, <2>1 DEF ReadLine, NotesOfPastTurns, Turns
  <2>4. NothingStoredYet'
    <3> SUFFICES ASSUME NEW i \in DOMAIN recs
                 PROVE  recs[i].text # User(turn + 1) /\ recs[i].text # Out(turn + 1)
      BY <1>1 DEF ReadLine, NothingStoredYet
    <3>1. PICK n \in 1..turn : recs[i].text \in {User(n), Out(n), Note(n)}
      BY DEF StoredUpToTurn
    <3>2. n # turn + 1
      BY <2>1
    <3>3. QED
      BY <3>1, <3>2, TextsDistinct
  <2>5. NoWritesFromFailedGeneration'
    BY <1>1 DEF ReadLine, NoWritesFromFailedGeneration
  <2>6. QED
    BY <2>2, <2>3, <2>3a, <2>4, <2>5
<1>2. CASE Exit
  BY <1>2 DEF Exit, ResultPending, Busy, StoredUpToTurn, NotesOfPastTurns,
              NothingStoredYet, NoWritesFromFailedGeneration
<1>3. CASE Retrieve
  BY <1>3 DEF Retrieve, ResultPending, Busy, StoredUpToTurn, NotesOfPastTurns,
              NothingStoredYet, NoWritesFromFailedGeneration
<1>4. CASE GenerateOk
  BY <1>4 DEF GenerateOk, ResultPending, Busy, StoredUpToTurn, NotesOfPastTurns,
              NothingStoredYet, NoWritesFromFailedGeneration
<1>5. CASE GenerateFail
  <2>1. turn \in Turns
    BY <1>5 DEF GenerateFail, TurnUnderWay
  <2>2. ResultPending' /\ StoredUpToTurn' /\ NotesOfPastTurns' /\ NothingStoredYet'
    BY <1>5, <2>1 DEF GenerateFail, TypeOK, ResultPending, Busy, StoredUpToTurn,
                      NotesOfPastTurns, NothingStoredYet
  <2>3. NoWritesFromFailedGeneration'
    <3> SUFFICES ASSUME NEW i \in DOMAIN recs, recs[i].text.kind \in {"user", "out"}
                 PROVE  result'[recs[i].text.turn] # "error_generate"
      BY <1>5 DEF GenerateFail, NoWritesFromFailedGeneration
    <3>1. PICK n \in 1..turn : recs[i].text \in {User(n), Out(n), Note(n)}
      BY DEF StoredUpToTurn
    <3>2. recs[i].text \in {User(n), Out(n)} /\ recs[i].text.turn = n
      BY <3>1, TextsDistinct DEF Note
    <3>3. n # turn
      BY <1>5, <3>2 DEF GenerateFail, NothingStoredYet
    <3>4. QED
      BY <1>5, <2>1, <3>2, <3>3 DEF GenerateFail, TypeOK, NoWritesFromFailedGeneration
  <2>4. QED
    BY <2>2, <2>3
<1>6. CASE Store1Ok
  <2>1. turn \in Turns /\ turn \in 1..turn
    BY <1>6 DEF Store1Ok, TurnUnderWay, Turns
  <2>2. recs' = Append(recs, [id |-> Len(recs) + 1, text |-> User(turn)])
    BY <1>6, <2>1, TurnTexts, StoreAppends DEF Store1Ok, TypeOK
  <2>3. User(turn).kind \in {"user", "out"} => result[User(turn).turn] # "error_generate"
    BY <1>6, TextsDistinct DEF Store1Ok, ResultPending, Busy
  <2>4. StoredUpToTurn' /\ NoWritesFromFailedGeneration'
    BY <1>6, <2>1, <2>2, <2>3, AppendTurns DEF Store1Ok, TypeOK
  <2>5. QED
    BY <1>6, <2>4 DEF Store1Ok, ResultPending, Busy, NotesOfPastTurns, NothingStoredYet
<1>7. CASE Store1Fail
  BY <1>7 DEF Store1Fail, ResultPending, Busy, StoredUpToTurn, NotesOfPastTurns,
              NothingStoredYet, NoWritesFromFailedGeneration
<1>8. CASE Store2Ok
  <2>1. turn \in Turns /\ turn \in 1..turn
    BY <1>8 DEF Store2Ok, TurnUnderWay, Turns
  <2>2. recs' = Append(recs, [id |-> Len(recs) + 1, text |-> Out(turn)])
    BY <1>8, <2>1, TurnTexts, StoreAppends DEF Store2Ok, TypeOK
  <2>3. Out(turn).kind \in {"user", "out"} => result[Out(turn).turn] # "error_generate"
    BY <1>8, TextsDistinct DEF Store2Ok, ResultPending, Busy
  <2>4. StoredUpToTurn' /\ NoWritesFromFailedGeneration'
    BY <1>8, <2>1, <2>2, <2>3, AppendTurns DEF Store2Ok, TypeOK
  <2>5. QED
    BY <1>8, <2>4 DEF Store2Ok, ResultPending, Busy, NotesOfPastTurns, NothingStoredYet
<1>9. CASE Store2Fail
  BY <1>9 DEF Store2Fail, ResultPending, Busy, StoredUpToTurn, NotesOfPastTurns,
              NothingStoredYet, NoWritesFromFailedGeneration
<1>10. CASE Dispatch
  <2>1. turn \in Turns
    BY <1>10 DEF Dispatch, TurnUnderWay
  <2>2. PICK raises \in BOOLEAN :
          /\ result' = [result EXCEPT ![turn] = Execute(plan, raises)]
          /\ note' = IF Execute(plan, raises) = "ok" /\ plan.action = AddEvent /\ MemConfigured
                     THEN [note EXCEPT ![turn] = "pending"]
                     ELSE note
    BY <1>10 DEF Dispatch
  <2>3. ResultPending' /\ StoredUpToTurn' /\ NotesOfPastTurns' /\ NothingStoredYet'
    BY <1>10, <2>1, <2>2 DEF Dispatch, TypeOK, ResultPending, Busy, StoredUpToTurn,
                             NotesOfPastTurns, NothingStoredYet, Turns
  <2>4. NoWritesFromFailedGeneration'
    BY <1>10, <2>1, <2>2, ExecuteNotGenerate
       DEF Dispatch, TypeOK, NoWritesFromFailedGeneration
  <2>5. QED
    BY <2>3, <2>4
<1>11. ASSUME NEW n \in Turns, NoteStore(n) PROVE IInvTurns'
  <2>1. n \in 1..turn
    BY <1>11 DEF NoteStore, NotesOfPastTurns, Turns
  <2>2. recs' = Append(recs, [id |-> Len(recs) + 1, text |-> Note(n)])
    BY <1>11, TurnTexts, StoreAppends DEF NoteStore, TypeOK
  <2>3. Note(n).kind \in {"user", "out"} => result[Note(n).turn] # "error_generate"
    BY DEF Note
  <2>4. StoredUpToTurn' /\ NoWritesFromFailedGeneration'
    BY <1>11, <2>1, <2>2, <2>3, AppendTurns DEF NoteStore, TypeOK
  <2>5. NothingStoredYet'
    <3> SUFFICES ASSUME pc \in {"retrieve", "generate"}, NEW i \in DOMAIN recs'
                 PROVE  recs'[i].text # User(turn) /\ recs'[i].text # Out(turn)
      BY <1>11 DEF NoteStore, NothingStoredYet
    <3>1. CASE i \in 1..Len(recs)
      BY <2>2, <3>1 DEF NothingStoredYet
    <3>2. CASE i = Len(recs) + 1
      <4>1. recs'[i].text = Note(n)
        BY <2>2, <3>2 DEF TypeOK
      <4>2. QED
        BY <4>1, TextsDistinct
    <3>3. QED
      BY <2>2, <3>1, <3>2
  <2>6. QED
    BY <1>11, <2>4, <2>5 DEF NoteStore, ResultPending, NotesOfPastTurns
<1>12. ASSUME NEW n \in Turns, NoteFail(n) PROVE IInvTurns'
  BY <1>12 DEF NoteFail, ResultPending, StoredUpToTurn, NotesOfPastTurns,
               NothingStoredYet, NoWritesFromFailedGeneration
<1>13. CASE UNCHANGED vars
  BY <1>13 DEF vars, ResultPending, StoredUpToTurn, NotesOfPastTurns,
               NothingStoredYet, NoWritesFromFailedGeneration
<1>14. QED
  BY <1>1, <1>2, <1>3, <1>4, <1>5, <1>6, <1>7, <1>8, <1>9, <1>10, <1>11,
     <1>12, <1>13 DEF Next

(* Every step of the session keeps the inductive invariant. *)
LEMMA NextIInv == IInv /\ [Next]_vars => IInv'
BY NextCore, NextTurns DEF IInv

-----------------------------------------------------------------------------
(***************************************************************************)
(* Type correctness of the session: every reachable state satisfies       *)
(* TypeOK, whatever the number of turns, tools and texts.                  *)
(***************************************************************************)
THEOREM TypeCorrect == Spec => []TypeOK
<1>1. IInv => TypeOK
  BY DEF IInv, IInvCore
<1>2. QED
  BY InitIInv, NextIInv, <1>1, PTL DEF Spec

(***************************************************************************)
(* Kernel.process_input never leaves a model output in memory ahead of the *)
(* user text of its turn, under every interleaving of the detached         *)
(* add_event note writes and every failure of a store_text call.           *)
(***************************************************************************)
THEOREM OutputAfterInput == Spec => []OutputStoredAfterInput
<1>1. IInv => OutputStoredAfterInput
  BY DEF IInv, IInvCore
<1>2. QED
  BY InitIInv, NextIInv, <1>1, PTL DEF Spec


(***************************************************************************)
(* Kernel.process_input stores nothing of a turn whose model call failed,  *)
(* as spec 5 requires, under every interleaving of note tasks: its stores  *)
(* come after llm.generate returned, and a failed turn never reaches them. *)
(***************************************************************************)
THEOREM NoFailedWrites == Spec => []NoWritesFromFailedGeneration
<1>1. IInv => NoWritesFromFailedGeneration
  BY DEF IInv, IInvTurns
<1>2. QED
  BY InitIInv, NextIInv, <1>1, PTL DEF Spec

-----------------------------------------------------------------------------
(***************************************************************************)
(* Each step of the session is a step of the memory log or leaves recs and *)
(* result alone: a store is an append with a fresh id, an output's store   *)
(* finds its input stored, a print is the turn's first.                    *)
(***************************************************************************)
LEMMA StepRefines == IInv /\ [Next]_vars => [Log!Next]_<<recs, result>>
<1> SUFFICES ASSUME IInv, [Next]_vars PROVE [Log!Next]_<<recs, result>>
  OBVIOUS
<1> USE DEF IInv, IInvCore, IInvTurns
<1>1. CASE ReadLine \/ Exit \/ Retrieve \/ GenerateOk \/ Store1Fail \/ Store2Fail
  BY <1>1 DEF ReadLine, Exit, Retrieve, GenerateOk, Store1Fail, Store2Fail
<1>2. CASE \E n \in Turns : NoteFail(n)
  BY <1>2 DEF NoteFail
<1>3. CASE UNCHANGED vars
  BY <1>3 DEF vars
<1>4. CASE GenerateFail
  <2>1. turn \in Turns /\ result[turn] = "none"
    BY <1>4 DEF GenerateFail, TurnUnderWay, ResultPending, Busy
  <2>2. Log!PrintResult(turn)
    BY <1>4, <2>1 DEF GenerateFail, Log!PrintResult, Results
  <2>3. QED
    BY <2>1, <2>2 DEF Log!Next
<1>5. CASE Dispatch
  <2>1. turn \in Turns /\ result[turn] = "none"
    BY <1>5 DEF Dispatch, TurnUnderWay, ResultPending, Busy
  <2>2. Log!PrintResult(turn)
    BY <1>5, <2>1, ExecuteType DEF Dispatch, Log!PrintResult
  <2>3. QED
    BY <2>1, <2>2 DEF Log!Next
<1>6. CASE Store1Ok
  <2>1. turn \in Turns
    BY <1>6 DEF Store1Ok, TurnUnderWay
  <2>2. recs' = Append(recs, [id |-> Len(recs) + 1, text |-> User(turn)])
    BY <1>6, <2>1, TurnTexts, StoreAppends DEF Store1Ok, TypeOK
  <2>3. User(turn) \notin Log!Outputs
    BY TextsDistinct DEF Log!Outputs
  <2>4. Log!StoreOther(User(turn))
    BY <1>6, <2>2, <2>3 DEF Store1Ok, Log!StoreOther, Log!Store
  <2>5. QED
    BY <2>1, <2>4, TurnTexts DEF Log!Next
<1>7. CASE Store2Ok
  <2>1. turn \in Turns
    BY <1>7 DEF Store2Ok, TurnUnderWay
  <2>2. recs' = Append(recs, [id |-> Len(recs) + 1, text |-> Out(turn)])
    BY <1>7, <2>1, TurnTexts, StoreAppends DEF Store2Ok, TypeOK
  <2>3. \E i \in DOMAIN recs : recs[i].text = User(turn)
    BY <1>7 DEF Store2Ok, InputStoredBeforeOutput
  <2>4. Log!StoreOutput(turn)
    BY <1>7, <2>2, <2>3 DEF Store2Ok, Log!StoreOutput, Log!Store
  <2>5. QED
    BY <2>1, <2>4 DEF Log!Next
<1>8. ASSUME NEW n \in Turns, NoteStore(n) PROVE [Log!Next]_<<recs, result>>
  <2>1. recs' = Append(recs, [id |-> Len(recs) + 1, text |-> Note(n)])
    BY <1>8, TurnTexts, StoreAppends DEF NoteStore, TypeOK
  <2>2. Note(n) \notin Log!Outputs
    BY TextsDistinct DEF Log!Outputs
  <2>3. Log!StoreOther(Note(n))
    BY <1>8, <2>1, <2>2 DEF NoteStore, Log!StoreOther, Log!Store
  <2>4. QED
    BY <2>3, TurnTexts DEF Log!Next
<1>9. QED
  BY <1>1, <1>2, <1>3, <1>4, <1>5, <1>6, <1>7, <1>8 DEF Next

(***************************************************************************)
(* The CLI session implements the memory log of the spec (MemoryLog):      *)
(* whatever the interleaving of the add_event note tasks and whichever     *)
(* memory call fails, memory only grows by fresh appends, an output is     *)
(* stored after its input, and each turn prints once.                      *)
(***************************************************************************)
THEOREM Refinement == Spec => MemoryLogSpec
<1>1. Init => Log!Init
  BY DEF Init, Log!Init
<1>2. QED
  BY <1>1, InitIInv, NextIInv, StepRefines, PTL DEF Spec, MemoryLogSpec, Log!Spec

-----------------------------------------------------------------------------
(* The dispatch chain's early returns agree with spec 4.3 wherever it does *)
(* not raise: respond before the registry lookup, then unknown tool, then  *)
(* bad arguments, then the tool's own outcome.                             *)
LEMMA ExecuteFollowsSpec ==
    ASSUME NEW p, NEW raises
    PROVE  Execute(p, raises) # "error_dispatch" => Execute(p, raises) \in SpecResults(p)
BY DEF Execute, SpecResults

(***************************************************************************)
(* Every dispatch step of AgentManager.execute that returns a text returns *)
(* one spec 4.3 allows for the turn's model output.  At pc = "dispatch"    *)
(* only Dispatch can change the turn's result: a note task runs only while *)
(* the main task awaits a memory or model call.                            *)
(***************************************************************************)
THEOREM DispatchFollows == Spec => DispatchFollowsSpec
<1>1. IInv /\ [Next]_vars =>
        [pc = "dispatch" /\ result'[turn] # "error_dispatch"
           => result'[turn] \in SpecResults(plan)]_vars
  <2> SUFFICES ASSUME IInv, [Next]_vars, pc = "dispatch",
                      result'[turn] # "error_dispatch"
               PROVE  result'[turn] \in SpecResults(plan) \/ UNCHANGED vars
    OBVIOUS
  <2>1. turn \in Turns /\ result \in [Turns -> Results \cup {"none"}]
    BY DEF IInv, IInvCore, TurnUnderWay, TypeOK
  <2>2. CASE Dispatch
    <3>1. PICK raises \in BOOLEAN : result' = [result EXCEPT ![turn] = Execute(plan, raises)]
      BY <2>2 DEF Dispatch
    <3>2. result'[turn] = Execute(plan, raises)
      BY <2>1, <3>1
    <3> QED
      BY <3>2, ExecuteFollowsSpec
  <2>3. CASE \E n \in Turns : NoteStore(n) \/ NoteFail(n)
    BY <2>3 DEF NoteStore, NoteFail, LoopFree
  <2>4. CASE UNCHANGED vars
    BY <2>4
  <2> QED
    BY <2>2, <2>3, <2>4 DEF Next, ReadLine, Exit, Retrieve, GenerateOk, GenerateFail,
                            Store1Ok, Store1Fail, Store2Ok, Store2Fail
<1> QED
  BY InitIInv, NextIInv, <1>1, PTL DEF Spec, DispatchFollowsSpec
=============================================================================
