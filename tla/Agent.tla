-------------------------------- MODULE Agent --------------------------------
(***************************************************************************)
(* One user's session with the Bantu OS CLI (src/main.py): the REPL reads *)
(* a line and awaits AgentManager.execute (agents/agent_manager.py), which *)
(* awaits Kernel.process_input (core/kernel/kernel.py), interprets the     *)
(* model's text as an action and dispatches it to a registered tool.       *)
(*                                                                         *)
(* Everything runs on one asyncio event loop.  The REPL's coroutine is the *)
(* main task, with program counter pc; it gives up the loop only at the    *)
(* awaits of process_input: the query embedding of retrieve_memory, the    *)
(* model call, and the two store_text embeddings.  input() blocks the      *)
(* loop, so nothing else runs while pc = "idle".  The scheduler's add_event *)
(* tool (agents/tools/scheduler.py) detaches a store_text of an event note *)
(* with asyncio.create_task; that task runs only while the main task is    *)
(* suspended at an await, and asyncio.run cancels it if the REPL exits     *)
(* first.                                                                  *)
(*                                                                         *)
(* Texts are abstracted to who produced them and in which turn: the       *)
(* user's line, the model's output, and the event note of turn n.  The    *)
(* model's output is abstracted to what the interpreter and the dispatcher *)
(* tell apart.                                                             *)
(***************************************************************************)
EXTENDS VectorDB

CONSTANTS
    MaxTurns,       \* bound on the lines the user enters
    MemConfigured,  \* memory is attached to the Kernel and memory.embeddings is set
    Tools,          \* the names registered with AgentManager.register_tool in build_app
    AddEvent,       \* the name of the scheduler's add_event tool
    UnknownName,    \* an action name under which no tool is registered
    Unhashable      \* an action value that is a JSON list or object

ASSUME AgentAssumption ==
    /\ MaxTurns \in Nat
    /\ MemConfigured \in BOOLEAN
    /\ AddEvent \in Tools
    /\ "respond" \notin Tools
    /\ UnknownName \notin Tools \cup {"respond"}
    /\ Unhashable \notin Tools \cup {"respond", UnknownName}

Turns == 1..MaxTurns

(* The texts a session stores in memory. *)
User(n) == [kind |-> "user", turn |-> n]
Out(n)  == [kind |-> "out",  turn |-> n]
Note(n) == [kind |-> "note", turn |-> n]

ASSUME TextsAssumption ==
    \A n \in Turns : {User(n), Out(n), Note(n)} \subseteq Texts

(***************************************************************************)
(* What the model's output is to AgentManager.  form "action": the text,  *)
(* or its first-'{'-to-last-'}' slice, is a JSON object with an "action"   *)
(* key; "prose": _safe_parse_action finds no such object; "empty": the     *)
(* model returned "" (result.get("text", "")).  args "dict_ok": a JSON     *)
(* object that fits the tool's keywords (for respond: one that holds a     *)
(* message); "dict_bad": an object that does not fit, or a missing or      *)
(* falsy args, which `or {}` turns into {}; "nondict": a truthy JSON list, *)
(* string or number.                                                       *)
(***************************************************************************)
Actions   == Tools \cup {"respond", UnknownName, Unhashable}
ArgShapes == {"dict_ok", "dict_bad", "nondict"}
ModelOutputs ==
    [form : {"action"}, action : Actions, args : ArgShapes]
    \cup [form : {"prose", "empty"}, action : {"respond"}, args : {"dict_ok"}]
NoPlan == [form |-> "none", action |-> "respond", args |-> "dict_ok"]

(***************************************************************************)
(* What the REPL prints for a turn.  "error_generate" and "error_dispatch" *)
(* are the two ways execute raises, printed as "Error: ..." by repl().     *)
(***************************************************************************)
Results == {"raw", "message", "unknown", "argerror", "failed", "ok",
            "error_generate", "error_dispatch"}

NoteStates == {"none", "pending", "stored", "failed", "cancelled"}

PCs == {"idle", "retrieve", "generate", "store1", "store2", "dispatch", "exited"}

VARIABLES
    pc,       \* where the REPL's main task is
    turn,     \* number of lines read so far; the current turn
    plan,     \* the model's output in the current turn
    result,   \* result[n]: what the REPL printed for turn n
    note      \* note[n]: the detached memory write of turn n's add_event

vars == <<recs, pc, turn, plan, result, note>>

TypeOK ==
    /\ recs \in Seq(Record)
    /\ pc \in PCs
    /\ turn \in 0..MaxTurns
    /\ plan \in ModelOutputs \cup {NoPlan}
    /\ result \in [Turns -> Results \cup {"none"}]
    /\ note \in [Turns -> NoteStates]

Init ==
    /\ recs = <<>>
    /\ pc = "idle"
    /\ turn = 0
    /\ plan = NoPlan
    /\ result = [n \in Turns |-> "none"]
    /\ note = [n \in Turns |-> "none"]

(* The main task is suspended at an await: other tasks may run. *)
LoopFree == pc \in {"retrieve", "generate", "store1", "store2"}

(* Mutant: the registry lookup before the respond check. *)
ExecuteToolsFirst(p, raises) ==
    IF p.form # "action" THEN "raw"
    ELSE IF p.action = Unhashable THEN "error_dispatch"
    ELSE IF p.action \notin Tools THEN "unknown"
    ELSE IF p.args # "dict_ok" THEN "argerror"
    ELSE IF raises THEN "failed"
    ELSE "ok"

(***************************************************************************)
(* AgentManager.execute after the Kernel returned: _safe_parse_action and  *)
(* the dispatch chain, in the order of its early returns.  raises says     *)
(* whether the tool body raises something other than TypeError.           *)
(***************************************************************************)
Execute(p, raises) ==
    IF p.form # "action" THEN "raw"
    ELSE IF p.action = "respond"
         THEN IF p.args = "nondict" THEN "error_dispatch" ELSE "message"
    ELSE IF p.action = Unhashable THEN "error_dispatch"
    ELSE IF p.action \notin Tools THEN "unknown"
    ELSE IF p.args # "dict_ok" THEN "argerror"
    ELSE IF raises THEN "failed"
    ELSE "ok"

-----------------------------------------------------------------------------
(* repl(): input() returns a non-empty line that is not exit or quit. *)
ReadLine ==
    /\ pc = "idle"
    /\ turn < MaxTurns
    /\ turn' = turn + 1
    /\ pc' = IF MemConfigured THEN "retrieve" ELSE "generate"
    /\ plan' = NoPlan
    /\ UNCHANGED <<recs, result, note>>

(***************************************************************************)
(* repl(): "exit", "quit", EOF or Ctrl-C at the prompt.  asyncio.run then *)
(* cancels every task still pending.                                       *)
(***************************************************************************)
Exit ==
    /\ pc = "idle"
    /\ pc' = "exited"
    /\ note' = [n \in Turns |-> IF note[n] = "pending" THEN "cancelled" ELSE note[n]]
    /\ UNCHANGED <<recs, turn, plan, result>>

(* Mutant: the query text is stored while it is embedded for retrieval. *)
RetrieveAndStore ==
    /\ pc = "retrieve"
    /\ StoreMemory(User(turn))
    /\ pc' = "generate"
    /\ UNCHANGED <<turn, plan, result, note>>

(***************************************************************************)
(* process_input: await retrieve_memory(text) resumes.  Whether it        *)
(* returned snippets or raised (embedding call failed, dimension check of  *)
(* VectorDB.search), the exception is swallowed and the prompt is built.   *)
(***************************************************************************)
Retrieve ==
    /\ pc = "retrieve"
    /\ pc' = "generate"
    /\ UNCHANGED <<recs, turn, plan, result, note>>

(* process_input: await self.llm.generate(...) returns the model's text. *)
GenerateOk ==
    /\ pc = "generate"
    /\ \E p \in ModelOutputs : plan' = p
    /\ pc' = IF MemConfigured THEN "store1" ELSE "dispatch"
    /\ UNCHANGED <<recs, turn, result, note>>

(* Mutant: a failed model call swallowed, the turn ends printing nothing. *)
GenerateFailSilent ==
    /\ pc = "generate"
    /\ pc' = "idle"
    /\ UNCHANGED <<recs, turn, plan, result, note>>

(* Mutant: the failure printed, and the turn then runs on into dispatch. *)
GenerateFailFallThrough ==
    /\ pc = "generate"
    /\ result' = [result EXCEPT ![turn] = "error_generate"]
    /\ pc' = "dispatch"
    /\ UNCHANGED <<recs, turn, plan, note>>

(***************************************************************************)
(* The model call raises (no active model, HTTP error, 60 s timeout): the *)
(* exception leaves process_input and execute, and repl prints it.         *)
(***************************************************************************)
GenerateFail ==
    /\ pc = "generate"
    /\ result' = [result EXCEPT ![turn] = "error_generate"]
    /\ pc' = "idle"
    /\ UNCHANGED <<recs, turn, plan, note>>

(***************************************************************************)
(* await self.memory.store_text(text) resumes with the user's text        *)
(* stored; the output is stored next only if it is non-empty.              *)
(***************************************************************************)
Store1Ok ==
    /\ pc = "store1"
    /\ StoreMemory(User(turn))
    /\ pc' = IF plan.form = "empty" THEN "dispatch" ELSE "store2"
    /\ UNCHANGED <<turn, plan, result, note>>

(* Mutant: each store_text in a try block of its own. *)
Store1FailSeparateTry ==
    /\ pc = "store1"
    /\ pc' = IF plan.form = "empty" THEN "dispatch" ELSE "store2"
    /\ UNCHANGED <<recs, turn, plan, result, note>>

(***************************************************************************)
(* The first store_text raises (embedding failed, dimension mismatch):    *)
(* the one try block around both stores swallows it, and the second store *)
(* is skipped.                                                             *)
(***************************************************************************)
Store1Fail ==
    /\ pc = "store1"
    /\ pc' = "dispatch"
    /\ UNCHANGED <<recs, turn, plan, result, note>>

(* await self.memory.store_text(output_text) resumes with the output stored. *)
Store2Ok ==
    /\ pc = "store2"
    /\ StoreMemory(Out(turn))
    /\ pc' = "dispatch"
    /\ UNCHANGED <<turn, plan, result, note>>

(* The second store_text raises and the exception is swallowed. *)
Store2Fail ==
    /\ pc = "store2"
    /\ pc' = "dispatch"
    /\ UNCHANGED <<recs, turn, plan, result, note>>

(***************************************************************************)
(* execute interprets and dispatches, synchronously, and repl prints the  *)
(* result.  A successful add_event inserts the event and, with memory      *)
(* configured, create_task(memory.store_text(note)) while the loop runs.   *)
(***************************************************************************)
Dispatch ==
    /\ pc = "dispatch"
    /\ \E raises \in BOOLEAN :
         LET r == Execute(plan, raises) IN
         /\ result' = [result EXCEPT ![turn] = r]
         /\ note' = IF r = "ok" /\ plan.action = AddEvent /\ MemConfigured
                    THEN [note EXCEPT ![turn] = "pending"]
                    ELSE note
    /\ pc' = "idle"
    /\ UNCHANGED <<recs, turn, plan>>

(***************************************************************************)
(* The detached note task of turn n, resumed while the main task waits:   *)
(* its embedding returns and Memory.store_memory adds the note.            *)
(***************************************************************************)
NoteStore(n) ==
    /\ note[n] = "pending"
    /\ LoopFree
    /\ StoreMemory(Note(n))
    /\ note' = [note EXCEPT ![n] = "stored"]
    /\ UNCHANGED <<pc, turn, plan, result>>

(***************************************************************************)
(* The note task's store_text raises; nobody awaits the task, so the      *)
(* exception is only logged when the task is collected.                    *)
(***************************************************************************)
NoteFail(n) ==
    /\ note[n] = "pending"
    /\ LoopFree
    /\ note' = [note EXCEPT ![n] = "failed"]
    /\ UNCHANGED <<recs, pc, turn, plan, result>>

Next ==
    \/ ReadLine \/ Exit
    \/ Retrieve \/ GenerateOk \/ GenerateFail
    \/ Store1Ok \/ Store1Fail \/ Store2Ok \/ Store2Fail
    \/ Dispatch
    \/ \E n \in Turns : NoteStore(n) \/ NoteFail(n)

Spec == Init /\ [][Next]_vars

(***************************************************************************)
(* Every await of a turn ends: the model call and the embeddings run under *)
(* aiohttp.ClientTimeout(total=60) (providers/openai_chat.py,              *)
(* embeddings/openai.py), web_search under urlopen(timeout=20), and the    *)
(* other tools do local work.  So the event loop resumes the main task     *)
(* with a result or an exception: each step of a turn is weakly fair.     *)
(* The user's steps, ReadLine and Exit, are not: input() may wait forever. *)
(* The note task is not made fair either: it runs only while the main task *)
(* is suspended, so nothing forces it to run.                              *)
(***************************************************************************)
Fairness ==
    /\ WF_vars(Retrieve)
    /\ WF_vars(GenerateOk \/ GenerateFail)
    /\ WF_vars(Store1Ok \/ Store1Fail)
    /\ WF_vars(Store2Ok \/ Store2Fail)
    /\ WF_vars(Dispatch)

FairSpec == Spec /\ Fairness

-----------------------------------------------------------------------------
(***************************************************************************)
(* Kernel.process_input stores the user's text before the model's output, *)
(* inside one try block, while note tasks may store in between: every      *)
(* output of turn n in memory comes after the user's text of turn n.  It   *)
(* fails if a failing first store_text did not also skip the second.       *)
(***************************************************************************)
OutputStoredAfterInput ==
    \A i \in DOMAIN recs :
        recs[i].text.kind = "out" =>
            \E j \in 1..(i - 1) : recs[j].text = User(recs[i].text.turn)

(***************************************************************************)
(* Spec 5: when the model call fails, no memory write comes from that     *)
(* turn's generation step.  Kernel.process_input stores only after         *)
(* llm.generate returned, so a turn that printed a generation error left   *)
(* neither its input nor an output in memory.                              *)
(***************************************************************************)
NoWritesFromFailedGeneration ==
    \A i \in DOMAIN recs :
        recs[i].text.kind \in {"user", "out"} =>
            result[recs[i].text.turn] # "error_generate"

(***************************************************************************)
(* The results spec 4.3 allows for a model output: the raw text when no   *)
(* action parses, args.message for respond, "Unknown tool", an argument    *)
(* error for a keyword mismatch, and otherwise the tool's result or its    *)
(* failure.                                                                *)
(***************************************************************************)
SpecResults(p) ==
    IF p.form # "action" THEN {"raw"}
    ELSE IF p.action = "respond" THEN {"message"}
    ELSE IF p.action \notin Tools THEN {"unknown"}
    ELSE IF p.args # "dict_ok" THEN {"argerror"}
    ELSE {"ok", "failed"}

(***************************************************************************)
(* Every dispatch step of AgentManager.execute that returns a text returns *)
(* one spec 4.3 allows for the model's output (the steps that raise are   *)
(* the subject of NeverCrashes).                                           *)
(***************************************************************************)
DispatchFollowsSpec ==
    [][pc = "dispatch" /\ result'[turn] # "error_dispatch"
         => result'[turn] \in SpecResults(plan)]_vars

(***************************************************************************)
(* Spec 4.3 and 7: every line the REPL reads ends in a printed result,     *)
(* whatever the model returns and whichever memory call fails: no error    *)
(* path of process_input or execute leaves the turn hanging or retrying.   *)
(***************************************************************************)
TurnAnswered ==
    \A n \in Turns : (turn = n /\ pc # "idle" /\ pc # "exited") ~> result[n] # "none"

(***************************************************************************)
(* Spec 4.3: a malformed or failing turn always yields a user-visible     *)
(* text message and never a crash: no turn whose model call succeeded     *)
(* ends with execute raising.                                              *)
(***************************************************************************)
NeverCrashes ==
    \A n \in Turns : result[n] # "error_dispatch"

-----------------------------------------------------------------------------
(***************************************************************************)
(* The session implements the memory log the spec describes: recs is the  *)
(* log and result is what each turn printed; the REPL's program counter,   *)
(* the current plan and the note tasks are hidden.  Every store of the     *)
(* session, the note tasks' included, is a fresh append, an output is      *)
(* stored only after its input, and every turn prints once.                *)
(***************************************************************************)
Log == INSTANCE MemoryLog WITH log <- recs, printed <- result,
                               UserText <- User, OutText <- Out

MemoryLogSpec == Log!Spec

=============================================================================
