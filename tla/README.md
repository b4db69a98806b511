# Formal models of Bantu OS

This directory holds TLA+ models of the Bantu OS CLI agent (`src/main.py`,
`src/bantu_os/...`), its retrieval memory, the scheduling agent, the settings
manager, the knowledge graph, the task manager, the LLM provider registry,
and the smart bill assistant of the bundled Onyx backend. TLC checks the
models on small instances, all but the task manager and the LLM registry,
which are only proved. TLAPS proves, for every value of the constants:
- the REPL session's memory properties, its dispatch results, and its
  refinement of an abstract memory log;
- that the bill store's stored value stays a list of bills under concurrent
  requests and failing loads;
- the scheduler's agreement with the spec's time rules;
- the durability of settings and what `get()` returns, across crashes, up to
  the first fallback of `load()`;
- the knowledge graph's edge index and what `get_related_nodes` and `query`
  return;
- the agreement of the task manager's dict and queue;
- that the LLM registry's active model is always a registered one.

## The system

The CLI (`src/main.py`) builds a `Kernel` with a `Memory`: a `VectorDBStore`
over the in-memory `VectorDB`, with OpenAI embeddings. It then builds an
`AgentManager` with the built-in tools and the scheduler tools. `repl()` runs on
one asyncio event loop, and each line goes through these steps:

1. `AgentManager.execute` awaits `Kernel.process_input`.
2. With memory configured, `process_input` awaits `Memory.retrieve_memory`.
   That is one embedding call plus `VectorDB.search`. Any exception is
   swallowed.
3. It awaits `LLMManager.generate` (HTTP, 60 s timeout). An exception
   propagates to the REPL, which prints it.
4. With memory configured, it awaits `store_text(text)`, then
   `store_text(output_text)` if the output is non-empty. Both calls are in one
   try block that swallows exceptions.
5. `execute` parses the output with `_safe_parse_action` and dispatches it.
   Tool errors are caught.
6. The scheduler's `add_event` tool inserts a SQLite row. It then detaches
   `asyncio.create_task(memory.store_text(note))`. That task runs only while
   the REPL task is suspended at one of the awaits above, during a later
   turn. `asyncio.run` cancels it if the user exits first.

`input()` blocks the loop, so no task runs while the REPL waits for a line.

Other parts are not on this path:
- `SchedulingAgent` (`scheduling_agent.py`): a natural-time parser and a
  SQLite events table.
- `SettingsManager`: a dict persisted to a JSON file.
- `KnowledgeGraph`: nodes, an edge list, and an index from node to edges.
- `TaskManager`: a dict of tasks and a task queue. `AgentManager` builds one
  and never calls it.
- `LLMManager`'s registry of providers and its active model. The `Kernel`
  loads one model, `"default"`, at construction.
- The smart bill assistant (`onyx-main/.../smart_bill_assistant`): FastAPI
  routes over one JSON list per user in Onyx's key-value store.

## Modules

| module | models | state | actions |
|---|---|---|---|
| `VectorDB` | `vector_db.py` `add`/`delete`, `memory.py` `store_memory` | `recs`: `VectorDB.records` in dict order | `StoreMemory(t)`, `DeleteRecord(id)` (used by other modules) |
| `VectorDBApi` | any sequence of `VectorDBStore.add`/`delete` | `recs`, history `issued` | `Add(t)`, `Delete(id)` |
| `VectorSearch` | `VectorDB.search`: cosine similarity, `list.sort(reverse=True)`, top_k | `recs` (`[id, zero]`), `query`, `result` | `Add`, `Search` |
| `Agent` | one CLI session: `repl`, `execute`, `process_input`, the note task | `recs`, `pc`, `turn`, `plan`, `result[n]`, `note[n]` | `ReadLine`, `Exit`, `Retrieve`, `GenerateOk`/`Fail`, `Store1Ok`/`Fail`, `Store2Ok`/`Fail`, `Dispatch`, `NoteStore(n)`, `NoteFail(n)` |
| `MemoryLog` | the spec's promise (4.1, 4.3, 4.4, 5): an append-only log, and one printed result per turn | `log`, `printed` | `StoreOther(t)`, `StoreOutput(n)`, `PrintResult(n)` |
| `AgentProofs` | TLAPS proofs about `Agent` | | |
| `BillStore` | `api.py` routes `parse-sample`, `GET /`, `action` over `store.py` | `kv` (the stored list), `now`, `req[r]` (each worker thread's pc and local copy), history `saved`, `archivedAck` | `ParseSample`, `SaveLoad`, `SaveStore`, `GetBills`, `ArchLoad`, `ArchStore`, `ActionOnBill`, `ActLoad`, `Tick` |
| `BillStoreProofs` | TLAPS proofs about `BillStore` | | |
| `Scheduler` | `parse_natural_time`, `add_event`, `remove_event` | `events`, `nextId`, history `last` | `AddEvent`, `RemoveEvent` |
| `SchedulerProofs` | TLAPS proofs about `Scheduler` | | |
| `Settings` | `SettingsManager.load`/`set`/`save`/`get`, process crash and restart | `file`, `fileDict`, `data`, `loaded`, `pc`, `pending`, history `acked` and `fellBack` | `Load`, `Set(k, v)`, `WriteDone`, `Crash`, `Restart`; operator `Get(k, d)` |
| `SettingsProofs` | TLAPS proofs about `Settings` | | |
| `KnowledgeGraph` | `add_node`, `add_edge`, `get_related_nodes`, `query` | `heap` (dict objects), `nodes`, `edges`, `nodeEdges` | `AddNode(n, t, p)`, `AddEdge(s, t, r)`; operators `GetRelatedNodes(n, r)`, `Query(pat)` |
| `KnowledgeGraphProofs` | TLAPS proofs about `KnowledgeGraph` | | |
| `TaskManager` | `create_task`, `get_task_status`, `get_task_result` | `tasks` (id n for `task_n`), `queue`, `reply` | `CreateTask(q)`, `GetTaskStatus(n)`, `GetTaskResult(n)` |
| `TaskManagerProofs` | TLAPS proofs about `TaskManager` | | |
| `LLMManager` | `load_model` with `_build_provider`, `unload_model`, `set_active_model`, `generate` | `models`, `active`, `reply` | `LoadModel(n, p, m)`, `UnloadModel(n)`, `SetActiveModel(n)`, `Generate` |
| `LLMManagerProofs` | TLAPS proofs about `LLMManager` | | |
| `MC*` | TLC instances: model values and small sets | | |

How the data is abstracted:
- **Texts.** A text is `[kind, turn]`: the user's line, the model's output, or
  the event note of turn n.
- **Vectors.** A vector is reduced to its dimension (`DimOk`). For search, it
  is reduced to whether it is zero. A similarity is a level from a small set
  of integers, or NaN.
- **Model output.** It keeps only what the dispatch chain tells apart: its
  form, the action name, and the shape of its args.
- **Bills.** A bill is a uid plus the fields the routes change.
- **Phrases.** A phrase is reduced to what the regular expressions find in it.
- **Time.** The scheduler counts time in minutes; the bill store counts it in
  30-day units.
- **Dicts.** A dict is a function from keys to a value or `Absent`.
- **Read results.** A list that a read returns is abstracted to the set of what
  it holds. A `Node` becomes its id. `query`'s relationships keep their order.
- **Tasks and providers.** A task id `task_n` is n. A provider instance is the
  model id it was built with.

Each module's header comment says how its state maps onto the code, and
PROJECT.json's `map` names the source lines of every definition.

## Runs

| run | expect | states | shows |
|---|---|---|---|
| `agent_memory` | pass | 243,230 | Three turns under `FairSpec`. `TypeOK`, `OutputStoredAfterInput`, `NoWritesFromFailedGeneration` and `DispatchFollowsSpec` hold. `TurnAnswered` (liveness) holds. `MemoryLogSpec` (refinement) holds. |
| `agent_never_crashes` | violation | | `NeverCrashes`: a model output `{"action": [..]}` makes `execute` raise. |
| `vectordb_id_reuse` | violation | | `NoRecordLost`: add, add, delete, add overwrites a record (vector_db.py:29). |
| `vector_search_type` | pass | 2,868 | `TypeOK`: with zero vectors allowed, so that NaN similarities reach the sort, every search returns well-formed records. |
| `vector_search_nan` | violation | | `SearchFollowsSpec`: a zero vector makes a similarity NaN. The sort keeps `[-1, NaN]` as it is, although the spec ranks NaN as 0. |
| `bill_lost_update` | violation | | `NoBillLost`: two `parse-sample` requests; the second store drops the first bill. |
| `bill_action_duplicates` | violation | | `ArchivedStaysArchived`: archive appends a copy; the original stays unarchived. |
| `scheduler_parse` | pass | 7,967 | `ParseFollowsSpec`: every stored time is the one spec 4.5's rules give. |
| `settings_torn_write` | violation | | `SettingsDurable`: a crash inside `write_text` loses every earlier setting. |
| `knowledge_graph_aliasing` | violation | | `NodesOwnProperties`: two nodes share the caller's dict. |
| `settings_fallback` | pass | 521 | `DurableUntilFallback` and `ReadYourSettings`: with crashes anywhere, a setting whose `set()` returned stays in the file and is what `get()` answers, until a `load()` falls back. |
| `knowledge_graph_index` | pass | 30,631 | `EdgesIndexed`: `node_edges` lists exactly the edges of each node, and both ends of each edge are nodes. `RelatedFollowsEdges` and `QueryFollowsEdges`: the reads answer from the edges, in both directions and for self-loops. |

`TaskManager` and `LLMManager` have no TLC run. Their properties
(`QueueMatchesTasks`, `ActiveLoaded`) are proved for every value of the
constants (see Proofs). Some properties stated in the modules are not among
the runs, and the code violates them. TLC finds each one when it is checked
by hand, as listed under "Observations outside the runs":
- `ParseTotal` in `Scheduler`;
- `NoSpuriousError` in `LLMManager`.

Each property of a passing run has a mutant in PROJECT.json: a plausible bug
in a mapped definition that makes TLC report the property violated. Examples:
- `GenerateFailFallThrough` prints the error and runs on into dispatch, so the
  turn prints twice. This breaks `MemoryLogSpec`.
- `GenerateFailSilent` breaks `TurnAnswered`.
- `AddZeroBased` (ids from 0) breaks `VectorSearch`'s `TypeOK`.
- `NextOccurrenceGe` and `ApplyAmPmNoMidnight` break `ParseFollowsSpec`.
- `LoadIgnoresFile` breaks `DurableUntilFallback` and `ReadYourSettings`.
- `AddNodeResetsEdges` breaks `EdgesIndexed`.
- `GetRelatedNodesTargetOnly` breaks `RelatedFollowsEdges`.
- `RelationshipsSwapped` breaks `QueryFollowsEdges`.

`CreateTaskQueueOnly` and `UnloadModelKeepsActive` are the matching mutants of
the two proof-only modules. They are not among the project's mutants, because
those modules have no run. With either one in place, TLC finds the property
violated (two `create_task` calls; load, unload, then a check of `active`).

### Bounds

- **Agent: 3 turns.** That is the fewest in which a note task of turn 1 can
  still be pending and write between the two stores of turn 2 or turn 3, and
  in which two notes can be pending at once. Two tools (one of them
  `add_event`) cover both "registered" branches.
- **VectorSearch: up to 5 records, 3 levels, and zero vectors allowed.**
  With `top_k = 3`, this covers ties, runs of the sort, insertion into the
  middle, NaN on either side of a comparison, and a result cut by `top_k`.
- **BillStore: 2 bills, 4 requests, a clock of 4 units.** The lost-update run
  has 2 request threads, the fewest that interleave. The duplication run
  needs only 1. 4 units is past the three-month cutoff, so archiving happens.
- **Scheduler: now readings and hours at the edges.**
  - now: morning, afternoon, and the last day before `datetime.max`;
  - hours: 8, 14 and 24;
  - offsets: 0, 30 and 3000.

  These cover 12am/12pm, a time equal to now, the roll-over to tomorrow, and
  overflow.
- **Settings: 2 keys (one a default key), 2 values, 3 `set` calls.** A
  crash, a restart and a second `set` fit in this bound, after either a torn
  or a completed write.
- **KnowledgeGraph: 2 nodes, 3 caller dicts, 3 edges.** Three edges are
  enough for a self-loop, an edge each way between the two nodes, and both
  relationships.

### Fairness

`FairSpec` makes the steps of a turn weakly fair:
- **Retrieve:** one step.
- **Generate:** the ok and fail steps together.
- **First store:** the ok and fail steps together.
- **Second store:** the ok and fail steps together.
- **Dispatch:** one step.

The code justifies this. The model and embedding calls run under
`aiohttp.ClientTimeout(total=60)`, web search runs under `urlopen(timeout=20)`,
and the other tools do local work. So every await of a turn resumes, with a
result or an exception.

The user's `ReadLine` and `Exit` are not fair, because `input()` may wait
forever. The note task is not fair either: it runs only while the REPL task is
suspended. So nothing forces a note to be written, and spec 5 calls the note
best-effort.

The REPL may wait for input forever. So `agent_memory` sets
`CHECK_DEADLOCK FALSE`: a finished session has no successor, as in the
program.

## Refinement

`MemoryLog` is the abstract specification, written from the spec:
- the memory is a log of records with fresh sequential ids;
- a turn's output is stored only after its user text;
- every turn prints one result, once.

`Agent` implements it under the mapping `log <- recs`, `printed <- result`. The
REPL's `pc`, its current `plan` and the note tasks are hidden. TLC checks
`MemoryLogSpec` as a property of `agent_memory`, and TLAPS proves it (below).

## Proofs (checked by `tlapm`)

### The REPL session (`AgentProofs.tla`)

- `TypeCorrect`: `Spec => []TypeOK`.
- `OutputAfterInput`: `Spec => []OutputStoredAfterInput`.
- `NoFailedWrites`: `Spec => []NoWritesFromFailedGeneration`.
- `Refinement`: `Spec => MemoryLogSpec`.
- `DispatchFollows`: `Spec => DispatchFollowsSpec`, an action property.

None of these invariants is inductive alone. The inductive invariant is
`IInv == IInvCore /\ IInvTurns`.

`IInvCore` holds what `OutputStoredAfterInput` rests on:
- **`IdsArePositions`**: the record at position i has id i. So `NextId` is
  fresh and `StoreMemory` appends (lemma `StoreAppends`). An overwrite could
  otherwise move a user text behind its output.
- **`TurnUnderWay`**: during a turn, `turn` names a turn.
- **`InputStoredBeforeOutput`**: at `pc = "store2"`, the turn's user text is
  already stored.

`IInvTurns` holds what `NoWritesFromFailedGeneration` and printing once rest on:
- **`ResultPending`**: the turn under way, and every later turn, has printed
  nothing yet.
- **`StoredUpToTurn`**: every stored text belongs to a turn read so far.
- **`NotesOfPastTurns`**: only turns already read have started a note task.
- **`NothingStoredYet`**: until the model returns, the turn has stored nothing
  of its own.

The proof is in three parts:
1. `InitIInv` proves `Init => IInv`.
2. `NextCore` and `NextTurns` prove that each action keeps the invariant, one
   step per action. The append steps rest on lemma `AppendKeeps`.
3. `StepRefines` maps each step to a `MemoryLog` step or a stutter:
   - `Store1Ok` and `NoteStore` map to `StoreOther`;
   - `Store2Ok` maps to `StoreOutput`;
   - `GenerateFail` and `Dispatch` map to `PrintResult`;
   - every other step leaves `recs` and `result` unchanged.

`DispatchFollows` rests on lemma `ExecuteFollowsSpec`: every early return of
the dispatch chain that is not an error is in `SpecResults`. At
`pc = "dispatch"`, only `Dispatch` changes `result`. `NoteStore` and `NoteFail`
need `LoopFree`, and every other action has a different pc guard. `IInv`
supplies `turn \in Turns`.

TLC checked `IInv` as an invariant of `agent_memory` before it was proved.

The proofs use two assumptions:
- `AgentAssumption`: `MaxTurns` is a natural, `AddEvent` is a tool, and the
  distinguished action names are distinct.
- `TextsAssumption`: the texts of every turn are in `Texts`.

### The bill store (`BillStoreProofs.tla`)

- `BillStoreTypeCorrect`: `BillAssumption => (Spec => []TypeOK)`.

The stored value is always a list of bills, for every number of threads,
bills, requests and clock ticks, and for every interleaving of the loads and
stores of concurrent requests, raising loads included. `TypeStep` has one step
per action. Two lemmas carry most of the proof:
- `MarkType`: marking the old bills of a loaded list keeps it a list of bills.
- `LoadsType`: a load that raises gives `[]`, which is a list of bills.

`ActLoad` reads bill `idx + 1` only when `idx` is below the length of the
loaded list. `BillAssumption` asks for at least one bill, since the idle
thread's placeholder bill has uid 1. It is a hypothesis of the theorem: every
BillStore run expects a violation, so no passing run evaluates an ASSUME.

The store's other properties are violated by the code (`NoBillLost`,
`ArchivedStaysArchived`), so there is nothing more to prove about them.

### The scheduler (`SchedulerProofs.tla`)

- `SchedulerTypeCorrect`: `Spec => []TypeOK`.
- `ParseFollowsSpecHolds`: `Spec => []ParseFollowsSpec`.

Both rest on lemma `ParseResult`. For every phrase and every `now`,
`parse_natural_time` returns an element of `Results`, with any time between 0
and `datetime.max`. When the outcome is "ok", its time is `SpecTime`. The
proof has one step per parser rule, in the code's order:
- the absolute date-time;
- "in N minutes/hours" (lemma `ShiftType`);
- "tomorrow", with `replace()` keeping the day (lemma `ReplaceType`);
- the next occurrence of a mentioned time;
- no match.

Lemma `WallSpec` shows that `_apply_ampm` agrees with the 12-hour clock.
Lemma `ChooseEarliest` shows that the candidate after `now` is the one
`SpecTime`'s CHOOSE picks. `TypeOK` is the only strengthening needed: the last
phrase and clock reading are ones the parser takes.

`SchedulerAssumption` says that `datetime.max` is the last minute of a day,
`(MaxMinute + 1) % Day = 0`, and that it comes no earlier than the end of day
1, the day the modelled dates name. Both are true of Python's `datetime.max`
(23:59 on 9999-12-31). Without the first, `replace()` on the day of
`datetime.max` could land past it.

### The settings manager (`SettingsProofs.tla`)

- `SettingsTypeCorrect`: `Spec => []TypeOK`.
- `DurableUntilFallbackHolds`: `Spec => []DurableUntilFallback`.
- `ReadYourSettingsHolds`: `Spec => []ReadYourSettings`.

The durability claim is not inductive. A `WriteDone` writes `data`, so the
dict of the live process must already agree with every acknowledged setting.
The inductive invariant `IInv` adds these conjuncts:
- `PendingOne(pending)`: at most one `set()` is under way. This stands in for
  finiteness, which `Keys` is not assumed to have.
- A missing file means nothing was acknowledged.
- A save is pending only while `write_text` runs, and only a loaded process
  writes.
- `DataAgrees`: until a fallback, a live loaded process's `data` holds every
  acknowledged setting, and the one being saved (`AckedAfter`).

`DataAgrees` is also what `ReadYourSettings` needs: at `pc = "idle"` nothing is
pending, so `AckedAfter` is `acked` (lemma `AckedNone`). The history variable
`fellBack` records whether a `load()` found the file corrupt. Without it, the
theorem would be false: `settings_torn_write` shows the fallback losing
settings. `SettingsAssumption` says the default keys are keys, the default is a
value, and the bounds are naturals.

### The knowledge graph (`KnowledgeGraphProofs.tla`)

- `GraphTypeCorrect`: `Spec => []TypeOK`.
- `EdgesIndexedHolds`: `Spec => []EdgesIndexed`.
- `RelatedFollowsEdgesHolds`: `Spec => []RelatedFollowsEdges`.
- `QueryFollowsEdgesHolds`: `Spec => []QueryFollowsEdges`.

The inductive invariant is `TypeOK /\ HeapRefs /\ EdgesIndexed`:
- `HeapRefs` says every properties reference points into the heap, so
  `dict.update` and `properties or {}` read a dict.
- The endpoint conjunct of `EdgesIndexed` (both ends of every edge are
  nodes) is what makes a new node's empty edge list correct: no edge can
  touch a node that did not exist (lemma `NewNodeIndexed`).
- `add_edge` on a self-loop appends the position twice to one list. The proof
  splits that case.

The two read theorems follow from the invariant in every state:
- `IndexedRelated` matches each listed edge to its other end, and each
  joining edge to a position in the list.
- `IndexedQuery` maps the list onto the incident edges with their
  directions.

`GraphAssumption` says the caller's dicts fit the heap, and that `Absent` is
no list and no node.

### The task manager (`TaskManagerProofs.tla`)

- `TaskTypeCorrect`: `TaskAssumption => (Spec => []TypeOK)`.
- `QueueMatchesTasksHolds`: `TaskAssumption => (Spec => []QueueMatchesTasks)`.

The inductive invariant adds `IdsDense`: the ids in use are exactly
`1..Len(queue)`, and the i-th queued task has id i and is in the dict. Then
`len(self.tasks)` is the length of the queue (lemma `SizeIsLen`, by
`FS_Interval`), and so the next id is fresh. `TaskAssumption` says the bound is
a natural and that `None` is no task. It is a hypothesis of the theorems, not
an ASSUME of the module, because no TLC run evaluates this module.

### The LLM registry (`LLMManagerProofs.tla`)

- `LLMTypeCorrect`: `LLMAssumption => (Spec => []TypeOK)`.
- `ActiveLoadedHolds`: `LLMAssumption => (Spec => []ActiveLoaded)`.

`TypeOK /\ ActiveLoaded` is inductive. There is one lemma per call:
- `load_model` can activate only the name it has just registered;
- `unload_model` clears the name it removes;
- `set_active_model` checks the name.

`LLMAssumption` says names and model ids are strings, and that `None` is
neither. As with the task manager, it is a hypothesis of the theorems.

### Only model-checked

Some results stay with TLC only:
- `TurnAnswered`: liveness and fairness are beyond the prover.
- `VectorSearch`'s `TypeOK`. The sort is a RECURSIVE
  definition, and the module extends `SequencesExt`, which declares RECURSIVE
  operators. The prover loses its SMT backend in such a module. What the sort
  computes for every input would also need induction over data.
- Every violated property (`SettingsDurable`, `NodesOwnProperties`,
  `NoSpuriousError` and the others). The code violates them, so there is
  nothing to prove.

## Findings

- **Id reuse** (`vector_db.py:29`): the id `vec_{len+1}` is reused after a
  delete, and the add overwrites a stored record.
- **Unhashable action name** (`agent_manager.py:76,78`): an action that is a
  JSON list or object raises `TypeError` out of `execute`.
- **Lost update** (`store.py:25`): `save_bill` is a load, an append and a
  store, with no lock. Two concurrent requests lose a bill.
- **Load failure wipes the list** (`store.py:19`): a load that raises is read
  as `[]`, so the next save writes a one-bill list. The `bill_lost_update` run
  sets `LoadFails = FALSE` so that its trace is the concurrent one. With
  `LoadFails = TRUE`, TLC finds the same `NoBillLost` violation from one
  request.
- **NaN ordering** (`vector_db.py:52`): a zero vector gives NaN similarity.
  `<` is false on both sides of NaN, so the binary insertion of `list.sort`
  leaves the NaN record where it stopped. The run's trace keeps `[-1, NaN]` as
  it is. With records scored NaN then 1 and `top_k = 1`, the search returns
  only the NaN record, and the best match is pushed out (checked with
  `Levels = {1}`).
- **Duplication on action** (`api.py:84`): every action appends the changed
  bill instead of replacing it.
- **Torn settings write** (`settings_manager.py:49`): `write_text` truncates
  before it writes. A crash in between leaves a corrupt file, `load()` falls
  back to the defaults, and the next `set()` persists them.
- **Aliased properties** (`knowledge_graph.py:40`): `properties or {}` keeps
  the caller's dict, which is then shared and updated in place.

Observations outside the runs:
- **Parser raises** (`scheduling_agent.py:160`): `replace(hour=24)` raises
  `ValueError`, and timedelta overflow raises `OverflowError`, instead of
  returning None (`ParseTotal`). `add_event` raises `ValueError` for an
  unparseable time anyway, so only the `OverflowError` changes what a caller
  sees.
- **Empty model name** (`llm_manager.py:73`): `load_model("")` registers and
  activates `""`. `generate` then tests `not self.active_model` and raises "No
  active model configured" (`NoSpuriousError`).
- **`HHMM` pattern** (`scheduling_agent.py:88`): the pattern
  `(?(?=\d{2})\d{2})` is not valid in Python's `re`. Importing the module (and
  `main.py`) raises `re.error`. `Scheduler` reads `HHMM` as the intended
  hour:minute match.
- **One-digit hours:** `datetime.fromisoformat("2025-10-01 8:00")` rejects
  them. The model sends such a phrase down the other rules (`IsoOk`).
- **Embedding dimension:** the spec mentions 1536-dimensional embeddings, but
  `build_app` builds the store with 768.

## Not modelled

- **Chroma adapter:** `chromadb` is an optional dependency, and its store is a
  client of an external server.
- **Read-only operations:** `SchedulingAgent.list_events`,
  `KnowledgeGraph.get_node`, `LLMManager.list_models` and the settings
  accessors (`default_llm` and the others). They change no state, and no
  property is about their output. The accessors also convert with `str()` and
  `bool()`, which the abstract values do not model.
- **Task execution:** nothing in the code runs a task. Every status stays
  `pending`, so `get_task_result` always answers None.
- **`settings.py`:** Pydantic environment configuration, read once.
- **I/O tools:** the file, browser and web tools, whose bodies are I/O. To the
  dispatcher, each is a name whose call returns, raises `TypeError` or raises
  something else.
- **Front ends:** the interface shell, the voice/text hooks and the Telegram
  bot, thin I/O front ends over the modelled calls.
- **HTTP and JSON of the providers:** abstracted to the outcomes of
  `generate` and `embed`.
