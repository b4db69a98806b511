---------------------------- MODULE TaskManager ----------------------------
(***************************************************************************)
(* TaskManager (src/bantu_os/agents/task_manager.py): the dict of tasks    *)
(* and the task queue, under create_task, get_task_status and             *)
(* get_task_result.                                                        *)
(*                                                                         *)
(* A task id f"task_{n}" is modelled by n: the formatting is injective.    *)
(* name, description and parameters are abstracted to one request, a      *)
(* member of Requests.  The Task object is shared by the dict and the      *)
(* queue; nothing changes a task once made, so a record stands for it.     *)
(***************************************************************************)
EXTENDS Naturals, Sequences, FiniteSets

CONSTANTS
    Requests,   \* what create_task is called with
    None,       \* Python None
    MaxTasks    \* bound on create_task

(* TaskStatus and the Task dataclass. *)
TaskStatus == {"pending", "running", "completed", "failed"}
TaskIds == 1..MaxTasks
Task == [id : TaskIds, req : Requests, status : TaskStatus,
         result : {None}, error : {None}]

(* What the proofs assume of the constants: the bound is a natural and   *)
(* None is no task.                                                        *)
TaskAssumption == MaxTasks \in Nat /\ None \notin Task

VARIABLES
    tasks,   \* self.tasks: tasks[n] is the task "task_n", or None
    queue,   \* self.task_queue
    reply    \* what the last get_task_status or get_task_result returned

vars == <<tasks, queue, reply>>

TypeOK ==
    /\ tasks \in [TaskIds -> Task \cup {None}]
    /\ queue \in Seq(Task)
    /\ reply \in TaskStatus \cup {None}

(* len(self.tasks) *)
Size == Cardinality({n \in TaskIds : tasks[n] # None})

(* TaskManager(): no tasks. *)
Init ==
    /\ tasks = [n \in TaskIds |-> None]
    /\ queue = <<>>
    /\ reply = None

(* Mutant: the task is queued but not put in the dict. *)
CreateTaskQueueOnly(q) ==
    LET task == [id |-> Size + 1, req |-> q, status |-> "pending",
                 result |-> None, error |-> None]
    IN  /\ Size < MaxTasks
        /\ queue' = Append(queue, task)
        /\ UNCHANGED <<tasks, reply>>

(***************************************************************************)
(* create_task(name, description, parameters): a pending task with id     *)
(* task_{len(self.tasks) + 1}, stored in the dict under its id and        *)
(* appended to the queue.                                                  *)
(***************************************************************************)
CreateTask(q) ==
    LET task == [id |-> Size + 1, req |-> q, status |-> "pending",
                 result |-> None, error |-> None]
    IN  /\ Size < MaxTasks
        /\ tasks' = [tasks EXCEPT ![task.id] = task]
        /\ queue' = Append(queue, task)
        /\ UNCHANGED reply

(* get_task_status(task_id): the status of a task in the dict, else None. *)
GetTaskStatus(n) ==
    /\ reply' = IF tasks[n] # None THEN tasks[n].status ELSE None
    /\ UNCHANGED <<tasks, queue>>

(* get_task_result(task_id): the result of a completed task, else None. *)
GetTaskResult(n) ==
    /\ reply' = IF tasks[n] # None /\ tasks[n].status = "completed"
                THEN tasks[n].result ELSE None
    /\ UNCHANGED <<tasks, queue>>

Next ==
    \/ \E q \in Requests : CreateTask(q)
    \/ \E n \in TaskIds : GetTaskStatus(n) \/ GetTaskResult(n)

Spec == Init /\ [][Next]_vars

-----------------------------------------------------------------------------
(***************************************************************************)
(* The dict and the queue hold the same tasks: each queued task is the one *)
(* the dict holds under its id, no two queued tasks share an id, and every *)
(* task of the dict is queued.  create_task takes its id from             *)
(* len(self.tasks), so this holds only as long as every created task      *)
(* reaches the dict and none leaves it; a task overwritten in the dict     *)
(* would stay queued under an id that now names another.                  *)
(***************************************************************************)
QueueMatchesTasks ==
    /\ \A i \in DOMAIN queue : tasks[queue[i].id] = queue[i]
    /\ \A i, j \in DOMAIN queue : i # j => queue[i].id # queue[j].id
    /\ \A n \in TaskIds : tasks[n] # None => \E i \in DOMAIN queue : queue[i] = tasks[n]

=============================================================================
