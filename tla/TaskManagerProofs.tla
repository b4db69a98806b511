------------------------- MODULE TaskManagerProofs -------------------------
(***************************************************************************)
(* Proofs about TaskManager (TaskManager.tla): for every bound and every   *)
(* set of requests, the state is well typed and the dict and the queue     *)
(* hold the same tasks.                                                    *)
(***************************************************************************)
EXTENDS TaskManager, FiniteSetTheorems, TLAPS

(***************************************************************************)
(* The ids in use are task_1 .. task_k for the k tasks queued, the i-th    *)
(* queued task has id i, and the dict holds it.  So len(self.tasks) is the *)
(* length of the queue, and the next id is fresh.                          *)
(***************************************************************************)
IdsDense ==
    /\ {n \in TaskIds : tasks[n] # None} = 1..Len(queue)
    /\ \A i \in DOMAIN queue : queue[i].id = i /\ tasks[i] = queue[i]

IInv == TypeOK /\ IdsDense
-----------------------------------------------------------------------------
(* Where the ids are dense, len(self.tasks) is the length of the queue. *)
LEMMA SizeIsLen ==
  ASSUME TypeOK, IdsDense
  PROVE  Size = Len(queue)
  <1>1. Len(queue) \in Nat
    BY DEF TypeOK
  <1>2. Cardinality(1..Len(queue)) = Len(queue)
    <2>1. Cardinality(1..Len(queue)) = IF 1 > Len(queue) THEN 0 ELSE Len(queue) - 1 + 1
      BY <1>1, FS_Interval
    <2> QED
      BY <1>1, <2>1
  <1>3. {n \in TaskIds : tasks[n] # None} = 1..Len(queue)
    BY DEF IdsDense
  <1> QED
    BY <1>2, <1>3 DEF Size

(* A dense state satisfies QueueMatchesTasks. *)
LEMMA DenseMatches ==
  ASSUME TypeOK, IdsDense
  PROVE  QueueMatchesTasks
  <1>1. \A i \in DOMAIN queue : tasks[queue[i].id] = queue[i]
    BY DEF IdsDense
  <1>2. \A i, j \in DOMAIN queue : i # j => queue[i].id # queue[j].id
    BY DEF IdsDense
  <1>3. ASSUME NEW n \in TaskIds, tasks[n] # None
        PROVE  \E i \in DOMAIN queue : queue[i] = tasks[n]
    <2>1. n \in 1..Len(queue)
      BY <1>3 DEF IdsDense
    <2>2. n \in DOMAIN queue /\ queue[n] = tasks[n]
      BY <2>1 DEF IdsDense, TypeOK
    <2> QED
      BY <2>2
  <1> QED
    BY <1>1, <1>2, <1>3 DEF QueueMatchesTasks

LEMMA InitIInv == Init => IInv
  <1> SUFFICES ASSUME Init PROVE IInv
    OBVIOUS
  <1>1. None \in Task \cup {None}
    OBVIOUS
  <1>2. TypeOK
    BY <1>1 DEF Init, TypeOK
  <1>3. IdsDense
    BY DEF Init, IdsDense
  <1> QED
    BY <1>2, <1>3 DEF IInv

(* create_task keeps the ids dense: the new task gets id Len(queue) + 1. *)
LEMMA CreateTaskIInv ==
  ASSUME TaskAssumption, IInv, NEW q \in Requests, CreateTask(q)
  PROVE  IInv'
  <1> DEFINE k == Len(queue)
             task == [id |-> k + 1, req |-> q, status |-> "pending",
                      result |-> None, error |-> None]
  <1>1. Size = k /\ k \in Nat
    BY SizeIsLen DEF IInv, TypeOK
  <1>2. k < MaxTasks /\ MaxTasks \in Nat
    BY <1>1 DEF TaskAssumption, CreateTask
  <1>3. task \in Task /\ task # None
    BY <1>2 DEF TaskAssumption, Task, TaskStatus, TaskIds
  <1>4. tasks' = [tasks EXCEPT ![k + 1] = task] /\ queue' = Append(queue, task)
        /\ reply' = reply
    BY <1>1 DEF CreateTask
  <1>5. k + 1 \in TaskIds
    BY <1>2 DEF TaskIds
  <1>6. TypeOK'
    BY <1>3, <1>4, <1>5 DEF IInv, TypeOK
  <1>7. {n \in TaskIds : tasks'[n] # None} = 1..Len(queue')
    <2>1. {n \in TaskIds : tasks[n] # None} = 1..k
      BY DEF IInv, IdsDense
    <2>2. Len(queue') = k + 1
      BY <1>4 DEF IInv, TypeOK
    <2> QED
      BY <1>3, <1>4, <1>5, <2>1, <2>2 DEF IInv, TypeOK
  <1>8. \A i \in DOMAIN queue' : queue'[i].id = i /\ tasks'[i] = queue'[i]
    <2>1. \A i \in 1..k : queue[i].id = i /\ tasks[i] = queue[i]
      BY DEF IInv, IdsDense, TypeOK
    <2> QED
      BY <1>4, <1>5, <2>1 DEF IInv, TypeOK
  <1> QED
    BY <1>6, <1>7, <1>8 DEF IInv, IdsDense

(* The reads change only the reply. *)
LEMMA ReadIInv ==
  ASSUME IInv, NEW n \in TaskIds, GetTaskStatus(n) \/ GetTaskResult(n)
  PROVE  IInv'
  <1>1. UNCHANGED <<tasks, queue>>
    BY DEF GetTaskStatus, GetTaskResult
  <1>2. reply' \in TaskStatus \cup {None}
    <2>1. tasks[n] \in Task \cup {None}
      BY DEF IInv, TypeOK
    <2> QED
      BY <2>1 DEF GetTaskStatus, GetTaskResult, Task
  <1> QED
    BY <1>1, <1>2 DEF IInv, TypeOK, IdsDense

LEMMA NextIInv == TaskAssumption /\ IInv /\ [Next]_vars => IInv'
  <1> SUFFICES ASSUME TaskAssumption, IInv, [Next]_vars PROVE IInv'
    OBVIOUS
  <1>1. CASE \E q \in Requests : CreateTask(q)
    BY <1>1, CreateTaskIInv
  <1>2. CASE \E n \in TaskIds : GetTaskStatus(n) \/ GetTaskResult(n)
    BY <1>2, ReadIInv
  <1>3. CASE UNCHANGED vars
    BY <1>3 DEF vars, IInv, TypeOK, IdsDense
  <1> QED
    BY <1>1, <1>2, <1>3 DEF Next

-----------------------------------------------------------------------------
(* Where the bound is a natural, every reachable state of the task       *)
(* manager is well typed.                                                  *)
THEOREM TaskTypeCorrect == TaskAssumption => (Spec => []TypeOK)
  <1> SUFFICES ASSUME TaskAssumption PROVE Spec => []TypeOK
    OBVIOUS
  <1>1. IInv => TypeOK
    BY DEF IInv
  <1>2. IInv /\ [Next]_vars => IInv'
    BY NextIInv
  <1> QED
    BY InitIInv, <1>1, <1>2, PTL DEF Spec

(***************************************************************************)
(* For every natural bound and any sequence of create_task and reads, the dict and *)
(* the queue hold the same tasks, each queued once under an id no other    *)
(* queued task has: create_task's id from len(self.tasks) never overwrites *)
(* a task.                                                                 *)
(***************************************************************************)
THEOREM QueueMatchesTasksHolds == TaskAssumption => (Spec => []QueueMatchesTasks)
  <1> SUFFICES ASSUME TaskAssumption PROVE Spec => []QueueMatchesTasks
    OBVIOUS
  <1>1. IInv => QueueMatchesTasks
    BY DenseMatches DEF IInv
  <1>2. IInv /\ [Next]_vars => IInv'
    BY NextIInv
  <1> QED
    BY InitIInv, <1>1, <1>2, PTL DEF Spec
=============================================================================
