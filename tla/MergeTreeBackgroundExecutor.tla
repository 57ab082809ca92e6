-------------------- MODULE MergeTreeBackgroundExecutor --------------------
(* The executors of merges and mutations, fetches, moves and cleanups        *)
(* (Storages/MergeTree/MergeTreeBackgroundExecutor): two queues, threads     *)
(* that move a task from one to the other for each of its steps, and the     *)
(* removal of the tasks of a table that is shut down.                        *)
(*                                                                           *)
(* Every method is one critical section of `mutex`, but for complete_task,   *)
(* which calls the task's onCompleted under it: mutex is held over two steps *)
(* there.  The second step, and the callers of trySchedule and               *)
(* removeTasksCorrespondingToStorage, are in BackgroundJobsAssignee.  What a *)
(* step of a task does is abstracted to its end: it wants another one, it is *)
(* the last one, or it throws.                                               *)
EXTENDS Integers, FiniteSets, Sequences, SequencesExt

CONSTANTS
    Executor,
    Dynamic,            \* executors whose policy can be changed (MergeMutate)
    Thread,
    Item,               \* TaskRuntimeData objects
    Home,               \* the executor of a thread or an item
    Assignee, StorageOf,
    Priority,           \* getPriority of an assignee's tasks
    LastMaxTasks,       \* a bound
    Setup,              \* the servers and tables to look at
    NONE

ThreadsOf(e) == {w \in Thread : Home[w] = e}

ASSUME ExecutorAssumption ==
    /\ NONE \notin Assignee \union Thread \union Item
    /\ Dynamic \subseteq Executor
    /\ \A e \in Executor :
        /\ \A s \in Setup : s.max_tasks_count[e] \in 1 .. LastMaxTasks[e]
        /\ Cardinality({i \in Item : Home[i] = e}) >= LastMaxTasks[e]

VARIABLES
    setup,                  \* a member of Setup; does not change
    pending, active,        \* the two queues
    policy,
    max_tasks_count,        \* also the capacity of the two circular buffers
    mutex,                  \* NONE, or the thread inside complete_task
    shutdown,
    asleep,                 \* threads that wait for has_tasks
    pc, item,               \* a thread and the task it executes
    task,                   \* TaskRuntimeData::task: whose it is, NONE when reset
    is_currently_deleting, is_done,
    tasks_to_wait           \* in removeTasksCorrespondingToStorage

queues == <<pending, active>>
config == <<setup, policy, max_tasks_count, shutdown>>
threads == <<asleep, pc, item>>
items == <<task, is_currently_deleting, is_done, tasks_to_wait>>
executorVars == <<queues, config, mutex, threads, items>>

ExecutorInit ==
    /\ setup \in Setup
    /\ pending = [e \in Executor |-> <<>>] /\ active = [e \in Executor |-> <<>>]
    /\ policy = [e \in Executor |-> "round_robin"]
    /\ max_tasks_count = setup.max_tasks_count
    /\ mutex = [e \in Executor |-> NONE]
    /\ shutdown = [e \in Executor |-> FALSE]
    /\ asleep = {}
    /\ pc = [w \in Thread |-> IF w \in setup.threads THEN "loop" ELSE "none"]
    /\ item = [w \in Thread |-> NONE]
    /\ task = [i \in Item |-> NONE]
    /\ is_currently_deleting = {} /\ is_done = {}
    /\ tasks_to_wait = [a \in Assignee |-> <<>>]
-----------------------------------------------------------------------------
(* TaskRuntimeData and the containers                                        *)

Awaited == UNION {Range(tasks_to_wait[a]) : a \in Assignee}

\* Objects with a reference to them: the metric counts them.
Live == {i \in Item : task[i] # NONE} \union Awaited

metric(e) == Cardinality({i \in Live : Home[i] = e})

NewItem(e) == CHOOSE i \in Item : Home[i] = e /\ i \notin Live

\* A full circular buffer overwrites its first element.
push_back(e, q, i) ==
    Append(IF Len(q) = max_tasks_count[e] THEN Tail(q) ELSE q, i)

\* Not used by Spec: a stack.
PushFront(e, i) == <<i>> \o pending[e]

push(e, i) ==
    IF policy[e] = "round_robin" THEN push_back(e, pending[e], i) ELSE Append(pending[e], i)

\* The positions in the queue that pop may take
Poppable(e) ==
    IF policy[e] = "round_robin" THEN {1}
    ELSE {k \in DOMAIN pending[e] : \A l \in DOMAIN pending[e] :
            Priority[task[pending[e][k]]] <= Priority[task[pending[e][l]]]}

\* The orders in which a priority queue can be emptied
ByPriority(q) ==
    {p \in SetToSeqs(Range(q)) : \A k, l \in DOMAIN p :
        k < l => Priority[task[p[k]]] <= Priority[task[p[l]]]}

\* Not used by Spec: no thread is notified.
NobodyNotified(e) == UNCHANGED asleep

notify_one(e) ==
    LET waiting == asleep \intersect ThreadsOf(e) IN
    IF waiting = {} THEN UNCHANGED asleep
    ELSE \E w \in waiting : asleep' = asleep \ {w}
-----------------------------------------------------------------------------
(* Methods                                                                   *)

CanSchedule(e) == ~shutdown[e] /\ metric(e) < max_tasks_count[e]

trySchedule(e, a) ==
    /\ mutex[e] = NONE
    /\ IF CanSchedule(e)
       THEN /\ pending' = [pending EXCEPT ![e] = push(e, NewItem(e))]
            /\ task' = [task EXCEPT ![NewItem(e)] = a]
            /\ notify_one(e)
       ELSE UNCHANGED <<pending, task, asleep>>
    /\ UNCHANGED <<active, config, mutex, pc, item, is_currently_deleting, is_done, tasks_to_wait>>

\* The critical section: pending tasks are cancelled, active ones are marked.
removeTasksCorrespondingToStorage(e, a) ==
    LET OfStorage(i) == StorageOf[task[i]] = StorageOf[a]
        running == SelectSeq(active[e], OfStorage) IN
    /\ mutex[e] = NONE
    /\ pending' = [pending EXCEPT ![e] = SelectSeq(@, LAMBDA i : ~OfStorage(i))]
    /\ task' = [i \in Item |->
            IF i \in Range(pending[e]) /\ OfStorage(i) THEN NONE ELSE task[i]]
    /\ tasks_to_wait' = [tasks_to_wait EXCEPT ![a] = running]
    /\ is_currently_deleting' = is_currently_deleting \union Range(running)
    /\ UNCHANGED <<active, config, mutex, threads, is_done>>

waitForTask(a) ==
    /\ tasks_to_wait[a] # <<>> /\ Head(tasks_to_wait[a]) \in is_done
    /\ tasks_to_wait' = [tasks_to_wait EXCEPT ![a] = Tail(@)]
    /\ is_done' = is_done \ {Head(tasks_to_wait[a])}
    /\ UNCHANGED <<queues, config, mutex, threads, task, is_currently_deleting>>

increaseThreadsAndMaxTasksCount(e, started, n) ==
    /\ e \in setup.reloaded /\ mutex[e] = NONE
    /\ started \subseteq {w \in ThreadsOf(e) : pc[w] = "none"}
    /\ started # {} \/ n > max_tasks_count[e]
    /\ max_tasks_count' = [max_tasks_count EXCEPT ![e] = n]
    /\ pc' = [w \in Thread |-> IF w \in started THEN "loop" ELSE pc[w]]
    /\ UNCHANGED <<queues, setup, policy, shutdown, mutex, asleep, item, items>>

updateSchedulingPolicy(e) ==
    /\ e \in Dynamic \intersect setup.reloaded /\ mutex[e] = NONE
    /\ \/ /\ policy[e] = "round_robin"
          /\ policy' = [policy EXCEPT ![e] = "shortest_task_first"]
          /\ UNCHANGED pending
       \/ /\ policy[e] = "shortest_task_first"
          /\ policy' = [policy EXCEPT ![e] = "round_robin"]
          /\ \E q \in ByPriority(pending[e]) : pending' = [pending EXCEPT ![e] = q]
    /\ UNCHANGED <<active, setup, max_tasks_count, shutdown, mutex, threads, items>>

wait(e) ==
    /\ mutex[e] = NONE
    /\ shutdown' = [shutdown EXCEPT ![e] = TRUE]
    /\ asleep' = asleep \ ThreadsOf(e)
    /\ UNCHANGED <<queues, setup, policy, max_tasks_count, mutex, pc, item, items>>
-----------------------------------------------------------------------------
(* threadFunction and routine                                                *)

Awake(w) == pc[w] = "loop" /\ w \notin asleep /\ mutex[Home[w]] = NONE

fallAsleep(w) ==
    /\ Awake(w) /\ ~shutdown[Home[w]] /\ pending[Home[w]] = <<>>
    /\ asleep' = asleep \union {w}
    /\ UNCHANGED <<queues, config, mutex, pc, item, items>>

wakeSpuriously(w) ==
    /\ w \in asleep
    /\ asleep' = asleep \ {w}
    /\ UNCHANGED <<queues, config, mutex, pc, item, items>>

stop(w) ==
    /\ Awake(w) /\ shutdown[Home[w]]
    /\ pc' = [pc EXCEPT ![w] = "stopped"]
    /\ UNCHANGED <<queues, config, mutex, asleep, item, items>>

takeTask(w) ==
    LET e == Home[w] IN
    /\ Awake(w) /\ ~shutdown[e] /\ pending[e] # <<>>
    /\ \E k \in Poppable(e) :
        /\ pending' = [pending EXCEPT ![e] = RemoveAt(@, k)]
        /\ active' = [active EXCEPT ![e] = push_back(e, @, pending[e][k])]
        /\ item' = [item EXCEPT ![w] = pending[e][k]]
    /\ pc' = [pc EXCEPT ![w] = "step"]
    /\ UNCHANGED <<config, mutex, asleep, items>>

erase_from_active(w) ==
    active' = [active EXCEPT ![Home[w]] = SelectSeq(@, LAMBDA i : i # item[w])]

\* Without a reference in tasks_to_wait the object is gone.
release_task(w) ==
    /\ task' = [task EXCEPT ![item[w]] = NONE]
    /\ is_done' = is_done \union ({item[w]} \intersect Awaited)
    /\ is_currently_deleting' = is_currently_deleting \ {item[w]}
    /\ item' = [item EXCEPT ![w] = NONE]
    /\ pc' = [pc EXCEPT ![w] = "loop"]
    /\ UNCHANGED tasks_to_wait

StepEnds(w) == pc[w] = "step" /\ mutex[Home[w]] = NONE

Requeue(w) ==
    LET e == Home[w] IN
    /\ pending' = [pending EXCEPT ![e] = push(e, item[w])]
    /\ notify_one(e)
    /\ item' = [item EXCEPT ![w] = NONE]
    /\ pc' = [pc EXCEPT ![w] = "loop"]
    /\ UNCHANGED items

\* Not used by Spec: a task that is being deleted is executed further.
DeletedGoesOn(w) ==
    /\ StepEnds(w)
    /\ erase_from_active(w)
    /\ Requeue(w)
    /\ UNCHANGED <<config, mutex>>

\* Not used by Spec: a task stays in active between its steps.
StaysActive(w) ==
    /\ StepEnds(w)
    /\ IF item[w] \in is_currently_deleting
       THEN erase_from_active(w) /\ release_task(w) /\ UNCHANGED <<pending, asleep>>
       ELSE Requeue(w) /\ UNCHANGED active
    /\ UNCHANGED <<config, mutex>>

\* executeStep returned true
restart_task(w) ==
    /\ StepEnds(w)
    /\ erase_from_active(w)
    /\ IF item[w] \in is_currently_deleting
       THEN release_task(w) /\ UNCHANGED <<pending, asleep>>
       ELSE Requeue(w)
    /\ UNCHANGED <<config, mutex>>

\* Not used by Spec: onCompleted is called without mutex.
CompletesUnlocked(w) ==
    /\ StepEnds(w)
    /\ erase_from_active(w)
    /\ notify_one(Home[w])
    /\ pc' = [pc EXCEPT ![w] = "completed"]
    /\ UNCHANGED <<pending, config, mutex, item, items>>

\* executeStep returned false: up to the call of onCompleted
complete_task(w) ==
    /\ StepEnds(w)
    /\ mutex' = [mutex EXCEPT ![Home[w]] = w]
    /\ erase_from_active(w)
    /\ notify_one(Home[w])
    /\ pc' = [pc EXCEPT ![w] = "completed"]
    /\ UNCHANGED <<pending, config, item, items>>

\* ... and behind it
completeTaskEnd(w) ==
    /\ pc[w] = "completed"
    /\ release_task(w)
    /\ mutex' = [mutex EXCEPT ![Home[w]] = NONE]
    /\ UNCHANGED <<queues, config, asleep>>

\* executeStep threw an exception
cancel_task(w) ==
    /\ StepEnds(w)
    /\ erase_from_active(w)
    /\ notify_one(Home[w])
    /\ release_task(w)
    /\ UNCHANGED <<pending, config, mutex>>

ThreadLoops(w) == fallAsleep(w) \/ stop(w) \/ takeTask(w)
ThreadEndsStep(w) == restart_task(w) \/ complete_task(w) \/ cancel_task(w)

ExecutorStep ==
    \/ \E w \in Thread : ThreadLoops(w) \/ wakeSpuriously(w) \/ ThreadEndsStep(w)
    \/ \E e \in Executor : updateSchedulingPolicy(e)
    \/ \E e \in Executor, started \in SUBSET Thread :
        \E n \in max_tasks_count[e] .. LastMaxTasks[e] : increaseThreadsAndMaxTasksCount(e, started, n)
=============================================================================
