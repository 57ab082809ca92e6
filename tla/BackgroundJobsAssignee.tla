----------------------- MODULE BackgroundJobsAssignee -----------------------
(* The assignees of a MergeTree table (Storages/MergeTree/                   *)
(* BackgroundJobsAssignee), each a task of the schedule pool that looks for  *)
(* a job and gives it to an executor, together with what starts, triggers    *)
(* and ends them: the table's startup, shutdown and destructor, the loss and *)
(* return of its ZooKeeper session, and queries.                             *)
(*                                                                           *)
(* The executors are MergeTreeBackgroundExecutor; the schedule pool is what  *)
(* it promises, ScheduledTask.  trigger and postpone hold holder_mutex for   *)
(* one step of the pool and are one step here; start is two.                 *)
EXTENDS MergeTreeBackgroundExecutor

CONSTANTS
    Storage,
    DataProcessing, Moving, \* the assignees of a table
    ExecutorOrder,          \* in which finish goes through the executors
    MovesExecutor, CommonExecutor,
    Watched,                \* tasks that may not starve
    MaxRestarts, MaxAlters

ASSUME AssigneeAssumption ==
    /\ DataProcessing \in [Storage -> Assignee] /\ Moving \in [Storage -> Assignee \union {NONE}]
    /\ ToSet(ExecutorOrder) = Executor /\ MovesExecutor \in Executor

VARIABLES
    deactivated, scheduled, delayed, executing, held,   \* of ScheduledTask
    holder,             \* assignees whose holder is set
    holder_mutex,       \* who is inside start
    func, jobs,         \* threadFunc, and the executors it has yet to schedule on
    finish, to_clear,   \* finish, and the executors it has yet to go through
    stage, calls,       \* a table's life, and the calls it has yet to make
    query,
    restarts, alters

poolVars == <<deactivated, scheduled, delayed, executing, held>>
holderVars == <<holder, holder_mutex>>
funcVars == <<func, jobs>>
finishVars == <<finish, to_clear>>
storageVars == <<stage, calls, restarts>>
queryVars == <<query, alters>>
assigneeVars == <<poolVars, holderVars, funcVars, finishVars, storageVars, queryVars>>
vars == <<executorVars, assigneeVars>>

Pool == INSTANCE ScheduledTask WITH Task <- Assignee

Init ==
    /\ ExecutorInit /\ Pool!Init
    /\ holder = {} /\ holder_mutex = [a \in Assignee |-> "free"]
    /\ func = [a \in Assignee |-> "idle"] /\ jobs = [a \in Assignee |-> <<>>]
    /\ finish = [a \in Assignee |-> "none"] /\ to_clear = [a \in Assignee |-> <<>>]
    /\ stage = [s \in Storage |-> "new"] /\ calls = [s \in Storage |-> <<>>]
    /\ query = [s \in Storage |-> "none"]
    /\ restarts = 0 /\ alters = 0
-----------------------------------------------------------------------------
(* Methods of an assignee                                                    *)

trigger(a) ==
    /\ holder_mutex[a] = "free"
    /\ IF a \in holder \ deactivated THEN Pool!Schedule(a) ELSE UNCHANGED poolVars

postpone(a) ==
    /\ holder_mutex[a] = "free"
    /\ IF a \in holder \ (deactivated \union scheduled)
       THEN Pool!ScheduleAfter(a) ELSE UNCHANGED poolVars

\* Not used by Spec: a refused task is not asked for again.
OnlySuccessReported(a, e, outcome) ==
    \/ outcome = "scheduled" /\ trigger(a)
    \/ outcome = "scheduled" /\ e = CommonExecutor /\ postpone(a)
    \/ outcome = "refused" /\ UNCHANGED poolVars

\* After trySchedule on e.  scheduleCommonTask need not trigger.
Report(a, e, outcome) ==
    \/ outcome = "scheduled" /\ trigger(a)
    \/ (outcome = "refused" \/ e = CommonExecutor) /\ postpone(a)

Outcome(e) == IF CanSchedule(e) THEN "scheduled" ELSE "refused"

\* holder is created under holder_mutex, ...
startBegin(a, caller) ==
    /\ holder_mutex[a] = "free"
    /\ holder_mutex' = [holder_mutex EXCEPT ![a] = caller]
    /\ holder' = holder \union {a}
    /\ UNCHANGED <<executorVars, poolVars, funcVars, finishVars>>

\* ... and activated under it.
startEnd(a) ==
    /\ holder_mutex[a] # "free"
    /\ Pool!ActivateAndSchedule(a)
    /\ holder_mutex' = [holder_mutex EXCEPT ![a] = "free"]
    /\ UNCHANGED <<executorVars, holder, funcVars, finishVars>>
-----------------------------------------------------------------------------
(* threadFunc                                                                *)

\* When a delay has passed.  Like the next one, also when it was cancelled:
\* ScheduledTask allows it, and the pool does it.
poolSchedules(a) ==
    /\ a \in holder /\ Pool!Schedule(a)
    /\ UNCHANGED <<executorVars, holderVars, funcVars, finishVars, storageVars, queryVars>>

threadFunc(a) ==
    /\ a \in holder /\ Pool!Start(a)
    /\ func' = [func EXCEPT ![a] = "select"]
    /\ UNCHANGED <<executorVars, holderVars, jobs, finishVars, storageVars, queryVars>>

\* Nothing to do, blocked or an exception
selectNothing(a) ==
    /\ func[a] = "select"
    /\ postpone(a)
    /\ func' = [func EXCEPT ![a] = "return"]
    /\ UNCHANGED <<executorVars, holderVars, jobs, finishVars, storageVars, queryVars>>

\* StorageMergeTree and the moves look at shutdown_called or a blocker first,
\* StorageReplicatedMergeTree selects from its queue until it is stopped.
selectJobs(a) ==
    /\ func[a] = "select"
    /\ \/ stage[StorageOf[a]] = "running"
       \/ StorageOf[a] \in setup.replicated /\ a = DataProcessing[StorageOf[a]]
    /\ \E j \in setup.jobs[a] : jobs' = [jobs EXCEPT ![a] = j]
    /\ func' = [func EXCEPT ![a] = "schedule"]
    /\ UNCHANGED <<executorVars, poolVars, holderVars, finishVars, storageVars, queryVars>>

scheduleJob(a) ==
    /\ func[a] = "schedule"
    /\ trySchedule(Head(jobs[a]), a)
    /\ func' = [func EXCEPT ![a] = Outcome(Head(jobs[a]))]
    /\ UNCHANGED <<poolVars, holderVars, jobs, finishVars, storageVars, queryVars>>

\* When trySchedule refused, threadFunc may postpone again, which changes nothing.
reportJob(a) ==
    /\ func[a] \in {"scheduled", "refused"}
    /\ Report(a, Head(jobs[a]), func[a])
    /\ jobs' = [jobs EXCEPT ![a] = Tail(@)]
    /\ func' = [func EXCEPT ![a] = IF Len(jobs[a]) = 1 THEN "return" ELSE "schedule"]
    /\ UNCHANGED <<executorVars, holderVars, finishVars, storageVars, queryVars>>

threadFuncEnds(a) ==
    /\ func[a] = "return" /\ Pool!End(a)
    /\ func' = [func EXCEPT ![a] = "idle"]
    /\ UNCHANGED <<executorVars, holderVars, jobs, finishVars, storageVars, queryVars>>

ThreadFuncStep(a) ==
    selectNothing(a) \/ selectJobs(a) \/ scheduleJob(a) \/ reportJob(a) \/ threadFuncEnds(a)

\* The callback of a task, called in complete_task with the executor's mutex held: it
\* waits for holder_mutex and does not throw (noexcept).
onCompleted(w) ==
    /\ completeTaskEnd(w)
    /\ trigger(task[item[w]]) \/ postpone(task[item[w]])
    /\ UNCHANGED <<holderVars, funcVars, finishVars, storageVars, queryVars>>
-----------------------------------------------------------------------------
(* finish                                                                    *)

finishLock(a) ==
    /\ finish[a] = "deactivate" /\ Pool!Lock(a)
    /\ finish' = [finish EXCEPT ![a] = "locked"]
    /\ UNCHANGED <<executorVars, holderVars, funcVars, to_clear, storageVars, queryVars>>

finishDeactivate(a) ==
    /\ finish[a] = "locked" /\ Pool!Deactivate(a)
    /\ finish' = [finish EXCEPT ![a] = "remove"]
    /\ to_clear' = [to_clear EXCEPT ![a] = ExecutorOrder]
    /\ UNCHANGED <<executorVars, holderVars, funcVars, storageVars, queryVars>>

finishRemove(a) ==
    /\ finish[a] = "remove" /\ to_clear[a] # <<>> /\ tasks_to_wait[a] = <<>>
    /\ removeTasksCorrespondingToStorage(Head(to_clear[a]), a)
    /\ to_clear' = [to_clear EXCEPT ![a] = Tail(@)]
    /\ UNCHANGED <<poolVars, holderVars, funcVars, finish, storageVars, queryVars>>

finishWait(a) ==
    /\ waitForTask(a)
    /\ UNCHANGED <<poolVars, holderVars, funcVars, finishVars, storageVars, queryVars>>

finishEnd(a) ==
    /\ finish[a] = "remove" /\ to_clear[a] = <<>> /\ tasks_to_wait[a] = <<>>
    /\ finish' = [finish EXCEPT ![a] = "none"]
    /\ calls' = [calls EXCEPT ![StorageOf[a]] = Tail(@)]
    /\ UNCHANGED <<executorVars, poolVars, holderVars, funcVars, to_clear, stage, restarts, queryVars>>

FinishStep(a) == finishLock(a) \/ finishDeactivate(a) \/ finishRemove(a) \/ finishWait(a) \/ finishEnd(a)
-----------------------------------------------------------------------------
(* A table                                                                   *)

Enter(s, from, to, todo) ==
    /\ stage[s] = from /\ calls[s] = <<>>
    /\ stage' = [stage EXCEPT ![s] = to]
    /\ calls' = [calls EXCEPT ![s] = todo]
    /\ UNCHANGED <<executorVars, poolVars, holderVars, funcVars, finishVars, queryVars>>

areBackgroundMovesNeeded(s) == s \in setup.several_disks

startup(s) ==
    /\ s \in setup.tables
    /\ Enter(s, "new", "running",
            << <<"start", DataProcessing[s]>> >> \o
            IF areBackgroundMovesNeeded(s) THEN << <<"start", Moving[s]>> >> ELSE <<>>)
    /\ UNCHANGED restarts

\* The restarting thread finds the session expired, ...
partialShutdown(s) ==
    /\ s \in setup.replicated /\ restarts < MaxRestarts
    /\ Enter(s, "running", "readonly", << <<"finish", DataProcessing[s]>> >>)
    /\ restarts' = restarts + 1

\* ... and a later round of it has a new one.
setNotReadonly(s) ==
    /\ Enter(s, "readonly", "running", << <<"start", DataProcessing[s]>> >>)
    /\ UNCHANGED restarts

\* The restarting thread is stopped before.
shutdownTable(s) ==
    /\ s \in setup.dropped
    /\ \E from \in {"running", "readonly"} :
        Enter(s, from, "shutdown", << <<"finish", DataProcessing[s]>>, <<"finish", Moving[s]>> >>)
    /\ UNCHANGED restarts

\* No query uses the table any more; the members are destroyed in reverse order.
destroy(s) ==
    /\ query[s] = "none"
    /\ Enter(s, "shutdown", "destroyed", << <<"finish", Moving[s]>>, <<"finish", DataProcessing[s]>> >>)
    /\ UNCHANGED restarts

callStart(s) ==
    /\ calls[s] # <<>> /\ calls[s][1][1] = "start"
    /\ startBegin(calls[s][1][2], "table")
    /\ UNCHANGED <<storageVars, queryVars>>

callStartEnds(s) ==
    /\ calls[s] # <<>> /\ calls[s][1][1] = "start" /\ holder_mutex[calls[s][1][2]] = "table"
    /\ startEnd(calls[s][1][2])
    /\ calls' = [calls EXCEPT ![s] = Tail(@)]
    /\ UNCHANGED <<stage, restarts, queryVars>>

\* finish reads holder without holder_mutex.
callFinish(s) ==
    /\ calls[s] # <<>> /\ calls[s][1][1] = "finish"
    /\ LET a == calls[s][1][2] IN
       /\ finish[a] = "none"
       /\ IF a \in holder
          THEN finish' = [finish EXCEPT ![a] = "deactivate"] /\ UNCHANGED calls
          ELSE calls' = [calls EXCEPT ![s] = Tail(@)] /\ UNCHANGED finish
    /\ UNCHANGED <<executorVars, poolVars, holderVars, funcVars, to_clear, stage, restarts, queryVars>>

CallStep(s) == callStart(s) \/ callStartEnds(s) \/ callFinish(s)

\* The server stops: tables have been shut down before.
waitExecutor(e) ==
    /\ \A s \in setup.tables : stage[s] = "destroyed" \/ (stage[s] = "shutdown" /\ calls[s] = <<>>)
    /\ ~shutdown[e] /\ wait(e)
    /\ UNCHANGED <<poolVars, holderVars, funcVars, finishVars, storageVars, queryVars>>
-----------------------------------------------------------------------------
(* Queries, which keep the table alive                                       *)

Usable(s) == stage[s] \in {"running", "readonly", "shutdown"}

\* INSERT, SYSTEM START MERGES, ...
queryTrigger(a) ==
    /\ Usable(StorageOf[a]) /\ trigger(a)
    /\ UNCHANGED <<executorVars, holderVars, funcVars, finishVars, storageVars, queryVars>>

\* ALTER TABLE MOVE
movePartsToSpace(s) ==
    /\ Usable(s) /\ query[s] = "none" /\ areBackgroundMovesNeeded(s)
    /\ trySchedule(MovesExecutor, Moving[s])
    /\ query' = [query EXCEPT ![s] = Outcome(MovesExecutor)]
    /\ UNCHANGED <<poolVars, holderVars, funcVars, finishVars, storageVars, alters>>

movePartsReports(s) ==
    /\ query[s] \in {"scheduled", "refused"}
    /\ Report(Moving[s], MovesExecutor, query[s])
    /\ query' = [query EXCEPT ![s] = "none"]
    /\ UNCHANGED <<executorVars, holderVars, funcVars, finishVars, storageVars, alters>>

\* ALTER TABLE MODIFY SETTING storage_policy
changeSettings(s) ==
    /\ alters < MaxAlters /\ Usable(s) /\ query[s] = "none" /\ areBackgroundMovesNeeded(s)
    /\ startBegin(Moving[s], "query")
    /\ query' = [query EXCEPT ![s] = "start"]
    /\ alters' = alters + 1
    /\ UNCHANGED storageVars

changeSettingsEnds(s) ==
    /\ query[s] = "start"
    /\ startEnd(Moving[s])
    /\ query' = [query EXCEPT ![s] = "none"]
    /\ UNCHANGED <<storageVars, alters>>

QueryEnds(s) == movePartsReports(s) \/ changeSettingsEnds(s)
-----------------------------------------------------------------------------
Next ==
    \/ ExecutorStep /\ UNCHANGED assigneeVars
    \/ \E w \in Thread : onCompleted(w)
    \/ \E a \in Assignee :
        poolSchedules(a) \/ threadFunc(a) \/ ThreadFuncStep(a) \/ FinishStep(a) \/ queryTrigger(a)
    \/ \E s \in Storage :
        \/ startup(s) \/ partialShutdown(s) \/ setNotReadonly(s) \/ shutdownTable(s) \/ destroy(s) \/ CallStep(s)
        \/ movePartsToSpace(s) \/ changeSettings(s) \/ QueryEnds(s)
    \/ \E e \in Executor : waitExecutor(e)

Spec == Init /\ [][Next]_vars

TableStep(s) == CallStep(s) \/ \E a \in Assignee : StorageOf[a] = s /\ FinishStep(a)

\* Threads run and steps of tasks end.  threadFunc and finish also get a mutex
\* that is free again and again.
Fairness ==
    /\ \A w \in Thread :
        WF_vars(onCompleted(w) \/ ((ThreadLoops(w) \/ ThreadEndsStep(w)) /\ UNCHANGED assigneeVars))
    /\ \A a \in Assignee : SF_vars(ThreadFuncStep(a))
    /\ \A s \in Storage : SF_vars(TableStep(s)) /\ WF_vars(QueryEnds(s))

FairSpec == Spec /\ Fairness
-----------------------------------------------------------------------------
(* Properties                                                                *)

\* The invariant of MergeTreeBackgroundExecutor.h: a task is in one of the two
\* queues, once, in active as long as a thread executes it, and no task is
\* overwritten in a full buffer.
OneQueue == \A e \in Executor :
    /\ IsInjective(pending[e] \o active[e])
    /\ ToSet(active[e]) = {item[w] : w \in {v \in ThreadsOf(e) : pc[v] = "step"}}
    /\ \A i \in Item : Home[i] = e =>
        (task[i] # NONE <=> i \in ToSet(pending[e] \o active[e]) \union {item[w] : w \in ThreadsOf(e)})

\* When the destructor of an assignee returns, none of its tasks is left and
\* its function will not run: nothing refers to the table that is destroyed.
NoTaskOutlivesTable == \A s \in Storage : \A a \in {DataProcessing[s], Moving[s]} \ {NONE} :
    stage[s] = "destroyed" /\ <<"finish", a>> \notin ToSet(calls[s]) =>
        /\ \A i \in Item : task[i] # a
        /\ a \notin scheduled \union delayed \union executing

\* An assignee that is active comes back to look for jobs.
ActiveComesBack == \A a \in holder \ deactivated :
    holder_mutex[a] = "free" => a \in scheduled \union delayed \union executing

\* Neither a task nor the shutdown waits for a thread that sleeps.
NoSleepThroughWork == \A e \in Executor :
    asleep \intersect ThreadsOf(e) # {} =>
        /\ Len(pending[e]) <= Cardinality({w \in ThreadsOf(e) \ asleep : pc[w] = "loop"})
        /\ ~shutdown[e]

\* shutdown, the destructor and the restarting thread get through finish.
FinishReturns == []<>(\A s \in Storage : calls[s] = <<>>)

\* With round robin no task starves, however many steps the others take.
NoTaskStarves == \A i \in Watched : LET e == Home[i] IN
    []<>(i \notin ToSet(pending[e]) \/ policy[e] # "round_robin" \/ shutdown[e])
=============================================================================
