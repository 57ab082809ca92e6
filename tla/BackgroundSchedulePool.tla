----------------------- MODULE BackgroundSchedulePool -----------------------
(* BackgroundSchedulePool (src/src/Core/BackgroundSchedulePool.cpp): tasks  *)
(* that run one at a time each, now or after a delay, on shared threads.    *)
(* What happens under a task's schedule_mutex is one step, with the queue   *)
(* operations nested in it; exec_mutex is held over several.  Time is left  *)
(* out: delayed_tasks is in the order of the deadlines, and the first one   *)
(* may or may not have passed when the delay thread looks.                  *)
EXTENDS Naturals, FiniteSets, Sequences, Functions

CONSTANTS
    Task,
    Thread,             \* of the pool
    FirstThreads,       \* those it is created with
    Caller,             \* threads outside it that deactivate tasks or take their exec lock
    NONE,
    MaxCalls            \* bound: calls of the tasks' methods

ASSUME ConstantsAssumption ==
    /\ NONE \notin Task \union Thread \union Caller
    /\ Thread \intersect Caller = {}
    /\ FirstThreads \subseteq Thread
    /\ MaxCalls \in Nat

VARIABLES
    deactivated, scheduled, delayed, executing,     \* the tasks with that flag
    exec_mutex,         \* of a task: its owner
    tasks,              \* the queue
    delayed_tasks,      \* the tasks by deadline
    asleep,             \* threads in tasks_cond_var.wait
    pc, task,           \* of a thread: where it is, and its task
    d_pc, d_task,       \* of the delay thread
    d_asleep,           \* it is in delayed_tasks_cond_var.wait or wait_for
    call, target,       \* of a caller: the method and the task
    shutdown,
    calls

flags == <<deactivated, scheduled, delayed, executing>>
queue == <<tasks, asleep>>
delays == <<delayed_tasks, d_asleep>>
threads == <<pc, task>>
delay_thread == <<d_pc, d_task>>
callers == <<call, target>>
vars == <<flags, exec_mutex, queue, delays, threads, delay_thread, callers, shutdown, calls>>

\* delayed_tasks.erase and .emplace, where i is the position of the deadline
erase(s, i) == SubSeq(s, 1, i - 1) \o SubSeq(s, i + 1, Len(s))
emplace(s, i, t) == SubSeq(s, 1, i - 1) \o <<t>> \o SubSeq(s, i, Len(s))

-----------------------------------------------------------------------------
(* Mistakes, which Spec does not use                                       *)

OldEntryStays(t) ==
    /\ \E i \in 1 .. Len(delayed_tasks) + 1 : delayed_tasks' = emplace(delayed_tasks, i, t)
    /\ delayed' = delayed \union {t}
    /\ d_asleep' = "no"

DelayThreadNotNotified(t) ==
    /\ t \notin delayed
    /\ \E i \in 1 .. Len(delayed_tasks) + 1 : delayed_tasks' = emplace(delayed_tasks, i, t)
    /\ delayed' = delayed \union {t}
    /\ UNCHANGED d_asleep

DelayNotCancelled(t) ==
    /\ scheduled' = scheduled \union {t}
    /\ tasks' = IF t \in executing THEN tasks ELSE Append(tasks, t)
    /\ asleep' = {}
    /\ UNCHANGED <<delayed, delays>>

ExecutedUnlocked(w) ==
    /\ pc[w] = "taken"
    /\ pc' = [pc EXCEPT ![w] = "locked"]
    /\ UNCHANGED <<flags, exec_mutex, queue, delays, task, delay_thread, callers, shutdown, calls>>

ReturnsWithLock(w) ==
    /\ pc[w] = "locked"
    /\ IF task[w] \in deactivated
       THEN pc' = [pc EXCEPT ![w] = "loop"] /\ UNCHANGED <<scheduled, executing>>
       ELSE /\ scheduled' = scheduled \ {task[w]}
            /\ executing' = executing \union {task[w]}
            /\ pc' = [pc EXCEPT ![w] = "function"]
    /\ UNCHANGED <<deactivated, delayed, exec_mutex, queue, delays, task, delay_thread, callers, shutdown, calls>>

ScheduledStays(w) ==
    /\ pc[w] = "locked"
    /\ IF task[w] \in deactivated
       THEN /\ exec_mutex' = [exec_mutex EXCEPT ![task[w]] = NONE]
            /\ pc' = [pc EXCEPT ![w] = "loop"]
            /\ UNCHANGED executing
       ELSE /\ executing' = executing \union {task[w]}
            /\ pc' = [pc EXCEPT ![w] = "function"]
            /\ UNCHANGED exec_mutex
    /\ UNCHANGED <<deactivated, scheduled, delayed, queue, delays, task, delay_thread, callers, shutdown, calls>>

NotEnqueuedAgain(w) ==
    /\ pc[w] = "function"
    /\ executing' = executing \ {task[w]}
    /\ exec_mutex' = [exec_mutex EXCEPT ![task[w]] = NONE]
    /\ pc' = [pc EXCEPT ![w] = "loop"]
    /\ UNCHANGED <<deactivated, scheduled, delayed, queue, delays, task, delay_thread, callers, shutdown, calls>>

-----------------------------------------------------------------------------
(* The pool's queues                                                       *)

\* notify_one
WakeOne == IF asleep = {} THEN UNCHANGED asleep ELSE \E w \in asleep : asleep' = asleep \ {w}

scheduleTask(t) == tasks' = Append(tasks, t) /\ WakeOne

\* Where a delayed task is in delayed_tasks
iterator(t) == CHOOSE i \in DOMAIN delayed_tasks : delayed_tasks[i] = t

\* A new deadline is anywhere among those that are there.
scheduleDelayedTask(t) ==
    /\ LET others == IF t \in delayed THEN erase(delayed_tasks, iterator(t)) ELSE delayed_tasks
       IN  \E i \in 1 .. Len(others) + 1 : delayed_tasks' = emplace(others, i, t)
    /\ delayed' = delayed \union {t}
    /\ d_asleep' = "no"

cancelDelayedTask(t) ==
    /\ delayed_tasks' = erase(delayed_tasks, iterator(t))
    /\ delayed' = delayed \ {t}
    /\ d_asleep' = "no"

-----------------------------------------------------------------------------
(* A task's methods                                                        *)

scheduleImpl(t) ==
    /\ scheduled' = scheduled \union {t}
    /\ IF t \in delayed THEN cancelDelayedTask(t) ELSE UNCHANGED <<delayed, delays>>
    /\ IF t \notin executing THEN scheduleTask(t) ELSE UNCHANGED queue

\* Called by the delay thread, too
ScheduleBody(t) ==
    IF t \in deactivated \union scheduled THEN UNCHANGED <<scheduled, delayed, queue, delays>>
    ELSE scheduleImpl(t)

Called == calls < MaxCalls /\ calls' = calls + 1

\* By anyone: a watch, another task, the task itself while it runs
schedule(t) ==
    /\ Called
    /\ ScheduleBody(t)
    /\ UNCHANGED <<deactivated, executing, exec_mutex, threads, delay_thread, callers, shutdown>>

scheduleAfter(t, overwrite, only_if_scheduled) ==
    /\ Called
    /\ t \notin deactivated \union scheduled
    /\ t \in delayed => overwrite
    /\ only_if_scheduled => t \in delayed
    /\ scheduleDelayedTask(t)
    /\ UNCHANGED <<deactivated, scheduled, executing, exec_mutex, queue, threads, delay_thread, callers, shutdown>>

activate(t) ==
    /\ Called
    /\ deactivated' = deactivated \ {t}
    /\ UNCHANGED <<scheduled, delayed, executing, exec_mutex, queue, delays, threads, delay_thread, callers, shutdown>>

activateAndSchedule(t) ==
    /\ Called
    /\ deactivated' = deactivated \ {t}
    /\ IF t \in scheduled THEN UNCHANGED <<scheduled, delayed, queue, delays>> ELSE scheduleImpl(t)
    /\ UNCHANGED <<executing, exec_mutex, threads, delay_thread, callers, shutdown>>

\* deactivate and getExecLock wait for exec_mutex.
callDeactivate(c, t) ==
    /\ Called
    /\ call[c] = "none"
    /\ call' = [call EXCEPT ![c] = "deactivate"]
    /\ target' = [target EXCEPT ![c] = t]
    /\ UNCHANGED <<flags, exec_mutex, queue, delays, threads, delay_thread, shutdown>>

callGetExecLock(c, t) ==
    /\ Called
    /\ call[c] = "none"
    /\ call' = [call EXCEPT ![c] = "getExecLock"]
    /\ target' = [target EXCEPT ![c] = t]
    /\ UNCHANGED <<flags, exec_mutex, queue, delays, threads, delay_thread, shutdown>>

lockExec(c) ==
    /\ call[c] \in {"deactivate", "getExecLock"}
    /\ exec_mutex[target[c]] = NONE
    /\ exec_mutex' = [exec_mutex EXCEPT ![target[c]] = c]
    /\ call' = [call EXCEPT ![c] = IF @ = "deactivate" THEN "deactivating" ELSE "locked"]
    /\ UNCHANGED <<flags, queue, delays, threads, delay_thread, target, shutdown, calls>>

deactivate(c) ==
    LET t == target[c]
    IN  /\ call[c] = "deactivating"
        /\ deactivated' = deactivated \union {t}
        /\ scheduled' = scheduled \ {t}
        /\ IF t \in delayed THEN cancelDelayedTask(t) ELSE UNCHANGED <<delayed, delays>>
        /\ exec_mutex' = [exec_mutex EXCEPT ![t] = NONE]
        /\ call' = [call EXCEPT ![c] = "none"]
        /\ UNCHANGED <<executing, queue, threads, delay_thread, target, shutdown, calls>>

unlockExec(c) ==
    /\ call[c] = "locked"
    /\ exec_mutex' = [exec_mutex EXCEPT ![target[c]] = NONE]
    /\ call' = [call EXCEPT ![c] = "none"]
    /\ UNCHANGED <<flags, queue, delays, threads, delay_thread, target, shutdown, calls>>

-----------------------------------------------------------------------------
(* The threads of the pool: threadFunction, execute                        *)

nextRound(w) ==
    /\ pc[w] = "loop"
    /\ pc' = [pc EXCEPT ![w] = IF shutdown THEN "exit" ELSE "check"]
    /\ UNCHANGED <<flags, exec_mutex, queue, delays, task, delay_thread, callers, shutdown, calls>>

takeTask(w) ==
    /\ pc[w] = "check" /\ w \notin asleep
    /\ tasks # <<>>
    /\ task' = [task EXCEPT ![w] = Head(tasks)]
    /\ tasks' = Tail(tasks)
    /\ pc' = [pc EXCEPT ![w] = "taken"]
    /\ UNCHANGED <<flags, exec_mutex, asleep, delays, delay_thread, callers, shutdown, calls>>

findNoTask(w) ==
    /\ pc[w] = "check" /\ w \notin asleep
    /\ tasks = <<>>
    /\ IF shutdown
       THEN pc' = [pc EXCEPT ![w] = "loop"] /\ UNCHANGED asleep
       ELSE asleep' = asleep \union {w} /\ UNCHANGED pc
    /\ UNCHANGED <<flags, exec_mutex, tasks, delays, task, delay_thread, callers, shutdown, calls>>

wakeSpuriously(w) ==
    /\ w \in asleep
    /\ asleep' = asleep \ {w}
    /\ UNCHANGED <<flags, exec_mutex, tasks, delays, threads, delay_thread, callers, shutdown, calls>>

lockTask(w) ==
    /\ pc[w] = "taken" /\ exec_mutex[task[w]] = NONE
    /\ exec_mutex' = [exec_mutex EXCEPT ![task[w]] = w]
    /\ pc' = [pc EXCEPT ![w] = "locked"]
    /\ UNCHANGED <<flags, queue, delays, task, delay_thread, callers, shutdown, calls>>

startFunction(w) ==
    /\ pc[w] = "locked"
    /\ IF task[w] \in deactivated
       THEN /\ exec_mutex' = [exec_mutex EXCEPT ![task[w]] = NONE]
            /\ pc' = [pc EXCEPT ![w] = "loop"]
            /\ UNCHANGED <<scheduled, executing>>
       ELSE /\ scheduled' = scheduled \ {task[w]}
            /\ executing' = executing \union {task[w]}
            /\ pc' = [pc EXCEPT ![w] = "function"]
            /\ UNCHANGED exec_mutex
    /\ UNCHANGED <<deactivated, delayed, queue, delays, task, delay_thread, callers, shutdown, calls>>

\* A task that was scheduled while it ran goes to the end of the queue.
endFunction(w) ==
    /\ pc[w] = "function"
    /\ executing' = executing \ {task[w]}
    /\ IF task[w] \in scheduled THEN scheduleTask(task[w]) ELSE UNCHANGED queue
    /\ exec_mutex' = [exec_mutex EXCEPT ![task[w]] = NONE]
    /\ pc' = [pc EXCEPT ![w] = "loop"]
    /\ UNCHANGED <<deactivated, scheduled, delayed, delays, task, delay_thread, callers, shutdown, calls>>

-----------------------------------------------------------------------------
(* The delay thread: delayExecutionThreadFunction                          *)

delayNextRound ==
    /\ d_pc = "loop"
    /\ d_pc' = IF shutdown THEN "exit" ELSE "check"
    /\ d_task' = NONE
    /\ UNCHANGED <<flags, exec_mutex, queue, delays, threads, callers, shutdown, calls>>

\* The inner loop sets task, and does not reset it.
FirstDelayed == IF delayed_tasks # <<>> THEN Head(delayed_tasks) ELSE d_task

delayWait ==
    /\ d_pc = "check" /\ d_asleep = "no" /\ ~shutdown
    /\ d_task' = FirstDelayed
    /\ \/ d_task' = NONE /\ d_asleep' = "until notified"
       \/ delayed_tasks # <<>> /\ d_asleep' = "until the deadline"
    /\ UNCHANGED <<flags, exec_mutex, queue, delayed_tasks, threads, d_pc, callers, shutdown, calls>>

\* The deadline has passed: min_time is that of the first, or now if there is none.
delayFind ==
    /\ d_pc = "check" /\ d_asleep = "no" /\ ~shutdown
    /\ FirstDelayed # NONE
    /\ d_task' = FirstDelayed
    /\ d_pc' = "found"
    /\ UNCHANGED <<flags, exec_mutex, queue, delays, threads, callers, shutdown, calls>>

delayLeave ==
    /\ d_pc = "check" /\ d_asleep = "no" /\ shutdown
    /\ d_pc' = "loop"
    /\ UNCHANGED <<flags, exec_mutex, queue, delays, threads, d_task, callers, shutdown, calls>>

delayWakeAtDeadline ==
    /\ d_asleep = "until the deadline"
    /\ d_asleep' = "no"
    /\ UNCHANGED <<flags, exec_mutex, queue, delayed_tasks, threads, delay_thread, callers, shutdown, calls>>

delayWakeSpuriously ==
    /\ d_asleep = "until notified"
    /\ d_asleep' = "no"
    /\ UNCHANGED <<flags, exec_mutex, queue, delayed_tasks, threads, delay_thread, callers, shutdown, calls>>

delaySchedule ==
    /\ d_pc = "found"
    /\ ScheduleBody(d_task)
    /\ d_pc' = "loop"
    /\ UNCHANGED <<deactivated, executing, exec_mutex, threads, d_task, callers, shutdown, calls>>

\* The configuration is loaded again, and has more threads.
increaseThreadsCount(started) ==
    /\ ~shutdown
    /\ started # {} /\ \A w \in started : pc[w] = "none"
    /\ pc' = [w \in Thread |-> IF w \in started THEN "loop" ELSE pc[w]]
    /\ UNCHANGED <<flags, exec_mutex, queue, delays, task, delay_thread, callers, shutdown, calls>>

\* ~BackgroundSchedulePool: the threads are told, and joined.
destroy ==
    /\ ~shutdown
    /\ shutdown' = TRUE
    /\ asleep' = {}
    /\ d_asleep' = "no"
    /\ UNCHANGED <<flags, exec_mutex, tasks, delayed_tasks, threads, delay_thread, callers, calls>>

-----------------------------------------------------------------------------
Init ==
    /\ deactivated = {} /\ scheduled = {} /\ delayed = {} /\ executing = {}
    /\ exec_mutex = [t \in Task |-> NONE]
    /\ tasks = <<>> /\ delayed_tasks = <<>>
    /\ asleep = {} /\ d_asleep = "no"
    /\ pc = [w \in Thread |-> IF w \in FirstThreads THEN "loop" ELSE "none"] /\ task = [w \in Thread |-> NONE]
    /\ d_pc = "loop" /\ d_task = NONE
    /\ call = [c \in Caller |-> "none"] /\ target = [c \in Caller |-> NONE]
    /\ shutdown = FALSE
    /\ calls = 0

ThreadStep(w) ==
    \/ nextRound(w) \/ takeTask(w) \/ findNoTask(w)
    \/ lockTask(w) \/ startFunction(w) \/ endFunction(w)

DelayStep == delayNextRound \/ delayWait \/ delayFind \/ delayLeave \/ delayWakeAtDeadline \/ delaySchedule

CallerStep(c) == lockExec(c) \/ deactivate(c) \/ unlockExec(c)

Call(t) ==
    \/ schedule(t) \/ activate(t) \/ activateAndSchedule(t)
    \/ \E overwrite, only_if_scheduled \in BOOLEAN : scheduleAfter(t, overwrite, only_if_scheduled)
    \/ \E c \in Caller : callDeactivate(c, t) \/ callGetExecLock(c, t)

Next ==
    \/ \E t \in Task : Call(t)
    \/ \E c \in Caller : CallerStep(c)
    \/ \E w \in Thread : ThreadStep(w) \/ wakeSpuriously(w)
    \/ DelayStep \/ delayWakeSpuriously
    \/ \E started \in SUBSET Thread : increaseThreadsCount(started)
    \/ destroy

Spec == Init /\ [][Next]_vars

\* Threads run, functions return, deadlines pass, and a mutex that is free again
\* and again is acquired.
FairSpec ==
    /\ Spec
    /\ \A w \in Thread : WF_vars(ThreadStep(w)) /\ SF_vars(lockTask(w))
    /\ \A c \in Caller : WF_vars(CallerStep(c)) /\ SF_vars(lockExec(c))
    /\ WF_vars(DelayStep) /\ SF_vars(delayFind)

-----------------------------------------------------------------------------
(* Properties                                                              *)

\* "The same function is not executed from many workers in the same time"
\* (BackgroundSchedulePool.h:31), nor while someone else has the exec lock.
OneAtATime ==
    \A w \in Thread : pc[w] = "function" =>
        /\ \A v \in Thread \ {w} : pc[v] = "function" => task[v] # task[w]
        /\ \A c \in Caller : call[c] = "locked" => target[c] # task[w]

\* "If deactivated is true then scheduled, delayed and executing are all false"
\* and "scheduled and delayed cannot be true at the same time"
\* (BackgroundSchedulePool.h:143-144): whatever runs, waits for its deadline or is in
\* the queue when deactivate or schedule is called.
FlagInvariants ==
    /\ \A t \in deactivated :
         /\ t \notin scheduled \union delayed \union executing
         /\ \A w \in Thread : pc[w] = "function" => task[w] # t
    /\ scheduled \intersect delayed = {}

\* task.iterator is valid exactly while delayed is set: cancelDelayedTask and
\* scheduleDelayedTask erase the task's one entry.
DelayedIsListed ==
    /\ delayed = Range(delayed_tasks)
    /\ IsInjective(delayed_tasks)

\* A scheduled task is in the queue, on its way from the queue to its function, or
\* running, in which case it goes to the queue at the end: no call of schedule is lost.
ScheduledIsQueued ==
    \A t \in scheduled :
        \/ t \in executing
        \/ t \in Range(tasks)
        \/ \E w \in Thread : pc[w] \in {"taken", "locked"} /\ task[w] = t

\* A task that is ready for execution (the comment at BackgroundSchedulePool.cpp:350)
\* is one whose delay has passed, not one whose delay was cancelled.
ReadyTaskIsDelayed == [][d_pc = "check" /\ d_pc' = "found" => d_task' \in delayed]_vars

\* The pool is one of tasks that run when they are scheduled, whatever its queues,
\* threads and stale entries do: the specification ScheduledTask, whose exec locks
\* are those that callers hold.
Promised == INSTANCE ScheduledTask WITH held <- {t \in Task : exec_mutex[t] \in Caller}
ImplementsScheduledTask == Promised!Spec

\* Until the pool is destroyed, delays pass and scheduled tasks run as ScheduledTask
\* says, which is what the owners of tasks rely on.
KeepsPromise == <>shutdown \/ \A t \in Task : Promised!Promise(t)

\* deactivate returns, whatever else is called meanwhile, and so does the destructor
\* of the pool: every thread ends.
CallersReturn ==
    /\ \A c \in Caller : call[c] = "deactivate" ~> call[c] = "none"
    /\ shutdown ~> d_pc = "exit" /\ \A w \in Thread : pc[w] \in {"exit", "none"}
=============================================================================
