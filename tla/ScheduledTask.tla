--------------------------- MODULE ScheduledTask ---------------------------
(* What BackgroundSchedulePool promises the owners of its tasks, without     *)
(* its queues, threads and iterators.  A task runs when it is not            *)
(* deactivated, at most once at a time and never while a caller has its exec *)
(* lock; it may run once more than it was scheduled.                         *)
CONSTANT Task

VARIABLES deactivated, scheduled, delayed, executing,
    held                \* tasks whose exec lock a caller has

vars == <<deactivated, scheduled, delayed, executing, held>>

Init == deactivated = {} /\ scheduled = {} /\ delayed = {} /\ executing = {} /\ held = {}

\* Also when a delay has passed
Schedule(t) ==
    /\ t \notin deactivated
    /\ scheduled' = scheduled \union {t}
    /\ delayed' = delayed \ {t}
    /\ UNCHANGED <<deactivated, executing, held>>

ScheduleAfter(t) ==
    /\ t \notin deactivated \union scheduled
    /\ delayed' = delayed \union {t}
    /\ UNCHANGED <<deactivated, scheduled, executing, held>>

Activate(t) ==
    /\ deactivated' = deactivated \ {t}
    /\ UNCHANGED <<scheduled, delayed, executing, held>>

ActivateAndSchedule(t) ==
    /\ deactivated' = deactivated \ {t}
    /\ scheduled' = scheduled \union {t}
    /\ delayed' = delayed \ {t}
    /\ UNCHANGED <<executing, held>>

\* By deactivate and getExecLock, which wait for the function
Lock(t) ==
    /\ t \notin executing \union held
    /\ held' = held \union {t}
    /\ UNCHANGED <<deactivated, scheduled, delayed, executing>>

Unlock(t) ==
    /\ t \in held
    /\ held' = held \ {t}
    /\ UNCHANGED <<deactivated, scheduled, delayed, executing>>

Deactivate(t) ==
    /\ t \in held
    /\ held' = held \ {t}
    /\ deactivated' = deactivated \union {t}
    /\ scheduled' = scheduled \ {t}
    /\ delayed' = delayed \ {t}
    /\ UNCHANGED executing

Start(t) ==
    /\ t \notin deactivated \union executing \union held
    /\ executing' = executing \union {t}
    /\ scheduled' = scheduled \ {t}
    /\ UNCHANGED <<deactivated, delayed, held>>

End(t) ==
    /\ t \in executing
    /\ executing' = executing \ {t}
    /\ UNCHANGED <<deactivated, scheduled, delayed, held>>

Next == \E t \in Task :
    \/ Schedule(t) \/ ScheduleAfter(t) \/ Activate(t) \/ ActivateAndSchedule(t)
    \/ Lock(t) \/ Unlock(t) \/ Deactivate(t)
    \/ Start(t) \/ End(t)

Spec == Init /\ [][Next]_vars

\* Delays pass, and a scheduled task is executed.
Promise(t) ==
    /\ WF_vars(t \in delayed /\ Schedule(t))
    /\ SF_vars(t \in scheduled /\ Start(t))
=============================================================================
