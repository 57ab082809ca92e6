---------------------------- MODULE SharedMutex ----------------------------
(* SharedMutex (src/src/Common/SharedMutex.cpp): a reader-writer lock on    *)
(* one 64-bit word and two futexes.  Every atomic operation is a step.      *)
(* writers is the upper half of the word (all ones or zero), readers the    *)
(* lower half; vw and vr are the halves of each thread's local `value`.     *)
(* A futex is the set of threads whose pc says that they sleep on it.       *)
EXTENDS Integers, FiniteSets

CONSTANT Thread

ASSUME ThreadAssumption == IsFiniteSet(Thread)

VARIABLES writers, readers, waiters, pc, vw, vr

wordVars == <<writers, readers>>
valueVars == <<vw, vr>>
vars == <<writers, readers, waiters, pc, vw, vr>>

Goto(t, l) == pc' = [pc EXCEPT ![t] = l]
Fetch(t) ==
    /\ vw' = [vw EXCEPT ![t] = writers]
    /\ vr' = [vr EXCEPT ![t] = readers]
SameWord(t) == writers = vw[t] /\ readers = vr[t]

\* lock() and lock_shared() wait in the same way: pcs of the one and of the other
Modes == {"lock", "shared"}
Try(m) == IF m = "lock" THEN "w_try" ELSE "r_try"
Wait(m) == IF m = "lock" THEN "w_wait" ELSE "r_wait"
Sleep(m) == IF m = "lock" THEN "w_sleep" ELSE "r_sleep"
Refetch(m) == IF m = "lock" THEN "w_fetch" ELSE "r_fetch"
Dec(m) == IF m = "lock" THEN "w_dec" ELSE "r_dec"

-----------------------------------------------------------------------------
(* Mistakes, which Spec does not use                                       *)

SleepsAnyway(t) == TRUE
WritersCompared(t) == writers = vw[t]
DrainSkipped(t) == TRUE
ValueNotReloaded(t) ==
    /\ pc[t] = "d_fetch"
    /\ Goto(t, "w_drain")
    /\ UNCHANGED <<wordVars, waiters, valueVars>>

-----------------------------------------------------------------------------
Init ==
    /\ writers = 0 /\ readers = 0 /\ waiters = 0
    /\ pc = [t \in Thread |-> "idle"]
    /\ vw = [t \in Thread |-> 0] /\ vr = [t \in Thread |-> 0]

\* The first load of lock, lock_shared and try_lock_shared
load(t) ==
    /\ pc[t] = "idle"
    /\ \E l \in {"w_try", "r_try", "t_try"} : Goto(t, l)
    /\ Fetch(t)
    /\ UNCHANGED <<wordVars, waiters>>

\* The word holds a writer: waiters++
startWaiting(t, m) ==
    /\ pc[t] = Try(m) /\ vw[t] = 1
    /\ waiters' = waiters + 1
    /\ Goto(t, Wait(m))
    /\ UNCHANGED <<wordVars, valueVars>>

\* futexWait sleeps only if the upper half is still the one seen.
ShouldSleep(t) == writers = vw[t]

futexWaitUpper(t, m) ==
    /\ pc[t] = Wait(m)
    /\ Goto(t, IF ShouldSleep(t) THEN Sleep(m) ELSE Refetch(m))
    /\ UNCHANGED <<wordVars, waiters, valueVars>>

\* A wake-up without cause
spuriousWake(t, m) ==
    /\ pc[t] = Sleep(m)
    /\ Goto(t, Refetch(m))
    /\ UNCHANGED <<wordVars, waiters, valueVars>>

fetchUpper(t, m) ==
    /\ pc[t] = Refetch(m)
    /\ Fetch(t)
    /\ Goto(t, Dec(m))
    /\ UNCHANGED <<wordVars, waiters>>

stopWaiting(t, m) ==
    /\ pc[t] = Dec(m)
    /\ waiters' = waiters - 1
    /\ Goto(t, Try(m))
    /\ UNCHANGED <<wordVars, valueVars>>

\* compare_exchange_strong, which reloads the value when it fails
CompareSucceeds(t) == SameWord(t)

compareExchangeFails(t) ==
    /\ pc[t] \in {"w_try", "r_try", "t_try"} /\ vw[t] = 0 /\ ~CompareSucceeds(t)
    /\ Fetch(t)
    /\ UNCHANGED <<wordVars, waiters, pc>>

-----------------------------------------------------------------------------
(* Exclusive ownership                                                     *)

takeWriters(t) ==
    /\ pc[t] = "w_try" /\ vw[t] = 0 /\ CompareSucceeds(t)
    /\ writers' = 1
    /\ vw' = [vw EXCEPT ![t] = 1]
    /\ Goto(t, "w_drain")
    /\ UNCHANGED <<readers, waiters, vr>>

\* The loop that waits for the readers
Drained(t) == vr[t] = 0

noReaders(t) ==
    /\ pc[t] = "w_drain" /\ Drained(t)
    /\ Goto(t, "writing")
    /\ UNCHANGED <<wordVars, waiters, valueVars>>

futexWaitLower(t) ==
    /\ pc[t] = "w_drain" /\ ~Drained(t)
    /\ Goto(t, IF readers = vr[t] THEN "d_sleep" ELSE "d_fetch")
    /\ UNCHANGED <<wordVars, waiters, valueVars>>

spuriousWakeLower(t) ==
    /\ pc[t] = "d_sleep"
    /\ Goto(t, "d_fetch")
    /\ UNCHANGED <<wordVars, waiters, valueVars>>

fetchLower(t) ==
    /\ pc[t] = "d_fetch"
    /\ Fetch(t)
    /\ Goto(t, "w_drain")
    /\ UNCHANGED <<wordVars, waiters>>

try_lock(t) ==
    /\ pc[t] = "idle"
    /\ writers = 0 /\ readers = 0
    /\ writers' = 1
    /\ Goto(t, "writing")
    /\ UNCHANGED <<readers, waiters, valueVars>>

\* unlock: the store, the check of waiters, the wake-up
unlock(t) ==
    /\ pc[t] = "writing"
    /\ writers' = 0 /\ readers' = 0
    /\ Goto(t, "u_check")
    /\ UNCHANGED <<waiters, valueVars>>

HasWaiters == waiters > 0

checkWaiters(t) ==
    /\ pc[t] = "u_check"
    /\ Goto(t, IF HasWaiters THEN "u_wake" ELSE "idle")
    /\ UNCHANGED <<wordVars, waiters, valueVars>>

futexWakeUpperAll(t) ==
    /\ pc[t] = "u_wake"
    /\ pc' = [u \in Thread |->
                IF u = t THEN "idle"
                ELSE IF pc[u] = "w_sleep" THEN "w_fetch"
                ELSE IF pc[u] = "r_sleep" THEN "r_fetch" ELSE pc[u]]
    /\ UNCHANGED <<wordVars, waiters, valueVars>>

-----------------------------------------------------------------------------
(* Shared ownership                                                        *)

addReader(t) ==
    /\ pc[t] \in {"r_try", "t_try"} /\ vw[t] = 0 /\ CompareSucceeds(t)
    /\ readers' = vr[t] + 1
    /\ Goto(t, "reading")
    /\ UNCHANGED <<writers, waiters, valueVars>>

\* try_lock_shared gives up when it sees a writer.
try_lock_shared_fails(t) ==
    /\ pc[t] = "t_try" /\ vw[t] = 1
    /\ Goto(t, "idle")
    /\ UNCHANGED <<wordVars, waiters, valueVars>>

\* The reader that leaves only the writer behind wakes it.
LastReader(t) == writers = 1 /\ readers = 1

unlock_shared(t) ==
    /\ pc[t] = "reading"
    /\ readers' = readers - 1
    /\ Goto(t, IF LastReader(t) THEN "s_wake" ELSE "idle")
    /\ UNCHANGED <<writers, waiters, valueVars>>

futexWakeLowerOne(t) ==
    /\ pc[t] = "s_wake"
    /\ LET asleep == {u \in Thread : pc[u] = "d_sleep"}
       IN  \/ asleep = {} /\ Goto(t, "idle")
           \/ \E u \in asleep : pc' = [pc EXCEPT ![t] = "idle", ![u] = "d_fetch"]
    /\ UNCHANGED <<wordVars, waiters, valueVars>>

-----------------------------------------------------------------------------
\* The steps a thread takes by itself once it has called an operation
Step(t) ==
    \/ \E m \in Modes : startWaiting(t, m) \/ futexWaitUpper(t, m) \/ fetchUpper(t, m) \/ stopWaiting(t, m)
    \/ compareExchangeFails(t) \/ takeWriters(t) \/ noReaders(t) \/ futexWaitLower(t) \/ fetchLower(t)
    \/ unlock(t) \/ checkWaiters(t) \/ futexWakeUpperAll(t)
    \/ addReader(t) \/ try_lock_shared_fails(t) \/ unlock_shared(t) \/ futexWakeLowerOne(t)

Next ==
    \E t \in Thread :
        \/ Step(t)
        \/ load(t) \/ try_lock(t)
        \/ spuriousWakeLower(t) \/ \E m \in Modes : spuriousWake(t, m)

Spec == Init /\ [][Next]_vars

\* Threads are scheduled, and the holder of the lock releases it.
FairSpec == Spec /\ \A t \in Thread : WF_vars(Step(t))

-----------------------------------------------------------------------------
(* Properties                                                              *)

Draining == {"w_drain", "d_sleep", "d_fetch"}
UpperSleep == {"w_sleep", "r_sleep"}
UpperWaiting == {"w_wait", "r_wait", "w_sleep", "r_sleep", "w_fetch", "r_fetch", "w_dec", "r_dec"}
PC == {"idle", "w_try", "r_try", "t_try", "writing", "u_check", "u_wake", "reading", "s_wake"}
        \union Draining \union UpperWaiting

Owners == {t \in Thread : pc[t] \in Draining \union {"writing"}}
Reading == {t \in Thread : pc[t] = "reading"}

\* The counters stay natural numbers and every pc is one of the operations'.
TypeOK ==
    /\ writers \in {0, 1} /\ readers \in Nat /\ waiters \in Nat
    /\ pc \in [Thread -> PC]
    /\ vw \in [Thread -> {0, 1}] /\ vr \in [Thread -> Nat]

\* A writer is alone, whatever a CAS, a store or a fetch_sub of another thread does
\* between its steps.
MutualExclusion ==
    \A t, u \in Thread : pc[t] = "writing" /\ t # u => pc[u] \notin {"writing", "reading"}

\* The lower half counts the readers: the plain store of unlock erases none of them.
ReadersCounted == readers = Cardinality(Reading)

\* No thread sleeps on a futex that nobody will wake: the lock is still held, or the
\* thread that released it has yet to wake the sleepers.
NoLostWakeup ==
    \A t \in Thread :
        /\ pc[t] \in UpperSleep => writers = 1 \/ \E u \in Thread : pc[u] \in {"u_check", "u_wake"}
        /\ pc[t] = "d_sleep" => readers > 0 \/ \E u \in Thread : pc[u] = "s_wake"

\* Readers cannot keep out a writer that has set its bit, and while threads want the
\* lock, someone gets it.
WaitersEnter ==
    /\ \A t \in Thread : pc[t] \in Draining ~> pc[t] = "writing"
    /\ (\E t \in Thread : pc[t] \in {"w_try", "r_try"} \union UpperWaiting)
         ~> (\E t \in Thread : pc[t] \in {"writing", "reading"})
=============================================================================
