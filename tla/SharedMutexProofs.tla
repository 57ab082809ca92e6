------------------------- MODULE SharedMutexProofs -------------------------
(* SharedMutex for any finite set of threads: mutual exclusion, the count   *)
(* of the readers and the absence of lost wake-ups, from one inductive      *)
(* invariant.                                                               *)
EXTENDS SharedMutex, FiniteSetTheorems, TLAPS

USE SMTT(30), ZenonT(30)

Waiting == {t \in Thread : pc[t] \in UpperWaiting}

WaitersCounted == waiters = Cardinality(Waiting)

\* The upper half is set exactly while one thread owns it.
OneOwner ==
    /\ \A t, u \in Owners : t = u
    /\ writers = 1 <=> Owners # {}

\* No reader is added behind the owner's back, so its local value bounds them.
DrainBound ==
    \A t \in Thread :
        /\ pc[t] \in Draining => readers <= vr[t]
        /\ pc[t] = "writing" => readers = 0

SawWriter == \A t \in Thread : pc[t] \in {"w_wait", "r_wait"} => vw[t] = 1

IInv ==
    /\ TypeOK /\ ReadersCounted /\ WaitersCounted /\ OneOwner
    /\ DrainBound /\ SawWriter /\ NoLostWakeup

-----------------------------------------------------------------------------
\* What one thread more or less does to the size of a set of threads, which the
\* counters of readers and of waiters are.
LEMMA Cards ==
    ASSUME NEW S \in SUBSET Thread, NEW t \in Thread
    PROVE  /\ Cardinality(S) \in Nat
           /\ t \notin S => Cardinality(S \union {t}) = Cardinality(S) + 1
           /\ t \in S => Cardinality(S \ {t}) = Cardinality(S) - 1 /\ Cardinality(S) > 0
<1>1. IsFiniteSet(S)
  BY ThreadAssumption, FS_Subset, Zenon
<1>2. Cardinality(S) \in Nat
  BY <1>1, FS_CardinalityType, Zenon
<1>3. t \notin S => Cardinality(S \union {t}) = Cardinality(S) + 1
  BY <1>1, FS_AddElement, Zenon
<1>4. t \in S => Cardinality(S \ {t}) = Cardinality(S) - 1
  BY <1>1, FS_RemoveElement, Zenon
<1>5. t \in S => Cardinality(S) # 0
  BY <1>1, FS_EmptySet, Zenon
<1> QED
  BY <1>2, <1>3, <1>4, <1>5


\* load preserves the invariant.
LEMMA Step_load ==
    ASSUME IInv, NEW t \in Thread, load(t)
    PROVE  IInv'
<1> USE DEF load, Goto, Fetch, wordVars
<1>0. TypeOK BY Zenon DEF IInv
<1>1. TypeOK'
  BY <1>0, Zenon DEF TypeOK, PC, Draining, UpperWaiting, IInv, WaitersCounted,
     ReadersCounted
<1>2. Reading' = Reading
  BY <1>0, Zenon DEF TypeOK, Reading
<1>3. Waiting' = Waiting
  BY <1>0, Zenon DEF TypeOK, Waiting, UpperWaiting
<1>4. ReadersCounted'
  BY <1>0, <1>2, Cards, Zenon DEF IInv, ReadersCounted, TypeOK, Reading
<1>5. WaitersCounted'
  BY <1>0, <1>3, Cards, Zenon DEF IInv, WaitersCounted, TypeOK, Waiting, UpperWaiting
<1>6. OneOwner'
  BY <1>0 DEF IInv, OneOwner, Owners, Draining, TypeOK, DrainBound
<1>7. DrainBound'
  BY <1>0, Cards, Zenon DEF IInv, DrainBound, OneOwner, Owners, Draining, TypeOK
<1>8. SawWriter'
  BY <1>0, Zenon DEF IInv, SawWriter, TypeOK
<1>9. NoLostWakeup'
  BY <1>0, Zenon DEF IInv, NoLostWakeup, SawWriter, UpperSleep, TypeOK
<1> QED
  BY <1>1, <1>4, <1>5, <1>6, <1>7, <1>8, <1>9, Zenon DEF IInv

\* startWaiting preserves the invariant.
LEMMA Step_startWaiting ==
    ASSUME IInv, NEW t \in Thread, NEW m \in Modes, startWaiting(t, m)
    PROVE  IInv'
<1> USE DEF startWaiting, Goto, Try, Wait, wordVars, valueVars
<1>0. TypeOK BY Zenon DEF IInv
<1>1. TypeOK'
  BY <1>0 DEF TypeOK, PC, Draining, UpperWaiting, IInv, WaitersCounted, ReadersCounted
<1>2. Reading' = Reading
  BY <1>0, Zenon DEF TypeOK, Reading
<1>3. Waiting' = Waiting \union {t}
  BY <1>0, Zenon DEF TypeOK, Waiting, UpperWaiting
<1>4. ReadersCounted'
  BY <1>0, <1>2, Cards, Zenon DEF IInv, ReadersCounted, TypeOK, Reading
<1>5. WaitersCounted'
  BY <1>0, <1>3, Cards DEF IInv, WaitersCounted, TypeOK, Waiting, UpperWaiting
<1>6. OneOwner'
  BY <1>0 DEF IInv, OneOwner, Owners, Draining, TypeOK, DrainBound
<1>7. DrainBound'
  BY <1>0, Cards, Zenon DEF IInv, DrainBound, OneOwner, Owners, Draining, TypeOK
<1>8. SawWriter'
  BY <1>0, Zenon DEF IInv, SawWriter, TypeOK
<1>9. NoLostWakeup'
  BY <1>0, Zenon DEF IInv, NoLostWakeup, SawWriter, UpperSleep, TypeOK
<1> QED
  BY <1>1, <1>4, <1>5, <1>6, <1>7, <1>8, <1>9, Zenon DEF IInv

\* futexWaitUpper preserves the invariant.
LEMMA Step_futexWaitUpper ==
    ASSUME IInv, NEW t \in Thread, NEW m \in Modes, futexWaitUpper(t, m)
    PROVE  IInv'
<1> USE DEF futexWaitUpper, Goto, Wait, Sleep, Refetch, ShouldSleep, wordVars, valueVars
<1>0. TypeOK BY Zenon DEF IInv
<1>1. TypeOK'
  BY <1>0, Zenon DEF TypeOK, PC, Draining, UpperWaiting, IInv, WaitersCounted,
     ReadersCounted
<1>2. Reading' = Reading
  BY <1>0, Zenon DEF TypeOK, Reading
<1>3. Waiting' = Waiting
  BY <1>0, Zenon DEF TypeOK, Waiting, UpperWaiting
<1>4. ReadersCounted'
  BY <1>0, <1>2, Cards, Zenon DEF IInv, ReadersCounted, TypeOK, Reading
<1>5. WaitersCounted'
  BY <1>0, <1>3, Cards, Zenon DEF IInv, WaitersCounted, TypeOK, Waiting, UpperWaiting
<1>6. OneOwner'
  BY <1>0 DEF IInv, OneOwner, Owners, Draining, TypeOK, DrainBound
<1>7. DrainBound'
  BY <1>0, Cards, Zenon DEF IInv, DrainBound, OneOwner, Owners, Draining, TypeOK
<1>8. SawWriter'
  BY <1>0, Zenon DEF IInv, SawWriter, TypeOK
<1>9. NoLostWakeup'
  BY <1>0, Zenon DEF IInv, NoLostWakeup, SawWriter, UpperSleep, TypeOK
<1> QED
  BY <1>1, <1>4, <1>5, <1>6, <1>7, <1>8, <1>9, Zenon DEF IInv

\* spuriousWake preserves the invariant.
LEMMA Step_spuriousWake ==
    ASSUME IInv, NEW t \in Thread, NEW m \in Modes, spuriousWake(t, m)
    PROVE  IInv'
<1> USE DEF spuriousWake, Goto, Sleep, Refetch, wordVars, valueVars
<1>0. TypeOK BY Zenon DEF IInv
<1>1. TypeOK'
  BY <1>0, Zenon DEF TypeOK, PC, Draining, UpperWaiting, IInv, WaitersCounted,
     ReadersCounted
<1>2. Reading' = Reading
  BY <1>0, Zenon DEF TypeOK, Reading
<1>3. Waiting' = Waiting
  BY <1>0, Zenon DEF TypeOK, Waiting, UpperWaiting
<1>4. ReadersCounted'
  BY <1>0, <1>2, Cards, Zenon DEF IInv, ReadersCounted, TypeOK, Reading
<1>5. WaitersCounted'
  BY <1>0, <1>3, Cards, Zenon DEF IInv, WaitersCounted, TypeOK, Waiting, UpperWaiting
<1>6. OneOwner'
  BY <1>0, Zenon DEF IInv, OneOwner, Owners, Draining, TypeOK, DrainBound
<1>7. DrainBound'
  BY <1>0, Cards, Zenon DEF IInv, DrainBound, OneOwner, Owners, Draining, TypeOK
<1>8. SawWriter'
  BY <1>0, Zenon DEF IInv, SawWriter, TypeOK
<1>9. NoLostWakeup'
  BY <1>0, Zenon DEF IInv, NoLostWakeup, SawWriter, UpperSleep, TypeOK
<1> QED
  BY <1>1, <1>4, <1>5, <1>6, <1>7, <1>8, <1>9, Zenon DEF IInv

\* fetchUpper preserves the invariant.
LEMMA Step_fetchUpper ==
    ASSUME IInv, NEW t \in Thread, NEW m \in Modes, fetchUpper(t, m)
    PROVE  IInv'
<1> USE DEF fetchUpper, Goto, Fetch, Refetch, Dec, wordVars
<1>0. TypeOK BY Zenon DEF IInv
<1>1. TypeOK'
  BY <1>0, Zenon DEF TypeOK, PC, Draining, UpperWaiting, IInv, WaitersCounted,
     ReadersCounted
<1>2. Reading' = Reading
  BY <1>0, Zenon DEF TypeOK, Reading
<1>3. Waiting' = Waiting
  BY <1>0, Zenon DEF TypeOK, Waiting, UpperWaiting
<1>4. ReadersCounted'
  BY <1>0, <1>2, Cards, Zenon DEF IInv, ReadersCounted, TypeOK, Reading
<1>5. WaitersCounted'
  BY <1>0, <1>3, Cards, Zenon DEF IInv, WaitersCounted, TypeOK, Waiting, UpperWaiting
<1>6. OneOwner'
  BY <1>0, Zenon DEF IInv, OneOwner, Owners, Draining, TypeOK, DrainBound
<1>7. DrainBound'
  BY <1>0, Cards, Zenon DEF IInv, DrainBound, OneOwner, Owners, Draining, TypeOK
<1>8. SawWriter'
  BY <1>0, Zenon DEF IInv, SawWriter, TypeOK
<1>9. NoLostWakeup'
  BY <1>0, Zenon DEF IInv, NoLostWakeup, SawWriter, UpperSleep, TypeOK
<1> QED
  BY <1>1, <1>4, <1>5, <1>6, <1>7, <1>8, <1>9, Zenon DEF IInv

\* stopWaiting preserves the invariant.
LEMMA Step_stopWaiting ==
    ASSUME IInv, NEW t \in Thread, NEW m \in Modes, stopWaiting(t, m)
    PROVE  IInv'
<1> USE DEF stopWaiting, Goto, Try, Dec, wordVars, valueVars
<1>0. TypeOK BY Zenon DEF IInv
<1>1. TypeOK'
  <2>1. t \in Waiting
    BY <1>0, Zenon DEF TypeOK, Waiting, UpperWaiting
  <2>2. waiters > 0
    BY <2>1, Cards, Zenon DEF IInv, WaitersCounted, Waiting
  <2> QED
    BY <1>0, <2>2 DEF TypeOK, PC, Draining, UpperWaiting
<1>2. Reading' = Reading
  BY <1>0, Zenon DEF TypeOK, Reading
<1>3. Waiting' = Waiting \ {t}
  BY <1>0, Zenon DEF TypeOK, Waiting, UpperWaiting
<1>4. ReadersCounted'
  BY <1>0, <1>2, Cards, Zenon DEF IInv, ReadersCounted, TypeOK, Reading
<1>5. WaitersCounted'
  BY <1>0, <1>3, Cards DEF IInv, WaitersCounted, TypeOK, Waiting, UpperWaiting
<1>6. OneOwner'
  BY <1>0, Zenon DEF IInv, OneOwner, Owners, Draining, TypeOK, DrainBound
<1>7. DrainBound'
  BY <1>0, Cards, Zenon DEF IInv, DrainBound, OneOwner, Owners, Draining, TypeOK
<1>8. SawWriter'
  BY <1>0, Zenon DEF IInv, SawWriter, TypeOK
<1>9. NoLostWakeup'
  BY <1>0, Zenon DEF IInv, NoLostWakeup, SawWriter, UpperSleep, TypeOK
<1> QED
  BY <1>1, <1>4, <1>5, <1>6, <1>7, <1>8, <1>9, Zenon DEF IInv

\* compareExchangeFails preserves the invariant.
LEMMA Step_compareExchangeFails ==
    ASSUME IInv, NEW t \in Thread, compareExchangeFails(t)
    PROVE  IInv'
<1> USE DEF compareExchangeFails, Fetch, SameWord, CompareSucceeds, wordVars
<1>0. TypeOK BY Zenon DEF IInv
<1>1. TypeOK'
  BY <1>0, Zenon DEF TypeOK, PC, Draining, UpperWaiting, IInv, WaitersCounted,
     ReadersCounted
<1>2. Reading' = Reading
  BY <1>0, Zenon DEF TypeOK, Reading
<1>3. Waiting' = Waiting
  BY <1>0, Zenon DEF TypeOK, Waiting, UpperWaiting
<1>4. ReadersCounted'
  BY <1>0, <1>2, Cards, Zenon DEF IInv, ReadersCounted, TypeOK, Reading
<1>5. WaitersCounted'
  BY <1>0, <1>3, Cards, Zenon DEF IInv, WaitersCounted, TypeOK, Waiting, UpperWaiting
<1>6. OneOwner'
  BY <1>0, Zenon DEF IInv, OneOwner, Owners, Draining, TypeOK, DrainBound
<1>7. DrainBound'
  BY <1>0, Cards, Zenon DEF IInv, DrainBound, OneOwner, Owners, Draining, TypeOK
<1>8. SawWriter'
  BY <1>0, Zenon DEF IInv, SawWriter, TypeOK
<1>9. NoLostWakeup'
  BY <1>0, Zenon DEF IInv, NoLostWakeup, SawWriter, UpperSleep, TypeOK
<1> QED
  BY <1>1, <1>4, <1>5, <1>6, <1>7, <1>8, <1>9, Zenon DEF IInv

\* takeWriters preserves the invariant.
LEMMA Step_takeWriters ==
    ASSUME IInv, NEW t \in Thread, takeWriters(t)
    PROVE  IInv'
<1> USE DEF takeWriters, Goto, SameWord, CompareSucceeds
<1>0. TypeOK BY Zenon DEF IInv
<1>1. TypeOK'
  BY <1>0, Zenon DEF TypeOK, PC, Draining, UpperWaiting, IInv, WaitersCounted,
     ReadersCounted
<1>2. Reading' = Reading
  BY <1>0, Zenon DEF TypeOK, Reading
<1>3. Waiting' = Waiting
  BY <1>0, Zenon DEF TypeOK, Waiting, UpperWaiting
<1>4. ReadersCounted'
  BY <1>0, <1>2, Cards, Zenon DEF IInv, ReadersCounted, TypeOK, Reading
<1>5. WaitersCounted'
  BY <1>0, <1>3, Cards, Zenon DEF IInv, WaitersCounted, TypeOK, Waiting, UpperWaiting
<1>6. OneOwner'
  BY <1>0 DEF IInv, OneOwner, Owners, Draining, TypeOK, DrainBound
<1>7. DrainBound'
  BY <1>0, Cards DEF IInv, DrainBound, OneOwner, Owners, Draining, TypeOK
<1>8. SawWriter'
  BY <1>0, Zenon DEF IInv, SawWriter, TypeOK
<1>9. NoLostWakeup'
  BY <1>0, Zenon DEF IInv, NoLostWakeup, SawWriter, UpperSleep, TypeOK
<1> QED
  BY <1>1, <1>4, <1>5, <1>6, <1>7, <1>8, <1>9, Zenon DEF IInv

\* noReaders preserves the invariant.
LEMMA Step_noReaders ==
    ASSUME IInv, NEW t \in Thread, noReaders(t)
    PROVE  IInv'
<1> USE DEF noReaders, Goto, Drained, wordVars, valueVars
<1>0. TypeOK BY Zenon DEF IInv
<1>1. TypeOK'
  BY <1>0, Zenon DEF TypeOK, PC, Draining, UpperWaiting, IInv, WaitersCounted,
     ReadersCounted
<1>2. Reading' = Reading
  BY <1>0, Zenon DEF TypeOK, Reading
<1>3. Waiting' = Waiting
  BY <1>0, Zenon DEF TypeOK, Waiting, UpperWaiting
<1>4. ReadersCounted'
  BY <1>0, <1>2, Cards, Zenon DEF IInv, ReadersCounted, TypeOK, Reading
<1>5. WaitersCounted'
  BY <1>0, <1>3, Cards, Zenon DEF IInv, WaitersCounted, TypeOK, Waiting, UpperWaiting
<1>6. OneOwner'
  BY <1>0 DEF IInv, OneOwner, Owners, Draining, TypeOK, DrainBound
<1>7. DrainBound'
  BY <1>0, Cards DEF IInv, DrainBound, OneOwner, Owners, Draining, TypeOK
<1>8. SawWriter'
  BY <1>0, Zenon DEF IInv, SawWriter, TypeOK
<1>9. NoLostWakeup'
  BY <1>0, Zenon DEF IInv, NoLostWakeup, SawWriter, UpperSleep, TypeOK
<1> QED
  BY <1>1, <1>4, <1>5, <1>6, <1>7, <1>8, <1>9, Zenon DEF IInv

\* futexWaitLower preserves the invariant.
LEMMA Step_futexWaitLower ==
    ASSUME IInv, NEW t \in Thread, futexWaitLower(t)
    PROVE  IInv'
<1> USE DEF futexWaitLower, Goto, Drained, wordVars, valueVars
<1>0. TypeOK BY Zenon DEF IInv
<1>1. TypeOK'
  BY <1>0, Zenon DEF TypeOK, PC, Draining, UpperWaiting, IInv, WaitersCounted,
     ReadersCounted
<1>2. Reading' = Reading
  BY <1>0, Zenon DEF TypeOK, Reading
<1>3. Waiting' = Waiting
  BY <1>0, Zenon DEF TypeOK, Waiting, UpperWaiting
<1>4. ReadersCounted'
  BY <1>0, <1>2, Cards, Zenon DEF IInv, ReadersCounted, TypeOK, Reading
<1>5. WaitersCounted'
  BY <1>0, <1>3, Cards, Zenon DEF IInv, WaitersCounted, TypeOK, Waiting, UpperWaiting
<1>6. OneOwner'
  BY <1>0 DEF IInv, OneOwner, Owners, Draining, TypeOK, DrainBound
<1>7. DrainBound'
  BY <1>0, Cards, Zenon DEF IInv, DrainBound, OneOwner, Owners, Draining, TypeOK
<1>8. SawWriter'
  BY <1>0, Zenon DEF IInv, SawWriter, TypeOK
<1>9. NoLostWakeup'
  BY <1>0 DEF IInv, NoLostWakeup, SawWriter, UpperSleep, TypeOK
<1> QED
  BY <1>1, <1>4, <1>5, <1>6, <1>7, <1>8, <1>9, Zenon DEF IInv

\* spuriousWakeLower preserves the invariant.
LEMMA Step_spuriousWakeLower ==
    ASSUME IInv, NEW t \in Thread, spuriousWakeLower(t)
    PROVE  IInv'
<1> USE DEF spuriousWakeLower, Goto, wordVars, valueVars
<1>0. TypeOK BY Zenon DEF IInv
<1>1. TypeOK'
  BY <1>0, Zenon DEF TypeOK, PC, Draining, UpperWaiting, IInv, WaitersCounted,
     ReadersCounted
<1>2. Reading' = Reading
  BY <1>0, Zenon DEF TypeOK, Reading
<1>3. Waiting' = Waiting
  BY <1>0, Zenon DEF TypeOK, Waiting, UpperWaiting
<1>4. ReadersCounted'
  BY <1>0, <1>2, Cards, Zenon DEF IInv, ReadersCounted, TypeOK, Reading
<1>5. WaitersCounted'
  BY <1>0, <1>3, Cards, Zenon DEF IInv, WaitersCounted, TypeOK, Waiting, UpperWaiting
<1>6. OneOwner'
  BY <1>0 DEF IInv, OneOwner, Owners, Draining, TypeOK, DrainBound
<1>7. DrainBound'
  BY <1>0, Cards, Zenon DEF IInv, DrainBound, OneOwner, Owners, Draining, TypeOK
<1>8. SawWriter'
  BY <1>0, Zenon DEF IInv, SawWriter, TypeOK
<1>9. NoLostWakeup'
  BY <1>0, Zenon DEF IInv, NoLostWakeup, SawWriter, UpperSleep, TypeOK
<1> QED
  BY <1>1, <1>4, <1>5, <1>6, <1>7, <1>8, <1>9, Zenon DEF IInv

\* fetchLower preserves the invariant.
LEMMA Step_fetchLower ==
    ASSUME IInv, NEW t \in Thread, fetchLower(t)
    PROVE  IInv'
<1> USE DEF fetchLower, Goto, Fetch, wordVars
<1>0. TypeOK BY Zenon DEF IInv
<1>1. TypeOK'
  BY <1>0, Zenon DEF TypeOK, PC, Draining, UpperWaiting, IInv, WaitersCounted,
     ReadersCounted
<1>2. Reading' = Reading
  BY <1>0, Zenon DEF TypeOK, Reading
<1>3. Waiting' = Waiting
  BY <1>0, Zenon DEF TypeOK, Waiting, UpperWaiting
<1>4. ReadersCounted'
  BY <1>0, <1>2, Cards, Zenon DEF IInv, ReadersCounted, TypeOK, Reading
<1>5. WaitersCounted'
  BY <1>0, <1>3, Cards, Zenon DEF IInv, WaitersCounted, TypeOK, Waiting, UpperWaiting
<1>6. OneOwner'
  BY <1>0 DEF IInv, OneOwner, Owners, Draining, TypeOK, DrainBound
<1>7. DrainBound'
  BY <1>0, Cards DEF IInv, DrainBound, OneOwner, Owners, Draining, TypeOK
<1>8. SawWriter'
  BY <1>0, Zenon DEF IInv, SawWriter, TypeOK
<1>9. NoLostWakeup'
  BY <1>0, Zenon DEF IInv, NoLostWakeup, SawWriter, UpperSleep, TypeOK
<1> QED
  BY <1>1, <1>4, <1>5, <1>6, <1>7, <1>8, <1>9, Zenon DEF IInv

\* try_lock preserves the invariant.
LEMMA Step_try_lock ==
    ASSUME IInv, NEW t \in Thread, try_lock(t)
    PROVE  IInv'
<1> USE DEF try_lock, Goto, valueVars
<1>0. TypeOK BY Zenon DEF IInv
<1>1. TypeOK'
  BY <1>0, Zenon DEF TypeOK, PC, Draining, UpperWaiting, IInv, WaitersCounted,
     ReadersCounted
<1>2. Reading' = Reading
  BY <1>0, Zenon DEF TypeOK, Reading
<1>3. Waiting' = Waiting
  BY <1>0, Zenon DEF TypeOK, Waiting, UpperWaiting
<1>4. ReadersCounted'
  BY <1>0, <1>2, Cards, Zenon DEF IInv, ReadersCounted, TypeOK, Reading
<1>5. WaitersCounted'
  BY <1>0, <1>3, Cards, Zenon DEF IInv, WaitersCounted, TypeOK, Waiting, UpperWaiting
<1>6. OneOwner'
  BY <1>0 DEF IInv, OneOwner, Owners, Draining, TypeOK, DrainBound
<1>7. DrainBound'
  BY <1>0, Cards, Zenon DEF IInv, DrainBound, OneOwner, Owners, Draining, TypeOK
<1>8. SawWriter'
  BY <1>0, Zenon DEF IInv, SawWriter, TypeOK
<1>9. NoLostWakeup'
  BY <1>0, Zenon DEF IInv, NoLostWakeup, SawWriter, UpperSleep, TypeOK
<1> QED
  BY <1>1, <1>4, <1>5, <1>6, <1>7, <1>8, <1>9, Zenon DEF IInv

\* unlock preserves the invariant.
LEMMA Step_unlock ==
    ASSUME IInv, NEW t \in Thread, unlock(t)
    PROVE  IInv'
<1> USE DEF unlock, Goto, valueVars
<1>0. TypeOK BY Zenon DEF IInv
<1>1. TypeOK'
  BY <1>0, Zenon DEF TypeOK, PC, Draining, UpperWaiting, IInv, WaitersCounted,
     ReadersCounted
<1>2. Reading' = Reading
  BY <1>0, Zenon DEF TypeOK, Reading
<1>3. Waiting' = Waiting
  BY <1>0, Zenon DEF TypeOK, Waiting, UpperWaiting
<1>4. ReadersCounted'
  <2>1. readers = 0
    BY Zenon DEF IInv, DrainBound
  <2> QED
    BY <1>2, <2>1, Zenon DEF IInv, ReadersCounted
<1>5. WaitersCounted'
  BY <1>0, <1>3, Cards, Zenon DEF IInv, WaitersCounted, TypeOK, Waiting, UpperWaiting
<1>6. OneOwner'
  BY <1>0 DEF IInv, OneOwner, Owners, Draining, TypeOK, DrainBound
<1>7. DrainBound'
  BY <1>0, Cards, Zenon DEF IInv, DrainBound, OneOwner, Owners, Draining, TypeOK
<1>8. SawWriter'
  BY <1>0, Zenon DEF IInv, SawWriter, TypeOK
<1>9. NoLostWakeup'
  <2>1. \A u \in Thread : pc[u] # "d_sleep"
    BY <1>0, Zenon DEF IInv, OneOwner, Owners, Draining, TypeOK
  <2> QED
    BY <1>0, <2>1, Zenon DEF NoLostWakeup, UpperSleep, TypeOK
<1> QED
  BY <1>1, <1>4, <1>5, <1>6, <1>7, <1>8, <1>9, Zenon DEF IInv

\* checkWaiters preserves the invariant.
LEMMA Step_checkWaiters ==
    ASSUME IInv, NEW t \in Thread, checkWaiters(t)
    PROVE  IInv'
<1> USE DEF checkWaiters, Goto, HasWaiters, wordVars, valueVars
<1>0. TypeOK BY Zenon DEF IInv
<1>1. TypeOK'
  BY <1>0, Zenon DEF TypeOK, PC, Draining, UpperWaiting, IInv, WaitersCounted,
     ReadersCounted
<1>2. Reading' = Reading
  BY <1>0, Zenon DEF TypeOK, Reading
<1>3. Waiting' = Waiting
  BY <1>0, Zenon DEF TypeOK, Waiting, UpperWaiting
<1>4. ReadersCounted'
  BY <1>0, <1>2, Cards, Zenon DEF IInv, ReadersCounted, TypeOK, Reading
<1>5. WaitersCounted'
  BY <1>0, <1>3, Cards, Zenon DEF IInv, WaitersCounted, TypeOK, Waiting, UpperWaiting
<1>6. OneOwner'
  BY <1>0, Zenon DEF IInv, OneOwner, Owners, Draining, TypeOK, DrainBound
<1>7. DrainBound'
  BY <1>0, Cards, Zenon DEF IInv, DrainBound, OneOwner, Owners, Draining, TypeOK
<1>8. SawWriter'
  BY <1>0, Zenon DEF IInv, SawWriter, TypeOK
<1>9. NoLostWakeup'
  <2>1. ASSUME NEW u \in Thread, pc[u] \in UpperSleep PROVE waiters > 0
    <3>1. u \in Waiting
      BY <2>1, Zenon DEF Waiting, UpperWaiting, UpperSleep
    <3> QED
      BY <3>1, Cards, Zenon DEF IInv, WaitersCounted, Waiting
  <2> QED
    BY <1>0, <2>1, Zenon DEF IInv, NoLostWakeup, UpperSleep, TypeOK
<1> QED
  BY <1>1, <1>4, <1>5, <1>6, <1>7, <1>8, <1>9, Zenon DEF IInv

\* futexWakeUpperAll preserves the invariant.
LEMMA Step_futexWakeUpperAll ==
    ASSUME IInv, NEW t \in Thread, futexWakeUpperAll(t)
    PROVE  IInv'
<1> USE DEF futexWakeUpperAll, wordVars, valueVars
<1>0. TypeOK BY Zenon DEF IInv
<1>1. TypeOK'
  BY <1>0, Zenon DEF TypeOK, PC, Draining, UpperWaiting, IInv, WaitersCounted,
     ReadersCounted
<1>2. Reading' = Reading
  BY <1>0, Zenon DEF TypeOK, Reading
<1>3. Waiting' = Waiting
  BY <1>0, Zenon DEF TypeOK, Waiting, UpperWaiting
<1>4. ReadersCounted'
  BY <1>0, <1>2, Cards, Zenon DEF IInv, ReadersCounted, TypeOK, Reading
<1>5. WaitersCounted'
  BY <1>0, <1>3, Cards, Zenon DEF IInv, WaitersCounted, TypeOK, Waiting, UpperWaiting
<1>6. OneOwner'
  BY <1>0, Zenon DEF IInv, OneOwner, Owners, Draining, TypeOK, DrainBound
<1>7. DrainBound'
  BY <1>0, Cards, Zenon DEF IInv, DrainBound, OneOwner, Owners, Draining, TypeOK
<1>8. SawWriter'
  BY <1>0, Zenon DEF IInv, SawWriter, TypeOK
<1>9. NoLostWakeup'
  BY <1>0, Zenon DEF IInv, NoLostWakeup, SawWriter, UpperSleep, TypeOK
<1> QED
  BY <1>1, <1>4, <1>5, <1>6, <1>7, <1>8, <1>9, Zenon DEF IInv

\* addReader preserves the invariant.
LEMMA Step_addReader ==
    ASSUME IInv, NEW t \in Thread, addReader(t)
    PROVE  IInv'
<1> USE DEF addReader, Goto, SameWord, CompareSucceeds, valueVars
<1>0. TypeOK BY Zenon DEF IInv
<1>1. TypeOK'
  BY <1>0 DEF TypeOK, PC, Draining, UpperWaiting, IInv, WaitersCounted, ReadersCounted
<1>2. Reading' = Reading \union {t}
  BY <1>0, Zenon DEF TypeOK, Reading
<1>3. Waiting' = Waiting
  BY <1>0, Zenon DEF TypeOK, Waiting, UpperWaiting
<1>4. ReadersCounted'
  BY <1>0, <1>2, Cards DEF IInv, ReadersCounted, TypeOK, Reading
<1>5. WaitersCounted'
  BY <1>0, <1>3, Cards, Zenon DEF IInv, WaitersCounted, TypeOK, Waiting, UpperWaiting
<1>6. OneOwner'
  BY <1>0 DEF IInv, OneOwner, Owners, Draining, TypeOK, DrainBound
<1>7. DrainBound'
  BY <1>0, Cards DEF IInv, DrainBound, OneOwner, Owners, Draining, TypeOK
<1>8. SawWriter'
  BY <1>0, Zenon DEF IInv, SawWriter, TypeOK
<1>9. NoLostWakeup'
  BY <1>0 DEF IInv, NoLostWakeup, SawWriter, UpperSleep, TypeOK
<1> QED
  BY <1>1, <1>4, <1>5, <1>6, <1>7, <1>8, <1>9, Zenon DEF IInv

\* try_lock_shared_fails preserves the invariant.
LEMMA Step_try_lock_shared_fails ==
    ASSUME IInv, NEW t \in Thread, try_lock_shared_fails(t)
    PROVE  IInv'
<1> USE DEF try_lock_shared_fails, Goto, wordVars, valueVars
<1>0. TypeOK BY Zenon DEF IInv
<1>1. TypeOK'
  BY <1>0, Zenon DEF TypeOK, PC, Draining, UpperWaiting, IInv, WaitersCounted,
     ReadersCounted
<1>2. Reading' = Reading
  BY <1>0, Zenon DEF TypeOK, Reading
<1>3. Waiting' = Waiting
  BY <1>0, Zenon DEF TypeOK, Waiting, UpperWaiting
<1>4. ReadersCounted'
  BY <1>0, <1>2, Cards, Zenon DEF IInv, ReadersCounted, TypeOK, Reading
<1>5. WaitersCounted'
  BY <1>0, <1>3, Cards, Zenon DEF IInv, WaitersCounted, TypeOK, Waiting, UpperWaiting
<1>6. OneOwner'
  BY <1>0, Zenon DEF IInv, OneOwner, Owners, Draining, TypeOK, DrainBound
<1>7. DrainBound'
  BY <1>0, Cards, Zenon DEF IInv, DrainBound, OneOwner, Owners, Draining, TypeOK
<1>8. SawWriter'
  BY <1>0, Zenon DEF IInv, SawWriter, TypeOK
<1>9. NoLostWakeup'
  BY <1>0, Zenon DEF IInv, NoLostWakeup, SawWriter, UpperSleep, TypeOK
<1> QED
  BY <1>1, <1>4, <1>5, <1>6, <1>7, <1>8, <1>9, Zenon DEF IInv

\* unlock_shared preserves the invariant.
LEMMA Step_unlock_shared ==
    ASSUME IInv, NEW t \in Thread, unlock_shared(t)
    PROVE  IInv'
<1> USE DEF unlock_shared, Goto, LastReader, valueVars
<1>0. TypeOK BY Zenon DEF IInv
<1>a. readers > 0
  <2>1. t \in Reading
    BY Zenon DEF Reading
  <2> QED
    BY <2>1, Cards, Zenon DEF IInv, ReadersCounted, Reading
<1>1. TypeOK'
  BY <1>0, <1>a DEF TypeOK, PC, Draining, UpperWaiting
<1>2. Reading' = Reading \ {t}
  BY <1>0, Zenon DEF TypeOK, Reading
<1>3. Waiting' = Waiting
  BY <1>0, Zenon DEF TypeOK, Waiting, UpperWaiting
<1>4. ReadersCounted'
  BY <1>0, <1>2, Cards DEF IInv, ReadersCounted, TypeOK, Reading
<1>5. WaitersCounted'
  BY <1>0, <1>3, Cards, Zenon DEF IInv, WaitersCounted, TypeOK, Waiting, UpperWaiting
<1>6. OneOwner'
  BY <1>0, Zenon DEF IInv, OneOwner, Owners, Draining, TypeOK, DrainBound
<1>7. DrainBound'
  BY <1>0, <1>a DEF IInv, DrainBound, Draining, TypeOK
<1>8. SawWriter'
  BY <1>0, Zenon DEF IInv, SawWriter, TypeOK
<1>9. NoLostWakeup'
  <2>1. \A u \in Thread : pc[u] = "d_sleep" => writers = 1
    BY <1>0, Zenon DEF IInv, OneOwner, Owners, Draining, TypeOK
  <2> QED
    BY <1>0, <1>a, <2>1 DEF IInv, NoLostWakeup, UpperSleep, TypeOK
<1> QED
  BY <1>1, <1>4, <1>5, <1>6, <1>7, <1>8, <1>9, Zenon DEF IInv

\* futexWakeLowerOne preserves the invariant.
LEMMA Step_futexWakeLowerOne ==
    ASSUME IInv, NEW t \in Thread, futexWakeLowerOne(t)
    PROVE  IInv'
<1> USE DEF futexWakeLowerOne, Goto, wordVars, valueVars
<1>0. TypeOK BY Zenon DEF IInv
<1>1. TypeOK'
  BY <1>0, Zenon DEF TypeOK, PC, Draining, UpperWaiting, IInv, WaitersCounted,
     ReadersCounted
<1>2. Reading' = Reading
  BY <1>0, Zenon DEF TypeOK, Reading
<1>3. Waiting' = Waiting
  BY <1>0, Zenon DEF TypeOK, Waiting, UpperWaiting
<1>4. ReadersCounted'
  BY <1>0, <1>2, Cards, Zenon DEF IInv, ReadersCounted, TypeOK, Reading
<1>5. WaitersCounted'
  BY <1>0, <1>3, Cards, Zenon DEF IInv, WaitersCounted, TypeOK, Waiting, UpperWaiting
<1>6. OneOwner'
  BY <1>0 DEF IInv, OneOwner, Owners, Draining, TypeOK, DrainBound
<1>7. DrainBound'
  BY <1>0, Cards DEF IInv, DrainBound, OneOwner, Owners, Draining, TypeOK
<1>8. SawWriter'
  BY <1>0, Zenon DEF IInv, SawWriter, TypeOK
<1>9. NoLostWakeup'
  <2>1. \A u, v \in Thread : pc[u] = "d_sleep" /\ pc[v] = "d_sleep" => u = v
    BY Zenon DEF IInv, OneOwner, Owners, Draining
  <2>2. \A u \in Thread : pc'[u] # "d_sleep"
    BY <1>0, <2>1, Zenon DEF TypeOK
  <2> QED
    BY <1>0, <2>2, Zenon DEF IInv, NoLostWakeup, UpperSleep, TypeOK
<1> QED
  BY <1>1, <1>4, <1>5, <1>6, <1>7, <1>8, <1>9, Zenon DEF IInv

-----------------------------------------------------------------------------
\* Initially nobody holds or wants the lock.
LEMMA InitInv == Init => IInv
<1> SUFFICES ASSUME Init PROVE IInv
  OBVIOUS
<1>1. Reading = {} /\ Waiting = {} /\ Owners = {}
  BY Zenon DEF Init, Reading, Waiting, UpperWaiting, Owners, Draining
<1>2. TypeOK
  BY Zenon DEF Init, TypeOK, PC
<1>3. ReadersCounted /\ WaitersCounted
  BY <1>1, FS_EmptySet, Zenon DEF Init, ReadersCounted, WaitersCounted
<1>4. OneOwner
  BY <1>1 DEF Init, OneOwner
<1>5. DrainBound /\ SawWriter /\ NoLostWakeup
  BY Zenon DEF Init, DrainBound, SawWriter, NoLostWakeup, Draining, UpperSleep
<1> QED
  BY <1>2, <1>3, <1>4, <1>5, Zenon DEF IInv

\* Every step preserves the invariant.
LEMMA NextInv == IInv /\ [Next]_vars => IInv'
<1> SUFFICES ASSUME IInv, [Next]_vars PROVE IInv'
  OBVIOUS
<1>1. CASE UNCHANGED vars
  BY <1>1, Zenon DEF vars, IInv, TypeOK, ReadersCounted, Reading, WaitersCounted, Waiting, OneOwner, Owners,
     DrainBound, SawWriter, NoLostWakeup
<1>2. ASSUME NEW t \in Thread, Step(t) PROVE IInv'
  BY <1>2, Step_load, Step_startWaiting, Step_futexWaitUpper, Step_spuriousWake,
       Step_fetchUpper, Step_stopWaiting, Step_compareExchangeFails, Step_takeWriters,
       Step_noReaders, Step_futexWaitLower, Step_spuriousWakeLower, Step_fetchLower,
       Step_try_lock, Step_unlock, Step_checkWaiters, Step_futexWakeUpperAll,
       Step_addReader, Step_try_lock_shared_fails, Step_unlock_shared,
       Step_futexWakeLowerOne, Zenon DEF Step
<1>3. ASSUME NEW t \in Thread,
             load(t) \/ try_lock(t) \/ spuriousWakeLower(t) \/ \E m \in Modes : spuriousWake(t, m)
      PROVE  IInv'
  BY <1>3, Step_load, Step_try_lock, Step_spuriousWakeLower, Step_spuriousWake, Zenon
<1> QED
  BY <1>1, <1>2, <1>3, Zenon DEF Next

\* The inductive invariant holds of every behaviour of SharedMutex.
THEOREM Invariance == Spec => []IInv
  BY InitInv, NextInv, PTL DEF Spec

\* No owner next to another owner or to a reader, for any number of threads: the
\* CAS of lock, its loop over the readers and the plain store of unlock are enough.
THEOREM Exclusion == Spec => []MutualExclusion
<1>1. IInv => MutualExclusion
  <2> SUFFICES ASSUME IInv, NEW t \in Thread, NEW u \in Thread, pc[t] = "writing", t # u
               PROVE  pc[u] \notin {"writing", "reading"}
    BY Zenon DEF MutualExclusion
  <2>1. pc[u] # "writing"
    BY Zenon DEF IInv, OneOwner, Owners
  <2>2. readers = 0
    BY Zenon DEF IInv, DrainBound
  <2>3. Reading \in SUBSET Thread /\ Cardinality(Reading) = 0
    BY <2>2, Zenon DEF IInv, ReadersCounted, Reading
  <2>4. u \notin Reading
    <3>1. u \in Reading => Cardinality(Reading) > 0
      BY <2>3, Cards, Zenon
    <3> QED
      BY <2>3, <3>1
  <2> QED
    BY <2>1, <2>4, Zenon DEF Reading
<1> QED
  BY <1>1, Invariance, PTL

\* The lower half of the word counts the readers at every moment.
THEOREM CountsReaders == Spec => []ReadersCounted
<1>1. IInv => ReadersCounted
  BY Zenon DEF IInv
<1> QED
  BY <1>1, Invariance, PTL

\* No sleeper is left behind by unlock or unlock_shared.
THEOREM WakesSleepers == Spec => []NoLostWakeup
<1>1. IInv => NoLostWakeup
  BY Zenon DEF IInv
<1> QED
  BY <1>1, Invariance, PTL

=============================================================================
