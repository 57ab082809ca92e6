--------------------- MODULE BackgroundSchedulePoolProofs ---------------------
(* BackgroundSchedulePool for any tasks, threads, callers and numbers of     *)
(* calls: the invariants stated in BackgroundSchedulePool.h, the validity    *)
(* of the iterators into delayed_tasks and that no call of schedule is lost. *)
EXTENDS BackgroundSchedulePool, SequenceTheorems, TLAPS

USE SMTT(30), ZenonT(30)

\* The types that the invariant rests on
Types ==
    /\ executing \in SUBSET Task
    /\ exec_mutex \in [Task -> Thread \union Caller \union {NONE}]
    /\ tasks \in Seq(Task) /\ delayed_tasks \in Seq(Task)
    /\ pc \in [Thread -> {"none", "loop", "check", "taken", "locked", "function", "exit"}]
    /\ task \in [Thread -> Task \union {NONE}]
    /\ d_task \in Task \union {NONE}
    /\ call \in [Caller -> {"none", "deactivate", "deactivating", "getExecLock", "locked"}]
    /\ target \in [Caller -> Task \union {NONE}]

\* Whoever has gone past the choice of a task has one.
Targets ==
    /\ \A w \in Thread : pc[w] \in {"taken", "locked", "function"} => task[w] \in Task
    /\ \A c \in Caller : call[c] # "none" => target[c] \in Task
    /\ d_pc = "found" => d_task \in Task

\* exec_mutex is held from execute to the end of the function, and by deactivate.
Locks ==
    /\ \A w \in Thread : pc[w] \in {"locked", "function"} => exec_mutex[task[w]] = w
    /\ \A c \in Caller : call[c] \in {"deactivating", "locked"} => exec_mutex[target[c]] = c

\* executing says which functions run.
Runs ==
    /\ \A w \in Thread : pc[w] = "function" => task[w] \in executing
    /\ \A t \in executing : \E w \in Thread : pc[w] = "function" /\ task[w] = t

Flags ==
    /\ \A t \in deactivated : t \notin scheduled /\ t \notin delayed /\ t \notin executing
    /\ \A t \in scheduled : t \notin delayed

IInv == Types /\ Targets /\ Locks /\ Runs /\ Flags /\ DelayedIsListed /\ ScheduledIsQueued

-----------------------------------------------------------------------------
(* Sequences                                                               *)

\* erase(iterator): the other entries stay, once each.
LEMMA Erase ==
    ASSUME NEW S, NEW s \in Seq(S), NEW i \in DOMAIN s, IsInjective(s)
    PROVE  /\ erase(s, i) \in Seq(S)
           /\ IsInjective(erase(s, i))
           /\ Range(erase(s, i)) = Range(s) \ {s[i]}
<1> DEFINE r == erase(s, i)
           a == SubSeq(s, 1, i - 1)
           b == SubSeq(s, i + 1, Len(s))
<1>1. i \in 1 .. Len(s) /\ Len(s) \in Nat /\ DOMAIN s = 1 .. Len(s)
  BY LenProperties, Zenon
<1>a. /\ a \in Seq(S) /\ Len(a) = i - 1 /\ \A j \in 1 .. i - 1 : a[j] = s[j]
      /\ b \in Seq(S) /\ Len(b) = Len(s) - i
      /\ \A j \in 1 .. Len(s) - (i + 1) + 1 : b[j] = s[(i + 1) + j - 1]
  <2>1. /\ 1 \in Int /\ i - 1 \in Int /\ i + 1 \in Int /\ Len(s) \in Int
        /\ \A j \in 1 .. i - 1 : s[j] \in S
        /\ \A j \in i + 1 .. Len(s) : s[j] \in S
    BY <1>1
  <2>2. a \in Seq(S) /\ Len(a) = i - 1 /\ \A j \in 1 .. i - 1 : a[j] = s[j]
    BY <2>1, <1>1, SubSeqProperties
  <2>3. /\ b \in Seq(S) /\ Len(b) = IF i + 1 <= Len(s) THEN Len(s) - (i + 1) + 1 ELSE 0
        /\ \A j \in 1 .. Len(s) - (i + 1) + 1 : b[j] = s[(i + 1) + j - 1]
    BY <2>1, SubSeqProperties
  <2> QED BY <2>2, <2>3, <1>1
<1>b. r = a \o b
  BY Zenon DEF erase
<1> HIDE DEF r, a, b
<1>2. r \in Seq(S) /\ Len(r) = Len(s) - 1
  <2>1. r \in Seq(S) /\ Len(r) = Len(a) + Len(b)
    BY <1>a, <1>b, ConcatProperties, Zenon
  <2> QED BY <2>1, <1>1, <1>a
<1>c. \A j \in 1 .. Len(r) : r[j] = IF j <= Len(a) THEN a[j] ELSE b[j - Len(a)]
  <2>1. a \in Seq(S) /\ b \in Seq(S)
    BY <1>a, Zenon
  <2>2. /\ Len(a \o b) = Len(a) + Len(b)
        /\ \A j \in 1 .. Len(a) + Len(b) : (a \o b)[j] = IF j <= Len(a) THEN a[j] ELSE b[j - Len(a)]
    BY <2>1, ConcatProperties, Zenon
  <2> QED BY <2>2, <1>b, Zenon
<1>3. ASSUME NEW j \in 1 .. Len(r)
      PROVE  /\ j < i => r[j] = s[j]
             /\ j >= i => r[j] = s[j + 1]
  <2>1. CASE j < i
    BY <2>1, <1>1, <1>2, <1>a, <1>c
  <2>2. CASE j >= i
    <3>1. r[j] = b[j - (i - 1)]
      <4>1. ~(j <= Len(a))
        BY <2>2, <1>1, <1>a
      <4> QED BY <4>1, <1>a, <1>c, Zenon
    <3>2. j - (i - 1) \in 1 .. Len(s) - (i + 1) + 1 /\ (i + 1) + (j - (i - 1)) - 1 = j + 1
      BY <2>2, <1>1, <1>2
    <3>3. b[j - (i - 1)] = s[(i + 1) + (j - (i - 1)) - 1]
      BY <3>2, <1>a, Zenon
    <3> QED BY <3>1, <3>2, <3>3, <2>2
  <2> QED BY <2>1, <2>2, <1>1, Zenon
<1>4. DOMAIN r = 1 .. Len(r)
  BY <1>2, LenProperties, Zenon
<1>5. IsInjective(r)
  <2> SUFFICES ASSUME NEW j \in 1 .. Len(r), NEW k \in 1 .. Len(r), r[j] = r[k]
               PROVE  j = k
    BY <1>4, Zenon DEF IsInjective
  <2> DEFINE at(n) == IF n < i THEN n ELSE n + 1
  <2>1. at(j) \in DOMAIN s /\ at(k) \in DOMAIN s
    BY <1>1, <1>2
  <2>2. r[j] = s[at(j)] /\ r[k] = s[at(k)]
    BY <1>3
  <2>3. at(j) = at(k)
    BY <2>1, <2>2, Zenon DEF IsInjective
  <2> QED BY <2>3, <1>1, <1>2
<1>6. Range(r) = Range(s) \ {s[i]}
  <2>1. ASSUME NEW x \in Range(r) PROVE x \in Range(s) \ {s[i]}
    <3>1. PICK j \in 1 .. Len(r) : x = r[j]
      BY <2>1, <1>4, Zenon DEF Range
    <3>2. PICK k \in DOMAIN s : k # i /\ x = s[k]
      <4>1. CASE j < i
        <5>1. j \in DOMAIN s /\ j # i /\ r[j] = s[j]
          BY <4>1, <1>1, <1>2, <1>3
        <5> QED BY <5>1, <3>1, Zenon
      <4>2. CASE j >= i
        <5>1. j + 1 \in DOMAIN s /\ j + 1 # i /\ r[j] = s[j + 1]
          BY <4>2, <1>1, <1>2, <1>3
        <5> QED BY <5>1, <3>1, Zenon
      <4> QED BY <4>1, <4>2, <1>1
    <3>3. x # s[i]
      BY <3>2, Zenon DEF IsInjective
    <3> QED BY <3>2, <3>3, Zenon DEF Range
  <2>2. ASSUME NEW x \in Range(s) \ {s[i]} PROVE x \in Range(r)
    <3>1. PICK j \in 1 .. Len(s) : x = s[j]
      BY <2>2, <1>1, Zenon DEF Range
    <3>2. CASE j < i
      <4>1. j \in 1 .. Len(r) /\ r[j] = s[j]
        BY <3>2, <1>1, <1>2, <1>3
      <4> QED BY <4>1, <3>1, <1>4, Zenon DEF Range
    <3>3. CASE j > i
      <4>1. j - 1 \in 1 .. Len(r) /\ r[j - 1] = s[j]
        BY <3>3, <1>1, <1>2, <1>3
      <4> QED BY <4>1, <3>1, <1>4, Zenon DEF Range
    <3> QED BY <3>1, <3>2, <3>3, <2>2, <1>1
  <2> QED BY <2>1, <2>2, Zenon
<1> QED
  BY <1>2, <1>5, <1>6, Zenon DEF r

\* emplace: one entry more, and still once each.
LEMMA Insert ==
    ASSUME NEW S, NEW s \in Seq(S), NEW i \in 1 .. Len(s) + 1, NEW e \in S,
           IsInjective(s), e \notin Range(s)
    PROVE  /\ emplace(s, i, e) \in Seq(S)
           /\ IsInjective(emplace(s, i, e))
           /\ Range(emplace(s, i, e)) = Range(s) \union {e}
<1> DEFINE r == emplace(s, i, e)
           a == SubSeq(s, 1, i - 1)
           b == SubSeq(s, i, Len(s))
           c == a \o <<e>>
<1>1. Len(s) \in Nat /\ DOMAIN s = 1 .. Len(s)
  BY LenProperties, Zenon
<1>2. /\ a \in Seq(S) /\ Len(a) = i - 1 /\ \A j \in 1 .. i - 1 : a[j] = s[j]
      /\ b \in Seq(S) /\ Len(b) = Len(s) - i + 1 /\ \A j \in 1 .. Len(s) - i + 1 : b[j] = s[i + j - 1]
  <2>1. /\ 1 \in Int /\ i - 1 \in Int /\ i \in Int /\ Len(s) \in Int
        /\ \A j \in 1 .. i - 1 : s[j] \in S
        /\ \A j \in i .. Len(s) : s[j] \in S
    BY <1>1
  <2>2. a \in Seq(S) /\ Len(a) = i - 1 /\ \A j \in 1 .. i - 1 : a[j] = s[j]
    BY <2>1, <1>1, SubSeqProperties
  <2>3. /\ b \in Seq(S) /\ Len(b) = IF i <= Len(s) THEN Len(s) - i + 1 ELSE 0
        /\ \A j \in 1 .. Len(s) - i + 1 : b[j] = s[i + j - 1]
    BY <2>1, SubSeqProperties
  <2> QED BY <2>2, <2>3, <1>1
<1>3. <<e>> \in Seq(S) /\ Len(<<e>>) = 1 /\ <<e>>[1] = e
  OBVIOUS
<1>a. r = c \o b
  BY Zenon DEF emplace
<1> HIDE DEF r, a, b
<1>4. c \in Seq(S) /\ Len(c) = i /\ \A j \in 1 .. i : c[j] = IF j < i THEN s[j] ELSE e
  BY <1>2, <1>3, ConcatProperties
<1> HIDE DEF c
<1>b. Len(c) + Len(b) = Len(s) + 1
  BY <1>1, <1>2, <1>4
<1>d. c \in Seq(S) /\ b \in Seq(S) /\ Len(c) = i
  BY <1>2, <1>4, Zenon
<1>e. /\ c \o b \in Seq(S) /\ Len(c \o b) = Len(c) + Len(b)
      /\ \A j \in 1 .. Len(c) + Len(b) : (c \o b)[j] = IF j <= Len(c) THEN c[j] ELSE b[j - Len(c)]
  BY <1>d, ConcatProperties, Zenon
<1>5. r \in Seq(S) /\ Len(r) = Len(s) + 1
  BY <1>a, <1>b, <1>e, Zenon
<1>c. \A j \in 1 .. Len(r) : r[j] = IF j <= i THEN c[j] ELSE b[j - i]
  BY <1>a, <1>d, <1>e, Zenon
<1>6. ASSUME NEW j \in 1 .. Len(r)
      PROVE  /\ j < i => r[j] = s[j]
             /\ j = i => r[j] = e
             /\ j > i => r[j] = s[j - 1]
  <2>1. CASE j <= i
    BY <2>1, <1>1, <1>4, <1>5, <1>c
  <2>2. CASE j > i
    <3>1. r[j] = b[j - i]
      BY <2>2, <1>1, <1>c
    <3>2. j - i \in 1 .. Len(s) - i + 1 /\ i + (j - i) - 1 = j - 1
      BY <2>2, <1>1, <1>5
    <3>3. b[j - i] = s[i + (j - i) - 1]
      BY <3>2, <1>2, Zenon
    <3> QED BY <3>1, <3>2, <3>3, <2>2
  <2> QED BY <2>1, <2>2, <1>1
<1>7. DOMAIN r = 1 .. Len(r)
  BY <1>5, LenProperties, Zenon
<1>8. \A j \in 1 .. Len(s) : s[j] # e
  BY <1>1, Zenon DEF Range
<1>9. IsInjective(r)
  <2> SUFFICES ASSUME NEW j \in 1 .. Len(r), NEW k \in 1 .. Len(r), r[j] = r[k]
               PROVE  j = k
    BY <1>7, Zenon DEF IsInjective
  <2> DEFINE at(n) == IF n < i THEN n ELSE n - 1
  <2>1. ASSUME NEW n \in 1 .. Len(r), n # i PROVE at(n) \in 1 .. Len(s) /\ r[n] = s[at(n)]
    BY <2>1, <1>1, <1>5, <1>6
  <2>2. ASSUME NEW n \in 1 .. Len(r), n # i PROVE r[n] # r[i]
    <3>1. r[n] # e
      BY <2>1, <2>2, <1>8, Zenon
    <3>2. r[i] = e
      BY <1>1, <1>5, <1>6, Zenon
    <3> QED BY <3>1, <3>2, Zenon
  <2>3. CASE j # i /\ k # i
    <3>1. at(j) = at(k)
      <4>1. at(j) \in DOMAIN s /\ at(k) \in DOMAIN s /\ s[at(j)] = s[at(k)]
        <5> HIDE DEF at
        <5> QED BY <2>1, <2>3, <1>1, Zenon
      <4> HIDE DEF at
      <4> QED BY <4>1, Zenon DEF IsInjective
    <3> QED BY <3>1, <2>3, <1>1
  <2> QED BY <2>2, <2>3, Zenon
<1>10. Range(r) = Range(s) \union {e}
  <2>1. ASSUME NEW x \in Range(r) PROVE x \in Range(s) \union {e}
    <3>1. PICK j \in 1 .. Len(r) : x = r[j]
      BY <2>1, <1>7, Zenon DEF Range
    <3>2. CASE j < i
      BY <3>1, <3>2, <1>1, <1>6 DEF Range
    <3>3. CASE j > i
      <4>1. j - 1 \in 1 .. Len(s) /\ r[j] = s[j - 1]
        BY <3>3, <1>1, <1>5, <1>6
      <4> QED BY <3>1, <4>1, <1>1, Zenon DEF Range
    <3> QED BY <3>1, <3>2, <3>3, <1>1, <1>6
  <2>2. e \in Range(r)
    <3>1. i \in 1 .. Len(r) /\ r[i] = e BY <1>5, <1>6, <1>1, Zenon
    <3> QED BY <3>1, <1>7, Zenon DEF Range
  <2>3. ASSUME NEW x \in Range(s) PROVE x \in Range(r)
    <3>1. PICK j \in 1 .. Len(s) : x = s[j]
      BY <2>3, <1>1, Zenon DEF Range
    <3>2. CASE j < i
      <4>1. j \in 1 .. Len(r) /\ r[j] = s[j]
        BY <3>2, <1>1, <1>5, <1>6
      <4> QED BY <4>1, <3>1, <1>7, Zenon DEF Range
    <3>3. CASE j >= i
      <4>1. j + 1 \in 1 .. Len(r) /\ r[j + 1] = s[j]
        BY <3>3, <1>1, <1>5, <1>6
      <4> QED BY <4>1, <3>1, <1>7, Zenon DEF Range
    <3> QED BY <3>1, <3>2, <3>3, <1>1
  <2> QED BY <2>1, <2>2, <2>3, Zenon
<1> QED
  BY <1>5, <1>9, <1>10, Zenon DEF r

\* emplace_back: what is in the queue then.
LEMMA Appended ==
    ASSUME NEW S, NEW s \in Seq(S), NEW e \in S
    PROVE  Append(s, e) \in Seq(S) /\ Range(Append(s, e)) = Range(s) \union {e}
<1>1. /\ Append(s, e) \in Seq(S) /\ Len(Append(s, e)) = Len(s) + 1
      /\ \A i \in 1 .. Len(s) : Append(s, e)[i] = s[i]
      /\ Append(s, e)[Len(s) + 1] = e
  OBVIOUS
<1>2. DOMAIN s = 1 .. Len(s) /\ DOMAIN Append(s, e) = 1 .. Len(s) + 1 /\ Len(s) \in Nat
  BY <1>1, LenProperties, Zenon
<1> DEFINE r == Append(s, e)
<1> HIDE DEF r
<1>3. \A x \in Range(r) : x \in Range(s) \union {e}
  BY <1>1, <1>2 DEF Range, r
<1>4. \A x \in Range(s) \union {e} : x \in Range(r)
  <2>1. Len(s) + 1 \in DOMAIN r /\ r[Len(s) + 1] = e
    BY <1>1, <1>2 DEF r
  <2>2. \A i \in DOMAIN s : i \in DOMAIN r /\ r[i] = s[i]
    BY <1>1, <1>2 DEF r
  <2> QED BY <2>1, <2>2, Zenon DEF Range
<1> QED BY <1>1, <1>3, <1>4, Zenon DEF r

\* pop_front: what is left.
LEMMA Popped ==
    ASSUME NEW S, NEW s \in Seq(S), s # <<>>
    PROVE  Head(s) \in S /\ Tail(s) \in Seq(S) /\ Range(s) = {Head(s)} \union Range(Tail(s))
<1>1. /\ Head(s) \in S /\ Tail(s) \in Seq(S) /\ Len(Tail(s)) = Len(s) - 1 /\ Len(s) \in Nat \ {0}
      /\ Head(s) = s[1] /\ \A i \in 1 .. Len(s) - 1 : Tail(s)[i] = s[i + 1]
  OBVIOUS
<1>2. DOMAIN s = 1 .. Len(s) /\ DOMAIN Tail(s) = 1 .. Len(s) - 1
  BY <1>1, LenProperties, Zenon
<1> DEFINE r == Tail(s)
           h == Head(s)
<1>3. \A i \in DOMAIN r : i + 1 \in DOMAIN s /\ r[i] = s[i + 1]
  BY <1>1, <1>2
<1>4. \A i \in DOMAIN s : i = 1 \/ (i - 1 \in DOMAIN r /\ r[i - 1] = s[i])
  BY <1>1, <1>2
<1>5. 1 \in DOMAIN s /\ h = s[1]
  BY <1>1, <1>2
<1> HIDE DEF r, h
<1>6. Range(s) = {h} \union Range(r)
  BY <1>3, <1>4, <1>5 DEF Range
<1> QED BY <1>1, <1>6, Zenon DEF r, h

-----------------------------------------------------------------------------
(* The operations that several actions share                               *)

\* cancelDelayedTask erases a valid iterator, and takes only that delay away.
LEMMA Cancelling ==
    ASSUME Types, DelayedIsListed, NEW t \in delayed, cancelDelayedTask(t)
    PROVE  delayed_tasks' \in Seq(Task) /\ DelayedIsListed' /\ delayed' = delayed \ {t}
<1>1. delayed_tasks \in Seq(Task) /\ IsInjective(delayed_tasks) /\ delayed = Range(delayed_tasks)
  BY Zenon DEF Types, DelayedIsListed
<1>2. iterator(t) \in DOMAIN delayed_tasks /\ delayed_tasks[iterator(t)] = t
  BY <1>1, Zenon DEF iterator, Range
<1>3. /\ delayed_tasks' \in Seq(Task) /\ IsInjective(delayed_tasks')
      /\ Range(delayed_tasks') = Range(delayed_tasks) \ {t}
  BY <1>1, <1>2, Erase, Zenon DEF cancelDelayedTask
<1> QED
  BY <1>1, <1>3, Zenon DEF cancelDelayedTask, DelayedIsListed

\* scheduleDelayedTask leaves one entry of the task, with or without an old one.
LEMMA Delaying ==
    ASSUME Types, DelayedIsListed, NEW t \in Task, scheduleDelayedTask(t)
    PROVE  delayed_tasks' \in Seq(Task) /\ DelayedIsListed' /\ delayed' = delayed \union {t}
<1>1. delayed_tasks \in Seq(Task) /\ IsInjective(delayed_tasks) /\ delayed = Range(delayed_tasks)
  BY Zenon DEF Types, DelayedIsListed
<1> DEFINE others == IF t \in delayed THEN erase(delayed_tasks, iterator(t)) ELSE delayed_tasks
<1>2. others \in Seq(Task) /\ IsInjective(others) /\ Range(others) = delayed \ {t}
  <2>1. CASE t \in delayed
    <3>1. iterator(t) \in DOMAIN delayed_tasks /\ delayed_tasks[iterator(t)] = t
      BY <1>1, <2>1, Zenon DEF iterator, Range
    <3> QED BY <1>1, <2>1, <3>1, Erase, Zenon
  <2>2. CASE t \notin delayed
    BY <1>1, <2>2, Zenon
  <2> QED BY <2>1, <2>2, Zenon
<1>3. PICK i \in 1 .. Len(others) + 1 : delayed_tasks' = emplace(others, i, t)
  BY Zenon DEF scheduleDelayedTask
<1> HIDE DEF others
<1>4. /\ delayed_tasks' \in Seq(Task) /\ IsInjective(delayed_tasks')
      /\ Range(delayed_tasks') = Range(others) \union {t}
  BY <1>2, <1>3, Insert
<1>5. delayed' = delayed \union {t}
  BY Zenon DEF scheduleDelayedTask
<1>6. delayed' = Range(delayed_tasks')
  BY <1>2, <1>4, <1>5, Zenon
<1> QED
  BY <1>4, <1>5, <1>6, Zenon DEF DelayedIsListed

\* scheduleTask puts the task into the queue, and leaves the rest there.
LEMMA Enqueueing ==
    ASSUME Types, NEW t \in Task, scheduleTask(t)
    PROVE  tasks' \in Seq(Task) /\ Range(tasks') = Range(tasks) \union {t}
<1>1. tasks \in Seq(Task) /\ tasks' = Append(tasks, t)
  BY Zenon DEF Types, scheduleTask
<1>2. Append(tasks, t) \in Seq(Task) /\ Range(Append(tasks, t)) = Range(tasks) \union {t}
  BY <1>1, Appended
<1> QED BY <1>1, <1>2, Zenon

\* The effect of a call of schedule, of activateAndSchedule or of the delay thread
Effect(t) ==
    /\ tasks' \in Seq(Task) /\ Range(tasks) \subseteq Range(tasks')
    /\ delayed_tasks' \in Seq(Task) /\ DelayedIsListed'
    /\ \/ scheduled' = scheduled /\ delayed' = delayed
       \/ /\ scheduled' = scheduled \union {t} /\ delayed' = delayed \ {t}
          /\ t \in executing \/ t \in Range(tasks')

\* scheduleImpl makes the task scheduled and not delayed, and enqueues it unless it runs.
LEMMA Scheduling ==
    ASSUME Types, DelayedIsListed, NEW t \in Task, scheduleImpl(t)
    PROVE  Effect(t) /\ scheduled' = scheduled \union {t} /\ delayed' = delayed \ {t}
<1>1. delayed_tasks' \in Seq(Task) /\ DelayedIsListed' /\ delayed' = delayed \ {t}
  <2>1. CASE t \in delayed
    BY <2>1, Cancelling, Zenon DEF scheduleImpl
  <2>2. CASE t \notin delayed
    BY <2>2, Zenon DEF scheduleImpl, delays, Types, DelayedIsListed
  <2> QED BY <2>1, <2>2, Zenon
<1>2. /\ tasks' \in Seq(Task) /\ Range(tasks) \subseteq Range(tasks')
      /\ t \in executing \/ t \in Range(tasks')
  <2>1. CASE t \in executing
    BY <2>1, Zenon DEF scheduleImpl, queue, Types
  <2>2. CASE t \notin executing
    BY <2>2, Enqueueing, Zenon DEF scheduleImpl
  <2> QED BY <2>1, <2>2, Zenon
<1>3. scheduled' = scheduled \union {t}
  BY Zenon DEF scheduleImpl
<1> QED BY <1>1, <1>2, <1>3, Zenon DEF Effect

\* schedule has that effect, or none.
LEMMA ScheduleEffect ==
    ASSUME Types, DelayedIsListed, NEW t \in Task, ScheduleBody(t)
    PROVE  Effect(t) /\ (scheduled' = scheduled \/ t \notin deactivated)
<1>1. CASE t \in deactivated \union scheduled
  BY <1>1, Zenon DEF ScheduleBody, Effect, Types, queue, delays, DelayedIsListed
<1>2. CASE t \notin deactivated \union scheduled
  <2>1. scheduleImpl(t)
    BY <1>2, Zenon DEF ScheduleBody
  <2> QED BY <1>2, <2>1, Scheduling, Zenon
<1> QED BY <1>1, <1>2, Zenon

-----------------------------------------------------------------------------
(* Every action preserves the invariant                                    *)

\* schedule preserves the invariant.
LEMMA Step_schedule ==
    ASSUME IInv, NEW t \in Task, schedule(t)
    PROVE  IInv'
<1> USE DEF schedule, Called, queue, delays, threads, delay_thread, callers, flags
<1>0. Types /\ Targets /\ Locks /\ Runs /\ Flags /\ DelayedIsListed /\ ScheduledIsQueued
  BY Zenon DEF IInv
<1>a. Effect(t) /\ (scheduled' = scheduled \/ t \notin deactivated)
  BY <1>0, ScheduleEffect, Zenon
<1>1. Types'
  BY <1>0, <1>a, ConstantsAssumption, Zenon DEF Types, Targets, Effect
<1>2. Targets'
  BY <1>0, <1>a, Zenon DEF Types, Targets, Effect
<1>3. Locks'
  BY <1>0, <1>a, ConstantsAssumption, Zenon DEF Types, Targets, Locks, Effect
<1>4. Runs'
  BY <1>0, <1>a, Zenon DEF Types, Targets, Locks, Runs, Effect
<1>5. Flags'
  <2>1. CASE scheduled' = scheduled /\ delayed' = delayed
    BY <1>0, <2>1, Zenon DEF Flags
  <2>2. CASE scheduled' = scheduled \union {t} /\ delayed' = delayed \ {t}
    BY <1>0, <1>a, <2>2, Zenon DEF Flags
  <2> QED BY <1>a, <2>1, <2>2, Zenon DEF Effect
<1>6. DelayedIsListed'
  BY <1>0, <1>a, Zenon DEF DelayedIsListed, Effect
<1>7. ScheduledIsQueued'
  <2>1. CASE scheduled' = scheduled
    BY <1>0, <1>a, <2>1, Zenon DEF ScheduledIsQueued, Effect
  <2>2. CASE scheduled' = scheduled \union {t} /\ (t \in executing \/ t \in Range(tasks'))
    BY <1>0, <1>a, <2>2, Zenon DEF ScheduledIsQueued, Effect
  <2> QED BY <1>a, <2>1, <2>2, Zenon DEF Effect
<1> QED
  BY <1>1, <1>2, <1>3, <1>4, <1>5, <1>6, <1>7, Zenon DEF IInv

\* scheduleAfter preserves the invariant.
LEMMA Step_scheduleAfter ==
    ASSUME IInv, NEW t \in Task, NEW o \in BOOLEAN, NEW i \in BOOLEAN, scheduleAfter(t, o, i)
    PROVE  IInv'
<1> USE DEF scheduleAfter, Called, queue, delays, threads, delay_thread, callers, flags
<1>0. Types /\ Targets /\ Locks /\ Runs /\ Flags /\ DelayedIsListed /\ ScheduledIsQueued
  BY Zenon DEF IInv
<1>a. delayed_tasks' \in Seq(Task) /\ DelayedIsListed' /\ delayed' = delayed \union {t}
  BY <1>0, Delaying, Zenon
<1>1. Types'
  BY <1>0, <1>a, ConstantsAssumption, Zenon DEF Types, Targets
<1>2. Targets'
  BY <1>0, <1>a, Zenon DEF Types, Targets
<1>3. Locks'
  BY <1>0, <1>a, ConstantsAssumption, Zenon DEF Types, Targets, Locks
<1>4. Runs'
  BY <1>0, <1>a, Zenon DEF Types, Targets, Locks, Runs
<1>5. Flags'
  BY <1>0, <1>a, Zenon DEF Types, Flags
<1>6. DelayedIsListed'
  BY <1>0, <1>a, Zenon DEF DelayedIsListed
<1>7. ScheduledIsQueued'
  BY <1>0, <1>a, Zenon DEF Types, ScheduledIsQueued, Runs
<1> QED
  BY <1>1, <1>2, <1>3, <1>4, <1>5, <1>6, <1>7, ZenonT(30) DEF IInv

\* activate preserves the invariant.
LEMMA Step_activate ==
    ASSUME IInv, NEW t \in Task, activate(t)
    PROVE  IInv'
<1> USE DEF activate, Called, queue, delays, threads, delay_thread, callers, flags
<1>0. Types /\ Targets /\ Locks /\ Runs /\ Flags /\ DelayedIsListed /\ ScheduledIsQueued
  BY Zenon DEF IInv
<1>1. Types'
  BY <1>0, ConstantsAssumption, Zenon DEF Types, Targets
<1>2. Targets'
  BY <1>0, Zenon DEF Types, Targets
<1>3. Locks'
  BY <1>0, ConstantsAssumption, Zenon DEF Types, Targets, Locks
<1>4. Runs'
  BY <1>0, Zenon DEF Types, Targets, Locks, Runs
<1>5. Flags'
  BY <1>0, Zenon DEF Types, Flags
<1>6. DelayedIsListed'
  BY <1>0, Zenon DEF DelayedIsListed
<1>7. ScheduledIsQueued'
  BY <1>0, Zenon DEF Types, ScheduledIsQueued, Runs
<1> QED
  BY <1>1, <1>2, <1>3, <1>4, <1>5, <1>6, <1>7, Zenon DEF IInv

\* activateAndSchedule preserves the invariant.
LEMMA Step_activateAndSchedule ==
    ASSUME IInv, NEW t \in Task, activateAndSchedule(t)
    PROVE  IInv'
<1> USE DEF activateAndSchedule, Called, queue, delays, threads, delay_thread, callers, flags
<1>0. Types /\ Targets /\ Locks /\ Runs /\ Flags /\ DelayedIsListed /\ ScheduledIsQueued
  BY Zenon DEF IInv
<1>a. Effect(t) /\ (t \in scheduled \/ scheduled' = scheduled \union {t})
  <2>1. CASE t \in scheduled
    <3>1. UNCHANGED <<scheduled, delayed, tasks, delayed_tasks>>
      BY <2>1, Zenon
    <3> QED BY <1>0, <2>1, <3>1, Zenon DEF Effect, Types, DelayedIsListed
  <2>2. CASE t \notin scheduled
    <3>1. scheduleImpl(t) BY <2>2, Zenon
    <3> QED BY <1>0, <3>1, Scheduling, Zenon
  <2> QED BY <2>1, <2>2, Zenon
<1>b. deactivated' = deactivated \ {t} /\ executing' = executing
  OBVIOUS
<1>1. Types'
  BY <1>0, <1>a, ConstantsAssumption, Zenon DEF Types, Targets, Effect
<1>2. Targets'
  BY <1>0, <1>a, Zenon DEF Types, Targets, Effect
<1>3. Locks'
  BY <1>0, <1>a, ConstantsAssumption, Zenon DEF Types, Targets, Locks, Effect
<1>4. Runs'
  BY <1>0, <1>a, Zenon DEF Types, Targets, Locks, Runs, Effect
<1>5. Flags'
  <2>1. CASE scheduled' = scheduled /\ delayed' = delayed
    BY <1>0, <2>1, Zenon DEF Flags
  <2>2. CASE scheduled' = scheduled \union {t} /\ delayed' = delayed \ {t}
    BY <1>0, <1>a, <1>b, <2>2, Zenon DEF Flags
  <2> QED BY <1>a, <2>1, <2>2, Zenon DEF Effect
<1>6. DelayedIsListed'
  BY <1>0, <1>a, Zenon DEF DelayedIsListed, Effect
<1>7. ScheduledIsQueued'
  <2>1. CASE scheduled' = scheduled
    BY <1>0, <1>a, <2>1, Zenon DEF ScheduledIsQueued, Effect
  <2>2. CASE scheduled' = scheduled \union {t} /\ (t \in executing \/ t \in Range(tasks'))
    BY <1>0, <1>a, <2>2, Zenon DEF ScheduledIsQueued, Effect
  <2> QED BY <1>a, <2>1, <2>2, Zenon DEF Effect
<1> QED
  BY <1>1, <1>2, <1>3, <1>4, <1>5, <1>6, <1>7, Zenon DEF IInv

\* callDeactivate preserves the invariant.
LEMMA Step_callDeactivate ==
    ASSUME IInv, NEW c \in Caller, NEW t \in Task, callDeactivate(c, t)
    PROVE  IInv'
<1> USE DEF callDeactivate, Called, queue, delays, threads, delay_thread, callers, flags
<1>0. Types /\ Targets /\ Locks /\ Runs /\ Flags /\ DelayedIsListed /\ ScheduledIsQueued
  BY Zenon DEF IInv
<1>1. Types'
  BY <1>0, ConstantsAssumption, Zenon DEF Types, Targets
<1>2. Targets'
  BY <1>0, Zenon DEF Types, Targets
<1>3. Locks'
  BY <1>0, ConstantsAssumption, Zenon DEF Types, Targets, Locks
<1>4. Runs'
  BY <1>0, Zenon DEF Types, Targets, Locks, Runs
<1>5. Flags'
  BY <1>0, Zenon DEF Types, Flags
<1>6. DelayedIsListed'
  BY <1>0, Zenon DEF DelayedIsListed
<1>7. ScheduledIsQueued'
  BY <1>0, Zenon DEF Types, ScheduledIsQueued, Runs
<1> QED
  BY <1>1, <1>2, <1>3, <1>4, <1>5, <1>6, <1>7, Zenon DEF IInv

\* callGetExecLock preserves the invariant.
LEMMA Step_callGetExecLock ==
    ASSUME IInv, NEW c \in Caller, NEW t \in Task, callGetExecLock(c, t)
    PROVE  IInv'
<1> USE DEF callGetExecLock, Called, queue, delays, threads, delay_thread, callers, flags
<1>0. Types /\ Targets /\ Locks /\ Runs /\ Flags /\ DelayedIsListed /\ ScheduledIsQueued
  BY Zenon DEF IInv
<1>1. Types'
  BY <1>0, ConstantsAssumption, Zenon DEF Types, Targets
<1>2. Targets'
  BY <1>0, Zenon DEF Types, Targets
<1>3. Locks'
  BY <1>0, ConstantsAssumption, Zenon DEF Types, Targets, Locks
<1>4. Runs'
  BY <1>0, Zenon DEF Types, Targets, Locks, Runs
<1>5. Flags'
  BY <1>0, Zenon DEF Types, Flags
<1>6. DelayedIsListed'
  BY <1>0, Zenon DEF DelayedIsListed
<1>7. ScheduledIsQueued'
  BY <1>0, Zenon DEF Types, ScheduledIsQueued, Runs
<1> QED
  BY <1>1, <1>2, <1>3, <1>4, <1>5, <1>6, <1>7, Zenon DEF IInv

\* lockExec preserves the invariant.
LEMMA Step_lockExec ==
    ASSUME IInv, NEW c \in Caller, lockExec(c)
    PROVE  IInv'
<1> USE DEF lockExec, queue, delays, threads, delay_thread, callers, flags
<1>0. Types /\ Targets /\ Locks /\ Runs /\ Flags /\ DelayedIsListed /\ ScheduledIsQueued
  BY DEF IInv
<1>1. Types'
  BY <1>0, ConstantsAssumption, Zenon DEF Types, Targets
<1>2. Targets'
  BY <1>0, Zenon DEF Types, Targets
<1>3. Locks'
  BY <1>0, ConstantsAssumption DEF Types, Targets, Locks
<1>4. Runs'
  BY <1>0, Zenon DEF Types, Targets, Locks, Runs
<1>5. Flags'
  BY <1>0, Zenon DEF Types, Flags
<1>6. DelayedIsListed'
  BY <1>0, Zenon DEF DelayedIsListed
<1>7. ScheduledIsQueued'
  BY <1>0, Zenon DEF Types, ScheduledIsQueued, Runs
<1> QED
  BY <1>1, <1>2, <1>3, <1>4, <1>5, <1>6, <1>7, ZenonT(30) DEF IInv

\* deactivate preserves the invariant.
LEMMA Step_deactivate ==
    ASSUME IInv, NEW c \in Caller, deactivate(c)
    PROVE  IInv'
<1> USE DEF deactivate, queue, delays, threads, delay_thread, callers, flags
<1>0. Types /\ Targets /\ Locks /\ Runs /\ Flags /\ DelayedIsListed /\ ScheduledIsQueued
  BY Zenon DEF IInv
<1> DEFINE t == target[c]
<1>b. t \in Task /\ exec_mutex[t] = c /\ c \notin Thread
  BY <1>0, ConstantsAssumption, Zenon DEF Targets, Locks
<1>c. t \notin executing
  BY <1>0, <1>b DEF Runs, Locks
<1>a. delayed_tasks' \in Seq(Task) /\ DelayedIsListed' /\ delayed' = delayed \ {t}
  <2>1. CASE t \in delayed
    BY <1>0, <2>1, Cancelling, Zenon
  <2>2. CASE t \notin delayed
    BY <1>0, <2>2, Zenon DEF Types, DelayedIsListed
  <2> QED BY <2>1, <2>2, Zenon
<1>1. Types'
  BY <1>0, <1>a, <1>b, <1>c, ConstantsAssumption, Zenon DEF Types, Targets
<1>2. Targets'
  BY <1>0, <1>a, <1>b, <1>c, Zenon DEF Types, Targets
<1>3. Locks'
  BY <1>0, <1>a, <1>b, <1>c, ConstantsAssumption DEF Types, Targets, Locks
<1>4. Runs'
  BY <1>0, <1>a, <1>b, <1>c, Zenon DEF Types, Targets, Locks, Runs
<1>5. Flags'
  <2>1. deactivated' = deactivated \union {t} /\ scheduled' = scheduled \ {t} /\ executing' = executing
    OBVIOUS
  <2> HIDE DEF t, deactivate
  <2> QED BY <1>0, <1>a, <1>c, <2>1, Zenon DEF Flags
<1>6. DelayedIsListed'
  BY <1>0, <1>a, <1>b, <1>c, Zenon DEF DelayedIsListed
<1>7. ScheduledIsQueued'
  BY <1>0, <1>a, <1>b, <1>c, Zenon DEF Types, ScheduledIsQueued, Runs
<1> QED
  BY <1>1, <1>2, <1>3, <1>4, <1>5, <1>6, <1>7, Zenon DEF IInv

\* unlockExec preserves the invariant.
LEMMA Step_unlockExec ==
    ASSUME IInv, NEW c \in Caller, unlockExec(c)
    PROVE  IInv'
<1> USE DEF unlockExec, queue, delays, threads, delay_thread, callers, flags
<1>0. Types /\ Targets /\ Locks /\ Runs /\ Flags /\ DelayedIsListed /\ ScheduledIsQueued
  BY Zenon DEF IInv
<1>1. Types'
  BY <1>0, ConstantsAssumption, Zenon DEF Types, Targets
<1>2. Targets'
  BY <1>0, Zenon DEF Types, Targets
<1>3. Locks'
  BY <1>0, ConstantsAssumption DEF Types, Targets, Locks
<1>4. Runs'
  BY <1>0, Zenon DEF Types, Targets, Locks, Runs
<1>5. Flags'
  BY <1>0, Zenon DEF Types, Flags
<1>6. DelayedIsListed'
  BY <1>0, Zenon DEF DelayedIsListed
<1>7. ScheduledIsQueued'
  BY <1>0, Zenon DEF Types, ScheduledIsQueued, Runs
<1> QED
  BY <1>1, <1>2, <1>3, <1>4, <1>5, <1>6, <1>7, Zenon DEF IInv

\* nextRound preserves the invariant.
LEMMA Step_nextRound ==
    ASSUME IInv, NEW w \in Thread, nextRound(w)
    PROVE  IInv'
<1> USE DEF nextRound, queue, delays, threads, delay_thread, callers, flags
<1>0. Types /\ Targets /\ Locks /\ Runs /\ Flags /\ DelayedIsListed /\ ScheduledIsQueued
  BY Zenon DEF IInv
<1>1. Types'
  BY <1>0, ConstantsAssumption, Zenon DEF Types, Targets
<1>2. Targets'
  BY <1>0, Zenon DEF Types, Targets
<1>3. Locks'
  BY <1>0, ConstantsAssumption, Zenon DEF Types, Targets, Locks
<1>4. Runs'
  BY <1>0 DEF Types, Targets, Locks, Runs
<1>5. Flags'
  BY <1>0, Zenon DEF Types, Flags
<1>6. DelayedIsListed'
  BY <1>0, Zenon DEF DelayedIsListed
<1>7. ScheduledIsQueued'
  BY <1>0, Zenon DEF Types, ScheduledIsQueued, Runs
<1> QED
  BY <1>1, <1>2, <1>3, <1>4, <1>5, <1>6, <1>7, Zenon DEF IInv

\* takeTask preserves the invariant.
LEMMA Step_takeTask ==
    ASSUME IInv, NEW w \in Thread, takeTask(w)
    PROVE  IInv'
<1> USE DEF takeTask, queue, delays, threads, delay_thread, callers, flags
<1>0. Types /\ Targets /\ Locks /\ Runs /\ Flags /\ DelayedIsListed /\ ScheduledIsQueued
  BY Zenon DEF IInv
<1>a. Head(tasks) \in Task /\ tasks' \in Seq(Task) /\ Range(tasks) = {Head(tasks)} \union Range(tasks')
  <2>1. tasks \in Seq(Task) /\ tasks # <<>> /\ tasks' = Tail(tasks)
    BY <1>0, Zenon DEF Types
  <2>2. /\ Head(tasks) \in Task /\ Tail(tasks) \in Seq(Task)
        /\ Range(tasks) = {Head(tasks)} \union Range(Tail(tasks))
    BY <2>1, Popped, Zenon
  <2> QED BY <2>1, <2>2, Zenon
<1>1. Types'
  BY <1>0, <1>a, ConstantsAssumption, Zenon DEF Types, Targets
<1>2. Targets'
  BY <1>0, <1>a, Zenon DEF Types, Targets
<1>3. Locks'
  BY <1>0, <1>a, ConstantsAssumption, Zenon DEF Types, Targets, Locks
<1>4. Runs'
  BY <1>0, <1>a DEF Types, Targets, Locks, Runs
<1>5. Flags'
  BY <1>0, <1>a, Zenon DEF Types, Flags
<1>6. DelayedIsListed'
  BY <1>0, <1>a, Zenon DEF DelayedIsListed
<1>7. ScheduledIsQueued'
  <2>1. pc'[w] = "taken" /\ task'[w] = Head(tasks)
    BY <1>0, Zenon DEF Types
  <2>2. \A v \in Thread : pc[v] \in {"taken", "locked"} => v # w /\ pc'[v] = pc[v] /\ task'[v] = task[v]
    BY <1>0, Zenon DEF Types
  <2>3. scheduled' = scheduled /\ executing' = executing
    OBVIOUS
  <2> QED BY <1>0, <1>a, <2>1, <2>2, <2>3 DEF ScheduledIsQueued
<1> QED
  BY <1>1, <1>2, <1>3, <1>4, <1>5, <1>6, <1>7, Zenon DEF IInv

\* findNoTask preserves the invariant.
LEMMA Step_findNoTask ==
    ASSUME IInv, NEW w \in Thread, findNoTask(w)
    PROVE  IInv'
<1> USE DEF findNoTask, queue, delays, threads, delay_thread, callers, flags
<1>0. Types /\ Targets /\ Locks /\ Runs /\ Flags /\ DelayedIsListed /\ ScheduledIsQueued
  BY Zenon DEF IInv
<1>a. \A v \in Thread : pc'[v] = pc[v] \/ (pc[v] = "check" /\ pc'[v] = "loop")
  <2>1. CASE shutdown
    <3>1. pc' = [pc EXCEPT ![w] = "loop"] BY <2>1, Zenon
    <3> QED BY <1>0, <3>1, Zenon DEF Types
  <2>2. CASE ~shutdown
    <3>1. pc' = pc BY <2>2, Zenon
    <3> QED BY <3>1, Zenon
  <2> QED BY <2>1, <2>2, Zenon
<1>b. pc' \in [Thread -> {"none", "loop", "check", "taken", "locked", "function", "exit"}]
  <2>1. CASE shutdown
    <3>1. pc' = [pc EXCEPT ![w] = "loop"] BY <2>1, Zenon
    <3> QED BY <1>0, <3>1, Zenon DEF Types
  <2>2. CASE ~shutdown
    <3>1. pc' = pc BY <2>2, Zenon
    <3> QED BY <1>0, <3>1, Zenon DEF Types
  <2> QED BY <2>1, <2>2, Zenon
<1>c. UNCHANGED <<deactivated, scheduled, delayed, executing, exec_mutex, tasks, delayed_tasks, task, d_pc, d_task, call, target>>
  OBVIOUS
<1> HIDE DEF findNoTask
<1>1. Types'
  BY <1>0, <1>a, <1>b, <1>c, ConstantsAssumption, Zenon DEF Types, Targets
<1>2. Targets'
  BY <1>0, <1>a, <1>b, <1>c, Zenon DEF Types, Targets
<1>3. Locks'
  BY <1>0, <1>a, <1>b, <1>c, ConstantsAssumption, Zenon DEF Types, Targets, Locks
<1>4. Runs'
  BY <1>0, <1>a, <1>b, <1>c DEF Types, Targets, Locks, Runs
<1>5. Flags'
  BY <1>0, <1>a, <1>b, <1>c, Zenon DEF Types, Flags
<1>6. DelayedIsListed'
  BY <1>0, <1>a, <1>b, <1>c, Zenon DEF DelayedIsListed
<1>7. ScheduledIsQueued'
  BY <1>0, <1>a, <1>b, <1>c, Zenon DEF Types, ScheduledIsQueued, Runs
<1> QED
  BY <1>1, <1>2, <1>3, <1>4, <1>5, <1>6, <1>7, Zenon DEF IInv

\* wakeSpuriously preserves the invariant.
LEMMA Step_wakeSpuriously ==
    ASSUME IInv, NEW w \in Thread, wakeSpuriously(w)
    PROVE  IInv'
<1> USE DEF wakeSpuriously, queue, delays, threads, delay_thread, callers, flags
<1>0. Types /\ Targets /\ Locks /\ Runs /\ Flags /\ DelayedIsListed /\ ScheduledIsQueued
  BY Zenon DEF IInv
<1>1. Types'
  BY <1>0, ConstantsAssumption, Zenon DEF Types, Targets
<1>2. Targets'
  BY <1>0, Zenon DEF Types, Targets
<1>3. Locks'
  BY <1>0, ConstantsAssumption, Zenon DEF Types, Targets, Locks
<1>4. Runs'
  BY <1>0, Zenon DEF Types, Targets, Locks, Runs
<1>5. Flags'
  BY <1>0, Zenon DEF Types, Flags
<1>6. DelayedIsListed'
  BY <1>0, Zenon DEF DelayedIsListed
<1>7. ScheduledIsQueued'
  BY <1>0, Zenon DEF Types, ScheduledIsQueued, Runs
<1> QED
  BY <1>1, <1>2, <1>3, <1>4, <1>5, <1>6, <1>7, Zenon DEF IInv

\* lockTask preserves the invariant.
LEMMA Step_lockTask ==
    ASSUME IInv, NEW w \in Thread, lockTask(w)
    PROVE  IInv'
<1> USE DEF lockTask, queue, delays, threads, delay_thread, callers, flags
<1>0. Types /\ Targets /\ Locks /\ Runs /\ Flags /\ DelayedIsListed /\ ScheduledIsQueued
  BY Zenon DEF IInv
<1>1. Types'
  BY <1>0, ConstantsAssumption, Zenon DEF Types, Targets
<1>2. Targets'
  BY <1>0, Zenon DEF Types, Targets
<1>3. Locks'
  BY <1>0, ConstantsAssumption DEF Types, Targets, Locks
<1>4. Runs'
  BY <1>0 DEF Types, Targets, Locks, Runs
<1>5. Flags'
  BY <1>0, Zenon DEF Types, Flags
<1>6. DelayedIsListed'
  BY <1>0, Zenon DEF DelayedIsListed
<1>7. ScheduledIsQueued'
  BY <1>0, Zenon DEF Types, ScheduledIsQueued, Runs
<1> QED
  BY <1>1, <1>2, <1>3, <1>4, <1>5, <1>6, <1>7, Zenon DEF IInv

\* startFunction preserves the invariant.
LEMMA Step_startFunction ==
    ASSUME IInv, NEW w \in Thread, startFunction(w)
    PROVE  IInv'
<1> USE DEF startFunction, queue, delays, threads, delay_thread, callers, flags
<1>0. Types /\ Targets /\ Locks /\ Runs /\ Flags /\ DelayedIsListed /\ ScheduledIsQueued
  BY Zenon DEF IInv
<1>a. task[w] \in Task /\ exec_mutex[task[w]] = w
  BY <1>0, Zenon DEF Targets, Locks
<1>b. UNCHANGED <<deactivated, delayed, tasks, delayed_tasks, task, d_pc, d_task, call, target>>
  OBVIOUS
<1>c. CASE task[w] \in deactivated
  <2>1. /\ exec_mutex' = [exec_mutex EXCEPT ![task[w]] = NONE] /\ pc' = [pc EXCEPT ![w] = "loop"]
        /\ scheduled' = scheduled /\ executing' = executing /\ pc[w] = "locked"
    BY <1>c, Zenon
  <2> HIDE DEF startFunction
  <2>2. Types'
    BY <1>0, <1>a, <1>b, <2>1, Zenon DEF Types
  <2>3. Targets'
    BY <1>0, <1>b, <2>1, Zenon DEF Types, Targets
  <2>4. Locks'
    BY <1>0, <1>a, <1>b, <2>1, ConstantsAssumption DEF Types, Targets, Locks
  <2>5. Runs'
    BY <1>0, <1>b, <2>1, Zenon DEF Types, Runs
  <2>6. Flags' /\ DelayedIsListed'
    BY <1>0, <1>b, <2>1, Zenon DEF Flags, DelayedIsListed
  <2>7. ScheduledIsQueued'
    <3>1. task[w] \notin scheduled
      BY <1>0, <1>c, Zenon DEF Flags
    <3> QED BY <1>0, <1>b, <2>1, <3>1 DEF Types, ScheduledIsQueued
  <2> QED BY <2>2, <2>3, <2>4, <2>5, <2>6, <2>7, Zenon DEF IInv
<1>d. CASE task[w] \notin deactivated
  <2>1. /\ scheduled' = scheduled \ {task[w]} /\ executing' = executing \union {task[w]}
        /\ pc' = [pc EXCEPT ![w] = "function"] /\ exec_mutex' = exec_mutex /\ pc[w] = "locked"
    BY <1>d, Zenon
  <2> HIDE DEF startFunction
  <2>2. Types'
    BY <1>0, <1>a, <1>b, <2>1, Zenon DEF Types
  <2>3. Targets'
    BY <1>0, <1>b, <2>1, Zenon DEF Types, Targets
  <2>4. Locks'
    BY <1>0, <1>a, <1>b, <2>1, Zenon DEF Types, Locks
  <2>5. Runs'
    <3>1. \A v \in Thread : pc'[v] = IF v = w THEN "function" ELSE pc[v]
      BY <1>0, <2>1, Zenon DEF Types
    <3> QED BY <1>0, <1>b, <2>1, <3>1 DEF Runs
  <2>6. Flags' /\ DelayedIsListed'
    BY <1>0, <1>b, <1>d, <2>1, Zenon DEF Flags, DelayedIsListed
  <2>7. ScheduledIsQueued'
    <3>1. \A v \in Thread : pc'[v] = IF v = w THEN "function" ELSE pc[v]
      BY <1>0, <2>1, Zenon DEF Types
    <3> QED BY <1>0, <1>b, <2>1, <3>1, Zenon DEF ScheduledIsQueued
  <2> QED BY <2>2, <2>3, <2>4, <2>5, <2>6, <2>7, Zenon DEF IInv
<1> QED BY <1>c, <1>d, Zenon

\* endFunction preserves the invariant.
LEMMA Step_endFunction ==
    ASSUME IInv, NEW w \in Thread, endFunction(w)
    PROVE  IInv'
<1> USE DEF endFunction, queue, delays, threads, delay_thread, callers, flags
<1>0. Types /\ Targets /\ Locks /\ Runs /\ Flags /\ DelayedIsListed /\ ScheduledIsQueued
  BY Zenon DEF IInv
<1>b. task[w] \in Task
  BY <1>0, Zenon DEF Targets
<1>a. /\ tasks' \in Seq(Task) /\ Range(tasks) \subseteq Range(tasks')
      /\ task[w] \in scheduled => task[w] \in Range(tasks')
  <2>1. CASE task[w] \in scheduled
    BY <1>0, <1>b, <2>1, Enqueueing, Zenon
  <2>2. CASE task[w] \notin scheduled
    BY <1>0, <2>2, Zenon DEF Types
  <2> QED BY <2>1, <2>2, Zenon
<1>c. /\ pc' = [pc EXCEPT ![w] = "loop"] /\ exec_mutex' = [exec_mutex EXCEPT ![task[w]] = NONE]
      /\ executing' = executing \ {task[w]} /\ pc[w] = "function" /\ exec_mutex[task[w]] = w
      /\ UNCHANGED <<deactivated, scheduled, delayed, delayed_tasks, task, d_pc, d_task, call, target>>
  BY <1>0, Zenon DEF Locks
<1> HIDE DEF endFunction
<1>d. \A v \in Thread : /\ pc'[v] = IF v = w THEN "loop" ELSE pc[v]
                        /\ v # w /\ pc[v] \in {"locked", "function"} => task[v] # task[w]
  BY <1>0, <1>c, Zenon DEF Types, Locks
<1>e. \A c \in Caller : call[c] \in {"deactivating", "locked"} => target[c] # task[w]
  BY <1>0, <1>c, ConstantsAssumption, Zenon DEF Locks
<1>1. Types'
  BY <1>0, <1>a, <1>b, <1>c, <1>d, <1>e, ConstantsAssumption, Zenon DEF Types, Targets
<1>2. Targets'
  BY <1>0, <1>a, <1>b, <1>c, <1>d, <1>e, Zenon DEF Types, Targets
<1>3. Locks'
  BY <1>0, <1>a, <1>b, <1>c, <1>d, <1>e, ConstantsAssumption DEF Types, Targets, Locks
<1>4. Runs'
  BY <1>0, <1>a, <1>b, <1>c, <1>d, <1>e DEF Types, Targets, Locks, Runs
<1>5. Flags'
  BY <1>0, <1>a, <1>b, <1>c, <1>d, <1>e, Zenon DEF Types, Flags
<1>6. DelayedIsListed'
  BY <1>0, <1>a, <1>b, <1>c, <1>d, <1>e, ZenonT(30) DEF DelayedIsListed
<1>7. ScheduledIsQueued'
  BY <1>0, <1>a, <1>b, <1>c, <1>d, <1>e DEF Types, ScheduledIsQueued, Runs
<1> QED
  BY <1>1, <1>2, <1>3, <1>4, <1>5, <1>6, <1>7, Zenon DEF IInv

\* delayNextRound preserves the invariant.
LEMMA Step_delayNextRound ==
    ASSUME IInv, delayNextRound
    PROVE  IInv'
<1> USE DEF delayNextRound, queue, delays, threads, delay_thread, callers, flags
<1>0. Types /\ Targets /\ Locks /\ Runs /\ Flags /\ DelayedIsListed /\ ScheduledIsQueued
  BY Zenon DEF IInv
<1>1. Types'
  BY <1>0, ConstantsAssumption, Zenon DEF Types, Targets
<1>2. Targets'
  BY <1>0, Zenon DEF Types, Targets
<1>3. Locks'
  BY <1>0, ConstantsAssumption, Zenon DEF Types, Targets, Locks
<1>4. Runs'
  BY <1>0, Zenon DEF Types, Targets, Locks, Runs
<1>5. Flags'
  BY <1>0, Zenon DEF Types, Flags
<1>6. DelayedIsListed'
  BY <1>0, Zenon DEF DelayedIsListed
<1>7. ScheduledIsQueued'
  BY <1>0, Zenon DEF Types, ScheduledIsQueued, Runs
<1> QED
  BY <1>1, <1>2, <1>3, <1>4, <1>5, <1>6, <1>7, Zenon DEF IInv

\* delayWait preserves the invariant.
LEMMA Step_delayWait ==
    ASSUME IInv, delayWait
    PROVE  IInv'
<1> USE DEF delayWait, queue, delays, threads, delay_thread, callers, flags
<1>0. Types /\ Targets /\ Locks /\ Runs /\ Flags /\ DelayedIsListed /\ ScheduledIsQueued
  BY DEF IInv
<1>a. FirstDelayed \in Task \union {NONE}
  <2>1. delayed_tasks \in Seq(Task) /\ d_task \in Task \union {NONE}
    BY <1>0 DEF Types
  <2>2. CASE delayed_tasks = <<>>
    BY <2>1, <2>2 DEF FirstDelayed
  <2>3. CASE delayed_tasks # <<>>
    <3>1. Head(delayed_tasks) \in Task
      BY <2>1, <2>3, Popped
    <3> QED BY <2>3, <3>1 DEF FirstDelayed
  <2> QED BY <2>2, <2>3
<1>1. Types'
  BY <1>0, <1>a, ConstantsAssumption DEF Types, Targets
<1>2. Targets'
  BY <1>0, <1>a DEF Types, Targets
<1>3. Locks'
  BY <1>0, <1>a, ConstantsAssumption DEF Types, Targets, Locks
<1>4. Runs'
  BY <1>0, <1>a DEF Types, Targets, Locks, Runs
<1>5. Flags'
  BY <1>0, <1>a DEF Types, Flags
<1>6. DelayedIsListed'
  BY <1>0, <1>a DEF DelayedIsListed
<1>7. ScheduledIsQueued'
  BY <1>0, <1>a DEF Types, ScheduledIsQueued, Runs
<1> QED
  BY <1>1, <1>2, <1>3, <1>4, <1>5, <1>6, <1>7, ZenonT(30) DEF IInv

\* delayFind preserves the invariant.
LEMMA Step_delayFind ==
    ASSUME IInv, delayFind
    PROVE  IInv'
<1> USE DEF delayFind, queue, delays, threads, delay_thread, callers, flags
<1>0. Types /\ Targets /\ Locks /\ Runs /\ Flags /\ DelayedIsListed /\ ScheduledIsQueued
  BY Zenon DEF IInv
<1>a. FirstDelayed \in Task
  BY <1>0 DEF Types, FirstDelayed
<1>1. Types'
  BY <1>0, <1>a, ConstantsAssumption, Zenon DEF Types, Targets
<1>2. Targets'
  BY <1>0, <1>a, Zenon DEF Types, Targets
<1>3. Locks'
  BY <1>0, <1>a, ConstantsAssumption, Zenon DEF Types, Targets, Locks
<1>4. Runs'
  BY <1>0, <1>a, Zenon DEF Types, Targets, Locks, Runs
<1>5. Flags'
  BY <1>0, <1>a, Zenon DEF Types, Flags
<1>6. DelayedIsListed'
  BY <1>0, <1>a, Zenon DEF DelayedIsListed
<1>7. ScheduledIsQueued'
  BY <1>0, <1>a, Zenon DEF Types, ScheduledIsQueued, Runs
<1> QED
  BY <1>1, <1>2, <1>3, <1>4, <1>5, <1>6, <1>7, Zenon DEF IInv

\* delayLeave preserves the invariant.
LEMMA Step_delayLeave ==
    ASSUME IInv, delayLeave
    PROVE  IInv'
<1> USE DEF delayLeave, queue, delays, threads, delay_thread, callers, flags
<1>0. Types /\ Targets /\ Locks /\ Runs /\ Flags /\ DelayedIsListed /\ ScheduledIsQueued
  BY Zenon DEF IInv
<1>1. Types'
  BY <1>0, ConstantsAssumption, Zenon DEF Types, Targets
<1>2. Targets'
  BY <1>0, Zenon DEF Types, Targets
<1>3. Locks'
  BY <1>0, ConstantsAssumption, Zenon DEF Types, Targets, Locks
<1>4. Runs'
  BY <1>0, Zenon DEF Types, Targets, Locks, Runs
<1>5. Flags'
  BY <1>0, Zenon DEF Types, Flags
<1>6. DelayedIsListed'
  BY <1>0, Zenon DEF DelayedIsListed
<1>7. ScheduledIsQueued'
  BY <1>0, Zenon DEF Types, ScheduledIsQueued, Runs
<1> QED
  BY <1>1, <1>2, <1>3, <1>4, <1>5, <1>6, <1>7, Zenon DEF IInv

\* delayWakeAtDeadline preserves the invariant.
LEMMA Step_delayWakeAtDeadline ==
    ASSUME IInv, delayWakeAtDeadline
    PROVE  IInv'
<1> USE DEF delayWakeAtDeadline, queue, delays, threads, delay_thread, callers, flags
<1>0. Types /\ Targets /\ Locks /\ Runs /\ Flags /\ DelayedIsListed /\ ScheduledIsQueued
  BY DEF IInv
<1>1. Types'
  BY <1>0, ConstantsAssumption DEF Types, Targets
<1>2. Targets'
  BY <1>0 DEF Types, Targets
<1>3. Locks'
  BY <1>0, ConstantsAssumption DEF Types, Targets, Locks
<1>4. Runs'
  BY <1>0 DEF Types, Targets, Locks, Runs
<1>5. Flags'
  BY <1>0 DEF Types, Flags
<1>6. DelayedIsListed'
  BY <1>0 DEF DelayedIsListed
<1>7. ScheduledIsQueued'
  BY <1>0 DEF Types, ScheduledIsQueued, Runs
<1> QED
  BY <1>1, <1>2, <1>3, <1>4, <1>5, <1>6, <1>7, ZenonT(30) DEF IInv

\* delayWakeSpuriously preserves the invariant.
LEMMA Step_delayWakeSpuriously ==
    ASSUME IInv, delayWakeSpuriously
    PROVE  IInv'
<1> USE DEF delayWakeSpuriously, queue, delays, threads, delay_thread, callers, flags
<1>0. Types /\ Targets /\ Locks /\ Runs /\ Flags /\ DelayedIsListed /\ ScheduledIsQueued
  BY DEF IInv
<1>1. Types'
  BY <1>0, ConstantsAssumption DEF Types, Targets
<1>2. Targets'
  BY <1>0 DEF Types, Targets
<1>3. Locks'
  BY <1>0, ConstantsAssumption DEF Types, Targets, Locks
<1>4. Runs'
  BY <1>0 DEF Types, Targets, Locks, Runs
<1>5. Flags'
  BY <1>0 DEF Types, Flags
<1>6. DelayedIsListed'
  BY <1>0 DEF DelayedIsListed
<1>7. ScheduledIsQueued'
  BY <1>0 DEF Types, ScheduledIsQueued, Runs
<1> QED
  BY <1>1, <1>2, <1>3, <1>4, <1>5, <1>6, <1>7, ZenonT(30) DEF IInv

\* delaySchedule preserves the invariant.
LEMMA Step_delaySchedule ==
    ASSUME IInv, delaySchedule
    PROVE  IInv'
<1> USE DEF delaySchedule, queue, delays, threads, delay_thread, callers, flags
<1>0. Types /\ Targets /\ Locks /\ Runs /\ Flags /\ DelayedIsListed /\ ScheduledIsQueued
  BY Zenon DEF IInv
<1> DEFINE t == d_task
<1>b. t \in Task
  BY <1>0, Zenon DEF Targets
<1>a. Effect(t) /\ (scheduled' = scheduled \/ t \notin deactivated)
  BY <1>0, <1>b, ScheduleEffect, Zenon
<1>1. Types'
  BY <1>0, <1>a, <1>b, ConstantsAssumption, Zenon DEF Types, Targets, Effect
<1>2. Targets'
  BY <1>0, <1>a, <1>b, Zenon DEF Types, Targets, Effect
<1>3. Locks'
  BY <1>0, <1>a, <1>b, ConstantsAssumption, Zenon DEF Types, Targets, Locks, Effect
<1>4. Runs'
  BY <1>0, <1>a, <1>b, Zenon DEF Types, Targets, Locks, Runs, Effect
<1>5. Flags'
  <2>1. CASE scheduled' = scheduled /\ delayed' = delayed
    BY <1>0, <2>1, Zenon DEF Flags
  <2>2. CASE scheduled' = scheduled \union {t} /\ delayed' = delayed \ {t}
    BY <1>0, <1>a, <2>2, Zenon DEF Flags
  <2> QED BY <1>a, <2>1, <2>2, Zenon DEF Effect
<1>6. DelayedIsListed'
  BY <1>0, <1>a, <1>b, Zenon DEF DelayedIsListed, Effect
<1>7. ScheduledIsQueued'
  <2>1. CASE scheduled' = scheduled
    BY <1>0, <1>a, <2>1, Zenon DEF ScheduledIsQueued, Effect
  <2>2. CASE scheduled' = scheduled \union {t} /\ (t \in executing \/ t \in Range(tasks'))
    BY <1>0, <1>a, <2>2, Zenon DEF ScheduledIsQueued, Effect
  <2> QED BY <1>a, <2>1, <2>2, Zenon DEF Effect
<1> QED
  BY <1>1, <1>2, <1>3, <1>4, <1>5, <1>6, <1>7, Zenon DEF IInv

\* increaseThreadsCount preserves the invariant.
LEMMA Step_increaseThreadsCount ==
    ASSUME IInv, NEW started \in SUBSET Thread, increaseThreadsCount(started)
    PROVE  IInv'
<1> USE DEF increaseThreadsCount, queue, delays, threads, delay_thread, callers, flags
<1>0. Types /\ Targets /\ Locks /\ Runs /\ Flags /\ DelayedIsListed /\ ScheduledIsQueued
  BY Zenon DEF IInv
<1>1. Types'
  BY <1>0, ConstantsAssumption, Zenon DEF Types, Targets
<1>2. Targets'
  BY <1>0, Zenon DEF Types, Targets
<1>3. Locks'
  BY <1>0, ConstantsAssumption, Zenon DEF Types, Targets, Locks
<1>4. Runs'
  BY <1>0, Zenon DEF Types, Targets, Locks, Runs
<1>5. Flags'
  BY <1>0, Zenon DEF Types, Flags
<1>6. DelayedIsListed'
  BY <1>0, Zenon DEF DelayedIsListed
<1>7. ScheduledIsQueued'
  BY <1>0, Zenon DEF Types, ScheduledIsQueued, Runs
<1> QED
  BY <1>1, <1>2, <1>3, <1>4, <1>5, <1>6, <1>7, Zenon DEF IInv

\* destroy preserves the invariant.
LEMMA Step_destroy ==
    ASSUME IInv, destroy
    PROVE  IInv'
<1> USE DEF destroy, queue, delays, threads, delay_thread, callers, flags
<1>0. Types /\ Targets /\ Locks /\ Runs /\ Flags /\ DelayedIsListed /\ ScheduledIsQueued
  BY Zenon DEF IInv
<1>1. Types'
  BY <1>0, ConstantsAssumption, Zenon DEF Types, Targets
<1>2. Targets'
  BY <1>0, Zenon DEF Types, Targets
<1>3. Locks'
  BY <1>0, ConstantsAssumption, Zenon DEF Types, Targets, Locks
<1>4. Runs'
  BY <1>0, Zenon DEF Types, Targets, Locks, Runs
<1>5. Flags'
  BY <1>0, Zenon DEF Types, Flags
<1>6. DelayedIsListed'
  BY <1>0, Zenon DEF DelayedIsListed
<1>7. ScheduledIsQueued'
  BY <1>0, Zenon DEF Types, ScheduledIsQueued, Runs
<1> QED
  BY <1>1, <1>2, <1>3, <1>4, <1>5, <1>6, <1>7, Zenon DEF IInv

\* The invariant holds at the start.
LEMMA InitInv == Init => IInv
<1> SUFFICES ASSUME Init PROVE IInv
  OBVIOUS
<1> USE DEF Init
<1>1. Types
  BY ConstantsAssumption DEF Types
<1>2. Targets /\ Locks /\ Runs /\ Flags /\ ScheduledIsQueued
  BY Zenon DEF Targets, Locks, Runs, Flags, ScheduledIsQueued
<1>3. DelayedIsListed
  BY DEF DelayedIsListed, Range, IsInjective
<1> QED
  BY <1>1, <1>2, <1>3, Zenon DEF IInv

\* Every step preserves it.
LEMMA NextInv == IInv /\ [Next]_vars => IInv'
<1> SUFFICES ASSUME IInv, [Next]_vars PROVE IInv'
  OBVIOUS
<1>1. CASE UNCHANGED vars
  BY <1>1, Zenon DEF IInv, Types, Targets, Locks, Runs, Flags, DelayedIsListed,
     ScheduledIsQueued, vars, flags, queue, delays, threads, delay_thread, callers
<1>2. ASSUME NEW t \in Task, schedule(t) PROVE IInv'
  BY <1>2, Step_schedule, Zenon
<1>3. ASSUME NEW t \in Task, NEW o \in BOOLEAN, NEW i \in BOOLEAN, scheduleAfter(t, o, i) PROVE IInv'
  BY <1>3, Step_scheduleAfter, Zenon
<1>4. ASSUME NEW t \in Task, activate(t) PROVE IInv'
  BY <1>4, Step_activate, Zenon
<1>5. ASSUME NEW t \in Task, activateAndSchedule(t) PROVE IInv'
  BY <1>5, Step_activateAndSchedule, Zenon
<1>6. ASSUME NEW c \in Caller, NEW t \in Task, callDeactivate(c, t) PROVE IInv'
  BY <1>6, Step_callDeactivate, Zenon
<1>7. ASSUME NEW c \in Caller, NEW t \in Task, callGetExecLock(c, t) PROVE IInv'
  BY <1>7, Step_callGetExecLock, Zenon
<1>8. ASSUME NEW c \in Caller, lockExec(c) PROVE IInv'
  BY <1>8, Step_lockExec, Zenon
<1>9. ASSUME NEW c \in Caller, deactivate(c) PROVE IInv'
  BY <1>9, Step_deactivate, Zenon
<1>10. ASSUME NEW c \in Caller, unlockExec(c) PROVE IInv'
  BY <1>10, Step_unlockExec, Zenon
<1>11. ASSUME NEW w \in Thread, nextRound(w) PROVE IInv'
  BY <1>11, Step_nextRound, Zenon
<1>12. ASSUME NEW w \in Thread, takeTask(w) PROVE IInv'
  BY <1>12, Step_takeTask, Zenon
<1>13. ASSUME NEW w \in Thread, findNoTask(w) PROVE IInv'
  BY <1>13, Step_findNoTask, Zenon
<1>14. ASSUME NEW w \in Thread, wakeSpuriously(w) PROVE IInv'
  BY <1>14, Step_wakeSpuriously, Zenon
<1>15. ASSUME NEW w \in Thread, lockTask(w) PROVE IInv'
  BY <1>15, Step_lockTask, Zenon
<1>16. ASSUME NEW w \in Thread, startFunction(w) PROVE IInv'
  BY <1>16, Step_startFunction, Zenon
<1>17. ASSUME NEW w \in Thread, endFunction(w) PROVE IInv'
  BY <1>17, Step_endFunction, Zenon
<1>18. CASE delayNextRound
  BY <1>18, Step_delayNextRound, Zenon
<1>19. CASE delayWait
  BY <1>19, Step_delayWait
<1>20. CASE delayFind
  BY <1>20, Step_delayFind, Zenon
<1>21. CASE delayLeave
  BY <1>21, Step_delayLeave, Zenon
<1>22. CASE delayWakeAtDeadline
  BY <1>22, Step_delayWakeAtDeadline, Zenon
<1>23. CASE delayWakeSpuriously
  BY <1>23, Step_delayWakeSpuriously, Zenon
<1>24. CASE delaySchedule
  BY <1>24, Step_delaySchedule, Zenon
<1>25. ASSUME NEW started \in SUBSET Thread, increaseThreadsCount(started) PROVE IInv'
  BY <1>25, Step_increaseThreadsCount, Zenon
<1>26. CASE destroy
  BY <1>26, Step_destroy, Zenon
<1> QED
  BY <1>1, <1>2, <1>3, <1>4, <1>5, <1>6, <1>7, <1>8, <1>9, <1>10, <1>11, <1>12, <1>13, <1>14, <1>15, <1>16, <1>17, <1>18, <1>19, <1>20, <1>21, <1>22, <1>23, <1>24, <1>25, <1>26, ZenonT(30)
     DEF Next, Call, CallerStep, ThreadStep, DelayStep

\* The invariant holds in every state.
THEOREM Invariance == Spec => []IInv
  BY InitInv, NextInv, PTL DEF Spec

\* No function runs twice at a time, nor while someone has its exec lock.
THEOREM RunsOneAtATime == Spec => []OneAtATime
<1>1. ASSUME IInv PROVE OneAtATime
  <2> SUFFICES ASSUME NEW w \in Thread, pc[w] = "function"
               PROVE  /\ \A v \in Thread \ {w} : pc[v] = "function" => task[v] # task[w]
                      /\ \A c \in Caller : call[c] = "locked" => target[c] # task[w]
    BY Zenon DEF OneAtATime
  <2>1. exec_mutex[task[w]] = w /\ w \notin Caller
    BY <1>1, ConstantsAssumption, Zenon DEF IInv, Locks
  <2>2. \A v \in Thread \ {w} : pc[v] = "function" => task[v] # task[w]
    BY <1>1, <2>1, Zenon DEF IInv, Locks
  <2>3. \A c \in Caller : call[c] = "locked" => target[c] # task[w]
    BY <1>1, <2>1, Zenon DEF IInv, Locks
  <2> QED BY <2>2, <2>3, Zenon
<1> QED
  BY <1>1, Invariance, PTL

\* The invariants of the header: a deactivated task is neither scheduled, nor delayed,
\* nor executing, and no task is scheduled and delayed at once.
THEOREM FlagsExclude == Spec => []FlagInvariants
<1>1. IInv => FlagInvariants
  BY Zenon DEF IInv, Flags, Runs, FlagInvariants
<1> QED
  BY <1>1, Invariance, PTL

\* Every iterator that is erased is valid: delayed tasks have one entry each.
THEOREM IteratorsAreValid == Spec => []DelayedIsListed
<1>1. IInv => DelayedIsListed
  BY Zenon DEF IInv
<1> QED
  BY <1>1, Invariance, PTL

\* No call of schedule is lost.
THEOREM NoScheduleIsLost == Spec => []ScheduledIsQueued
<1>1. IInv => ScheduledIsQueued
  BY Zenon DEF IInv
<1> QED
  BY <1>1, Invariance, PTL
-----------------------------------------------------------------------------
(* The pool implements ScheduledTask                                       *)

\* The exec locks that callers hold
Held == {t \in Task : exec_mutex[t] \in Caller}

\* A step that keeps the flags and the exec locks is no step of ScheduledTask.
LEMMA Stutters ==
    ASSUME UNCHANGED <<flags, exec_mutex>>
    PROVE  UNCHANGED Promised!vars
  BY Zenon DEF flags, Promised!vars

\* scheduleImpl sets scheduled and ends the delay.
LEMMA ImplFlags ==
    ASSUME NEW t \in Task, scheduleImpl(t)
    PROVE  scheduled' = scheduled \union {t} /\ delayed' = delayed \ {t}
<1>1. CASE t \in delayed
  BY <1>1, Zenon DEF scheduleImpl, cancelDelayedTask
<1>2. CASE t \notin delayed
  BY <1>2, Zenon DEF scheduleImpl
<1> QED BY <1>1, <1>2, Zenon

\* schedule is a Schedule of ScheduledTask, or nothing.
LEMMA ScheduleFlags ==
    ASSUME IInv, NEW t \in Task, ScheduleBody(t), UNCHANGED <<deactivated, executing, exec_mutex>>
    PROVE  [Promised!Next]_(Promised!vars)
<1>1. CASE t \in deactivated \union scheduled
  BY <1>1, Stutters, Zenon DEF ScheduleBody, flags
<1>2. CASE t \notin deactivated \union scheduled
  <2>1. scheduleImpl(t)
    BY <1>2, Zenon DEF ScheduleBody
  <2>2. Promised!Schedule(t)
    BY <1>2, <2>1, ImplFlags, Zenon DEF Promised!Schedule
  <2> QED BY <2>2, Zenon DEF Promised!Next
<1> QED BY <1>1, <1>2, Zenon

\* A new pool has no task scheduled, delayed, executing or locked.
LEMMA InitPromised == Init => Promised!Init
  BY ConstantsAssumption DEF Init, Promised!Init

\* Every step of the pool is one of ScheduledTask, or none.
LEMMA NextPromised == IInv /\ [Next]_vars => [Promised!Next]_(Promised!vars)
<1> SUFFICES ASSUME IInv, [Next]_vars
             PROVE  [Promised!Next]_(Promised!vars)
  OBVIOUS
<1> USE DEF IInv
<1>0. CASE UNCHANGED vars
  BY <1>0, Stutters, Zenon DEF vars, flags
<1>1. ASSUME NEW t \in Task, schedule(t) PROVE [Promised!Next]_(Promised!vars)
  BY <1>1, ScheduleFlags, Zenon DEF schedule
<1>2. ASSUME NEW t \in Task, activate(t) PROVE [Promised!Next]_(Promised!vars)
  <2>1. Promised!Activate(t)
    BY <1>2, Zenon DEF activate, Promised!Activate
  <2> QED BY <2>1, Zenon DEF Promised!Next
<1>3. ASSUME NEW t \in Task, activateAndSchedule(t) PROVE [Promised!Next]_(Promised!vars)
  <2>1. scheduled' = scheduled \union {t} /\ delayed' = delayed \ {t}
    <3>1. CASE t \in scheduled
      BY <1>3, <3>1, Zenon DEF activateAndSchedule, Flags
    <3>2. CASE t \notin scheduled
      BY <1>3, <3>2, ImplFlags, Zenon DEF activateAndSchedule
    <3> QED BY <3>1, <3>2, Zenon
  <2>2. Promised!ActivateAndSchedule(t)
    BY <1>3, <2>1, Zenon DEF activateAndSchedule, Promised!ActivateAndSchedule
  <2> QED BY <2>2, Zenon DEF Promised!Next
<1>4. ASSUME NEW t \in Task, NEW overwrite \in BOOLEAN, NEW only_if_scheduled \in BOOLEAN,
             scheduleAfter(t, overwrite, only_if_scheduled)
      PROVE  [Promised!Next]_(Promised!vars)
  <2>1. Promised!ScheduleAfter(t)
    BY <1>4, Zenon DEF scheduleAfter, scheduleDelayedTask, Promised!ScheduleAfter
  <2> QED BY <2>1, Zenon DEF Promised!Next
<1>5. ASSUME NEW c \in Caller, NEW t \in Task, callDeactivate(c, t) \/ callGetExecLock(c, t)
      PROVE  [Promised!Next]_(Promised!vars)
  BY <1>5, Stutters, Zenon DEF callDeactivate, callGetExecLock
<1>6. ASSUME NEW c \in Caller, lockExec(c) PROVE [Promised!Next]_(Promised!vars)
  <2>1. PICK t \in Task : t = target[c]
    BY <1>6, Zenon DEF lockExec, Targets
  <2>2. t \notin executing
    <3>1. exec_mutex[t] = NONE
      BY <1>6, <2>1, Zenon DEF lockExec
    <3>2. \A w \in Thread : exec_mutex[task[w]] = w => task[w] # t
      BY <3>1, ConstantsAssumption, Zenon
    <3> QED BY <3>2, Zenon DEF Locks, Runs
  <2>3. t \notin Held
    BY <1>6, <2>1, ConstantsAssumption, Zenon DEF lockExec, Held
  <2>4. Held' = Held \union {t}
    BY <1>6, <2>1, ConstantsAssumption DEF lockExec, Held, Types
  <2>5. Promised!Lock(t)
    BY <1>6, <2>2, <2>3, <2>4, Zenon DEF lockExec, flags, Held, Promised!Lock
  <2> QED BY <2>5, Zenon DEF Promised!Next
<1>7. ASSUME NEW c \in Caller, deactivate(c) PROVE [Promised!Next]_(Promised!vars)
  <2>1. PICK t \in Task : t = target[c] /\ exec_mutex[t] = c
    BY <1>7, Zenon DEF deactivate, Targets, Locks
  <2>2. delayed' = delayed \ {t}
    <3>1. CASE t \in delayed
      BY <1>7, <2>1, <3>1, Zenon DEF deactivate, cancelDelayedTask
    <3>2. CASE t \notin delayed
      BY <1>7, <2>1, <3>2, Zenon DEF deactivate
    <3> QED BY <3>1, <3>2, Zenon
  <2>3. Held' = Held \ {t}
    BY <1>7, <2>1, ConstantsAssumption, Zenon DEF deactivate, Held, Types
  <2>4. t \in Held
    BY <2>1, Zenon DEF Held
  <2>5. Promised!Deactivate(t)
    BY <1>7, <2>1, <2>2, <2>3, <2>4 DEF deactivate, Held, Promised!Deactivate
  <2> QED BY <2>5, ZenonT(30) DEF Promised!Next
<1>8. ASSUME NEW c \in Caller, unlockExec(c) PROVE [Promised!Next]_(Promised!vars)
  <2>1. PICK t \in Task : t = target[c] /\ exec_mutex[t] = c
    BY <1>8 DEF unlockExec, Targets, Locks
  <2>2. Held' = Held \ {t} /\ t \in Held
    BY <1>8, <2>1, ConstantsAssumption DEF unlockExec, Held, Types
  <2>3. Promised!Unlock(t)
    BY <1>8, <2>2 DEF unlockExec, flags, Held, Promised!Unlock
  <2> QED BY <2>3, ZenonT(30) DEF Promised!Next
<1>9. ASSUME NEW w \in Thread, nextRound(w) \/ takeTask(w) \/ findNoTask(w) \/ wakeSpuriously(w)
      PROVE  [Promised!Next]_(Promised!vars)
  BY <1>9, Stutters DEF nextRound, takeTask, findNoTask, wakeSpuriously
<1>10. ASSUME NEW w \in Thread, lockTask(w) PROVE [Promised!Next]_(Promised!vars)
  <2>1. task[w] \in Task
    BY <1>10, Zenon DEF lockTask, Targets
  <2>2. Held' = Held
    BY <1>10, <2>1, ConstantsAssumption DEF lockTask, Held, Types
  <2> QED BY <1>10, <2>2 DEF lockTask, flags, Held, Promised!vars
<1>11. ASSUME NEW w \in Thread, startFunction(w) PROVE [Promised!Next]_(Promised!vars)
  <2> DEFINE t == task[w]
  <2>1. t \in Task /\ exec_mutex[t] = w
    BY <1>11, Zenon DEF startFunction, Targets, Locks
  <2>2. CASE t \in deactivated
    <3>1. exec_mutex' = [exec_mutex EXCEPT ![t] = NONE]
      BY <1>11, <2>2 DEF startFunction
    <3>2. \A u \in Task : exec_mutex'[u] \in Caller <=> exec_mutex[u] \in Caller
      BY <2>1, <3>1, ConstantsAssumption DEF Types
    <3>3. Held' = Held
      BY <3>2 DEF Held
    <3> QED BY <1>11, <2>2, <3>3 DEF startFunction, Held, Promised!vars
  <2>3. CASE t \notin deactivated
    <3>1. t \notin executing
      <4>1. \A v \in Thread : pc[v] = "function" /\ task[v] = t => v = w
        BY <2>1 DEF Locks
      <4> QED BY <4>1, <1>11 DEF Runs, startFunction
    <3>2. t \notin Held
      BY <2>1, ConstantsAssumption DEF Held
    <3>3. Promised!Start(t)
      BY <1>11, <2>3, <3>1, <3>2 DEF startFunction, Held, Promised!Start
    <3> QED BY <2>1, <3>3, ZenonT(30) DEF Promised!Next
  <2> QED BY <2>2, <2>3
<1>12. ASSUME NEW w \in Thread, endFunction(w) PROVE [Promised!Next]_(Promised!vars)
  <2>1. task[w] \in Task /\ exec_mutex[task[w]] = w /\ task[w] \in executing
    BY <1>12 DEF endFunction, Targets, Locks, Runs
  <2>2. Held' = Held
    BY <1>12, <2>1, ConstantsAssumption DEF endFunction, Held, Types
  <2>3. Promised!End(task[w])
    BY <1>12, <2>1, <2>2 DEF endFunction, Held, Promised!End
  <2> QED BY <2>1, <2>3, ZenonT(30) DEF Promised!Next
<1>13. CASE delayNextRound \/ delayWait \/ delayFind \/ delayLeave \/ delayWakeAtDeadline \/ delayWakeSpuriously
  BY <1>13, Stutters
     DEF delayNextRound, delayWait, delayFind, delayLeave, delayWakeAtDeadline, delayWakeSpuriously
<1>14. CASE delaySchedule
  BY <1>14, ScheduleFlags, Zenon DEF delaySchedule, Targets
<1>15. ASSUME NEW started \in SUBSET Thread, increaseThreadsCount(started)
       PROVE  [Promised!Next]_(Promised!vars)
  BY <1>15, Stutters DEF increaseThreadsCount
<1>16. CASE destroy
  BY <1>16, Stutters DEF destroy
<1> QED
  BY <1>0, <1>1, <1>2, <1>3, <1>4, <1>5, <1>6, <1>7, <1>8, <1>9, <1>10, <1>11, <1>12, <1>13, <1>14, <1>15, <1>16, ZenonT(30)
     DEF Next, Call, CallerStep, ThreadStep, DelayStep

\* The pool implements ScheduledTask: whatever its threads do, the owner of a
\* task sees it run only when it may.
THEOREM Refinement == Spec => ImplementsScheduledTask
<1>1. Spec => Promised!Init /\ [][Promised!Next]_(Promised!vars)
  BY InitPromised, NextPromised, Invariance, PTL DEF Spec
<1> QED
  BY <1>1 DEF ImplementsScheduledTask, Promised!Spec
=============================================================================
