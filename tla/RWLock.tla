------------------------------- MODULE RWLock -------------------------------
(* RWLockImpl (src/src/Common/RWLock.cpp): the phase-fair lock of tables    *)
(* and databases.  Every request for it is one call of getLock and the      *)
(* holder it returns; what happens under internal_state_mtx is one step.    *)
(* A group is named after the request that created it.                      *)
EXTENDS Naturals, FiniteSets, SequencesExt

CONSTANTS
    Request,            \* calls of getLock
    Write,              \* those for exclusive ownership
    Timed,              \* those with a deadline
    Query,              \* query ids
    QueryOf,            \* the query of a request, or NO_QUERY
    NO_QUERY,
    Follows,            \* requests that have returned before this one is made
    Awaits,             \* requests that have to return before the holder is released
    MaxThrows           \* bound: insertions into owner_queries that fail

ASSUME RequestAssumption ==
    /\ Write \subseteq Request /\ Timed \subseteq Request
    /\ QueryOf \in [Request -> Query \union {NO_QUERY}] /\ NO_QUERY \notin Query
    /\ Follows \in [Request -> SUBSET Request] /\ Awaits \in [Request -> SUBSET Request]

VARIABLES
    lock,               \* both queues, the groups with ownership, their requests, the owners
    owner_queries,
    pc, group,          \* of a request: where it is, and its it_group
    overtaken,          \* history: writers that got the lock while a request waited
    throws

vars == <<lock, owner_queries, pc, group, overtaken, throws>>

end == "end"            \* the iterator past the last group

-----------------------------------------------------------------------------
(* Mistakes, which Spec does not use                                       *)

NoFastPath(r) == FALSE
WriterIgnored(l) == l.rdlock_owner = end
OneGroupOfOwners(l, g) == FALSE
ReadersStayAsleep(l) == l
WritersPreferred(l, g) == l.writers_queue # <<>>

-----------------------------------------------------------------------------
(* Operations on the lock                                                  *)

First(queue) == IF queue = <<>> THEN end ELSE Head(queue)
Erase(queue, g) == SelectSeq(queue, LAMBDA x : x # g)
Position(queue, g) == CHOOSE i \in DOMAIN queue : queue[i] = g

grantOwnership(l, g) == [l EXCEPT !.ownership = @ \union {g}]

\* From rdlock_owner to the last group, which becomes rdlock_owner
grantOwnershipToAllReaders(l) ==
    IF l.rdlock_owner = end THEN l
    ELSE LET from == Position(l.readers_queue, l.rdlock_owner)
             granted == {l.readers_queue[i] : i \in from..Len(l.readers_queue)}
         IN  [l EXCEPT !.ownership = @ \union granted, !.rdlock_owner = Last(l.readers_queue)]

\* Readers from the front of the queue to rdlock_owner own the lock.
OtherReadersOwn(l, g) == g \notin Write /\ l.rdlock_owner \notin {First(l.readers_queue), end}

\* The phase after the last owner: readers after a writer, writers after readers
WritersNext(l, g) == IF g \in Write THEN l.readers_queue = <<>> ELSE l.writers_queue # <<>>

dropOwnerGroupAndPassOwnership(l, g) ==
    LET rest == [l EXCEPT !.readers_queue = Erase(@, g), !.writers_queue = Erase(@, g),
                          !.ownership = @ \ {g}]
        before == l.readers_queue[Position(l.readers_queue, g) - 1]
        reading == [rest EXCEPT !.rdlock_owner = IF @ = g THEN before ELSE @]
        next == [rest EXCEPT
            !.rdlock_owner = IF WritersNext(rest, g) THEN end ELSE First(rest.readers_queue),
            !.wrlock_owner = IF WritersNext(rest, g) THEN First(rest.writers_queue) ELSE end]
    IN  IF OtherReadersOwn(l, g)
        THEN IF l.writers_queue = <<>> THEN grantOwnershipToAllReaders(reading) ELSE reading
        ELSE IF next.rdlock_owner # end THEN grantOwnershipToAllReaders(next)
        ELSE IF next.wrlock_owner # end THEN grantOwnership(next, next.wrlock_owner)
        ELSE next

CanUseLastGroup(l) ==
    /\ l.readers_queue # <<>>
    /\ Last(l.readers_queue) \notin l.ownership \/ l.writers_queue = <<>>

\* The queue with the group of r in it
Queued(l, r) ==
    IF r \in Write THEN [l EXCEPT !.writers_queue = Append(@, r)]
    ELSE IF CanUseLastGroup(l) THEN l
    ELSE [l EXCEPT !.readers_queue = Append(@, r)]
GroupOf(l, r) == IF r \in Write THEN r ELSE Last(l.readers_queue)

IsFree(l) == l.rdlock_owner = end /\ l.wrlock_owner = end

CountUp(counts, q) == IF q = NO_QUERY THEN counts ELSE [counts EXCEPT ![q] = @ + 1]
CountDown(counts, q) ==
    IF q = NO_QUERY \/ counts[q] = 0 THEN counts ELSE [counts EXCEPT ![q] = @ - 1]

Waiting(r) == pc[r] = "waiting" /\ group[r] \notin lock.ownership
\* The history of a step from l to m
Overtaken(l, m) ==
    overtaken' = [r \in Request |->
        overtaken[r] + IF Waiting(r) THEN Cardinality(((m.ownership \ l.ownership) \intersect Write) \ {r}) ELSE 0]

-----------------------------------------------------------------------------
Init ==
    /\ lock = [readers_queue |-> <<>>, writers_queue |-> <<>>, ownership |-> {},
               requests |-> [r \in Request |-> 0], rdlock_owner |-> end, wrlock_owner |-> end]
    /\ owner_queries = [q \in Query |-> 0]
    /\ pc = [r \in Request |-> "idle"]
    /\ group = [r \in Request |-> end]
    /\ overtaken = [r \in Request |-> 0]
    /\ throws = 0

\* The query holds the lock already.
OwnedByQuery(r) == QueryOf[r] # NO_QUERY /\ owner_queries[QueryOf[r]] > 0

\* In read mode it gets it again without waiting, whoever waits; upgrading fails.
fastPath(r) ==
    /\ pc[r] = "idle" /\ OwnedByQuery(r)
    /\ IF lock.wrlock_owner # end \/ r \in Write
       THEN /\ pc' = [pc EXCEPT ![r] = "refused"]
            /\ UNCHANGED <<lock, owner_queries, group>>
       ELSE /\ pc' = [pc EXCEPT ![r] = "held"]
            /\ group' = [group EXCEPT ![r] = lock.rdlock_owner]
            /\ lock' = [lock EXCEPT !.requests[lock.rdlock_owner] = @ + 1]
            /\ owner_queries' = CountUp(owner_queries, QueryOf[r])
    /\ UNCHANGED <<overtaken, throws>>

\* The lock is r's: owner_queries, then the holder is bound to the group g.
Acquire(r, l, g) ==
    /\ owner_queries' = CountUp(owner_queries, QueryOf[r])
    /\ lock' = [l EXCEPT !.requests[g] = @ + 1]
    /\ pc' = [pc EXCEPT ![r] = "held"]
    /\ UNCHANGED throws

\* The insertion of the query id throws.
InsertionThrows(r, l, g) ==
    /\ throws < MaxThrows
    /\ QueryOf[r] # NO_QUERY /\ owner_queries[QueryOf[r]] = 0
    /\ throws' = throws + 1
    /\ lock' = IF l.requests[g] = 0 THEN dropOwnerGroupAndPassOwnership(l, g) ELSE l
    /\ pc' = [pc EXCEPT ![r] = "threw"]
    /\ UNCHANGED owner_queries

\* The lock is free, or the last group of readers owns it and takes r in.
lockAtOnce(r) ==
    LET queued == Queued(lock, r)
        g == GroupOf(queued, r)
        owned == IF ~IsFree(lock) THEN queued
                 ELSE grantOwnership(IF r \in Write THEN [queued EXCEPT !.wrlock_owner = g]
                                     ELSE [queued EXCEPT !.rdlock_owner = g], g)
    IN  /\ pc[r] = "idle" /\ ~OwnedByQuery(r)
        /\ g \in owned.ownership
        /\ Acquire(r, owned, g) \/ InsertionThrows(r, owned, g)
        /\ group' = [group EXCEPT ![r] = g]
        /\ Overtaken(lock, lock')

startWaiting(r) ==
    LET queued == Queued(lock, r)
        g == GroupOf(queued, r)
    IN  /\ pc[r] = "idle" /\ ~OwnedByQuery(r)
        /\ ~IsFree(lock) /\ g \notin queued.ownership
        /\ lock' = [queued EXCEPT !.requests[g] = @ + 1]
        /\ group' = [group EXCEPT ![r] = g]
        /\ pc' = [pc EXCEPT ![r] = "waiting"]
        /\ UNCHANGED <<owner_queries, overtaken, throws>>

\* The wait ends with ownership: the request leaves the count and is bound again.
wakeUp(r) ==
    LET woken == [lock EXCEPT !.requests[group[r]] = @ - 1]
    IN  /\ pc[r] = "waiting" /\ group[r] \in lock.ownership
        /\ Acquire(r, woken, group[r]) \/ InsertionThrows(r, woken, group[r])
        /\ Overtaken(lock, lock')
        /\ UNCHANGED group

\* After a failed wait for exclusive ownership the readers behind it can go on.
ReadersBehind(l) ==
    IF l.rdlock_owner # end /\ l.writers_queue = <<>> THEN grantOwnershipToAllReaders(l) ELSE l

timeOut(r) ==
    LET g == group[r]
        left == [lock EXCEPT !.requests[g] = @ - 1]
        erased == IF left.requests[g] > 0 THEN left
                  ELSE [left EXCEPT !.readers_queue = Erase(@, g), !.writers_queue = Erase(@, g)]
    IN  /\ r \in Timed /\ Waiting(r)
        /\ lock' = ReadersBehind(erased)
        /\ pc' = [pc EXCEPT ![r] = "timed out"]
        /\ Overtaken(lock, lock')
        /\ UNCHANGED <<owner_queries, group, throws>>

Returned(r) == pc[r] \notin {"idle", "waiting"}

\* ~LockHolderImpl, in any thread
unlock(r) ==
    LET g == group[r]
        left == [lock EXCEPT !.requests[g] = @ - 1]
    IN  /\ pc[r] = "held" /\ \A s \in Awaits[r] : Returned(s)
        /\ owner_queries' = CountDown(owner_queries, QueryOf[r])
        /\ lock' = IF left.requests[g] = 0 THEN dropOwnerGroupAndPassOwnership(left, g) ELSE left
        /\ pc' = [pc EXCEPT ![r] = "released"]
        /\ Overtaken(lock, lock')
        /\ UNCHANGED <<group, throws>>

getLock(r) ==
    /\ \A s \in Follows[r] : Returned(s)
    /\ fastPath(r) \/ lockAtOnce(r) \/ startWaiting(r)

Next == \E r \in Request : getLock(r) \/ wakeUp(r) \/ timeOut(r) \/ unlock(r)

Spec == Init /\ [][Next]_vars

\* A thread that was notified runs, and what was acquired is released; calls of
\* getLock, which Awaits waits for, are made.
FairSpec == Spec /\ \A r \in Request : WF_vars(getLock(r)) /\ WF_vars(wakeUp(r)) /\ WF_vars(unlock(r))

-----------------------------------------------------------------------------
(* Properties                                                              *)

Holders == {r \in Request : pc[r] = "held"}

\* Exclusive ownership is exclusive.
WriterAlone == \A r \in Holders \intersect Write : Holders = {r}

\* What unlock asserts about the group of a holder (RWLock.cpp:264-277), and what it
\* rests on: "There couldn't be more than one reader group which is not an owner"
\* (RWLock.cpp:371-373)
UnlockFindsOwner ==
    /\ \A r \in Holders :
         /\ group[r] \in lock.ownership
         /\ IF r \in Write THEN lock.wrlock_owner = group[r] /\ lock.rdlock_owner = end
            ELSE lock.rdlock_owner # end /\ lock.wrlock_owner = end
    /\ Cardinality(ToSet(lock.readers_queue) \ lock.ownership) <= 1

\* Nobody waits for a lock that nobody has, and readers wait only for writers:
\* unlock, a timeout and a failed insertion all pass the ownership on.
WaitsForSomeone ==
    \A r \in Request : Waiting(r) =>
        /\ \E s \in Request : pc[s] = "held" \/ (pc[s] = "waiting" /\ group[s] \in lock.ownership)
        /\ r \notin Write => lock.writers_queue # <<>>

\* Phase-fairness (RWLock.h:22): at most one writer gets the lock before a waiting reader.
PhaseFair == \A r \in Request \ Write : overtaken[r] <= 1

\* Everyone gets an answer, also a query that acquires the lock again while it holds it
\* and a writer waits, and a query whose threads wait for each other (RWLock.h:32-36).
EveryoneReturns == \A r \in Request : <>Returned(r)
=============================================================================
