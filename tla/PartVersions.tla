---------------------------- MODULE PartVersions ----------------------------
(***************************************************************************)
(* Data parts under transactions: VersionMetadata (who created and removed *)
(* a part, and whether that is committed), MergeTreeTransaction (the parts *)
(* a transaction creates and removes), and the places of MergeTreeData     *)
(* where they meet: adding a part and removing those it covers, rolling    *)
(* back, cleaning up, and loading parts after a crash.                     *)
(*                                                                         *)
(* The commit log appears as CommitLog promises it: one step commits.  A   *)
(* TID is the transaction itself; its start_csn is start[t].               *)
(***************************************************************************)
EXTENDS Integers, FiniteSets

CONSTANTS
    Txn,            \* the transactions
    Part,           \* the parts that may ever exist
    Initial,        \* the parts created without a transaction, before the start
    Covers,         \* <<p, q>>: p is built from q and replaces it
    Readers,        \* bound: the transactions whose reads are followed load by load
    MaxKills,       \* bound: KILL TRANSACTION
    MaxDrops,       \* bound: parts removed by queries without a transaction
    MaxCrashes,     \* bound: server crashes
    AsyncLoading    \* whether the server counts as started before the table is loaded

ASSUME PartAssumption ==
    /\ Initial \subseteq Part /\ Covers \subseteq Part \X Part
    /\ IsFiniteSet(Txn) /\ Readers \subseteq Txn /\ AsyncLoading \in BOOLEAN

UnknownCSN == 0
PrehistoricCSN == 1
CommittingCSN == 2
MaxReservedCSN == 3                             \* 32 in the code
RolledBackCSN == 2 * Cardinality(Txn) + 100     \* above every CSN
Prehistoric == "prehistoric"    \* the TID of changes made without a transaction
NoTID == "none"

VARIABLES
    \* the log
    last, commits, entries, loaded, latest_snapshot, tail_ptr,
    \* MergeTreeTransaction
    pc, start, csn, creating_parts, removing_parts,
    todo,           \* parts the thread of the transaction has still to handle
    cur,            \* the part it adds, or the covered part it has just locked
    new,            \* the part it adds
    undo,           \* progress of MergeTreeTransaction::rollback
    undo_todo,
    active,         \* the transactions whose snapshots are in use
    \* the parts in memory
    parts_lock, state, creation_tid, creation_csn, removal_tid_lock, removal_csn,
    \* txn_version.txt of each part
    file,
    \* one evaluation of VersionMetadata::isVisible
    rd,
    \* the cleanup thread
    oldest,
    kills, drops, crashes

logVars == <<last, commits, entries, loaded, latest_snapshot, tail_ptr>>
txnVars == <<pc, start, csn, creating_parts, removing_parts, todo, cur, new>>
undoVars == <<undo, undo_todo, active>>
memVars == <<state, creation_tid, creation_csn, removal_tid_lock, removal_csn>>
boundVars == <<kills, drops, crashes>>
vars == <<logVars, txnVars, undoVars, parts_lock, memVars, file, rd, oldest, boundVars>>

NoFile == [exists |-> FALSE, creation_csn |-> 0, removal_tid |-> NoTID, removal_csn |-> 0]
NoPart == "no part"
NoReader == [at |-> "off"]

-----------------------------------------------------------------------------
(* Mistakes: what the definitions of the same parameters below might have  *)
(* been.  Spec uses none of them.                                          *)

NoSecondLoad(p) == UnknownCSN
OnlyActiveToRemove(t, p) == {q \in Part : <<p, q>> \in Covers /\ state[q] = "Active"}
RemovalCommitted(removal, oldest_snapshot) == removal # UnknownCSN
PartsLockNotAwaited == TRUE
UncommittedIsPrehistoric(p) ==
    IF file[p].creation_csn # UnknownCSN THEN file[p].creation_csn
    ELSE IF creation_tid[p] \in loaded THEN commits[creation_tid[p]] ELSE PrehistoricCSN

-----------------------------------------------------------------------------
(* Lookups                                                                 *)

OldestSnapshot ==
    IF active = {} THEN latest_snapshot
    ELSE CHOOSE s \in {start[t] : t \in active} : \A t \in active : s <= start[t]

\* TransactionLog::getCSN by the map alone
getCSN(x) ==
    IF x = Prehistoric THEN PrehistoricCSN
    ELSE IF x \in loaded THEN commits[x] ELSE UnknownCSN

\* getCSN with its second chance, the CSN the part may have got meanwhile
getCSNOr(x, own_csn) == IF getCSN(x) # UnknownCSN THEN getCSN(x) ELSE own_csn

\* assertTIDIsNotOutdated: the entry of x may be trimmed already.
BehindTail(x) == x # Prehistoric /\ tail_ptr > start[x]

\* The fast path of isVisible on the values it has loaded
DefinitelyInvisible(t, creation, lock, removal) ==
    \/ creation # UnknownCSN /\ start[t] < creation
    \/ removal # UnknownCSN /\ removal <= start[t]
    \/ lock = t
DefinitelyVisible(t, p, creation, lock, removal) ==
    \/ creation # UnknownCSN /\ creation <= start[t] /\ lock = NoTID
    \/ creation # UnknownCSN /\ creation <= start[t] /\ removal # UnknownCSN /\ start[t] < removal
    \/ creation_tid[p] = t
CreatorStartedLater(t, p) == creation_tid[p] # Prehistoric /\ start[t] <= start[creation_tid[p]]
InSnapshot(t, creation, removal) ==
    creation <= start[t] /\ (removal = UnknownCSN \/ start[t] < removal)

\* isVisible in one step, as it is used under the parts lock
isVisible(t, p) ==
    LET creation == creation_csn[p]
        lock == removal_tid_lock[p]
        removal == removal_csn[p]
        known == getCSNOr(creation_tid[p], creation)
    IN  /\ ~DefinitelyInvisible(t, creation, lock, removal)
        /\ \/ DefinitelyVisible(t, p, creation, lock, removal)
           \/ /\ ~CreatorStartedLater(t, p)
              /\ known # UnknownCSN
              /\ InSnapshot(t, known, IF lock = NoTID THEN removal ELSE getCSNOr(lock, removal))

\* appendRemovalTIDToVersionMetadata: appends, or creates the file of a part that
\* was created without a transaction.
WithRemovalTID(p, x) ==
    IF creation_tid[p] = Prehistoric
    THEN [exists |-> TRUE, creation_csn |-> PrehistoricCSN, removal_tid |-> x,
          removal_csn |-> removal_csn[p]]
    ELSE [file[p] EXCEPT !.removal_tid = x]

CoveredBy(p) == {q \in Part : <<p, q>> \in Covers}
Covering(p) == {q \in Part : <<q, p>> \in Covers}
InWorkingSet(p) == state[p] \in {"Active", "Outdated"}
Reading(t) == rd # NoReader /\ rd.t = t     \* a session runs one query at a time
TableLoaded == \A p \in Part : state[p] # "Unloaded"
OutdatedPartsLoaded == \A p \in Part : state[p] # "UnloadedOutdated"

-----------------------------------------------------------------------------
(* The log                                                                 *)

beginTransaction(t) ==
    /\ pc[t] = "idle"
    /\ pc' = [pc EXCEPT ![t] = "run"]
    /\ start' = [start EXCEPT ![t] = latest_snapshot]
    /\ active' = active \union {t}
    /\ UNCHANGED <<logVars, csn, creating_parts, removing_parts, todo, cur, new, undo, undo_todo,
                   parts_lock, memVars, file, rd, oldest, boundVars>>

\* The updating thread makes loaded commits known to getCSN, then to snapshots.
loadEntries ==
    /\ loaded # entries
    /\ loaded' = entries
    /\ UNCHANGED <<last, commits, entries, latest_snapshot, tail_ptr, txnVars, undoVars, parts_lock,
                   memVars, file, rd, oldest, boundVars>>

publishSnapshot ==
    \E t \in loaded :
        /\ commits[t] > latest_snapshot
        /\ \A u \in loaded : commits[u] <= commits[t]
        /\ latest_snapshot' = commits[t]
        /\ UNCHANGED <<last, commits, entries, loaded, tail_ptr, txnVars, undoVars, parts_lock,
                       memVars, file, rd, oldest, boundVars>>

\* The server is completely started when its tables are loaded, or before that; the
\* parts left for loadOutdatedDataParts are not waited for.
moveTail ==
    /\ AsyncLoading \/ TableLoaded
    /\ tail_ptr < OldestSnapshot
    /\ tail_ptr' = OldestSnapshot
    /\ UNCHANGED <<last, commits, entries, loaded, latest_snapshot, txnVars, undoVars, parts_lock,
                   memVars, file, rd, oldest, boundVars>>

\* Entries of transactions that started before the tail go, the newest one stays.
trimLog ==
    LET old == {t \in loaded : start[t] < tail_ptr /\ commits[t] # latest_snapshot}
    IN  /\ old # {}
        /\ entries' = entries \ old
        /\ loaded' = loaded \ old
        /\ UNCHANGED <<last, commits, latest_snapshot, tail_ptr, txnVars, undoVars, parts_lock,
                       memVars, file, rd, oldest, boundVars>>

-----------------------------------------------------------------------------
(* Adding a part: MergeTreeSink::finish, MergeTreeData::Transaction::commit *)

\* An INSERT, or a mutation of a part visible to t.  The part is on disk with its
\* creation_tid, and PreActive.  (An INSERT keeps the parts lock; a merge or mutation
\* takes it again in Transaction::commit.)
renameTempPartAndReplace(t, p) ==
    /\ pc[t] = "run" /\ csn[t] = UnknownCSN /\ ~Reading(t)
    /\ TableLoaded /\ parts_lock = NoTID
    /\ state[p] = "None"
    /\ CoveredBy(p) # {} => \E q \in CoveredBy(p) : InWorkingSet(q) /\ isVisible(t, q)
    /\ state' = [state EXCEPT ![p] = "PreActive"]
    /\ creation_tid' = [creation_tid EXCEPT ![p] = t]
    /\ file' = [file EXCEPT ![p] = [NoFile EXCEPT !.exists = TRUE]]
    /\ new' = [new EXCEPT ![t] = p]
    /\ pc' = [pc EXCEPT ![t] = "add"]
    /\ UNCHANGED <<logVars, start, csn, creating_parts, removing_parts, todo, cur, undoVars,
                   parts_lock, creation_csn, removal_tid_lock, removal_csn, rd, oldest, boundVars>>

\* Active covered parts and those removed by others that t still sees
PartsToRemove(t, p) ==
    {q \in CoveredBy(p) : state[q] = "Active" \/ (state[q] = "Outdated" /\ isVisible(t, q))}

\* checkIsNotCancelled
NotCancelled(t) == csn[t] = UnknownCSN

addNewPart(t) ==
    /\ pc[t] = "add" /\ parts_lock = NoTID
    /\ IF NotCancelled(t)
       THEN /\ parts_lock' = t
            /\ creating_parts' = [creating_parts EXCEPT ![t] = @ \union {new[t]}]
            /\ todo' = [todo EXCEPT ![t] = PartsToRemove(t, new[t])]
            /\ pc' = [pc EXCEPT ![t] = "cover"]
       ELSE /\ pc' = [pc EXCEPT ![t] = "fail"]
            /\ UNCHANGED <<parts_lock, creating_parts, todo>>
    /\ UNCHANGED <<logVars, start, csn, removing_parts, cur, new, undoVars, memVars, file,
                   rd, oldest, boundVars>>

MayLock(q) == removal_tid_lock[q] = NoTID

\* removeOldPart for one covered part, under the mutex of t: SERIALIZATION_ERROR if
\* the part is locked.
removeOldPart(t, q) ==
    /\ pc[t] = "cover" /\ q \in todo[t]
    /\ IF NotCancelled(t) /\ MayLock(q)
       THEN /\ removal_tid_lock' = [removal_tid_lock EXCEPT ![q] = t]
            /\ removing_parts' = [removing_parts EXCEPT ![t] = @ \union {q}]
            /\ todo' = [todo EXCEPT ![t] = @ \ {q}]
            /\ cur' = [cur EXCEPT ![t] = q]
            /\ pc' = [pc EXCEPT ![t] = "append"]
            /\ UNCHANGED parts_lock
       ELSE /\ pc' = [pc EXCEPT ![t] = "fail"]
            /\ todo' = [todo EXCEPT ![t] = {}]
            /\ parts_lock' = NoTID
            /\ UNCHANGED <<removal_tid_lock, removing_parts, cur>>
    /\ UNCHANGED <<logVars, start, csn, creating_parts, new, undoVars, state,
                   creation_tid, creation_csn, removal_csn, file, rd, oldest, boundVars>>

\* The removal TID reaches the disk after the mutex of t is released.
appendRemovalTID(t) ==
    /\ pc[t] = "append"
    /\ file' = [file EXCEPT ![cur[t]] = WithRemovalTID(cur[t], t)]
    /\ pc' = [pc EXCEPT ![t] = "cover"]
    /\ UNCHANGED <<logVars, start, csn, creating_parts, removing_parts, todo, cur, new, undoVars,
                   parts_lock, memVars, rd, oldest, boundVars>>

\* The NOEXCEPT_SCOPE of Transaction::commit: one change of the working set.
activatePart(t) ==
    LET p == new[t]
        obsolete == \E q \in Covering(p) : state[q] = "Active"
    IN  /\ pc[t] = "cover" /\ todo[t] = {}
        /\ state' = IF obsolete THEN [state EXCEPT ![p] = "Outdated"]
                    ELSE [q \in Part |-> IF q = p THEN "Active"
                            ELSE IF q \in CoveredBy(p) /\ state[q] = "Active" THEN "Outdated"
                            ELSE state[q]]
        /\ parts_lock' = NoTID
        /\ pc' = [pc EXCEPT ![t] = "run"]
        /\ UNCHANGED <<logVars, start, csn, creating_parts, removing_parts, todo, cur, new, undoVars,
                       creation_tid, creation_csn, removal_tid_lock, removal_csn, file, rd, oldest,
                       boundVars>>

\* MergeTreeData::Transaction::rollback, in the destructor and so after the lock was
\* released: the CSN in memory first, then the working set; the exception ends the
\* query and rolls t back.
storeRolledBack(t) ==
    /\ pc[t] = "fail"
    /\ creation_csn' = [creation_csn EXCEPT ![new[t]] = RolledBackCSN]
    /\ pc' = [pc EXCEPT ![t] = "failed"]
    /\ UNCHANGED <<logVars, start, csn, creating_parts, removing_parts, todo, cur, new, undoVars,
                   parts_lock, state, creation_tid, removal_tid_lock, removal_csn, file, rd, oldest,
                   boundVars>>

removePrecommitted(t) ==
    /\ pc[t] = "failed" /\ parts_lock = NoTID
    /\ state' = [state EXCEPT ![new[t]] = "Outdated"]
    /\ pc' = [pc EXCEPT ![t] = "abort"]
    /\ UNCHANGED <<logVars, start, csn, creating_parts, removing_parts, todo, cur, new, undoVars,
                   parts_lock, creation_tid, creation_csn, removal_tid_lock, removal_csn, file, rd,
                   oldest, boundVars>>

\* A query without a transaction removes an active part, once all parts are loaded
\* (waitForOutdatedPartsToBeLoaded) and merges have stopped (stopMergesAndWait).
removePartNoTransaction(p) ==
    /\ drops < MaxDrops
    /\ TableLoaded /\ OutdatedPartsLoaded /\ parts_lock = NoTID
    /\ \A q \in Part : state[q] # "PreActive"
    /\ state[p] = "Active" /\ removal_tid_lock[p] = NoTID
    /\ removal_tid_lock' = [removal_tid_lock EXCEPT ![p] = Prehistoric]
    /\ file' = IF creation_tid[p] = Prehistoric THEN file
               ELSE [file EXCEPT ![p] = WithRemovalTID(p, Prehistoric)]
    /\ state' = [state EXCEPT ![p] = "Outdated"]
    /\ drops' = drops + 1
    /\ UNCHANGED <<logVars, txnVars, undoVars, parts_lock, creation_tid, creation_csn, removal_csn,
                   rd, oldest, kills, crashes>>

-----------------------------------------------------------------------------
(* Commit                                                                  *)

ReadOnly(t) == creating_parts[t] = {} /\ removing_parts[t] = {}

\* A read-only transaction takes its snapshot as CSN and writes nothing.
beforeCommit(t) ==
    /\ pc[t] = "run" /\ csn[t] = UnknownCSN /\ ~Reading(t)
    /\ csn' = [csn EXCEPT ![t] = IF ReadOnly(t) THEN start[t] ELSE CommittingCSN]
    /\ pc' = [pc EXCEPT ![t] = IF ReadOnly(t) THEN "stamp" ELSE "commit"]
    /\ UNCHANGED <<logVars, start, creating_parts, removing_parts, todo, cur, new, undoVars,
                   parts_lock, memVars, file, rd, oldest, boundVars>>

\* The csn- node is created.
commitTransaction(t) ==
    /\ pc[t] = "commit"
    /\ last' = last + 1
    /\ commits' = [commits EXCEPT ![t] = last + 1]
    /\ entries' = entries \union {t}
    /\ pc' = [pc EXCEPT ![t] = "committed"]
    /\ UNCHANGED <<loaded, latest_snapshot, tail_ptr, start, csn, creating_parts, removing_parts,
                   todo, cur, new, undoVars, parts_lock, memVars, file, rd, oldest, boundVars>>

\* The node is known not to have been created.
commitFailed(t) ==
    /\ pc[t] = "commit"
    /\ csn' = [csn EXCEPT ![t] = UnknownCSN]
    /\ pc' = [pc EXCEPT ![t] = "abort"]
    /\ UNCHANGED <<logVars, start, creating_parts, removing_parts, todo, cur, new, undoVars,
                   parts_lock, memVars, file, rd, oldest, boundVars>>

afterCommit(t) ==
    /\ pc[t] = "committed"
    /\ csn' = [csn EXCEPT ![t] = commits[t]]
    /\ todo' = [todo EXCEPT ![t] = creating_parts[t]]
    /\ pc' = [pc EXCEPT ![t] = "stampCreated"]
    /\ UNCHANGED <<logVars, start, creating_parts, removing_parts, cur, new, undoVars, parts_lock,
                   memVars, file, rd, oldest, boundVars>>

\* appendCSNToVersionMetadata(CREATION), with the store before it
stampCreated(t, p) ==
    /\ pc[t] = "stampCreated" /\ p \in todo[t]
    /\ creation_csn' = [creation_csn EXCEPT ![p] = csn[t]]
    /\ file' = [file EXCEPT ![p].creation_csn = csn[t]]
    /\ todo' = [todo EXCEPT ![t] = @ \ {p}]
    /\ UNCHANGED <<logVars, pc, start, csn, creating_parts, removing_parts, cur, new, undoVars,
                   parts_lock, state, creation_tid, removal_tid_lock, removal_csn, rd, oldest,
                   boundVars>>

allCreatedStamped(t) ==
    /\ pc[t] = "stampCreated" /\ todo[t] = {}
    /\ todo' = [todo EXCEPT ![t] = removing_parts[t]]
    /\ pc' = [pc EXCEPT ![t] = "stamp"]
    /\ UNCHANGED <<logVars, start, csn, creating_parts, removing_parts, cur, new, undoVars,
                   parts_lock, memVars, file, rd, oldest, boundVars>>

stampRemoved(t, p) ==
    /\ pc[t] = "stamp" /\ p \in todo[t]
    /\ removal_csn' = [removal_csn EXCEPT ![p] = csn[t]]
    /\ file' = [file EXCEPT ![p].removal_csn = csn[t]]
    /\ todo' = [todo EXCEPT ![t] = @ \ {p}]
    /\ UNCHANGED <<logVars, pc, start, csn, creating_parts, removing_parts, cur, new, undoVars,
                   parts_lock, state, creation_tid, creation_csn, removal_tid_lock, rd, oldest,
                   boundVars>>

AllStamped(t) == pc[t] = "stamp" /\ todo[t] = {}

\* finalizeCommittedTransaction, or the end of rollbackTransaction: the snapshot goes.
releaseSnapshot(t) ==
    /\ t \in active
    /\ \/ AllStamped(t)
       \/ undo[t] = "unlock" /\ undo_todo[t] = {}
    /\ active' = active \ {t}
    /\ undo' = [undo EXCEPT ![t] = "off"]
    /\ pc' = [pc EXCEPT ![t] = IF @ \in {"stamp", "run", "abort"} THEN "done" ELSE @]
    /\ UNCHANGED <<logVars, start, csn, creating_parts, removing_parts, todo, cur, new, undo_todo,
                   parts_lock, memVars, file, rd, oldest, boundVars>>

-----------------------------------------------------------------------------
(* MergeTreeTransaction::rollback, in the session of t or in the one of    *)
(* KILL TRANSACTION while t goes on                                        *)

\* The exchange of csn freezes both lists.
rollback(t) ==
    /\ t \in active /\ csn[t] = UnknownCSN
    /\ pc[t] \in {"run", "abort"} \/ kills < MaxKills
    /\ kills' = IF pc[t] \in {"run", "abort"} THEN kills ELSE kills + 1
    /\ csn' = [csn EXCEPT ![t] = RolledBackCSN]
    /\ undo' = [undo EXCEPT ![t] = "stamp"]
    /\ undo_todo' = [undo_todo EXCEPT ![t] = creating_parts[t]]
    /\ UNCHANGED <<logVars, pc, start, creating_parts, removing_parts, todo, cur, new, active,
                   parts_lock, memVars, file, rd, oldest, drops, crashes>>

stampRolledBack(t, p) ==
    /\ undo[t] = "stamp" /\ p \in undo_todo[t]
    /\ creation_csn' = [creation_csn EXCEPT ![p] = RolledBackCSN]
    /\ file' = [file EXCEPT ![p].creation_csn = RolledBackCSN]
    /\ undo_todo' = [undo_todo EXCEPT ![t] = @ \ {p}]
    /\ UNCHANGED <<logVars, txnVars, undo, active, parts_lock, state, creation_tid, removal_tid_lock,
                   removal_csn, rd, oldest, boundVars>>

PartsLockFree == parts_lock = NoTID

\* removePartsFromWorkingSet, which has to wait for the parts lock
removeCreated(t, p) ==
    /\ undo[t] = "remove" /\ p \in undo_todo[t]
    /\ PartsLockFree
    /\ state' = [state EXCEPT ![p] = "Outdated"]
    /\ undo_todo' = [undo_todo EXCEPT ![t] = @ \ {p}]
    /\ UNCHANGED <<logVars, txnVars, undo, active, parts_lock, creation_tid, creation_csn,
                   removal_tid_lock, removal_csn, file, rd, oldest, boundVars>>

restoreAndActivatePart(t, p) ==
    /\ undo[t] = "restore" /\ p \in undo_todo[t]
    /\ PartsLockFree
    /\ state' = [state EXCEPT ![p] = "Active"]
    /\ undo_todo' = [undo_todo EXCEPT ![t] = @ \ {p}]
    /\ UNCHANGED <<logVars, txnVars, undo, active, parts_lock, creation_tid, creation_csn,
                   removal_tid_lock, removal_csn, file, rd, oldest, boundVars>>

\* The removal TID is cleared on disk while the part is still locked.
clearRemovalTID(t, p) ==
    /\ undo[t] = "unlock" /\ p \in undo_todo[t]
    /\ file[p].removal_tid = t
    /\ file' = [file EXCEPT ![p].removal_tid = NoTID]
    /\ UNCHANGED <<logVars, txnVars, undoVars, parts_lock, memVars, rd, oldest, boundVars>>

unlockRemovalTID(t, p) ==
    /\ undo[t] = "unlock" /\ p \in undo_todo[t]
    /\ file[p].removal_tid # t
    /\ removal_tid_lock' = [removal_tid_lock EXCEPT ![p] = NoTID]
    /\ undo_todo' = [undo_todo EXCEPT ![t] = @ \ {p}]
    /\ UNCHANGED <<logVars, txnVars, undo, active, parts_lock, state, creation_tid, creation_csn,
                   removal_csn, file, rd, oldest, boundVars>>

\* The next loop of rollback over its copy of the lists
nextLoop(t) ==
    /\ undo_todo[t] = {}
    /\ \/ /\ undo[t] = "stamp"
          /\ undo' = [undo EXCEPT ![t] = "remove"]
          /\ undo_todo' = [undo_todo EXCEPT ![t] = creating_parts[t]]
       \/ /\ undo[t] = "remove"
          /\ undo' = [undo EXCEPT ![t] = "restore"]
          /\ undo_todo' = [undo_todo EXCEPT ![t] = {p \in removing_parts[t] : creation_tid[p] # t}]
       \/ /\ undo[t] = "restore"
          /\ undo' = [undo EXCEPT ![t] = "unlock"]
          /\ undo_todo' = [undo_todo EXCEPT ![t] = removing_parts[t]]
    /\ UNCHANGED <<logVars, txnVars, active, parts_lock, memVars, file, rd, oldest, boundVars>>

-----------------------------------------------------------------------------
(* VersionMetadata::isVisible step by step, beside everything else         *)

\* failback_with_strict_load_csn
OwnCreationCSN(p) == creation_csn[p]
OwnRemovalCSN(p) == removal_csn[p]

startReading(t, p) ==
    /\ rd = NoReader /\ TableLoaded
    /\ t \in Readers \cap active /\ pc[t] = "run" /\ csn[t] = UnknownCSN /\ InWorkingSet(p)
    /\ rd' = [at |-> "lock", t |-> t, p |-> p, creation |-> creation_csn[p], lock |-> NoTID,
              removal |-> 0, old |-> FALSE, visible |-> FALSE]
    /\ UNCHANGED <<logVars, txnVars, undoVars, parts_lock, memVars, file, oldest, boundVars>>

loadLock ==
    /\ rd.at = "lock"
    /\ rd' = [rd EXCEPT !.at = "removal", !.lock = removal_tid_lock[rd.p]]
    /\ UNCHANGED <<logVars, txnVars, undoVars, parts_lock, memVars, file, oldest, boundVars>>

loadRemoval ==
    /\ rd.at = "removal"
    /\ rd' = [rd EXCEPT !.at = "fast", !.removal = removal_csn[rd.p]]
    /\ UNCHANGED <<logVars, txnVars, undoVars, parts_lock, memVars, file, oldest, boundVars>>

fastPath ==
    /\ rd.at = "fast"
    /\ rd' = IF DefinitelyInvisible(rd.t, rd.creation, rd.lock, rd.removal)
             THEN [rd EXCEPT !.at = "done"]
             ELSE IF DefinitelyVisible(rd.t, rd.p, rd.creation, rd.lock, rd.removal)
             THEN [rd EXCEPT !.at = "done", !.visible = TRUE]
             ELSE IF CreatorStartedLater(rd.t, rd.p)
             THEN [rd EXCEPT !.at = "done"]
             ELSE [rd EXCEPT !.at = "lookup"]
    /\ UNCHANGED <<logVars, txnVars, undoVars, parts_lock, memVars, file, oldest, boundVars>>

lookupCreation ==
    LET known == getCSN(creation_tid[rd.p])
    IN  /\ rd.at = "lookup"
        /\ IF known # UnknownCSN
           THEN /\ creation_csn' = [creation_csn EXCEPT ![rd.p] = known]
                /\ rd' = [rd EXCEPT !.at = "lookupRemoval", !.creation = known]
           ELSE /\ rd' = [rd EXCEPT !.at = "tail"]
                /\ UNCHANGED creation_csn
        /\ UNCHANGED <<logVars, txnVars, undoVars, parts_lock, state, creation_tid,
                       removal_tid_lock, removal_csn, file, oldest, boundVars>>

loadTail ==
    /\ rd.at = "tail"
    /\ rd' = [rd EXCEPT !.at = "own", !.old = BehindTail(creation_tid[rd.p])]
    /\ UNCHANGED <<logVars, txnVars, undoVars, parts_lock, memVars, file, oldest, boundVars>>

\* The second load of creation_csn decides between "too old TID" and "not committed".
loadCreationAgain ==
    LET own == OwnCreationCSN(rd.p)
    IN  /\ rd.at = "own"
        /\ rd' = IF own # UnknownCSN THEN [rd EXCEPT !.at = "lookupRemoval", !.creation = own]
                 ELSE IF rd.old THEN [rd EXCEPT !.at = "thrown"]
                 ELSE [rd EXCEPT !.at = "done"]
        /\ UNCHANGED <<logVars, txnVars, undoVars, parts_lock, memVars, file, oldest, boundVars>>

lookupRemoval ==
    LET known == getCSN(rd.lock)
    IN  /\ rd.at = "lookupRemoval"
        /\ IF rd.lock = NoTID
           THEN /\ rd' = [rd EXCEPT !.at = "done", !.visible = InSnapshot(rd.t, rd.creation, rd.removal)]
                /\ UNCHANGED removal_csn
           ELSE IF known # UnknownCSN
           THEN /\ removal_csn' = [removal_csn EXCEPT ![rd.p] = known]
                /\ rd' = [rd EXCEPT !.at = "done", !.visible = InSnapshot(rd.t, rd.creation, known)]
           ELSE /\ rd' = [rd EXCEPT !.at = "ownRemoval"]
                /\ UNCHANGED removal_csn
        /\ UNCHANGED <<logVars, txnVars, undoVars, parts_lock, state, creation_tid, creation_csn,
                       removal_tid_lock, file, oldest, boundVars>>

loadRemovalAgain ==
    /\ rd.at = "ownRemoval"
    /\ rd' = [rd EXCEPT !.at = "done",
                        !.visible = InSnapshot(rd.t, rd.creation, OwnRemovalCSN(rd.p))]
    /\ UNCHANGED <<logVars, txnVars, undoVars, parts_lock, memVars, file, oldest, boundVars>>

stopReading ==
    /\ rd.at \in {"done", "thrown"}
    /\ rd' = NoReader
    /\ UNCHANGED <<logVars, txnVars, undoVars, parts_lock, memVars, file, oldest, boundVars>>

-----------------------------------------------------------------------------
(* MergeTreeData::grabOldParts                                             *)

Cleaner == "cleaner"
AddingOrFailing == {"add", "cover", "append", "fail", "failed"}

\* Someone else holds a pointer to the part.
InUse(p) ==
    \/ \E t \in active : p \in creating_parts[t] \union removing_parts[t]
    \/ \E t \in Txn : pc[t] \in AddingOrFailing /\ new[t] = p
    \/ rd # NoReader /\ rd.p = p

\* canBeRemoved decides without the log, or reads the oldest snapshot first.
readOldestSnapshot(p) ==
    /\ TableLoaded /\ parts_lock = NoTID
    /\ state[p] = "Outdated"
    /\ parts_lock' = Cleaner
    /\ oldest' = [p |-> p, csn |-> OldestSnapshot]
    /\ UNCHANGED <<logVars, txnVars, undoVars, memVars, file, rd, boundVars>>

RemovedForAll(removal, oldest_snapshot) == removal # UnknownCSN /\ removal <= oldest_snapshot

\* canBeRemovedImpl on the CSNs it finds
canBeRemoved(p, creation, removal) ==
    \/ creation = RolledBackCSN
    \/ creation_tid[p] = Prehistoric /\ removal_tid_lock[p] = Prehistoric
    \/ /\ creation # UnknownCSN /\ creation <= oldest.csn
       /\ removal_tid_lock[p] # NoTID
       /\ RemovedForAll(removal, oldest.csn)

\* The part is taken for deletion, and deleted; or it stays.  The CSNs looked up on
\* the way are kept in memory.
grabOldPart ==
    LET p == oldest.p
        creation == IF creation_csn[p] # UnknownCSN THEN creation_csn[p] ELSE getCSN(creation_tid[p])
        lock == removal_tid_lock[p]
        removal == IF removal_csn[p] # UnknownCSN \/ lock = NoTID THEN removal_csn[p] ELSE getCSN(lock)
        asked == creation # UnknownCSN /\ creation # RolledBackCSN /\ creation <= oldest.csn
    IN  /\ parts_lock = Cleaner
        /\ creation_csn' = [creation_csn EXCEPT ![p] = creation]
        /\ removal_csn' = [removal_csn EXCEPT ![p] = IF asked THEN removal ELSE @]
        /\ IF canBeRemoved(p, creation, removal) /\ ~InUse(p)
           THEN /\ state' = [state EXCEPT ![p] = "Gone"]
                /\ file' = [file EXCEPT ![p] = NoFile]
           ELSE UNCHANGED <<state, file>>
        /\ parts_lock' = NoTID
        /\ oldest' = [p |-> NoPart, csn |-> 0]
        /\ UNCHANGED <<logVars, txnVars, undoVars, creation_tid, removal_tid_lock, rd, boundVars>>

-----------------------------------------------------------------------------
(* A crash, and loading                                                    *)

\* Memory goes; files and the log stay.  (A part that is gone keeps its remover, for
\* the properties only.)
crash ==
    /\ crashes < MaxCrashes
    /\ crashes' = crashes + 1
    /\ loaded' = entries
    /\ latest_snapshot' = last
    /\ pc' = [t \in Txn |-> IF pc[t] = "idle" THEN "idle" ELSE "dead"]
    /\ csn' = [t \in Txn |-> UnknownCSN]
    /\ creating_parts' = [t \in Txn |-> {}]
    /\ removing_parts' = [t \in Txn |-> {}]
    /\ todo' = [t \in Txn |-> {}]
    /\ cur' = [t \in Txn |-> NoPart]
    /\ new' = [t \in Txn |-> NoPart]
    /\ undo' = [t \in Txn |-> "off"]
    /\ undo_todo' = [t \in Txn |-> {}]
    /\ active' = {}
    /\ parts_lock' = NoTID
    /\ state' = [p \in Part |-> IF state[p] \in {"None", "Gone"} THEN state[p] ELSE "Unloaded"]
    /\ creation_csn' = [p \in Part |-> UnknownCSN]
    /\ removal_tid_lock' = [p \in Part |-> IF state[p] = "Gone" THEN removal_tid_lock[p] ELSE NoTID]
    /\ removal_csn' = [p \in Part |-> UnknownCSN]
    /\ rd' = NoReader
    /\ oldest' = [p |-> NoPart, csn |-> 0]
    /\ UNCHANGED <<last, commits, entries, tail_ptr, start, creation_tid, file, kills, drops>>

\* The fix-up of loadDataPart: what the file lacks is taken from the log.
FixedCreationCSN(p) ==
    IF ~file[p].exists THEN PrehistoricCSN
    ELSE IF file[p].creation_csn # UnknownCSN THEN file[p].creation_csn
    ELSE IF getCSN(creation_tid[p]) # UnknownCSN THEN getCSN(creation_tid[p])
    ELSE RolledBackCSN

FixedRemovalCSN(p) ==
    IF file[p].removal_tid # NoTID /\ file[p].removal_csn = UnknownCSN
    THEN getCSN(file[p].removal_tid) ELSE file[p].removal_csn

\* getCSNAndAssert throws for an entry that may have been trimmed.
TooOld(p) ==
    /\ file[p].exists
    /\ \/ /\ file[p].creation_csn = UnknownCSN
          /\ getCSN(creation_tid[p]) = UnknownCSN /\ BehindTail(creation_tid[p])
       \/ /\ file[p].removal_tid # NoTID /\ file[p].removal_csn = UnknownCSN
          /\ getCSN(file[p].removal_tid) = UnknownCSN /\ BehindTail(file[p].removal_tid)

\* Top parts are loaded first; those below an active part are left for
\* loadOutdatedDataParts, which loads them as Outdated while the table works.
CanLoadTop(p) == state[p] = "Unloaded" /\ \A q \in Covering(p) : state[q] # "Unloaded"
CanLoadOutdated(p) == state[p] = "UnloadedOutdated" /\ TableLoaded /\ parts_lock = NoTID

FixedRemovalTID(p) == IF FixedRemovalCSN(p) = UnknownCSN THEN NoTID ELSE file[p].removal_tid

LoadedAsOutdated(p) ==
    \/ state[p] = "UnloadedOutdated"
    \/ FixedCreationCSN(p) = RolledBackCSN \/ FixedRemovalCSN(p) # UnknownCSN

\* preparePartForRemoval throws for a part of a transaction that nobody has removed.
NoRemover(p) ==
    /\ LoadedAsOutdated(p) /\ FixedRemovalTID(p) = NoTID
    /\ FixedCreationCSN(p) \notin {RolledBackCSN, PrehistoricCSN}

\* An exception ends the server (std::terminate, or the start fails): the part stays as
\* it is and a crash comes next.
loadDataPart(p) ==
    LET outdated == LoadedAsOutdated(p)
        lock == FixedRemovalTID(p)
    IN  /\ CanLoadTop(p) \/ CanLoadOutdated(p)
        /\ file' = IF file[p].exists /\ ~TooOld(p)
                   THEN [file EXCEPT ![p] = [exists |-> TRUE, creation_csn |-> FixedCreationCSN(p),
                                              removal_tid |-> lock, removal_csn |-> FixedRemovalCSN(p)]]
                   ELSE file
        /\ IF TooOld(p) \/ NoRemover(p)
           THEN UNCHANGED <<state, creation_csn, removal_tid_lock, removal_csn>>
           ELSE /\ creation_csn' = [creation_csn EXCEPT ![p] = FixedCreationCSN(p)]
                /\ removal_csn' = [removal_csn EXCEPT ![p] = FixedRemovalCSN(p)]
                /\ removal_tid_lock' = [removal_tid_lock EXCEPT ![p] =
                        IF outdated /\ lock = NoTID THEN Prehistoric ELSE lock]
                /\ state' = [q \in Part |->
                        IF q = p THEN IF outdated THEN "Outdated" ELSE "Active"
                        ELSE IF ~outdated /\ q \in CoveredBy(p) /\ state[q] = "Unloaded"
                        THEN "UnloadedOutdated" ELSE state[q]]
        /\ UNCHANGED <<logVars, txnVars, undoVars, parts_lock, creation_tid, rd, oldest, boundVars>>

-----------------------------------------------------------------------------
Init ==
    /\ last = MaxReservedCSN + 1 /\ commits = [t \in Txn |-> 0] /\ entries = {} /\ loaded = {}
    /\ latest_snapshot = last /\ tail_ptr = last
    /\ pc = [t \in Txn |-> "idle"] /\ start = [t \in Txn |-> 0] /\ csn = [t \in Txn |-> UnknownCSN]
    /\ creating_parts = [t \in Txn |-> {}] /\ removing_parts = [t \in Txn |-> {}]
    /\ todo = [t \in Txn |-> {}]
    /\ cur = [t \in Txn |-> NoPart] /\ new = [t \in Txn |-> NoPart]
    /\ undo = [t \in Txn |-> "off"] /\ undo_todo = [t \in Txn |-> {}] /\ active = {}
    /\ parts_lock = NoTID
    /\ state = [p \in Part |-> IF p \in Initial THEN "Active" ELSE "None"]
    /\ creation_tid = [p \in Part |-> IF p \in Initial THEN Prehistoric ELSE NoTID]
    /\ creation_csn = [p \in Part |-> IF p \in Initial THEN PrehistoricCSN ELSE UnknownCSN]
    /\ removal_tid_lock = [p \in Part |-> NoTID] /\ removal_csn = [p \in Part |-> UnknownCSN]
    /\ file = [p \in Part |-> NoFile]
    /\ rd = NoReader /\ oldest = [p |-> NoPart, csn |-> 0]
    /\ kills = 0 /\ drops = 0 /\ crashes = 0

Next ==
    \/ \E t \in Txn :
        \/ beginTransaction(t)
        \/ \E p \in Part : renameTempPartAndReplace(t, p)
        \/ addNewPart(t)
        \/ \E p \in Part : removeOldPart(t, p)
        \/ appendRemovalTID(t) \/ activatePart(t) \/ storeRolledBack(t) \/ removePrecommitted(t)
        \/ beforeCommit(t) \/ commitTransaction(t) \/ commitFailed(t) \/ afterCommit(t)
        \/ \E p \in Part : stampCreated(t, p)
        \/ allCreatedStamped(t)
        \/ \E p \in Part : stampRemoved(t, p)
        \/ releaseSnapshot(t)
        \/ rollback(t) \/ nextLoop(t)
        \/ \E p \in Part : stampRolledBack(t, p)
        \/ \E p \in Part : removeCreated(t, p)
        \/ \E p \in Part : restoreAndActivatePart(t, p)
        \/ \E p \in Part : clearRemovalTID(t, p)
        \/ \E p \in Part : unlockRemovalTID(t, p)
        \/ \E p \in Part : startReading(t, p)
    \/ loadEntries \/ publishSnapshot \/ moveTail \/ trimLog
    \/ loadLock \/ loadRemoval \/ fastPath \/ lookupCreation \/ loadTail \/ loadCreationAgain
    \/ lookupRemoval \/ loadRemovalAgain \/ stopReading
    \/ \E p \in Part : removePartNoTransaction(p) \/ readOldestSnapshot(p) \/ loadDataPart(p)
    \/ grabOldPart
    \/ crash

Spec == Init /\ [][Next]_vars

-----------------------------------------------------------------------------
(* Properties                                                              *)

\* Snapshot isolation, by the log alone: what t sees is what was committed when it
\* started and what it did itself.
Committed(x) == x = Prehistoric \/ (x \in Txn /\ commits[x] # 0)
CommittedBefore(x, t) == x = Prehistoric \/ (x \in Txn /\ commits[x] \in 1..start[t])
RemoverOf(p) == IF removal_tid_lock[p] # NoTID THEN removal_tid_lock[p] ELSE file[p].removal_tid
Sees(t, p) ==
    /\ creation_tid[p] = t \/ CommittedBefore(creation_tid[p], t)
    /\ RemoverOf(p) # t /\ ~CommittedBefore(RemoverOf(p), t)
Running(t) == t \in active /\ csn[t] = UnknownCSN

\* isVisible gives what the snapshot of the transaction holds, whatever commits,
\* rolls back or is trimmed between its loads (TransactionVersionMetadata.cpp), and
\* never meets "Trying to get CSN for too old TID".
ReadsSnapshot ==
    /\ rd.at # "thrown"
    /\ rd.at = "done" /\ Running(rd.t) /\ RemoverOf(rd.p) # Prehistoric
         => rd.visible = Sees(rd.t, rd.p)

\* The cleanup thread deletes no part that a running transaction sees.
VisiblePartsExist ==
    \A t \in Txn, p \in Part :
        Running(t) /\ Sees(t, p) /\ RemoverOf(p) # Prehistoric => state[p] # "Gone"

\* No running transaction sees a part together with one it replaces, so no rows twice.
NoRowsTwice ==
    \A t \in Txn : Running(t) /\ pc[t] = "run" =>
        \A c \in Covers : ~(Sees(t, c[1]) /\ Sees(t, c[2]))

\* A rolled back transaction leaves no lock and no removal TID on the parts it
\* wanted to remove.
RollbackUnlocks ==
    \A t \in Txn : csn[t] = RolledBackCSN /\ t \notin active =>
        \A p \in Part : removal_tid_lock[p] # t /\ file[p].removal_tid # t

\* Loading the working set after a restart finds what it needs to know of each part, in
\* its file or in the log (loadDataPart), and no part loaded in the background lacks a
\* remover (preparePartForRemoval).  A part loaded in the background may come too late
\* for the log, but only one that was never committed, or whose removal was.
LoadsWorkingSet ==
    \A p \in Part :
        /\ CanLoadTop(p) => ~TooOld(p)
        /\ CanLoadOutdated(p) =>
             IF TooOld(p) THEN Committed(creation_tid[p]) => Committed(file[p].removal_tid)
             ELSE ~NoRemover(p)

\* After a restart the working set is what the log says was committed.
RecoversCommitted ==
    \A p \in Part : creation_tid[p] \in Txn /\ pc[creation_tid[p]] = "dead" =>
        LET committed == commits[creation_tid[p]] # 0
            remover == RemoverOf(p)
        IN  /\ state[p] = "Active" => committed
            /\ state[p] = "Outdated" /\ committed =>
                 \/ remover = Prehistoric
                 \/ remover \in Txn /\ (commits[remover] # 0 \/ remover \in active)
=============================================================================
