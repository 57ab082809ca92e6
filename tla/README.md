# Formal models of ClickHouse's transactions, locks and background work

TLA+ models, TLC runs and TLAPS proofs kept beside ClickHouse 25.5.3.75. They
cover code whose correctness is hard to see and hard to test: multi-version
transactions on MergeTree tables (the commit log in Keeper and the version
metadata of data parts), two reader-writer locks, and the machinery that runs
merges and other background work (the schedule pool, the executors, and the
assignees that connect them to a table's life).

## 1. The system

ClickHouse is a column database. A MergeTree table is a set of immutable data
parts; inserts add parts, merges and mutations add a part that covers others,
and a cleanup thread deletes parts nobody needs. With transactions enabled, every
part carries who created it, who removed it, and the commit sequence numbers
(CSN) of both. Merges, fetches, moves and cleanups are tasks that a table's
assignees hand to executors shared by all tables. Queries and background work
meet at locks of the table.

| Part of the system | State | Operations | What is hard | Module |
|---|---|---|---|---|
| Transaction log (`Interpreters/TransactionLog.cpp`) | `csn-` nodes and `tail_ptr` in Keeper; `tid_to_csn`, `latest_snapshot`, `running_list`, `snapshots_in_use`, `unknown_state_list` in memory | begin, commit, rollback; updating thread: reconnect, list, load, publish, move the tail, remove entries, finalize unknown states; load at startup | a lost answer to the commit request; a late request of an old session; a crash between commit and bookkeeping; trimming; lost wakeups | `TransactionLog`, `CommitLog` |
| Keeper client (`Common/ZooKeeper/ZooKeeper.cpp`) | session, session node version | multi-request with session check, watches | requests executed after the client gave up | `TransactionLog` |
| Transactions (`Interpreters/MergeTreeTransaction.cpp`) | `creating_parts`, `removing_parts`, `csn` | add part, remove part, beforeCommit, afterCommit, rollback | KILL TRANSACTION at any moment | `PartVersions` |
| Version metadata (`Interpreters/TransactionVersionMetadata.cpp`) | creation and removal TID/CSN, removal lock, `txn_version.txt` | isVisible, tryLockRemovalTID, canBeRemoved, load, append | lock-free reads of several fields; the file after a crash | `PartVersions` |
| Working set of a table (`Storages/MergeTree/MergeTreeData.cpp`) | states of parts under the parts lock | add and replace, both rollbacks, cleanup, load parts | two rollbacks undo one transaction; cleanup against new readers | `PartVersions` |
| Mutex (`Common/SharedMutex.cpp`) | one 64-bit word, a count of waiters, two futexes | lock, try, unlock in both modes | every atomic operation interleaves; lost wakeups | `SharedMutex` |
| Lock of tables and databases (`Common/RWLock.cpp`) | queues of groups, owners, queries that own it | getLock with a deadline and a query id, unlock | re-entrance past waiting writers, timeouts, exceptions, phases | `RWLock` |
| Schedule pool (`Core/BackgroundSchedulePool.cpp`) | flags of tasks, a queue, delayed tasks, threads | schedule, scheduleAfter, activate, deactivate, execute | calls while a task runs, is queued or delayed; lost calls; shutdown | `BackgroundSchedulePool`, `ScheduledTask` |
| Executors (`Storages/MergeTree/MergeTreeBackgroundExecutor.cpp`) | pending and active queues | trySchedule, steps of tasks, removal of a table's tasks, reload of settings | shutdown of a table against running tasks; full buffers; starvation | `MergeTreeBackgroundExecutor` |
| Assignees (`Storages/MergeTree/BackgroundJobsAssignee.cpp`) and their tables | holder, its mutex | start, trigger, postpone, threadFunc, finish | locks of four components meet in finish; queries after shutdown | `BackgroundJobsAssignee` |
| Replication, deduplication log, asynchronous loader, filesystem cache, async inserts, distributed DDL, backups, ... | files or Keeper nodes | | crashes, retries, limits | not modelled |
| Query processing (parsers, analyzer, functions, formats, pipeline) | data | computation | outside what a model checker is for | not modelled |

`PROJECT.json` lists all of them as components, with the reason for those that
are not modelled, and the hazards of the modelled code at their lines.

How the modules are connected:

- `TransactionLog` implements `CommitLog`; `PartVersions` uses the log as
  `CommitLog` promises it.
- `BackgroundSchedulePool` implements `ScheduledTask`;
  `BackgroundJobsAssignee` uses the pool as `ScheduledTask` promises it, and
  extends `MergeTreeBackgroundExecutor`, so the executors, the assignees, the
  pool and the tables run together in one specification.

## 2. Modules

Operators keep the names of the methods they model. Operators under "Mistakes,
which Spec does not use", and those commented as not used by `Spec`, are plausible
errors; each of them breaks the property `PROJECT.json` names for it.

### CommitLog

The abstract specification of the log: transactions are open, committed or
rolled back; a commit takes the next number; a decided transaction stays decided.
No Keeper, no sessions, no crashes.

### TransactionLog

One server and Keeper. State in Keeper: `log` (the `csn-` nodes with the TID they
hold), `seq` (the next sequence number), `zk_tail_ptr`, `session_node_version`,
and `inflight`, the commit requests that Keeper has not processed. State of the
server: what `TransactionLog.h` declares, under the same names; `upc` is where
the updating thread is between two of its calls, `pc[t]` where a transaction's
thread is in `commitTransaction`, `finalizeCommittedTransaction` or
`rollbackTransaction`. `history` is every node ever created (a history variable;
no guard reads it except to find the number a commit got).

Each call that goes to Keeper, and each section under a lock, is one action:
`beginTransaction`, `change` (the transaction gets a part), `beforeCommit`,
`sendCommit`, `keeperProcess` (Keeper creates the node, or refuses it because the
session is no longer valid), `commitDone`, `refuseCommit`, `failBeforeSend` and
`faultAfterCommit` (fault injection, or a connection lost before or after),
`postponeFinalization` (unknown state), `rollback`, `stampParts`,
`releaseSnapshot`; the updating thread: `wake`, `connect`, `listEntries`,
`loadEntries`, `publishSnapshot`, `readOldestSnapshot`, `moveTail`,
`tailAnswerLost`, `removeEntry`, `eraseEntries`, `swapUnknownLists`,
`finalizeCommitted`, `finalizeUncommitted`, `finishRound`,
`updatingThreadFails`; the world: `loseSession`, `crash`, `restart`, `loadParts`,
`setServerCompletelyStarted`.

CSNs keep the code's reserved values (`MaxReservedCSN` = 32), so `MaxCSN` = 36
leaves four numbers. `RolledBackCSN` is above every CSN.

### PartVersions

One table with parts that may cover each other, transactions that add a part and
remove those it covers, one evaluation of `isVisible` at a time, taken load by
load, the cleanup thread, queries that remove parts without a transaction,
KILL TRANSACTION, log trimming and crashes. `file[p]` is `txn_version.txt`.
`MergeTreeData::Transaction` (the working set's transaction) and
`MergeTreeTransaction` are both modelled, with the parts lock between them. The
log appears as `CommitLog` promises it: one step commits; loading entries,
publishing the snapshot, moving the tail and trimming are steps of their own
because `isVisible` runs between them. After a crash the parts are `Unloaded`; those
below a part that turns out to be active become `UnloadedOutdated` and are loaded in
the background. The tail may move as soon as the working set is loaded (`TableLoaded`;
with `AsyncLoading` even before), as `removeOldEntries` does: it does not wait for the
background. Queries that remove parts do (`OutdatedPartsLoaded`). A load that throws
leaves the part as it is; in the code it ends the server, which is the next `crash`.

### SharedMutex

Every atomic operation and every futex call is a step. The word is `writers` (its
upper half, all ones or zero, written 1 or 0) and `readers`; `vw` and `vr` are the
halves of a thread's local `value`. A futex is the set of threads whose `pc`
sleeps on it, and wakes without cause are allowed. `lock` and `lock_shared` wait
in the same way and share their actions.

### RWLock

One request is one call of `getLock` and the holder it returns; what happens
under `internal_state_mtx` is one action. A group is named after the request that
created it. `Follows` and `Awaits` say which requests of one client are made after
others and which have to return before a holder is released; this is how a query
that asks again while it holds the lock is described. `overtaken` is a history
variable for phase-fairness.

### BackgroundSchedulePool and ScheduledTask

What happens under a task's `schedule_mutex` is one action, with the queue
operations nested in it; `exec_mutex` is held over several. Time is left out:
`delayed_tasks` is in the order of the deadlines, a new one goes anywhere, and the
first may or may not have passed when the delay thread looks. `ScheduledTask` is
the promise to the owners of tasks, four flags and the exec lock: a task runs when
it is not deactivated, once at a time, not while its exec lock is held; and, under
`Promise`, delays pass and scheduled tasks run. It allows a task to be scheduled or
to run once more than asked, because the pool does so (run `schedule_pool_ready`).

### MergeTreeBackgroundExecutor and BackgroundJobsAssignee

Every method of an executor is one critical section and one action, except
`complete_task`, which calls `onCompleted` with the mutex held: that is two
actions (`complete_task`, `onCompleted`) and `mutex` is a variable for their sake.
A step of a task is reduced to how it ends: another step is wanted, it was the
last one, or it threw. `Live` are the `TaskRuntimeData` objects with a reference
to them, which is what the metric counts; `push_back` overwrites the first element
of a full circular buffer, as boost's does.

`trigger` and `postpone` hold `holder_mutex` for one step of the pool and are one
action; `start` is two. `finish` reads `holder` without the mutex, locks and
deactivates the task, and goes through the executors, waiting for the tasks of its
table in each. A table is `stage` and `calls`, the calls of `start` and `finish`
it has yet to make; `startup`, `partialShutdown` (the restarting thread lost the
session), `setNotReadonly` (it has a new one), `shutdownTable` and `destroy` (the
members' destructors, in reverse order) fill the list. Queries hold the table until they end:
they trigger, schedule a move (`movePartsToSpace`) or start the moves assignee
(`changeSettings`), also after `shutdown`. When `trySchedule` refuses and
`threadFunc` then postpones once more, the second call changes nothing and is left
out. A table is its identity, as a table with UUID is; see the last hazard of
`PROJECT.json` for the others.

### MC modules

`MCTransactionLog`, `MCPartVersions`, `MCSharedMutex`, `MCRWLock`,
`MCBackgroundSchedulePool` and `MCBackgroundJobsAssignee` give the instances:
symmetry where nothing tells the members of a set apart, the part sets (a part, a
mutation of it, a later mutation of either), the requests of the locks' clients.
`MCBackgroundJobsAssignee` has four small servers, chosen in the initial state
(`setup`, which never changes), instead of one large one.

### Proof modules

`TransactionLogInv` defines the inductive invariants of the log: `IInv`, and
`WrittenInv` on top of it. `TransactionLogTxnProofs` states which variables each part
of `IInv` depends on; it, `TransactionLogCommitProofs` and
`TransactionLogThreadProofs` hold one lemma per action, and `TransactionLogProofs`
draws the theorems. `TransactionLogRefinement` shows that the log implements
`CommitLog`. `SharedMutexProofs` and `BackgroundSchedulePoolProofs` hold invariant,
lemmas and theorems of the one module each.

## 3. Runs

| Run | Checks | Bounds |
|---|---|---|
| `txlog` | types; no committed transaction is rolled back; CSNs are the node numbers; the front of `snapshots_in_use` is the oldest snapshot; TIDs are unique over restarts; snapshots and the tail only move forward; the tail stays behind transactions whose CSN is not in their parts; a removed entry is not needed; a published snapshot is complete | 2 transactions, 4 CSNs, 1 fault, 2 crashes, parts loaded before the server counts as started |
| `txlog_live` | `TransactionLog` implements `CommitLog`; unknown states are settled; every commit reaches the latest snapshot | 2 transactions, 2 CSNs, 1 fault, 1 crash, fair steps |
| `txlog_async_loading` | expected to fail: entries are removed only when written into parts, with tables loaded after the start | 1 crash |
| `parts_visibility` | a step-by-step `isVisible` answers what the snapshot says; it never meets a TID too old; parts a transaction sees exist; a rollback leaves no lock | 3 transactions, 2 parts, 1 KILL |
| `parts_recovery` | no row is seen twice; the working set can be loaded after a crash, and a part in the background can come too late for the log only if it is not part of the committed state; what is loaded is the committed state | 2 transactions, 3 parts, 2 crashes, 1 removal without a transaction, tables loaded before the server counts as started |
| `parts_kill` | expected to fail: the working set can be loaded, with a KILL | 1 KILL, 1 crash |
| `shared_mutex` | exclusion; readers are counted; no sleeper without someone to wake it; a writer with its bit set enters; someone always enters | 3 threads; deadlock is checked |
| `rwlock` | exclusion; what `unlock` and `grantOwnershipToAllReaders` assert of owners and groups; ownership is passed on; phase-fairness; everyone gets an answer | 4 readers, 2 writers, 2 deadlines, 1 insertion that throws |
| `rwlock_threads` | expected to fail: everyone gets an answer, with two threads of a query that need each other | 3 readers, 2 writers |
| `schedule_pool` | the three invariants of `BackgroundSchedulePool.h`; iterators are valid; no call of `schedule` is lost; it implements `ScheduledTask` and keeps its promise; `deactivate` returns; the destructor joins the threads | 1 task, 2 threads, 1 caller, 4 calls |
| `schedule_pool_ready` | expected to fail: what the delay thread finds ready is delayed | 2 tasks |
| `background_jobs` | a task is in one queue once and never overwritten; none outlives its table; an active assignee comes back; no task and no shutdown beside sleeping threads; `finish` returns; round robin starves no task | four servers: settings reloaded (1 thread and task, then 2); a replicated table; several disks and ALTER; two tables on one executor |

Why the bounds suffice. Transactions: two are what it takes for one to hold a
snapshot while the other commits, to conflict over a part, or to commit while the
other is in unknown state; `parts_visibility` has a third so that a part can be
created, replaced and read by different ones. Four CSNs: the entry from before,
one for each transaction, one for a restart. Two crashes: one that leaves
something behind, one during the repair. Locks: the third thread of `SharedMutex`
arrives while one owns the lock and one waits; `RWLock` needs two writers for the
phases, a reader group that owns and one that waits. Pool: tasks only meet in the
queues, whose handling is proved for any number of them (section 4). Executors:
`max_tasks_count` of one and two makes every case of full and not full occur; the
tasks of two tables share a queue with one thread; a session is lost once; one ALTER
of the storage policy (`MaxAlters`), and one query at a time that schedules.
`Watched` is one of two interchangeable tasks.
`Readers` are the transactions whose `isVisible` is followed load by load: all of
them in `parts_visibility`, none in `parts_recovery`, which asks no question of it.

Deadlock checking is off where the system may stop (transactions end, the bounds
are used up, a table is destroyed, everyone has had the lock).

Fairness, and why the code justifies it:

- `TransactionLog`: weak fairness of the updating thread, a loop that ends with
  the server, and of a transaction's steps between its commit request and its
  end, which wait for nobody. Nothing is assumed of clients; faults and crashes
  are never required.
- `SharedMutex`: threads are scheduled and the holder releases the lock. The futex
  itself is not fair, and no thread is promised its turn: a reader or writer that
  has not set its bit may starve.
- `RWLock`: threads that were notified run, and holders are released once those
  they await have returned.
- `BackgroundSchedulePool`: threads run, functions return, deadlines pass; strong
  fairness where a thread waits for a mutex that is free again and again.
- `BackgroundJobsAssignee`: steps of tasks end and threads run (weak); `threadFunc`
  and a table's `start` and `finish` get a mutex that is free again and again
  (strong); queries that schedule or start end (weak). Nothing makes a delay pass or
  a task of the pool start: no property here needs it.

What the failing runs show:

- `txlog_async_loading`: `removeOldEntries` starts trimming when the server counts
  as completely started. With `async_load_databases` (the default) that is before
  the tables are loaded, and covered parts of a table are loaded in the background
  in any case. A committed transaction of which a crash left a part without CSN is
  then trimmed before the part is loaded. In `PartVersions`, with tables loaded before
  the start, the same happens to a covered part: its removal is committed, a crash comes
  before the CSN is in its file, the covering part is loaded, the tail moves on and the
  next commit lets the entry be trimmed; `loadOutdatedDataParts` then meets "Trying to get
  CSN for too old TID" and calls `std::terminate`. `LoadsWorkingSet` allows exactly this:
  it asks that every part of the working set can be loaded, and of a part in the
  background that it was never committed or its removal was, so that what cannot be
  loaded is nothing a query could read.
- `parts_kill`: a transaction killed between `renameTempPartAndReplace` and
  `addNewPart` leaves a part on disk whose creation TID has no CSN; the comment in
  `TransactionLog.h` says such lookups do not happen.
- `rwlock_threads`: a thread that was granted the lock enters its query id only when
  it wakes up; another thread of the query that comes before that queues up behind
  the next writer, which is the deadlock `RWLock.h:32-36` says is avoided.
- `schedule_pool_ready`: the delay thread keeps the pointer to a task whose delay was
  cancelled while it waited, and schedules it once more.

Seen while modelling `isVisible`, and not a run:
`chassert(!had_removal_csn || had_removal_tid)` (`TransactionVersionMetadata.cpp:145`)
can fail in a debug build when a removal is locked, committed and stamped between
the loads of the lock and of the CSN. The answer is right all the same
(`ReadsSnapshot`): such a removal is newer than the snapshot.

## 4. Theorems

`TransactionLogProofs`, for every finite set of transactions and all bounds, from
`TxnAssumption`, `BoundsAssumption` and `AsyncAssumption`:

| Theorem | States |
|---|---|
| `Invariance` | `Spec => []IInv` |
| `TypeCorrect` | `Spec => []TypeOK` |
| `CommitIsFinal` | `Spec => []CommittedNotRolledBack` |
| `TIDsAreUnique` | `Spec => []UniqueTID` |
| `OldestSnapshotIsFirst` | `Spec => []OldestSnapshotFirst` |
| `SnapshotsOnlyAdvance` | `Spec => SnapshotsMoveForward` |
| `Written` | `Spec => []WrittenInv` |
| `StampedCSNs` | `Spec => []CSNIsTheNodeNumber` |
| `LookupsSucceed` | if `~AsyncLoading`: `Spec => []TailBehindUnwrittenCSNs` |
| `RemovedAfterWritten` | if `~AsyncLoading`: `Spec => []RemovedEntriesAreWritten` |
| `SnapshotsComplete` | if `~AsyncLoading`: `Spec => []SnapshotComplete` |
| `Refinement` (in `TransactionLogRefinement`) | `Spec => ImplementsCommitLog` |

The argument. `CommittedNotRolledBack` is not inductive: a rollback by
`tryFinalizeUnknownStateTransactions` is right only because of what the updating
thread has done since the transaction joined the list. `IInv` follows that
knowledge through one round of the thread: after `connect` no request of the
loaded list can be executed any more (`ReadyNotLive`, from `VersionInv`: the
session node has a new version); after `listEntries` every entry of such a
transaction is among those listed (`ReadyListed`); after `loadEntries` a committed
one is in `tid_to_csn` (`ReadyLoaded`); so what `swapUnknownLists` hands over and
is not loaded is not committed (`FinalizingLoaded`). That entries are not trimmed
meanwhile comes from `TailBehindRunning` and `RemovedBehindTail`; that a restart
finds what it needs, from `LastEntryKept` and `DeadInv`. `UniqueTID` rests on
`TidsInPast`: every TID is at or before the latest snapshot, and at it only up to
the local counter. Each action has one lemma. It states what the action changes, cites
`Frames` for the parts of the invariant whose variables the action leaves alone, and
goes through the others. `TxnStepInv` and `SessionLost` are what several actions have
in common: a step of one transaction that changes only its own state, and the loss of
a session.

`WrittenInv` relates the log to the metadata of the parts, with `IInv` known: a TID has
one entry (`OneEntry`), and for every transaction (`PartsInv`) only one with changes
ever asks Keeper to commit; until its CSN is in its parts it is in `running_list`, so
its snapshot holds the tail back; the CSN in its parts is the number of its entry. That
the same is true of the transactions of earlier runs of the server needs `~AsyncLoading`:
trimming starts when the server counts as completely started, and only if parts, covered
ones included, are loaded before that do they have their CSNs by then. The code does not
guarantee this. This is the hypothesis of three of
the theorems, and the run `txlog_async_loading` shows that they fail without it.

The refinement maps a transaction to the outcome that is already certain (`Outcome`):
committed when the entry exists in Keeper, ended when it is rolled back, had no changes,
or its server died and no request of it can be executed any more, active otherwise. So the commit
of `CommitLog` is `keeperProcess` of a valid request, the end may be a rollback, a
refusal, or the new session that makes an old request void (of several
transactions at once, after a crash), and everything the server does to find out is a
stutter. `EntriesAreUnique` is what makes the number of a commit well defined.

`SharedMutexProofs`, for every finite set of threads (`ThreadAssumption`):

| Theorem | States |
|---|---|
| `Exclusion` | `Spec => []MutualExclusion` |
| `CountsReaders` | `Spec => []ReadersCounted` |
| `WakesSleepers` | `Spec => []NoLostWakeup` |

Exclusion needs that a writer's stale copy of the word is an upper bound
(`DrainBound`): no reader is added once the bit is set, so `readers <= vr[t]`, and
a copy that says zero means there are none. Wakeups need that the count of waiters
is exact (`WaitersCounted`), since `unlock` skips the wake-up when it is zero, and
that whoever is about to sleep saw the bit set (`SawWriter`). The counts are
cardinalities of sets of threads; `Cards` says what one thread more or less does to
them.

`BackgroundSchedulePoolProofs`, for any tasks, threads, callers and numbers of calls
(`ConstantsAssumption`):

| Theorem | States |
|---|---|
| `RunsOneAtATime` | `Spec => []OneAtATime` |
| `FlagsExclude` | `Spec => []FlagInvariants` |
| `IteratorsAreValid` | `Spec => []DelayedIsListed` |
| `NoScheduleIsLost` | `Spec => []ScheduledIsQueued` |
| `Refinement` | `Spec => ImplementsScheduledTask` |

The invariant adds to these who owns `exec_mutex` (`Locks`) and that `executing`
says which functions run (`Runs`): deactivation waits for the function only because
it waits for the mutex. `Erase` and `Insert` are the lemmas on the list of delayed
tasks. The refinement maps the exec locks held by callers to `held`; every step of a
queue, a thread's loop or the delay thread's search is a stutter, and the rest are
one step of `ScheduledTask` each. So `BackgroundJobsAssignee` may use the promise for
pools of any size.

Every inductive invariant was checked with TLC before it was proved. Only
model-checked: liveness (fairness is outside this prover), `RWLock`, `PartVersions`,
and the executors with their assignees.

## 5. Not modelled, and what the models leave out

- Several servers on one log: the code says it supports one host for now.
- A crash of the machine that loses unsynced appends to `txn_version.txt`, and parts
  added without a transaction.
- The 31-bit limit of sequence numbers in Keeper, which the code mentions.
- A shutdown in good order of the transaction log is a crash here.
- The data in parts, and what a step of a merge or mutation computes.
- A table's startup that fails, and tables on static storage, which have no
  background work.
- Names of tables (renaming a table without UUID while it has tasks).
- The replication queue, replicated inserts, the deduplication log, the asynchronous
  loader and the filesystem cache have protocols of their own and are the next
  candidates; the Keeper server rests on a consensus library outside this repository.
  The rest is data processing or I/O. `PROJECT.json` gives the reason for each.
