--------------------------- MODULE TransactionLog ---------------------------
(***************************************************************************)
(* The transaction log of ClickHouse: class TransactionLog, the life cycle *)
(* of a MergeTreeTransaction, and the part of Keeper they rely on.         *)
(*                                                                         *)
(* A transaction commits by creating a sequential node csn-N in Keeper     *)
(* that holds its TID; N is its commit sequence number (CSN).  The server  *)
(* learns which TIDs are committed from a background thread that loads the *)
(* log, and prunes the log behind the oldest snapshot in use.  The commit  *)
(* request may be lost or delayed, in which case the outcome of the        *)
(* transaction is settled later, by the background thread.                 *)
(*                                                                         *)
(* What a transaction changes (data parts and their version metadata) is   *)
(* reduced here to two facts per transaction: whether it changed anything, *)
(* and which CSN its parts carry on disk.  Module PartVersions models the  *)
(* parts.                                                                  *)
(***************************************************************************)
EXTENDS Integers, Sequences, FiniteSets

CONSTANTS
    Txn,            \* the transactions that may be started
    AsyncLoading,   \* parts may be loaded after the server is completely started:
                    \* async_load_databases, and covered parts in any case
    MaxCSN,         \* bound: sequential numbers Keeper hands out
    MaxFaults,      \* bound: hardware errors, session losses, injected faults
    MaxCrashes      \* bound: server crashes

ASSUME TxnAssumption == IsFiniteSet(Txn)
ASSUME BoundsAssumption == MaxCSN \in Nat /\ MaxFaults \in Nat /\ MaxCrashes \in Nat
ASSUME AsyncAssumption == AsyncLoading \in BOOLEAN

UnknownCSN == 0
CommittingCSN == 2
MaxReservedCSN == 32
MaxReservedLocalTID == 32
RolledBackCSN == MaxCSN + MaxReservedCSN + 2    \* above every CSN (2^64 - 1 in the code)

\* host_id is left out: one server writes this log.
TransactionID == [start_csn : Nat, local_tid : Nat]
EmptyTID == [start_csn |-> 0, local_tid |-> 0]
CSNEntry == [csn : Nat, tid : TransactionID]

VARIABLES
    \* Keeper
    log,                    \* set of CSNEntry: the csn- nodes
    seq,                    \* the next sequential number
    zk_tail_ptr,            \* node tail_ptr
    session_node_version,   \* version of the server's session node
    inflight,               \* commit requests sent and not processed yet
    \* The server's connection to Keeper
    zk_version,             \* session_node_version the connection was opened with
    expired,                \* the session of the connection is lost
    watch,                  \* a watch on the children of the log is set
    \* TransactionLog
    server,                 \* "down", "loading" or "started"
    log_updated_event,
    tid_to_csn, last_loaded_entry, latest_snapshot, local_tid_counter, tail_ptr,
    running_list, snapshots_in_use, unknown_state_list, unknown_state_list_loaded,
    \* the updating thread
    upc, listed, new_tail_ptr, finalizing,
    \* MergeTreeTransaction
    pc, tid, csn, changed,
    \* disk: the CSN in the version metadata of the transaction's parts
    stamped,
    \* history and bounds
    history, faults, crashes

keeperVars == <<log, seq, zk_tail_ptr, session_node_version, inflight>>
connVars == <<zk_version, expired, watch, log_updated_event>>
loadVars == <<tid_to_csn, last_loaded_entry, latest_snapshot, local_tid_counter, tail_ptr>>
runVars == <<running_list, snapshots_in_use>>
unknownVars == <<unknown_state_list, unknown_state_list_loaded>>
updVars == <<upc, listed, new_tail_ptr, finalizing>>
txnVars == <<pc, tid, csn, changed>>
boundVars == <<faults, crashes>>
vars == <<keeperVars, connVars, server, loadVars, runVars, unknownVars, updVars,
          txnVars, stamped, history, boundVars>>

-----------------------------------------------------------------------------
(* Helpers *)

Loaded(t) == \E e \in tid_to_csn : e.tid = tid[t]

\* Every state of a transaction in which its outcome is fixed.
Decided(t) == csn[t] \notin {UnknownCSN, CommittingCSN}

\* list::erase of the element at position i
Erase(s, i) == [j \in 1 .. Len(s) - 1 |-> IF j < i THEN s[j] ELSE s[j + 1]]

\* The oldest snapshot of a running transaction, or the latest one.
OldestSnapshot ==
    IF snapshots_in_use = <<>> THEN latest_snapshot
                               ELSE tid[Head(snapshots_in_use)].start_csn

-----------------------------------------------------------------------------
(* Mistakes this code could have made.  Each stands in for a definition below *)
(* of (nearly) the same name, and breaks the property it is listed with.      *)

SessionNotChecked(r) == TRUE
AllocatedLastCSN(t, c) == c = seq - 1 /\ \E e \in history : e.tid = tid[t]
SnapshotsWithAtFront(t) == <<t>> \o snapshots_in_use
MetadataNotAwaited(t) == TRUE
NewEntriesButLast == {e \in log : last_loaded_entry < e.csn /\ e.csn < listed /\ e.tid # EmptyTID}
ReadyFromOneList == unknown_state_list \cup unknown_state_list_loaded
AlwaysWaitForEvent == FALSE
RemovableAtTheTail == {e \in tid_to_csn : e.tid.start_csn <= new_tail_ptr /\ e.csn # latest_snapshot}
FirstSnapshotWithoutEntry == CHOOSE n \in {e.csn : e \in log} : \A e \in log : e.csn <= n

publishTheTail ==
    /\ upc = "publish" /\ upc' = "tail"
    /\ latest_snapshot' = tail_ptr
    /\ UNCHANGED <<keeperVars, connVars, server, tid_to_csn, last_loaded_entry, local_tid_counter,
                   tail_ptr, runVars, unknownVars, listed, new_tail_ptr, finalizing, txnVars,
                   stamped, history, boundVars>>

publishFromZero ==
    /\ upc = "publish" /\ upc' = "tail"
    /\ latest_snapshot' = listed /\ local_tid_counter' = 0
    /\ UNCHANGED <<keeperVars, connVars, server, tid_to_csn, last_loaded_entry, tail_ptr,
                   runVars, unknownVars, listed, new_tail_ptr, finalizing, txnVars,
                   stamped, history, boundVars>>

listWithoutWatch ==
    /\ upc = "list" /\ ~expired /\ upc' = "load"
    /\ \E e \in log : (\A f \in log : f.csn <= e.csn) /\ listed' = e.csn
    /\ UNCHANGED <<keeperVars, connVars, server, loadVars, runVars, unknownVars,
                   new_tail_ptr, finalizing, txnVars, stamped, history, boundVars>>

-----------------------------------------------------------------------------
(* Steps of the handlers *)

\* The node of t is csn-c: how commitTransaction reads the allocated number.
AllocatedCSN(t, c) == [csn |-> c, tid |-> tid[t]] \in history

\* beginTransaction inserts its snapshot at the end of the list.
SnapshotsWith(t) == Append(snapshots_in_use, t)

\* afterCommit and rollback have written the CSN into every part of t.
MetadataWritten(t) == changed[t] => stamped[t] # UnknownCSN

\* The entries behind last_loaded_entry, as far as they were listed.
NewEntries ==
    {e \in log : last_loaded_entry < e.csn /\ e.csn <= listed /\ e.tid # EmptyTID}

\* The transactions whose entries are loaded if they exist.
ReadyToFinalize == unknown_state_list_loaded

\* The thread does not wait for the event if it has transactions to finalize.
HasTransactionsToFinalize == unknown_state_list_loaded # {}

\* removeOldEntries goes on: the server is completely started, the tail can move.
TailMayMove == server = "started" /\ OldestSnapshot > zk_tail_ptr

\* The snapshot the server starts with: the entry it has just created.
FirstSnapshot == seq

\* A csn- node is created.
Created(e) ==
    /\ log' = log \cup {e}
    /\ history' = history \cup {e}
    /\ seq' = seq + 1

\* The watch on the children of the log fires.
WatchFires ==
    /\ watch' = FALSE
    /\ log_updated_event' = (log_updated_event \/ watch)

-----------------------------------------------------------------------------
(* The transactions                                                        *)

beginTransaction(t) ==
    /\ server # "down" /\ pc[t] = "idle"
    /\ tid' = [tid EXCEPT ![t] = [start_csn |-> latest_snapshot,
                                  local_tid |-> 1 + local_tid_counter]]
    /\ local_tid_counter' = local_tid_counter + 1
    /\ snapshots_in_use' = SnapshotsWith(t)
    /\ running_list' = running_list \cup {t}
    /\ pc' = [pc EXCEPT ![t] = "run"]
    /\ csn' = [csn EXCEPT ![t] = UnknownCSN]
    /\ UNCHANGED <<keeperVars, connVars, server, tid_to_csn, last_loaded_entry,
                   latest_snapshot, tail_ptr, unknownVars, updVars, changed,
                   stamped, history, boundVars>>

\* addNewPart and removeOldPart: the transaction is no longer read-only.
change(t) ==
    /\ pc[t] = "run" /\ csn[t] = UnknownCSN /\ ~changed[t]
    /\ changed' = [changed EXCEPT ![t] = TRUE]
    /\ UNCHANGED <<keeperVars, connVars, server, loadVars, runVars, unknownVars,
                   updVars, pc, tid, csn, stamped, history, boundVars>>

\* beforeCommit: fails if the transaction was killed meanwhile.
beforeCommit(t) ==
    /\ pc[t] = "run"
    /\ IF csn[t] = UnknownCSN
       THEN /\ csn' = [csn EXCEPT ![t] = IF changed[t] THEN CommittingCSN
                                                      ELSE tid[t].start_csn]
            /\ pc' = [pc EXCEPT ![t] = IF changed[t] THEN "send" ELSE "end"]
       ELSE /\ csn' = csn
            /\ pc' = [pc EXCEPT ![t] = "end"]
    /\ UNCHANGED <<keeperVars, connVars, server, loadVars, runVars, unknownVars,
                   updVars, tid, changed, stamped, history, boundVars>>

\* The multi request leaves, carrying the version of the session node.
sendCommit(t) ==
    /\ pc[t] = "send" /\ ~expired
    /\ inflight' = inflight \cup {[txn |-> t, version |-> zk_version]}
    /\ pc' = [pc EXCEPT ![t] = "wait"]
    /\ UNCHANGED <<log, seq, zk_tail_ptr, session_node_version, connVars, server,
                   loadVars, runVars, unknownVars, updVars, tid, csn, changed,
                   stamped, history, boundVars>>

\* The request fails before it is sent: the session is already lost, or a fault
\* is injected.
failBeforeSend(t) ==
    /\ pc[t] = "send"
    /\ \/ expired /\ faults' = faults
       \/ faults < MaxFaults /\ faults' = faults + 1
    /\ pc' = [pc EXCEPT ![t] = "lost"]
    /\ UNCHANGED <<keeperVars, connVars, server, loadVars, runVars, unknownVars,
                   updVars, tid, csn, changed, stamped, history, crashes>>

\* Keeper answers with an error that is not a hardware error: the state guard
\* makes the transaction RUNNING again, and the exception rolls it back.
refuseCommit(t) ==
    /\ pc[t] = "send" /\ faults < MaxFaults
    /\ faults' = faults + 1
    /\ csn' = [csn EXCEPT ![t] = UnknownCSN]
    /\ pc' = [pc EXCEPT ![t] = "end"]
    /\ UNCHANGED <<keeperVars, connVars, server, loadVars, runVars, unknownVars,
                   updVars, tid, changed, stamped, history, crashes>>

\* addCheckSessionOp: the multi checks the version of the session node.
SessionValid(r) == r.version = session_node_version

\* Keeper processes a commit request, at any time after it was sent.  The check
\* of the session node makes the multi fail once a newer session was opened.
keeperProcess(r) ==
    /\ r \in inflight
    /\ inflight' = inflight \ {r}
    /\ IF SessionValid(r)
       THEN /\ seq <= MaxCSN
            /\ Created([csn |-> seq, tid |-> tid[r.txn]])
            /\ WatchFires
       ELSE UNCHANGED <<log, history, seq, watch, log_updated_event>>
    /\ UNCHANGED <<zk_tail_ptr, session_node_version, zk_version, expired, server,
                   loadVars, runVars, unknownVars, updVars, txnVars, stamped, boundVars>>

\* The answer arrives: afterCommit starts with the allocated CSN.
commitDone(t) ==
    /\ pc[t] = "wait"
    /\ \E c \in MaxReservedCSN + 1 .. MaxCSN :
         /\ AllocatedCSN(t, c)
         /\ csn' = [csn EXCEPT ![t] = c]
    /\ pc' = [pc EXCEPT ![t] = "end"]
    /\ UNCHANGED <<keeperVars, connVars, server, loadVars, runVars, unknownVars,
                   updVars, tid, changed, stamped, history, boundVars>>

\* The session is lost (operation timeout, connection loss): the watch fires and
\* every pending request fails with a hardware error.  A request that Keeper
\* processed fails too, unless its answer had already arrived.
loseSession ==
    /\ server # "down" /\ ~expired /\ faults < MaxFaults
    /\ faults' = faults + 1
    /\ expired' = TRUE
    /\ WatchFires
    /\ \E S \in SUBSET {t \in Txn : pc[t] = "wait"} :
         /\ {t \in Txn : pc[t] = "wait" /\ \E r \in inflight : r.txn = t} \subseteq S
         /\ pc' = [t \in Txn |-> IF t \in S THEN "lost" ELSE pc[t]]
    /\ UNCHANGED <<keeperVars, zk_version, server, loadVars, runVars, unknownVars,
                   updVars, tid, csn, changed, stamped, history, crashes>>

\* A fault injected after the node was created: the session stays.
faultAfterCommit(t) ==
    /\ pc[t] = "wait" /\ faults < MaxFaults
    /\ \E e \in history : e.tid = tid[t]
    /\ faults' = faults + 1
    /\ pc' = [pc EXCEPT ![t] = "lost"]
    /\ UNCHANGED <<keeperVars, connVars, server, loadVars, runVars, unknownVars,
                   updVars, tid, csn, changed, stamped, history, crashes>>

\* commitTransaction catches the hardware error.
postponeFinalization(t) ==
    /\ pc[t] = "lost"
    /\ unknown_state_list' = unknown_state_list \cup {t}
    /\ log_updated_event' = TRUE
    /\ pc' = [pc EXCEPT ![t] = "end"]
    /\ UNCHANGED <<keeperVars, zk_version, expired, watch, server, loadVars, runVars,
                   unknown_state_list_loaded, updVars, tid, csn, changed, stamped,
                   history, boundVars>>

\* rollbackTransaction by the client, by an exception or by KILL TRANSACTION:
\* the compare-and-swap of csn decides which thread rolls the transaction back.
rollback(t) ==
    /\ t \in running_list /\ csn[t] = UnknownCSN
    /\ csn' = [csn EXCEPT ![t] = RolledBackCSN]
    /\ UNCHANGED <<keeperVars, connVars, server, loadVars, runVars, unknownVars,
                   updVars, pc, tid, changed, stamped, history, boundVars>>

\* afterCommit and rollback write the CSN into the metadata of the parts.
stampParts(t) ==
    /\ t \in running_list /\ Decided(t) /\ changed[t] /\ stamped[t] = UnknownCSN
    /\ stamped' = [stamped EXCEPT ![t] = csn[t]]
    /\ UNCHANGED <<keeperVars, connVars, server, loadVars, runVars, unknownVars,
                   updVars, txnVars, history, boundVars>>

\* The end of finalizeCommittedTransaction and of rollbackTransaction: the
\* snapshot is released after the metadata was written.
releaseSnapshot(t) ==
    /\ t \in running_list /\ Decided(t)
    /\ MetadataWritten(t)
    /\ \E i \in 1 .. Len(snapshots_in_use) :
         /\ snapshots_in_use[i] = t
         /\ snapshots_in_use' = Erase(snapshots_in_use, i)
    /\ running_list' = running_list \ {t}
    /\ finalizing' = finalizing \ {t}
    /\ UNCHANGED <<keeperVars, connVars, server, loadVars, unknownVars, upc, listed,
                   new_tail_ptr, txnVars, stamped, history, boundVars>>

-----------------------------------------------------------------------------
(* runUpdatingThread                                                       *)

\* The thread waits for the event unless it has transactions to finalize.
wake ==
    /\ upc = "wait"
    /\ \/ HasTransactionsToFinalize /\ log_updated_event' = log_updated_event
       \/ ~HasTransactionsToFinalize /\ log_updated_event /\ log_updated_event' = FALSE
    /\ upc' = "connect"
    /\ UNCHANGED <<keeperVars, zk_version, expired, watch, server, loadVars, runVars,
                   unknownVars, listed, new_tail_ptr, finalizing, txnVars, stamped,
                   history, boundVars>>

\* A lost session is replaced by a new one: initSession sets the session node,
\* which gives it a new version.
connect ==
    /\ upc = "connect"
    /\ IF expired
       THEN /\ session_node_version' = session_node_version + 1
            /\ zk_version' = session_node_version + 1
            /\ expired' = FALSE
       ELSE UNCHANGED <<session_node_version, zk_version, expired>>
    /\ upc' = "list"
    /\ UNCHANGED <<log, seq, zk_tail_ptr, inflight, watch, log_updated_event, server,
                   loadVars, runVars, unknownVars, listed, new_tail_ptr, finalizing,
                   txnVars, stamped, history, boundVars>>

\* Any request of the thread throws when the session is lost; the loop starts over.
updatingThreadFails ==
    /\ expired /\ \/ upc \in {"list", "prune", "remove"}
                  \/ upc = "load" /\ listed > last_loaded_entry
                  \/ upc = "tail" /\ server = "started"
    /\ log_updated_event' = TRUE
    /\ upc' = "wait"
    /\ UNCHANGED <<keeperVars, zk_version, expired, watch, server, loadVars, runVars,
                   unknownVars, listed, new_tail_ptr, finalizing, txnVars, stamped,
                   history, boundVars>>

\* loadNewEntries: list the log and set the watch.
listEntries ==
    /\ upc = "list" /\ ~expired
    /\ \E e \in log : (\A f \in log : f.csn <= e.csn) /\ listed' = e.csn
    /\ watch' = TRUE
    /\ upc' = "load"
    /\ UNCHANGED <<keeperVars, zk_version, expired, log_updated_event, server, loadVars,
                   runVars, unknownVars, new_tail_ptr, finalizing, txnVars, stamped,
                   history, boundVars>>

\* loadEntries, under mutex: the new entries go to tid_to_csn.
loadEntries ==
    /\ upc = "load"
    /\ tid_to_csn' = tid_to_csn \cup NewEntries
    /\ last_loaded_entry' = listed
    /\ upc' = IF listed > last_loaded_entry THEN "publish" ELSE "tail"
    /\ UNCHANGED <<keeperVars, connVars, server, latest_snapshot, local_tid_counter,
                   tail_ptr, runVars, unknownVars, listed, new_tail_ptr, finalizing,
                   txnVars, stamped, history, boundVars>>

\* loadEntries, under running_list_mutex: only now may new transactions read them.
publishSnapshot ==
    /\ upc = "publish"
    /\ latest_snapshot' = listed
    /\ local_tid_counter' = MaxReservedLocalTID
    /\ upc' = "tail"
    /\ UNCHANGED <<keeperVars, connVars, server, tid_to_csn, last_loaded_entry, tail_ptr,
                   runVars, unknownVars, listed, new_tail_ptr, finalizing, txnVars,
                   stamped, history, boundVars>>

\* removeOldEntries: not before the server is completely started.
readOldestSnapshot ==
    /\ upc = "tail" /\ (server = "started" => ~expired)
    /\ new_tail_ptr' = OldestSnapshot
    /\ upc' = IF TailMayMove THEN "prune" ELSE "swap"
    /\ UNCHANGED <<keeperVars, connVars, server, loadVars, runVars, unknownVars, listed,
                   finalizing, txnVars, stamped, history, boundVars>>

\* The entries that may go: behind the new tail, and not the latest one.
Removable ==
    {e \in tid_to_csn : e.tid.start_csn < new_tail_ptr /\ e.csn # latest_snapshot}

\* The tail pointer is moved before the entries are removed.
moveTail ==
    /\ upc = "prune" /\ ~expired
    /\ zk_tail_ptr' = new_tail_ptr
    /\ tail_ptr' = new_tail_ptr
    /\ upc' = "remove"
    /\ UNCHANGED <<log, seq, session_node_version, inflight, connVars, server, tid_to_csn,
                   last_loaded_entry, latest_snapshot, local_tid_counter, runVars,
                   unknownVars, listed, new_tail_ptr, finalizing, txnVars, stamped,
                   history, boundVars>>

\* Keeper moves its tail pointer, but the session is lost before the answer: the
\* server keeps its own copy and starts over.
tailAnswerLost ==
    /\ upc = "prune" /\ ~expired /\ faults < MaxFaults
    /\ faults' = faults + 1
    /\ zk_tail_ptr' = new_tail_ptr
    /\ expired' = TRUE
    /\ watch' = FALSE /\ log_updated_event' = TRUE
    /\ pc' = [t \in Txn |-> IF pc[t] = "wait" THEN "lost" ELSE pc[t]]
    /\ upc' = "wait"
    /\ UNCHANGED <<log, seq, session_node_version, inflight, zk_version, server, loadVars,
                   runVars, unknownVars, listed, new_tail_ptr, finalizing, tid, csn,
                   changed, stamped, history, crashes>>

\* The nodes are removed one by one.
removeEntry ==
    /\ upc = "remove" /\ ~expired
    /\ \E e \in Removable \cap log : log' = log \ {e}
    /\ WatchFires
    /\ UNCHANGED <<seq, zk_tail_ptr, session_node_version, inflight, zk_version, expired,
                   server, loadVars, runVars, unknownVars, updVars, txnVars, stamped,
                   history, boundVars>>

\* They leave tid_to_csn only after all of them were removed.
eraseEntries ==
    /\ upc = "remove" /\ Removable \cap log = {}
    /\ tid_to_csn' = tid_to_csn \ Removable
    /\ upc' = "swap"
    /\ UNCHANGED <<keeperVars, connVars, server, last_loaded_entry, latest_snapshot,
                   local_tid_counter, tail_ptr, runVars, unknownVars, listed,
                   new_tail_ptr, finalizing, txnVars, stamped, history, boundVars>>

\* tryFinalizeUnknownStateTransactions: a transaction is finalized one round
\* after it was put into unknown_state_list.
swapUnknownLists ==
    /\ upc = "swap"
    /\ finalizing' = ReadyToFinalize
    /\ unknown_state_list_loaded' = unknown_state_list
    /\ unknown_state_list' = {}
    /\ upc' = "finalize"
    /\ UNCHANGED <<keeperVars, connVars, server, loadVars, runVars, listed, new_tail_ptr,
                   txnVars, stamped, history, boundVars>>

\* getCSN finds the TID: afterCommit starts with the CSN of the entry.
finalizeCommitted(t) ==
    /\ upc = "finalize" /\ t \in finalizing /\ csn[t] = CommittingCSN
    /\ \E e \in tid_to_csn :
         /\ e.tid = tid[t]
         /\ csn' = [csn EXCEPT ![t] = e.csn]
    /\ UNCHANGED <<keeperVars, connVars, server, loadVars, runVars, unknownVars, updVars,
                   pc, tid, changed, stamped, history, boundVars>>

\* getCSN does not find it and the TID is not outdated: the state guard is
\* dropped, and rollbackTransaction is called next.
finalizeUncommitted(t) ==
    /\ upc = "finalize" /\ t \in finalizing /\ csn[t] = CommittingCSN
    /\ ~Loaded(t) /\ tail_ptr <= tid[t].start_csn
    /\ csn' = [csn EXCEPT ![t] = UnknownCSN]
    /\ UNCHANGED <<keeperVars, connVars, server, loadVars, runVars, unknownVars, updVars,
                   pc, tid, changed, stamped, history, boundVars>>

finishRound ==
    /\ upc = "finalize" /\ finalizing = {}
    /\ upc' = "wait"
    /\ UNCHANGED <<keeperVars, connVars, server, loadVars, runVars, unknownVars, listed,
                   new_tail_ptr, finalizing, txnVars, stamped, history, boundVars>>

-----------------------------------------------------------------------------
(* Crash and restart                                                       *)

\* Everything in memory is lost; a request in flight is not.
crash ==
    /\ server # "down" /\ crashes < MaxCrashes
    /\ crashes' = crashes + 1
    /\ server' = "down"
    /\ expired' = TRUE /\ watch' = FALSE /\ log_updated_event' = FALSE
    /\ tid_to_csn' = {}
    /\ running_list' = {} /\ snapshots_in_use' = <<>>
    /\ unknown_state_list' = {} /\ unknown_state_list_loaded' = {}
    /\ upc' = "off" /\ finalizing' = {}
    /\ pc' = [t \in Txn |-> IF pc[t] = "idle" THEN "idle" ELSE "dead"]
    /\ csn' = [t \in Txn |-> UnknownCSN]
    /\ UNCHANGED <<keeperVars, zk_version, last_loaded_entry, latest_snapshot,
                   local_tid_counter, tail_ptr, listed, new_tail_ptr, tid, changed,
                   stamped, history, faults>>

\* loadLogFromZooKeeper: a new session, then an empty entry that reserves a CSN
\* no transaction of an earlier run may have started from, then the whole log.
restart ==
    /\ server = "down" /\ seq <= MaxCSN
    /\ session_node_version' = session_node_version + 1
    /\ zk_version' = session_node_version + 1
    /\ expired' = FALSE
    /\ Created([csn |-> seq, tid |-> EmptyTID])
    /\ tid_to_csn' = {e \in log : e.tid # EmptyTID}
    /\ last_loaded_entry' = seq
    /\ latest_snapshot' = FirstSnapshot
    /\ local_tid_counter' = MaxReservedLocalTID
    /\ tail_ptr' = zk_tail_ptr
    /\ watch' = TRUE
    /\ server' = "loading"
    /\ upc' = "wait"
    /\ UNCHANGED <<zk_tail_ptr, inflight, log_updated_event, runVars, unknownVars, listed,
                   new_tail_ptr, finalizing, txnVars, stamped, boundVars>>

\* loadDataPart: the parts of a transaction of an earlier run get the CSN of its
\* entry, or RolledBackCSN if there is none; getCSNAndAssert throws if the entry
\* may have been pruned.
loadParts(t) ==
    /\ server # "down" /\ pc[t] = "dead" /\ changed[t] /\ stamped[t] = UnknownCSN
    /\ \/ \E e \in tid_to_csn :
            e.tid = tid[t] /\ stamped' = [stamped EXCEPT ![t] = e.csn]
       \/ /\ ~Loaded(t) /\ tail_ptr <= tid[t].start_csn
          /\ stamped' = [stamped EXCEPT ![t] = RolledBackCSN]
    /\ UNCHANGED <<keeperVars, connVars, server, loadVars, runVars, unknownVars, updVars,
                   txnVars, history, boundVars>>

setServerCompletelyStarted ==
    /\ server = "loading"
    /\ AsyncLoading \/ \A t \in Txn : pc[t] = "dead" /\ changed[t] => stamped[t] # UnknownCSN
    /\ server' = "started"
    /\ UNCHANGED <<keeperVars, connVars, loadVars, runVars, unknownVars, updVars, txnVars,
                   stamped, history, boundVars>>

-----------------------------------------------------------------------------
(* The specification                                                       *)

\* The first start of the server: the log was just created with the reserved
\* CSNs (one empty entry stands for all of them), and there are no parts.
Init ==
    /\ log = {[csn |-> MaxReservedCSN, tid |-> EmptyTID]}
    /\ history = log
    /\ seq = MaxReservedCSN + 1
    /\ zk_tail_ptr = MaxReservedCSN
    /\ session_node_version = 0 /\ zk_version = 0
    /\ inflight = {}
    /\ expired = FALSE /\ watch = TRUE /\ log_updated_event = FALSE
    /\ server = "started"
    /\ tid_to_csn = {}
    /\ last_loaded_entry = MaxReservedCSN /\ latest_snapshot = MaxReservedCSN
    /\ local_tid_counter = MaxReservedLocalTID
    /\ tail_ptr = MaxReservedCSN
    /\ running_list = {} /\ snapshots_in_use = <<>>
    /\ unknown_state_list = {} /\ unknown_state_list_loaded = {}
    /\ upc = "wait" /\ listed = MaxReservedCSN /\ new_tail_ptr = MaxReservedCSN
    /\ finalizing = {}
    /\ pc = [t \in Txn |-> "idle"]
    /\ tid = [t \in Txn |-> EmptyTID]
    /\ csn = [t \in Txn |-> UnknownCSN]
    /\ changed = [t \in Txn |-> FALSE]
    /\ stamped = [t \in Txn |-> UnknownCSN]
    /\ faults = 0 /\ crashes = 0

TxnNext(t) ==
    \/ beginTransaction(t) \/ change(t) \/ beforeCommit(t) \/ sendCommit(t)
    \/ failBeforeSend(t) \/ refuseCommit(t) \/ commitDone(t) \/ faultAfterCommit(t)
    \/ postponeFinalization(t) \/ rollback(t) \/ stampParts(t) \/ releaseSnapshot(t)

UpdatingThread ==
    \/ wake \/ connect \/ updatingThreadFails \/ listEntries \/ loadEntries
    \/ publishSnapshot \/ readOldestSnapshot \/ moveTail \/ tailAnswerLost \/ removeEntry \/ eraseEntries
    \/ swapUnknownLists \/ finishRound
    \/ \E t \in Txn : finalizeCommitted(t) \/ finalizeUncommitted(t)

Next ==
    \/ \E t \in Txn : TxnNext(t) \/ loadParts(t)
    \/ \E r \in inflight : keeperProcess(r)
    \/ UpdatingThread
    \/ loseSession \/ crash \/ restart \/ setServerCompletelyStarted

Spec == Init /\ [][Next]_vars

\* The updating thread and the threads that finish a transaction keep running;
\* Keeper answers in the end, or the session is lost.
Fairness ==
    /\ WF_vars(UpdatingThread)
    /\ \A t \in Txn :
         /\ WF_vars(postponeFinalization(t))
         /\ WF_vars(stampParts(t)) /\ WF_vars(releaseSnapshot(t))
         /\ WF_vars(t \in finalizing /\ rollback(t))
FairSpec == Spec /\ Fairness

-----------------------------------------------------------------------------
(* Properties                                                              *)

KeeperType ==
    /\ log \subseteq CSNEntry /\ history \subseteq CSNEntry
    /\ seq \in Nat /\ zk_tail_ptr \in Nat /\ session_node_version \in Nat
    /\ inflight \subseteq [txn : Txn, version : Nat]
ConnectionType ==
    /\ zk_version \in Nat /\ expired \in BOOLEAN
    /\ watch \in BOOLEAN /\ log_updated_event \in BOOLEAN
LogType ==
    /\ server \in {"down", "loading", "started"}
    /\ tid_to_csn \subseteq CSNEntry
    /\ last_loaded_entry \in Nat /\ latest_snapshot \in Nat /\ tail_ptr \in Nat
    /\ local_tid_counter \in Nat /\ local_tid_counter >= MaxReservedLocalTID
RunningType ==
    /\ running_list \subseteq Txn /\ snapshots_in_use \in Seq(Txn)
    /\ unknown_state_list \subseteq Txn /\ unknown_state_list_loaded \subseteq Txn
ThreadType ==
    /\ upc \in {"off", "wait", "connect", "list", "load", "publish", "tail", "prune",
                "remove", "swap", "finalize"}
    /\ listed \in Nat /\ new_tail_ptr \in Nat /\ finalizing \subseteq Txn
TxnType ==
    /\ pc \in [Txn -> {"idle", "run", "send", "wait", "lost", "end", "dead"}]
    /\ tid \in [Txn -> TransactionID] /\ csn \in [Txn -> Nat]
    /\ changed \in [Txn -> BOOLEAN] /\ stamped \in [Txn -> Nat]
    /\ faults \in Nat /\ crashes \in Nat

\* Every variable keeps its type; local TIDs stay above the reserved ones.
TypeOK ==
    KeeperType /\ ConnectionType /\ LogType /\ RunningType /\ ThreadType /\ TxnType

Committed(t) == \E e \in history : e.tid = tid[t] /\ tid[t] # EmptyTID

\* The comment in tryFinalizeUnknownStateTransactions: a transaction whose csn-
\* node exists, or ever comes to exist, is not rolled back: not by the updating
\* thread, not on restart, although its commit request may have been lost,
\* delayed or answered too late.
CommittedNotRolledBack ==
    \A t \in Txn : Committed(t) => csn[t] # RolledBackCSN /\ stamped[t] # RolledBackCSN

\* The CSN a transaction with changes ends with, in memory and in its parts, is
\* the number of the csn- node that holds its TID.
CSNIsTheNodeNumber ==
    \A t \in Txn : \A c \in {csn[t], stamped[t]} :
        changed[t] /\ c \notin {UnknownCSN, CommittingCSN, RolledBackCSN}
            => [csn |-> c, tid |-> tid[t]] \in history

\* TransactionLog.h: entries behind tail_ptr may be removed "because CSNs for
\* those TIDs are already written into data parts".  So no lookup meets the
\* error "Trying to get CSN for too old TID", neither in
\* tryFinalizeUnknownStateTransactions nor when parts are loaded after a crash.
TailBehindUnwrittenCSNs ==
    \A t \in Txn : changed[t] /\ stamped[t] = UnknownCSN
        => zk_tail_ptr <= tid[t].start_csn /\ tail_ptr <= zk_tail_ptr

\* The same sentence, about the entries themselves: one that was removed from the
\* log had its CSN written into the parts of its transaction before.
RemovedEntriesAreWritten ==
    \A t \in Txn : \A e \in history \ log :
        changed[t] /\ e.tid = tid[t] => stamped[t] = e.csn

\* getOldestSnapshot: the front of snapshots_in_use really is the oldest snapshot,
\* and the tail never passes it (removeOldEntries would throw).
OldestSnapshotFirst ==
    server # "down" =>
        /\ running_list = {snapshots_in_use[i] : i \in 1 .. Len(snapshots_in_use)}
        /\ \A t \in running_list : OldestSnapshot <= tid[t].start_csn
        /\ zk_tail_ptr <= OldestSnapshot

\* loadLogFromZooKeeper allocates an empty entry "to safely start counting from
\* the beginning and avoid TID duplication": no two transactions, of this run of
\* the server or of an earlier one, have the same TID.
UniqueTID ==
    \A t, u \in Txn : t # u /\ tid[t] # EmptyTID => tid[t] # tid[u]

\* A snapshot is complete when it is handed out: the commit of every transaction
\* up to latest_snapshot can be looked up, or its CSN is in its parts already.
SnapshotComplete ==
    \A t \in Txn : \A e \in history :
        server # "down" /\ e.tid = tid[t] /\ tid[t] # EmptyTID /\ e.csn <= latest_snapshot
            => e \in tid_to_csn \/ stamped[t] = e.csn

\* Snapshots and the tail pointer never move back, not even over a restart.
SnapshotsMoveForward ==
    [][/\ latest_snapshot' >= latest_snapshot
       /\ zk_tail_ptr' >= zk_tail_ptr]_vars

\* A transaction in unknown state is finalized: rolled back or committed, and
\* its snapshot is released, unless the server goes down first.
UnknownStateIsSettled ==
    \A t \in Txn : t \in unknown_state_list ~> (t \notin running_list \/ server = "down")

\* waitForCSNLoaded returns: the watch and the event lose no commit.
CommitBecomesVisible ==
    \A n \in MaxReservedCSN + 1 .. MaxCSN :
        (seq = n + 1) ~> (latest_snapshot >= n \/ server = "down")

-----------------------------------------------------------------------------
(* The log as its users see it                                             *)

\* Keeper would still accept a commit request of t.
Live(t) == \E r \in inflight : r.txn = t /\ SessionValid(r)

\* The outcome of t, by what the server does with its parts and by what Keeper
\* holds or may still accept.
Outcome(t) ==
    IF pc[t] = "idle" THEN "idle"
    ELSE IF RolledBackCSN \in {csn[t], stamped[t]} THEN "ended"
    ELSE IF Committed(t) THEN "committed"
    ELSE IF (pc[t] = "dead" \/ Decided(t)) /\ ~Live(t) THEN "ended"
    ELSE "active"

CommitNumber(t) ==
    IF Committed(t) THEN (CHOOSE e \in history : e.tid = tid[t]).csn ELSE 0

Abstract == INSTANCE CommitLog WITH
    FirstCSN <- MaxReservedCSN,
    state <- [t \in Txn |-> Outcome(t)],
    start <- [t \in Txn |-> tid[t].start_csn],
    commit <- [t \in Txn |-> CommitNumber(t)],
    last <- seq - 1,
    snapshot <- latest_snapshot

\* The detailed log implements CommitLog: the outcome of a transaction is decided
\* in one step and never revised, by a lost request, a late one or a crash.
ImplementsCommitLog == Abstract!Spec
=============================================================================
