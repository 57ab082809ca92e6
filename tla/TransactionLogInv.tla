------------------------- MODULE TransactionLogInv --------------------------
(***************************************************************************)
(* The inductive invariant of TransactionLog.                              *)
(***************************************************************************)
EXTENDS TransactionLog

\* The commit of t has happened or may still happen without t's doing.
Sent(t) == Live(t) \/ Committed(t)

-----------------------------------------------------------------------------
(* The session and the commit requests                                     *)

\* The connection has the newest version of the session node.
VersionInv ==
    /\ zk_version = session_node_version
    /\ \A r \in inflight : r.version <= session_node_version

OneRequest == \A r, q \in inflight : r.txn = q.txn => r = q

RequestSent ==
    \A r \in inflight : ~Committed(r.txn) /\ pc[r.txn] \notin {"idle", "run", "send"}

\* A request can overtake its sender only while the session counts as lost.
LostRequest == \A t \in Txn : Live(t) /\ pc[t] # "wait" => expired

-----------------------------------------------------------------------------
(* The log and the TIDs                                                    *)

LogInHistory == log \subseteq history /\ tid_to_csn \subseteq history

EntriesBelowSeq ==
    /\ \A e \in history : MaxReservedCSN <= e.csn /\ e.csn < seq
    /\ MaxReservedCSN < seq /\ seq <= MaxCSN + MaxReservedCSN + 1

EntriesOfTxns == \A e \in history : e.tid = EmptyTID \/ \E t \in Txn : tid[t] = e.tid

IdleIsEmpty == \A t \in Txn : pc[t] = "idle" <=> tid[t] = EmptyTID

\* A new TID is different from every earlier one.
TidsInPast ==
    \A t \in Txn : pc[t] # "idle" =>
        /\ tid[t].start_csn <= latest_snapshot
        /\ tid[t].start_csn = latest_snapshot => tid[t].local_tid <= local_tid_counter

SnapshotInv ==
    /\ latest_snapshot < seq /\ listed < seq /\ last_loaded_entry < seq
    /\ upc = "load" => last_loaded_entry <= listed
    /\ upc = "publish" => latest_snapshot < listed /\ last_loaded_entry = listed
    /\ upc \notin {"off", "publish"} => latest_snapshot = last_loaded_entry

-----------------------------------------------------------------------------
(* The running transactions                                                *)

DownInv ==
    /\ server = "down" <=> upc = "off"
    /\ server = "down" =>
         /\ running_list = {} /\ snapshots_in_use = <<>> /\ expired
         /\ \A t \in Txn : pc[t] \in {"idle", "dead"}

RunningPc ==
    \A t \in Txn :
        /\ t \in running_list => pc[t] \notin {"idle", "dead"}
        /\ pc[t] \in {"send", "wait", "lost"} => t \in running_list
        /\ pc[t] = "run" /\ csn[t] = UnknownCSN => t \in running_list

SnapshotsOfRunning ==
    /\ \A t \in running_list : \E i \in 1 .. Len(snapshots_in_use) : snapshots_in_use[i] = t
    /\ \A i \in 1 .. Len(snapshots_in_use) : snapshots_in_use[i] \in running_list

SnapshotsSorted ==
    \A i, j \in 1 .. Len(snapshots_in_use) :
        i < j => /\ snapshots_in_use[i] # snapshots_in_use[j]
                 /\ tid[snapshots_in_use[i]].start_csn <= tid[snapshots_in_use[j]].start_csn

UnknownInv ==
    /\ \A t \in unknown_state_list \cup unknown_state_list_loaded :
         t \in running_list /\ pc[t] = "end" /\ csn[t] = CommittingCSN /\ t \notin finalizing
    /\ \A t \in finalizing : t \in running_list /\ pc[t] = "end"
    /\ finalizing # {} => upc = "finalize"
    /\ unknown_state_list \cap unknown_state_list_loaded = {}

CsnOfPc ==
    \A t \in Txn :
        /\ pc[t] \in {"idle", "dead"} => csn[t] = UnknownCSN
        /\ pc[t] = "run" => csn[t] \in {UnknownCSN, RolledBackCSN}
        /\ pc[t] \in {"send", "wait", "lost"} => csn[t] = CommittingCSN

NotYetCommitted == \A t \in Txn : pc[t] \in {"idle", "run", "send"} => ~Committed(t)

\* A transaction that may be rolled back, or was, has no commit request under way.
UndecidedNotSent ==
    \A t \in Txn : pc[t] # "dead" /\ csn[t] \in {UnknownCSN, RolledBackCSN} => ~Sent(t)

StampIsCsn ==
    \A t \in Txn : stamped[t] # UnknownCSN /\ pc[t] # "dead" => Decided(t) /\ stamped[t] = csn[t]

RolledBackStampNotSent == \A t \in Txn : stamped[t] = RolledBackCSN => ~Sent(t)

-----------------------------------------------------------------------------
(* The tail and the loaded entries                                         *)

TailOrder ==
    /\ tail_ptr <= zk_tail_ptr /\ zk_tail_ptr < seq
    /\ server # "down" => zk_tail_ptr <= latest_snapshot
    /\ upc \in {"prune", "remove"} =>
         server = "started" /\ zk_tail_ptr <= new_tail_ptr /\ new_tail_ptr <= latest_snapshot
    /\ upc = "remove" => tail_ptr = new_tail_ptr

TailBehindRunning ==
    \A t \in running_list :
        /\ zk_tail_ptr <= tid[t].start_csn
        /\ upc \in {"prune", "remove"} => new_tail_ptr <= tid[t].start_csn

RemovedBehindTail ==
    \A e \in history : e.tid # EmptyTID => e \in log \/ e.tid.start_csn < tail_ptr

\* Pruning leaves the entry that was loaded last, and no pruning runs between
\* listing the entries and loading them.
LastEntryKept ==
    /\ server # "down" => \E e \in log : e.csn = last_loaded_entry
    /\ upc = "load" => \E e \in log : e.csn = listed

LoadedComplete ==
    server # "down" => \A e \in log :
        e.csn <= last_loaded_entry /\ e.tid # EmptyTID => e \in tid_to_csn

\* What the updating thread knows of the transactions it finalizes next, once it
\* has renewed its session, listed the log and loaded the entries.
ReadyNotLive ==
    upc \in {"list", "load", "publish", "tail", "prune", "remove", "swap"} =>
        \A t \in unknown_state_list_loaded : ~Live(t)
ReadyListed ==
    upc = "load" => \A t \in unknown_state_list_loaded : \A e \in history :
        e.tid = tid[t] => e.csn <= listed
ReadyLoaded ==
    upc \in {"publish", "tail", "prune", "remove", "swap"} =>
        \A t \in unknown_state_list_loaded : Committed(t) => Loaded(t)
FinalizingLoaded ==
    \A t \in finalizing : ~Live(t) /\ (Committed(t) => Loaded(t))

\* After a restart the outcome of an earlier transaction is in the loaded log,
\* or its entry is behind the tail.
DeadInv ==
    server # "down" => \A t \in Txn : pc[t] = "dead" =>
        /\ ~Live(t)
        /\ \A e \in history : e.tid = tid[t] =>
              e \in tid_to_csn \/ e.tid.start_csn < tail_ptr

\* What holds in every reachable state, strong enough to be inductive.
IInv ==
    /\ TypeOK
    /\ VersionInv /\ OneRequest /\ RequestSent /\ LostRequest
    /\ LogInHistory /\ EntriesBelowSeq /\ EntriesOfTxns
    /\ IdleIsEmpty /\ TidsInPast /\ UniqueTID /\ SnapshotInv
    /\ DownInv /\ RunningPc /\ SnapshotsOfRunning /\ SnapshotsSorted /\ UnknownInv
    /\ CsnOfPc /\ NotYetCommitted /\ UndecidedNotSent /\ StampIsCsn /\ RolledBackStampNotSent
    /\ TailOrder /\ TailBehindRunning /\ RemovedBehindTail
    /\ LastEntryKept /\ LoadedComplete
    /\ ReadyNotLive /\ ReadyListed /\ ReadyLoaded /\ FinalizingLoaded /\ DeadInv

-----------------------------------------------------------------------------
(* The CSNs in the metadata of the parts                                   *)

\* A TID has at most one entry.
OneEntry == \A e, f \in history : e.tid = f.tid /\ e.tid # EmptyTID => e = f

\* The parts of t: only a transaction with changes asks Keeper to commit, its
\* snapshot is in use until the CSN is in its parts, and that CSN is the number of
\* its entry.  Without asynchronous loading the server is completely started only
\* after the parts of earlier runs have their CSNs.
PartsInv(t) ==
    /\ pc[t] = "idle" => ~changed[t]
    /\ pc[t] \in {"send", "wait", "lost"} \/ Sent(t) => changed[t]
    /\ stamped[t] # CommittingCSN
    /\ changed[t] /\ stamped[t] = UnknownCSN /\ pc[t] # "dead" => t \in running_list
    /\ \A c \in {csn[t], stamped[t]} :
         changed[t] /\ c \notin {UnknownCSN, CommittingCSN, RolledBackCSN}
            => [csn |-> c, tid |-> tid[t]] \in history
    /\ ~AsyncLoading /\ changed[t] /\ stamped[t] = UnknownCSN =>
         /\ server = "started" => pc[t] # "dead"
         /\ zk_tail_ptr <= tid[t].start_csn

WrittenInv == OneEntry /\ \A t \in Txn : PartsInv(t)
=============================================================================
