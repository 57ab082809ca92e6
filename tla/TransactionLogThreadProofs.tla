--------------------- MODULE TransactionLogThreadProofs ---------------------
(***************************************************************************)
(* The steps of the updating thread, a lost session, a crash and a restart *)
(* keep the invariant of the log.  Each lemma states what the action       *)
(* changes and leaves alone, and goes through the parts of the invariant.  *)
(***************************************************************************)
EXTENDS TransactionLogTxnProofs

USE SMTT(30), ZenonT(30)

\* Waking up changes nothing but the event.
LEMMA wakeInv ==
  ASSUME IInv, wake
  PROVE  IInv'
<1> USE DEF IInv, TypeOK
<1>1. UNCHANGED <<log, seq, zk_tail_ptr, session_node_version, inflight, zk_version, expired,
                   server, tid_to_csn, last_loaded_entry, latest_snapshot, local_tid_counter,
                   tail_ptr, running_list, snapshots_in_use, unknown_state_list,
                   unknown_state_list_loaded, finalizing, pc, tid, csn, changed, stamped,
                   history, faults, crashes>>
  BY Zenon DEF wake, HasTransactionsToFinalize, keeperVars, loadVars, runVars, unknownVars,
     txnVars, boundVars
<1>2. (KeeperType /\ LogType /\ RunningType /\ TxnType /\ VersionInv /\ OneRequest /\
       RequestSent /\ LostRequest /\ LogInHistory /\ EntriesBelowSeq /\ EntriesOfTxns /\
       IdleIsEmpty /\ TidsInPast /\ UniqueTID /\ RunningPc /\ SnapshotsOfRunning /\
       SnapshotsSorted /\ CsnOfPc /\ NotYetCommitted /\ UndecidedNotSent /\ StampIsCsn /\
       RolledBackStampNotSent /\ RemovedBehindTail /\ LoadedComplete /\ FinalizingLoaded /\
       DeadInv)'
  BY <1>1, Frames, Zenon
<1> USE DEF wake, HasTransactionsToFinalize, keeperVars, loadVars, runVars, unknownVars,
            txnVars, boundVars
<1>3. (ThreadType /\ DownInv /\ TailOrder /\ TailBehindRunning /\ ReadyNotLive)'
  BY Zenon DEF ThreadType, DownInv, TailOrder, TailBehindRunning, ReadyNotLive, Live,
     SessionValid
<1>4. (ReadyListed /\ ReadyLoaded)'
  BY Zenon DEF ReadyListed, ReadyLoaded, Committed, Loaded
<1>5. ConnectionType'
  BY Zenon DEF ConnectionType
<1>6. SnapshotInv'
  BY Zenon DEF SnapshotInv
<1>7. UnknownInv'
  BY Zenon DEF UnknownInv, CommittingCSN
<1>8. LastEntryKept'
  BY Zenon DEF LastEntryKept
<1> HIDE DEF wake, HasTransactionsToFinalize, keeperVars, loadVars, runVars, unknownVars,
             txnVars, boundVars
<1> QED BY <1>2, <1>3, <1>4, <1>5, <1>6, <1>7, <1>8, Zenon

\* A new session makes Keeper refuse every request of the earlier ones.
LEMMA connectInv ==
  ASSUME IInv, connect
  PROVE  IInv'
<1>1. /\ session_node_version' \in Nat /\ zk_version' = session_node_version'
      /\ \A n \in Nat : n <= session_node_version => n <= session_node_version'
      /\ \A n \in Nat : n <= session_node_version /\ n = session_node_version'
            => ~expired /\ session_node_version' = session_node_version
  <2>1. CASE expired
    <3>1. /\ session_node_version' = session_node_version + 1
          /\ zk_version' = session_node_version + 1
      BY <2>1, Zenon DEF connect
    <3> QED BY <2>1, <3>1, Numbers
  <2>2. CASE ~expired
    <3>1. session_node_version' = session_node_version /\ zk_version' = zk_version
      BY <2>2, Zenon DEF connect
    <3> QED BY <2>2, <3>1, Numbers, Zenon DEF IInv, VersionInv
  <2> QED BY <2>1, <2>2, Zenon
<1>2. upc = "connect" /\ upc' = "list" /\ expired' = FALSE
  BY Zenon DEF connect, IInv, TypeOK, ConnectionType
<1>3. UNCHANGED <<log, seq, zk_tail_ptr, inflight, watch, log_updated_event, server, tid_to_csn,
                   last_loaded_entry, latest_snapshot, local_tid_counter, tail_ptr,
                   running_list, snapshots_in_use, unknown_state_list,
                   unknown_state_list_loaded, listed, new_tail_ptr, finalizing, pc, tid, csn,
                   changed, stamped, history, faults, crashes>>
  BY Zenon DEF connect, loadVars, runVars, unknownVars, txnVars, boundVars
<1> USE DEF IInv, TypeOK
<1>4. (LogType /\ RunningType /\ TxnType /\ OneRequest /\ RequestSent /\ LogInHistory /\
       EntriesBelowSeq /\ EntriesOfTxns /\ IdleIsEmpty /\ TidsInPast /\ UniqueTID /\ RunningPc
       /\ SnapshotsOfRunning /\ SnapshotsSorted /\ CsnOfPc /\ NotYetCommitted /\ StampIsCsn /\
       RemovedBehindTail /\ LoadedComplete)'
  BY <1>3, Frames, Zenon
<1>5. (KeeperType /\ ConnectionType /\ ThreadType)'
  BY <1>1, <1>2, <1>3, Zenon DEF KeeperType, ConnectionType, ThreadType
<1>6. VersionInv'
  BY <1>1, <1>3, Numbers, Zenon DEF VersionInv
<1>7. ASSUME NEW t PROVE /\ Live(t)' => Live(t) /\ ~expired
                         /\ Committed(t)' <=> Committed(t)
                         /\ Loaded(t)' <=> Loaded(t)
                         /\ Sent(t)' => Sent(t)
  <2>1. Live(t)' => Live(t) /\ ~expired
    BY <1>1, <1>3, Numbers, Zenon DEF Live, SessionValid, VersionInv
  <2>2. (Committed(t)' <=> Committed(t)) /\ (Loaded(t)' <=> Loaded(t))
    BY <1>3, Zenon DEF Committed, Loaded
  <2> QED BY <2>1, <2>2, Zenon DEF Sent
<1>8. (LostRequest /\ UndecidedNotSent /\ RolledBackStampNotSent)'
  BY <1>3, <1>7, Zenon DEF LostRequest, UndecidedNotSent, RolledBackStampNotSent
<1>9. ReadyNotLive'
  <2>1. \A t \in unknown_state_list_loaded : t \in Txn /\ pc[t] = "end"
    BY Zenon DEF RunningType, UnknownInv
  <2> QED BY <2>1, <1>3, <1>7, Zenon DEF ReadyNotLive, LostRequest
<1>10. (ReadyListed /\ ReadyLoaded /\ TailOrder /\ TailBehindRunning /\ SnapshotInv)'
  BY <1>2, <1>3, Zenon DEF ReadyListed, ReadyLoaded, TailOrder, TailBehindRunning, SnapshotInv
<1>11. (UnknownInv /\ LastEntryKept /\ DownInv)'
  BY <1>2, <1>3, Zenon DEF UnknownInv, LastEntryKept, DownInv
<1>12. (FinalizingLoaded /\ DeadInv)'
  BY <1>3, <1>7, Zenon DEF FinalizingLoaded, DeadInv
<1> QED BY <1>4, <1>5, <1>6, <1>8, <1>9, <1>10, <1>11, <1>12, Zenon

\* A failed round starts over and forgets nothing.
LEMMA updatingThreadFailsInv ==
  ASSUME IInv, updatingThreadFails
  PROVE  IInv'
<1> USE DEF IInv, TypeOK
<1>1. UNCHANGED <<log, seq, zk_tail_ptr, session_node_version, inflight, zk_version, expired,
                   server, tid_to_csn, last_loaded_entry, latest_snapshot, local_tid_counter,
                   tail_ptr, running_list, snapshots_in_use, unknown_state_list,
                   unknown_state_list_loaded, finalizing, pc, tid, csn, changed, stamped,
                   history, faults, crashes>>
  BY Zenon DEF updatingThreadFails, keeperVars, loadVars, runVars, unknownVars, txnVars,
     boundVars
<1>2. (KeeperType /\ LogType /\ RunningType /\ TxnType /\ VersionInv /\ OneRequest /\
       RequestSent /\ LostRequest /\ LogInHistory /\ EntriesBelowSeq /\ EntriesOfTxns /\
       IdleIsEmpty /\ TidsInPast /\ UniqueTID /\ RunningPc /\ SnapshotsOfRunning /\
       SnapshotsSorted /\ CsnOfPc /\ NotYetCommitted /\ UndecidedNotSent /\ StampIsCsn /\
       RolledBackStampNotSent /\ RemovedBehindTail /\ LoadedComplete /\ FinalizingLoaded /\
       DeadInv)'
  BY <1>1, Frames, Zenon
<1> USE DEF updatingThreadFails, keeperVars, loadVars, runVars, unknownVars, txnVars,
            boundVars
<1>3. (ConnectionType /\ ThreadType /\ DownInv /\ TailOrder /\ TailBehindRunning)'
  BY Zenon DEF ConnectionType, ThreadType, DownInv, TailOrder, TailBehindRunning
<1>4. (ReadyNotLive /\ ReadyListed /\ ReadyLoaded)'
  BY Zenon DEF ReadyNotLive, ReadyListed, ReadyLoaded, Live, Committed, Loaded, SessionValid
<1>5. SnapshotInv'
  BY Zenon DEF SnapshotInv
<1>6. UnknownInv'
  BY Zenon DEF UnknownInv, CommittingCSN
<1>7. LastEntryKept'
  BY Zenon DEF LastEntryKept
<1> HIDE DEF updatingThreadFails, keeperVars, loadVars, runVars, unknownVars, txnVars,
             boundVars
<1> QED BY <1>2, <1>3, <1>4, <1>5, <1>6, <1>7, Zenon

\* The entries of the transactions to finalize are among the listed ones.
LEMMA listEntriesInv ==
  ASSUME IInv, listEntries
  PROVE  IInv'
<1>1. ReadyListed'
  <2>1. \A f \in log : f.csn <= listed'
    BY Zenon DEF listEntries
  <2>2. \A t \in unknown_state_list_loaded : t \in running_list
    BY Zenon DEF IInv, UnknownInv
  <2> QED BY <2>1, <2>2, EntryOfRunning, Zenon DEF listEntries, ReadyListed,
             unknownVars, txnVars
<1> USE DEF IInv, TypeOK
<1>2. UNCHANGED <<log, seq, zk_tail_ptr, session_node_version, inflight, zk_version, expired,
                   server, tid_to_csn, last_loaded_entry, latest_snapshot, local_tid_counter,
                   tail_ptr, running_list, snapshots_in_use, unknown_state_list,
                   unknown_state_list_loaded, finalizing, pc, tid, csn, changed, stamped,
                   history, faults, crashes>>
  BY Zenon DEF listEntries, keeperVars, loadVars, runVars, unknownVars, txnVars, boundVars
<1>3. (KeeperType /\ LogType /\ RunningType /\ TxnType /\ VersionInv /\ OneRequest /\
       RequestSent /\ LostRequest /\ LogInHistory /\ EntriesBelowSeq /\ EntriesOfTxns /\
       IdleIsEmpty /\ TidsInPast /\ UniqueTID /\ RunningPc /\ SnapshotsOfRunning /\
       SnapshotsSorted /\ CsnOfPc /\ NotYetCommitted /\ UndecidedNotSent /\ StampIsCsn /\
       RolledBackStampNotSent /\ RemovedBehindTail /\ LoadedComplete /\ FinalizingLoaded /\
       DeadInv)'
  BY <1>2, Frames, Zenon
<1> USE DEF listEntries, keeperVars, loadVars, runVars, unknownVars, txnVars, boundVars
<1>4. (ConnectionType /\ DownInv /\ TailOrder /\ TailBehindRunning /\ ReadyNotLive)'
  BY Zenon DEF ConnectionType, DownInv, TailOrder, TailBehindRunning, ReadyNotLive, Live,
     SessionValid
<1>5. ReadyLoaded'
  BY Zenon DEF ReadyLoaded, Committed, Loaded
<1>6. ThreadType'
  BY Zenon DEF ThreadType, KeeperType, CSNEntry, TransactionID
<1>7. SnapshotInv'
  BY BoundsAssumption, Zenon DEF SnapshotInv, LogInHistory, EntriesBelowSeq, LastEntryKept,
     DownInv, LogType, KeeperType, ThreadType, MaxReservedCSN, CSNEntry, MaxReservedLocalTID,
     TransactionID
<1>8. UnknownInv'
  BY Zenon DEF UnknownInv, CommittingCSN
<1>9. LastEntryKept'
  BY Zenon DEF LastEntryKept
<1> HIDE DEF listEntries, keeperVars, loadVars, runVars, unknownVars, txnVars, boundVars
<1> QED BY <1>1, <1>3, <1>4, <1>5, <1>6, <1>7, <1>8, <1>9, Zenon

\* After loading, they are in tid_to_csn.
LEMMA loadEntriesInv ==
  ASSUME IInv, loadEntries
  PROVE  IInv'
<1>1. ReadyLoaded'
  <2> SUFFICES ASSUME NEW t \in unknown_state_list_loaded, NEW e \in history, e.tid = tid[t],
            tid[t] # EmptyTID
              PROVE  e \in tid_to_csn'
    BY Zenon DEF loadEntries, unknownVars, txnVars, ReadyLoaded, Committed, Loaded
  <2>1. e \in log
    BY EntryOfRunning, Zenon DEF IInv, UnknownInv
  <2>2. e.csn <= listed
    BY Zenon DEF loadEntries, IInv, ReadyListed
  <2>3. e.csn <= last_loaded_entry => e \in tid_to_csn
    BY <2>1, Zenon DEF loadEntries, IInv, LoadedComplete, DownInv
  <2>4. e.csn \in Nat /\ last_loaded_entry \in Nat
    BY <2>1, Zenon DEF IInv, TypeOK, KeeperType, LogType, CSNEntry
  <2> QED BY <2>1, <2>2, <2>3, <2>4 DEF loadEntries, NewEntries
<1>2. SnapshotInv'
  <2>1. /\ last_loaded_entry' = listed /\ UNCHANGED <<latest_snapshot, listed, seq>>
        /\ upc = "load" /\ upc' = IF listed > last_loaded_entry THEN "publish" ELSE "tail"
    BY Zenon DEF loadEntries, keeperVars
  <2>2. /\ latest_snapshot < seq /\ listed < seq /\ last_loaded_entry <= listed
        /\ latest_snapshot = last_loaded_entry
    BY <2>1, Zenon DEF IInv, SnapshotInv
  <2> QED BY <2>1, <2>2, Numbers DEF SnapshotInv
<1>3. LoadedComplete'
  <2> SUFFICES ASSUME server # "down", NEW e \in log, e.csn <= listed, e.tid # EmptyTID
               PROVE  e \in tid_to_csn'
    BY Zenon DEF loadEntries, keeperVars, LoadedComplete
  <2>1. e.csn \in Nat /\ last_loaded_entry \in Nat
    BY Numbers, Zenon DEF IInv, LogInHistory
  <2>2. e.csn <= last_loaded_entry \/ last_loaded_entry < e.csn
    BY <2>1
  <2>3. e.csn <= last_loaded_entry => e \in tid_to_csn
    BY Zenon DEF IInv, LoadedComplete
  <2> QED BY <2>2, <2>3, Zenon DEF loadEntries, NewEntries
<1> USE DEF IInv, TypeOK
<1>4. UNCHANGED <<log, seq, zk_tail_ptr, session_node_version, inflight, zk_version, expired,
                   watch, log_updated_event, latest_snapshot, local_tid_counter, tail_ptr,
                   running_list, snapshots_in_use, unknown_state_list,
                   unknown_state_list_loaded, pc, tid, csn, changed, stamped, history, faults,
                   crashes>>
  BY Zenon DEF loadEntries, NewEntries, keeperVars, connVars, runVars, unknownVars, txnVars,
     boundVars
<1>5. (KeeperType /\ ConnectionType /\ RunningType /\ TxnType /\ VersionInv /\ OneRequest /\
       RequestSent /\ LostRequest /\ EntriesBelowSeq /\ EntriesOfTxns /\ IdleIsEmpty /\
       TidsInPast /\ UniqueTID /\ RunningPc /\ SnapshotsOfRunning /\ SnapshotsSorted /\
       CsnOfPc /\ NotYetCommitted /\ UndecidedNotSent /\ StampIsCsn /\ RolledBackStampNotSent
       /\ RemovedBehindTail)'
  BY <1>4, Frames, Zenon
<1> USE DEF loadEntries, NewEntries, keeperVars, connVars, runVars, unknownVars, txnVars,
            boundVars
<1>6. (ThreadType /\ LogInHistory /\ DownInv /\ TailOrder /\ TailBehindRunning)'
  BY Zenon DEF ThreadType, LogInHistory, DownInv, TailOrder, TailBehindRunning
<1>7. (ReadyNotLive /\ ReadyListed /\ FinalizingLoaded /\ DeadInv)'
  BY Zenon DEF ReadyNotLive, ReadyListed, FinalizingLoaded, DeadInv, Live, Committed, Loaded,
     SessionValid
<1>8. LogType'
  BY Zenon DEF LogType, KeeperType, ThreadType, CSNEntry, MaxReservedLocalTID, TransactionID,
     EmptyTID
<1>9. UnknownInv'
  BY Zenon DEF UnknownInv, CommittingCSN, EmptyTID
<1>10. LastEntryKept'
  BY Zenon DEF LastEntryKept, DownInv, EmptyTID
<1> HIDE DEF loadEntries, NewEntries, keeperVars, connVars, runVars, unknownVars, txnVars,
             boundVars
<1> QED BY <1>1, <1>5, <1>6, <1>7, <1>8, <1>2, <1>9, <1>10, <1>3, Zenon

\* The published snapshot is newer than every TID.
LEMMA publishSnapshotInv ==
  ASSUME IInv, publishSnapshot
  PROVE  IInv'
<1>1. /\ latest_snapshot' = listed /\ local_tid_counter' = MaxReservedLocalTID
      /\ upc' = "tail" /\ UNCHANGED <<seq, zk_tail_ptr, tail_ptr, server, tid_to_csn,
                                     last_loaded_entry, pc, tid>>
  BY Zenon DEF publishSnapshot, keeperVars, txnVars
<1>2. latest_snapshot < listed /\ listed < seq
  BY Zenon DEF publishSnapshot, IInv, SnapshotInv
<1>3. LogType'
  <2>1. local_tid_counter' \in Nat /\ local_tid_counter' >= MaxReservedLocalTID
    BY <1>1 DEF MaxReservedLocalTID
  <2> QED BY <2>1, <1>1, Numbers, Zenon DEF IInv, TypeOK, LogType
<1>4. TidsInPast'
  <2> SUFFICES ASSUME NEW t \in Txn, pc[t] # "idle"
               PROVE  tid[t].start_csn <= listed /\ tid[t].start_csn # listed
    BY <1>1, Zenon DEF TidsInPast
  <2>1. tid[t].start_csn <= latest_snapshot
    BY Zenon DEF IInv, TidsInPast
  <2> QED BY <2>1, <1>2, Numbers
<1>5. TailOrder'
  <2>1. /\ tail_ptr <= zk_tail_ptr /\ zk_tail_ptr < seq
        /\ server # "down" => zk_tail_ptr <= latest_snapshot
    BY Zenon DEF IInv, TailOrder
  <2>2. server # "down" => zk_tail_ptr <= listed
    BY <2>1, <1>2, Numbers
  <2> QED BY <1>1, <2>1, <2>2, Zenon DEF TailOrder
<1> USE DEF IInv, TypeOK
<1>6. UNCHANGED <<log, seq, zk_tail_ptr, session_node_version, inflight, zk_version, expired,
                   watch, log_updated_event, server, tid_to_csn, last_loaded_entry, tail_ptr,
                   running_list, snapshots_in_use, unknown_state_list,
                   unknown_state_list_loaded, finalizing, pc, tid, csn, changed, stamped,
                   history, faults, crashes>>
  BY Zenon DEF publishSnapshot, keeperVars, connVars, runVars, unknownVars, txnVars, boundVars
<1>7. (KeeperType /\ ConnectionType /\ RunningType /\ TxnType /\ VersionInv /\ OneRequest /\
       RequestSent /\ LostRequest /\ LogInHistory /\ EntriesBelowSeq /\ EntriesOfTxns /\
       IdleIsEmpty /\ UniqueTID /\ RunningPc /\ SnapshotsOfRunning /\ SnapshotsSorted /\
       CsnOfPc /\ NotYetCommitted /\ UndecidedNotSent /\ StampIsCsn /\ RolledBackStampNotSent
       /\ RemovedBehindTail /\ LoadedComplete /\ FinalizingLoaded /\ DeadInv)'
  BY <1>6, Frames, Zenon
<1> USE DEF publishSnapshot, keeperVars, connVars, runVars, unknownVars, txnVars, boundVars
<1>8. (ThreadType /\ DownInv /\ TailBehindRunning /\ ReadyNotLive /\ ReadyListed)'
  BY Zenon DEF ThreadType, DownInv, TailBehindRunning, ReadyNotLive, ReadyListed, Live,
     SessionValid
<1>9. ReadyLoaded'
  BY Zenon DEF ReadyLoaded, Committed, Loaded
<1>10. SnapshotInv'
  BY Zenon DEF SnapshotInv, LogType, ThreadType, CSNEntry, MaxReservedLocalTID, TransactionID
<1>11. UnknownInv'
  BY Zenon DEF UnknownInv, CommittingCSN, MaxReservedLocalTID
<1>12. LastEntryKept'
  BY Zenon DEF LastEntryKept, MaxReservedLocalTID
<1> HIDE DEF publishSnapshot, keeperVars, connVars, runVars, unknownVars, txnVars, boundVars
<1> QED BY <1>7, <1>8, <1>9, <1>3, <1>4, <1>10, <1>11, <1>5, <1>12, Zenon

\* The new tail is not after the start of a running transaction.
LEMMA readOldestSnapshotInv ==
  ASSUME IInv, readOldestSnapshot
  PROVE  IInv'
<1>1. OldestSnapshot \in Nat
  <2>1. snapshots_in_use # <<>> => Head(snapshots_in_use) \in Txn
    BY DEF IInv, TypeOK, RunningType
  <2> QED BY <2>1, Numbers, Zenon DEF OldestSnapshot
<1>2. /\ upc' = IF TailMayMove THEN "prune" ELSE "swap"
      /\ new_tail_ptr' = OldestSnapshot
      /\ UNCHANGED <<seq, zk_tail_ptr, tail_ptr, server, latest_snapshot, listed, finalizing>>
  BY Zenon DEF readOldestSnapshot, keeperVars, loadVars
<1>3. TailOrder'
  <2>1. TailMayMove => server = "started" /\ zk_tail_ptr <= OldestSnapshot
    BY <1>1, Numbers DEF TailMayMove
  <2>2. OldestSnapshot <= latest_snapshot
    BY OldestSnapshotBound, Zenon
  <2> QED BY <1>2, <2>1, <2>2, Zenon DEF IInv, TailOrder
<1>4. ThreadType'
  BY <1>1, <1>2, Zenon DEF IInv, TypeOK, ThreadType
<1>5. TailBehindRunning'
  BY OldestSnapshotBound, Zenon DEF readOldestSnapshot, IInv, TailBehindRunning,
     keeperVars, runVars, txnVars
<1> USE DEF IInv, TypeOK
<1>6. UNCHANGED <<log, seq, zk_tail_ptr, session_node_version, inflight, zk_version, expired,
                   watch, log_updated_event, server, tid_to_csn, last_loaded_entry,
                   latest_snapshot, local_tid_counter, tail_ptr, running_list,
                   snapshots_in_use, unknown_state_list, unknown_state_list_loaded,
                   finalizing, pc, tid, csn, changed, stamped, history, faults, crashes>>
  BY Zenon DEF readOldestSnapshot, OldestSnapshot, TailMayMove, keeperVars, connVars,
     loadVars, runVars, unknownVars, txnVars, boundVars
<1>7. (KeeperType /\ ConnectionType /\ LogType /\ RunningType /\ TxnType /\ VersionInv /\
       OneRequest /\ RequestSent /\ LostRequest /\ LogInHistory /\ EntriesBelowSeq /\
       EntriesOfTxns /\ IdleIsEmpty /\ TidsInPast /\ UniqueTID /\ RunningPc /\
       SnapshotsOfRunning /\ SnapshotsSorted /\ CsnOfPc /\ NotYetCommitted /\ UndecidedNotSent
       /\ StampIsCsn /\ RolledBackStampNotSent /\ RemovedBehindTail /\ LoadedComplete /\
       FinalizingLoaded /\ DeadInv)'
  BY <1>6, Frames, Zenon
<1> USE DEF readOldestSnapshot, OldestSnapshot, TailMayMove, keeperVars, connVars, loadVars,
            runVars, unknownVars, txnVars, boundVars
<1>8. (DownInv /\ ReadyNotLive /\ ReadyListed /\ ReadyLoaded)'
  BY Zenon DEF DownInv, ReadyNotLive, ReadyListed, ReadyLoaded, Live, Committed, Loaded,
     SessionValid
<1>9. SnapshotInv'
  BY Zenon DEF SnapshotInv
<1>10. UnknownInv'
  BY Zenon DEF UnknownInv, CommittingCSN
<1>11. LastEntryKept'
  BY Zenon DEF LastEntryKept
<1> HIDE DEF readOldestSnapshot, OldestSnapshot, TailMayMove, keeperVars, connVars, loadVars,
             runVars, unknownVars, txnVars, boundVars
<1> QED BY <1>3, <1>5, <1>7, <1>8, <1>4, <1>9, <1>10, <1>11, Zenon

\* Keeper's tail pointer and the server's move together.
LEMMA moveTailInv ==
  ASSUME IInv, moveTail
  PROVE  IInv'
<1>1. /\ zk_tail_ptr' = new_tail_ptr /\ tail_ptr' = new_tail_ptr /\ upc' = "remove"
      /\ UNCHANGED <<new_tail_ptr, seq, log, history, server, latest_snapshot, tid_to_csn,
                     session_node_version, inflight, pc, tid>>
  BY Zenon DEF moveTail, txnVars
<1>2. /\ server = "started" /\ tail_ptr <= zk_tail_ptr /\ zk_tail_ptr <= new_tail_ptr
      /\ new_tail_ptr <= latest_snapshot /\ latest_snapshot < seq
  BY Zenon DEF moveTail, IInv, TailOrder, SnapshotInv
<1>3. TailOrder'
  <2>1. new_tail_ptr <= new_tail_ptr /\ new_tail_ptr < seq
    BY <1>2, Numbers
  <2> QED BY <1>1, <1>2, <2>1, Zenon DEF TailOrder
<1>4. \A n \in Nat : n < tail_ptr => n < new_tail_ptr
  BY <1>2, Numbers
<1>5. RemovedBehindTail'
  BY <1>1, <1>4, Numbers, Zenon DEF IInv, RemovedBehindTail
<1>6. DeadInv'
  BY <1>1, <1>4, Numbers, Zenon DEF IInv, DeadInv, Live, SessionValid
<1> USE DEF IInv, TypeOK
<1>7. UNCHANGED <<log, seq, session_node_version, inflight, zk_version, expired, watch,
                   log_updated_event, server, tid_to_csn, last_loaded_entry, latest_snapshot,
                   local_tid_counter, running_list, snapshots_in_use, unknown_state_list,
                   unknown_state_list_loaded, finalizing, pc, tid, csn, changed, stamped,
                   history, faults, crashes>>
  BY Zenon DEF moveTail, connVars, runVars, unknownVars, txnVars, boundVars
<1>8. (ConnectionType /\ RunningType /\ TxnType /\ VersionInv /\ OneRequest /\ RequestSent /\
       LostRequest /\ LogInHistory /\ EntriesBelowSeq /\ EntriesOfTxns /\ IdleIsEmpty /\
       TidsInPast /\ UniqueTID /\ RunningPc /\ SnapshotsOfRunning /\ SnapshotsSorted /\
       CsnOfPc /\ NotYetCommitted /\ UndecidedNotSent /\ StampIsCsn /\ RolledBackStampNotSent
       /\ LoadedComplete /\ FinalizingLoaded)'
  BY <1>7, Frames, Zenon
<1> USE DEF moveTail, connVars, runVars, unknownVars, txnVars, boundVars
<1>9. (ThreadType /\ DownInv /\ TailBehindRunning /\ ReadyNotLive /\ ReadyListed)'
  BY Zenon DEF ThreadType, DownInv, TailBehindRunning, ReadyNotLive, ReadyListed, Live,
     SessionValid
<1>10. ReadyLoaded'
  BY Zenon DEF ReadyLoaded, Committed, Loaded
<1>11. KeeperType'
  BY Zenon DEF KeeperType, ThreadType, CSNEntry, TransactionID
<1>12. LogType'
  BY Zenon DEF LogType, ThreadType, CSNEntry, MaxReservedLocalTID, TransactionID
<1>13. SnapshotInv'
  BY Zenon DEF SnapshotInv
<1>14. UnknownInv'
  BY Zenon DEF UnknownInv, CommittingCSN
<1>15. LastEntryKept'
  BY Zenon DEF LastEntryKept
<1> HIDE DEF moveTail, connVars, runVars, unknownVars, txnVars, boundVars
<1> QED BY <1>8, <1>9, <1>10, <1>11, <1>12, <1>13, <1>14, <1>3, <1>5, <1>15, <1>6, Zenon

\* A lost session turns waiting transactions into ones that do not know their outcome;
\* their requests stay in flight.
LEMMA SessionLost ==
  ASSUME IInv, server # "down", expired' = TRUE,
         ConnectionType', faults' \in Nat,
         pc' \in [Txn -> {"idle", "run", "send", "wait", "lost", "end", "dead"}],
         \A t \in Txn : pc'[t] = pc[t] \/ (pc[t] = "wait" /\ pc'[t] = "lost"),
         upc' = upc \/ (upc = "prune" /\ upc' = "wait"),
         UNCHANGED <<log, seq, session_node_version, inflight, zk_version, server, tid_to_csn,
                     last_loaded_entry, latest_snapshot, local_tid_counter, tail_ptr,
                     running_list, snapshots_in_use, unknown_state_list,
                     unknown_state_list_loaded, listed, new_tail_ptr, finalizing, tid, csn,
                     changed, stamped, history, crashes>>
  PROVE  (LogType /\ RunningType /\ TxnType /\ VersionInv /\ OneRequest /\ RequestSent /\
          LostRequest /\ LogInHistory /\ EntriesBelowSeq /\ EntriesOfTxns /\ IdleIsEmpty /\
          TidsInPast /\ UniqueTID /\ DownInv /\ RunningPc /\ SnapshotsOfRunning /\
          SnapshotsSorted /\ UnknownInv /\ CsnOfPc /\ NotYetCommitted /\ UndecidedNotSent /\
          StampIsCsn /\ RolledBackStampNotSent /\ RemovedBehindTail /\ LoadedComplete /\
          FinalizingLoaded /\ DeadInv)'
<1> USE DEF IInv, TypeOK
<1>1. (LogType /\ RunningType /\ VersionInv /\ OneRequest /\ LogInHistory /\ EntriesBelowSeq
       /\ EntriesOfTxns /\ UniqueTID /\ SnapshotsOfRunning /\ SnapshotsSorted /\
       RolledBackStampNotSent /\ RemovedBehindTail /\ LoadedComplete /\ FinalizingLoaded)'
  BY Frames, Zenon
<1>2. ASSUME NEW t PROVE /\ Live(t)' <=> Live(t)
                         /\ Committed(t)' <=> Committed(t)
                         /\ Sent(t)' <=> Sent(t)
                         /\ Decided(t)' <=> Decided(t)
  BY Zenon DEF Live, SessionValid, Committed, Sent, Decided
<1>3. (TxnType /\ LostRequest /\ IdleIsEmpty /\ TidsInPast)'
  BY Zenon DEF TxnType, LostRequest, IdleIsEmpty, TidsInPast
<1>4. RequestSent'
  BY <1>2, Numbers, Zenon DEF RequestSent
<1>5. (DownInv /\ RunningPc /\ CsnOfPc)'
  BY Zenon DEF DownInv, RunningPc, CsnOfPc
<1>6. (NotYetCommitted /\ UndecidedNotSent /\ StampIsCsn)'
  BY <1>2, Zenon DEF NotYetCommitted, UndecidedNotSent, StampIsCsn
<1>7. UnknownInv'
  <2>1. \A t \in unknown_state_list \cup unknown_state_list_loaded \cup finalizing : t \in Txn
    BY Zenon DEF RunningType, ThreadType
  <2> QED BY <2>1, Zenon DEF UnknownInv
<1>8. DeadInv'
  BY <1>2, Zenon DEF DeadInv
<1> QED BY <1>1, <1>3, <1>4, <1>5, <1>6, <1>7, <1>8, Zenon

\* When the answer is lost, the server's tail pointer stays behind Keeper's.
LEMMA tailAnswerLostInv ==
  ASSUME IInv, tailAnswerLost
  PROVE  IInv'
<1>1. UNCHANGED <<log, seq, session_node_version, inflight, zk_version, server, tid_to_csn,
                  last_loaded_entry, latest_snapshot, local_tid_counter, tail_ptr,
                  running_list, snapshots_in_use, unknown_state_list,
                  unknown_state_list_loaded, listed, new_tail_ptr, finalizing, tid, csn,
                  changed, stamped, history, crashes>>
  BY Zenon DEF tailAnswerLost, loadVars, runVars, unknownVars
<1>2. /\ upc = "prune" /\ upc' = "wait" /\ expired' = TRUE /\ zk_tail_ptr' = new_tail_ptr
      /\ watch' = FALSE /\ log_updated_event' = TRUE
  BY Zenon DEF tailAnswerLost
<1>3. faults' \in Nat
  <2>1. faults' = faults + 1 /\ faults \in Nat
    BY Zenon DEF tailAnswerLost, IInv, TypeOK, TxnType
  <2> QED BY <2>1
<1>4. /\ pc' \in [Txn -> {"idle", "run", "send", "wait", "lost", "end", "dead"}]
      /\ \A t \in Txn : pc'[t] = pc[t] \/ (pc[t] = "wait" /\ pc'[t] = "lost")
  BY Zenon DEF tailAnswerLost, IInv, TypeOK, TxnType
<1>5. (KeeperType /\ ConnectionType /\ ThreadType)'
  BY <1>1, <1>2, Zenon DEF IInv, TypeOK, KeeperType, ConnectionType, ThreadType
<1>6. server = "started"
  BY <1>2, Zenon DEF IInv, TailOrder
<1>7. (LogType /\ RunningType /\ TxnType /\ VersionInv /\ OneRequest /\ RequestSent /\
       LostRequest /\ LogInHistory /\ EntriesBelowSeq /\ EntriesOfTxns /\ IdleIsEmpty /\
       TidsInPast /\ UniqueTID /\ DownInv /\ RunningPc /\ SnapshotsOfRunning /\
       SnapshotsSorted /\ UnknownInv /\ CsnOfPc /\ NotYetCommitted /\ UndecidedNotSent /\
       StampIsCsn /\ RolledBackStampNotSent /\ RemovedBehindTail /\ LoadedComplete /\
       FinalizingLoaded /\ DeadInv)'
  BY <1>1, <1>2, <1>3, <1>4, <1>5, <1>6, SessionLost, Zenon
<1>8. TailOrder'
  <2>1. /\ tail_ptr <= zk_tail_ptr /\ zk_tail_ptr <= new_tail_ptr
        /\ new_tail_ptr <= latest_snapshot /\ latest_snapshot < seq
    BY <1>2, Zenon DEF IInv, TailOrder, SnapshotInv
  <2>2. tail_ptr <= new_tail_ptr /\ new_tail_ptr < seq
    BY <2>1, Numbers
  <2> QED BY <1>1, <1>2, <2>1, <2>2, Zenon DEF TailOrder
<1>9. (SnapshotInv /\ TailBehindRunning /\ LastEntryKept /\ ReadyNotLive /\ ReadyListed /\
       ReadyLoaded)'
  BY <1>1, <1>2, Zenon DEF IInv, SnapshotInv, TailBehindRunning, LastEntryKept, ReadyNotLive,
     ReadyListed, ReadyLoaded
<1> QED BY <1>5, <1>7, <1>8, <1>9, Zenon DEF IInv, TypeOK

\* A removed entry is behind the tail and is not the last one.
LEMMA removeEntryInv ==
  ASSUME IInv, removeEntry
  PROVE  IInv'
<1> USE DEF IInv, TypeOK
<1>1. UNCHANGED <<seq, zk_tail_ptr, session_node_version, inflight, zk_version, expired,
                   server, tid_to_csn, last_loaded_entry, latest_snapshot, local_tid_counter,
                   tail_ptr, running_list, snapshots_in_use, unknown_state_list,
                   unknown_state_list_loaded, upc, listed, new_tail_ptr, finalizing, pc, tid,
                   csn, changed, stamped, history, faults, crashes>>
  BY Zenon DEF removeEntry, Removable, WatchFires, loadVars, runVars, unknownVars, updVars,
     txnVars, boundVars
<1>2. (LogType /\ RunningType /\ ThreadType /\ TxnType /\ VersionInv /\ OneRequest /\
       RequestSent /\ LostRequest /\ EntriesBelowSeq /\ EntriesOfTxns /\ IdleIsEmpty /\
       TidsInPast /\ UniqueTID /\ SnapshotInv /\ DownInv /\ RunningPc /\ SnapshotsOfRunning /\
       SnapshotsSorted /\ UnknownInv /\ CsnOfPc /\ NotYetCommitted /\ UndecidedNotSent /\
       StampIsCsn /\ RolledBackStampNotSent /\ TailOrder /\ TailBehindRunning /\ ReadyNotLive
       /\ ReadyListed /\ ReadyLoaded /\ FinalizingLoaded /\ DeadInv)'
  BY <1>1, Frames, Zenon
<1> USE DEF removeEntry, Removable, WatchFires, loadVars, runVars, unknownVars, updVars,
            txnVars, boundVars
<1>3. (KeeperType /\ LogInHistory /\ LoadedComplete)'
  BY Zenon DEF KeeperType, LogInHistory, LoadedComplete
<1>4. ConnectionType'
  BY Zenon DEF ConnectionType
<1>5. RemovedBehindTail'
  BY Zenon DEF RemovedBehindTail, TailOrder, EmptyTID
<1>6. LastEntryKept'
  BY Zenon DEF LastEntryKept, SnapshotInv, DownInv
<1> HIDE DEF removeEntry, Removable, WatchFires, loadVars, runVars, unknownVars, updVars,
             txnVars, boundVars
<1> QED BY <1>2, <1>3, <1>4, <1>5, <1>6, Zenon

\* Entries that are erased do not belong to running transactions.
LEMMA eraseEntriesInv ==
  ASSUME IInv, eraseEntries
  PROVE  IInv'
<1>1. \A t \in running_list : \A e \in tid_to_csn : e.tid = tid[t] => e \in tid_to_csn'
  <2> SUFFICES ASSUME NEW t \in running_list, NEW e \in tid_to_csn, e.tid = tid[t]
               PROVE  ~(e.tid.start_csn < new_tail_ptr)
    BY Zenon DEF eraseEntries, Removable
  <2>1. t \in Txn
    BY Zenon DEF IInv, TypeOK, RunningType
  <2>2. new_tail_ptr <= tid[t].start_csn
    BY Zenon DEF eraseEntries, IInv, TailBehindRunning
  <2> QED BY <2>1, <2>2, Numbers
<1> USE DEF IInv, TypeOK
<1>2. UNCHANGED <<log, seq, zk_tail_ptr, session_node_version, inflight, zk_version, expired,
                   watch, log_updated_event, latest_snapshot, local_tid_counter, tail_ptr,
                   running_list, snapshots_in_use, unknown_state_list,
                   unknown_state_list_loaded, pc, tid, csn, changed, stamped, history, faults,
                   crashes>>
  BY Zenon DEF eraseEntries, Removable, keeperVars, connVars, runVars, unknownVars, txnVars,
     boundVars
<1>3. (KeeperType /\ ConnectionType /\ RunningType /\ TxnType /\ VersionInv /\ OneRequest /\
       RequestSent /\ LostRequest /\ EntriesBelowSeq /\ EntriesOfTxns /\ IdleIsEmpty /\
       TidsInPast /\ UniqueTID /\ RunningPc /\ SnapshotsOfRunning /\ SnapshotsSorted /\
       CsnOfPc /\ NotYetCommitted /\ UndecidedNotSent /\ StampIsCsn /\ RolledBackStampNotSent
       /\ RemovedBehindTail)'
  BY <1>2, Frames, Zenon
<1> USE DEF eraseEntries, Removable, keeperVars, connVars, runVars, unknownVars, txnVars,
            boundVars
<1>4. (LogType /\ ThreadType /\ LogInHistory /\ DownInv /\ TailOrder)'
  BY Zenon DEF LogType, ThreadType, LogInHistory, DownInv, TailOrder
<1>5. (TailBehindRunning /\ LoadedComplete /\ ReadyNotLive /\ ReadyListed)'
  BY Zenon DEF TailBehindRunning, LoadedComplete, ReadyNotLive, ReadyListed, Live,
     SessionValid
<1>6. SnapshotInv'
  BY Zenon DEF SnapshotInv
<1>7. UnknownInv'
  BY Zenon DEF UnknownInv, CommittingCSN
<1>8. LastEntryKept'
  BY Zenon DEF LastEntryKept
<1>9. ReadyLoaded'
  BY <1>1, <1>2, Zenon DEF UnknownInv, ReadyLoaded, Committed, Loaded
<1>10. FinalizingLoaded'
  BY <1>1, <1>2, Zenon DEF UnknownInv, FinalizingLoaded, Live, Committed, Loaded, SessionValid
<1>11. DeadInv'
  BY Zenon DEF DeadInv, TailOrder, Live, SessionValid
<1> HIDE DEF eraseEntries, Removable, keeperVars, connVars, runVars, unknownVars, txnVars,
             boundVars
<1> QED BY <1>3, <1>4, <1>5, <1>6, <1>7, <1>8, <1>9, <1>10, <1>11, Zenon

\* What is finalized next was listed and loaded before.
LEMMA swapUnknownListsInv ==
  ASSUME IInv, swapUnknownLists
  PROVE  IInv'
<1> USE DEF IInv, TypeOK
<1>1. UNCHANGED <<log, seq, zk_tail_ptr, session_node_version, inflight, zk_version, expired,
                   watch, log_updated_event, server, tid_to_csn, last_loaded_entry,
                   latest_snapshot, local_tid_counter, tail_ptr, running_list,
                   snapshots_in_use, pc, tid, csn, changed, stamped, history, faults,
                   crashes>>
  BY Zenon DEF swapUnknownLists, ReadyToFinalize, keeperVars, connVars, loadVars, runVars,
     txnVars, boundVars
<1>2. (KeeperType /\ ConnectionType /\ LogType /\ TxnType /\ VersionInv /\ OneRequest /\
       RequestSent /\ LostRequest /\ LogInHistory /\ EntriesBelowSeq /\ EntriesOfTxns /\
       IdleIsEmpty /\ TidsInPast /\ UniqueTID /\ RunningPc /\ SnapshotsOfRunning /\
       SnapshotsSorted /\ CsnOfPc /\ NotYetCommitted /\ UndecidedNotSent /\ StampIsCsn /\
       RolledBackStampNotSent /\ RemovedBehindTail /\ LoadedComplete /\ DeadInv)'
  BY <1>1, Frames, Zenon
<1> USE DEF swapUnknownLists, ReadyToFinalize, keeperVars, connVars, loadVars, runVars,
            txnVars, boundVars
<1>3. (RunningType /\ DownInv /\ TailOrder /\ TailBehindRunning /\ ReadyNotLive)'
  BY Zenon DEF RunningType, DownInv, TailOrder, TailBehindRunning, ReadyNotLive, Live,
     SessionValid
<1>4. (ReadyListed /\ ReadyLoaded)'
  BY Zenon DEF ReadyListed, ReadyLoaded, Committed, Loaded
<1>5. ThreadType'
  BY Zenon DEF ThreadType, RunningType
<1>6. SnapshotInv'
  BY Zenon DEF SnapshotInv
<1>7. UnknownInv'
  BY Zenon DEF UnknownInv, CommittingCSN
<1>8. LastEntryKept'
  BY Zenon DEF LastEntryKept
<1>9. FinalizingLoaded'
  BY Zenon DEF FinalizingLoaded, ReadyLoaded, ReadyNotLive, Live, Committed, Loaded,
     SessionValid, EmptyTID
<1> HIDE DEF swapUnknownLists, ReadyToFinalize, keeperVars, connVars, loadVars, runVars,
             txnVars, boundVars
<1> QED BY <1>2, <1>3, <1>4, <1>5, <1>6, <1>7, <1>8, <1>9, Zenon

\* The end of a round.
LEMMA finishRoundInv ==
  ASSUME IInv, finishRound
  PROVE  IInv'
<1> USE DEF IInv, TypeOK
<1>1. UNCHANGED <<log, seq, zk_tail_ptr, session_node_version, inflight, zk_version, expired,
                   watch, log_updated_event, server, tid_to_csn, last_loaded_entry,
                   latest_snapshot, local_tid_counter, tail_ptr, running_list,
                   snapshots_in_use, unknown_state_list, unknown_state_list_loaded,
                   finalizing, pc, tid, csn, changed, stamped, history, faults, crashes>>
  BY Zenon DEF finishRound, keeperVars, connVars, loadVars, runVars, unknownVars, txnVars,
     boundVars
<1>2. (KeeperType /\ ConnectionType /\ LogType /\ RunningType /\ TxnType /\ VersionInv /\
       OneRequest /\ RequestSent /\ LostRequest /\ LogInHistory /\ EntriesBelowSeq /\
       EntriesOfTxns /\ IdleIsEmpty /\ TidsInPast /\ UniqueTID /\ RunningPc /\
       SnapshotsOfRunning /\ SnapshotsSorted /\ CsnOfPc /\ NotYetCommitted /\ UndecidedNotSent
       /\ StampIsCsn /\ RolledBackStampNotSent /\ RemovedBehindTail /\ LoadedComplete /\
       FinalizingLoaded /\ DeadInv)'
  BY <1>1, Frames, Zenon
<1> USE DEF finishRound, keeperVars, connVars, loadVars, runVars, unknownVars, txnVars,
            boundVars
<1>3. (ThreadType /\ DownInv /\ TailOrder /\ TailBehindRunning /\ ReadyNotLive)'
  BY Zenon DEF ThreadType, DownInv, TailOrder, TailBehindRunning, ReadyNotLive, Live,
     SessionValid
<1>4. (ReadyListed /\ ReadyLoaded)'
  BY Zenon DEF ReadyListed, ReadyLoaded, Committed, Loaded
<1>5. SnapshotInv'
  BY Zenon DEF SnapshotInv
<1>6. UnknownInv'
  BY Zenon DEF UnknownInv, CommittingCSN
<1>7. LastEntryKept'
  BY Zenon DEF LastEntryKept
<1> HIDE DEF finishRound, keeperVars, connVars, loadVars, runVars, unknownVars, txnVars,
             boundVars
<1> QED BY <1>2, <1>3, <1>4, <1>5, <1>6, <1>7, Zenon

\* Losing the session keeps the requests in flight, and marks it as lost.
LEMMA loseSessionInv ==
  ASSUME IInv, loseSession
  PROVE  IInv'
<1>1. UNCHANGED <<log, seq, zk_tail_ptr, session_node_version, inflight, zk_version, server,
                  tid_to_csn, last_loaded_entry, latest_snapshot, local_tid_counter,
                  tail_ptr, running_list, snapshots_in_use, unknown_state_list,
                  unknown_state_list_loaded, upc, listed, new_tail_ptr, finalizing, tid, csn,
                  changed, stamped, history, crashes>>
  BY Zenon DEF loseSession, keeperVars, loadVars, runVars, unknownVars, updVars
<1>2. server # "down" /\ expired' = TRUE /\ ConnectionType'
  <2>1. /\ server # "down" /\ expired' = TRUE /\ watch' = FALSE
        /\ log_updated_event' = (log_updated_event \/ watch)
    BY Zenon DEF loseSession, WatchFires
  <2> QED BY <1>1, <2>1, Zenon DEF IInv, TypeOK, ConnectionType
<1>3. faults' \in Nat
  <2>1. faults' = faults + 1 /\ faults \in Nat
    BY Zenon DEF loseSession, IInv, TypeOK, TxnType
  <2> QED BY <2>1
<1>4. /\ pc' \in [Txn -> {"idle", "run", "send", "wait", "lost", "end", "dead"}]
      /\ \A t \in Txn : pc'[t] = pc[t] \/ (pc[t] = "wait" /\ pc'[t] = "lost")
  BY Zenon DEF loseSession, IInv, TypeOK, TxnType
<1>5. (LogType /\ RunningType /\ TxnType /\ VersionInv /\ OneRequest /\ RequestSent /\
       LostRequest /\ LogInHistory /\ EntriesBelowSeq /\ EntriesOfTxns /\ IdleIsEmpty /\
       TidsInPast /\ UniqueTID /\ DownInv /\ RunningPc /\ SnapshotsOfRunning /\
       SnapshotsSorted /\ UnknownInv /\ CsnOfPc /\ NotYetCommitted /\ UndecidedNotSent /\
       StampIsCsn /\ RolledBackStampNotSent /\ RemovedBehindTail /\ LoadedComplete /\
       FinalizingLoaded /\ DeadInv)'
  BY <1>1, <1>2, <1>3, <1>4, SessionLost, Zenon
<1> USE DEF IInv, TypeOK
<1>6. (KeeperType /\ ThreadType /\ SnapshotInv /\ TailOrder /\ TailBehindRunning /\
       LastEntryKept /\ ReadyNotLive /\ ReadyListed /\ ReadyLoaded)'
  BY <1>1, Frames, Zenon
<1> QED BY <1>2, <1>5, <1>6, Zenon

\* A crash forgets the transactions, not the requests in flight.
LEMMA crashInv ==
  ASSUME IInv, crash
  PROVE  IInv'
<1>1. /\ UNCHANGED <<log, seq, zk_tail_ptr, session_node_version, inflight, zk_version, tail_ptr,
                     last_loaded_entry, latest_snapshot, local_tid_counter, listed,
                     new_tail_ptr, tid, changed, stamped, history, faults>>
      /\ server' = "down" /\ upc' = "off" /\ expired' = TRUE
      /\ watch' = FALSE /\ log_updated_event' = FALSE /\ tid_to_csn' = {}
      /\ running_list' = {} /\ snapshots_in_use' = <<>> /\ unknown_state_list' = {}
      /\ unknown_state_list_loaded' = {} /\ finalizing' = {}
  BY Zenon DEF crash, keeperVars
<1>2. /\ \A t \in Txn : /\ csn'[t] = UnknownCSN /\ pc'[t] \in {"idle", "dead"}
                        /\ pc'[t] = "idle" <=> pc[t] = "idle"
      /\ pc' \in [Txn -> {"idle", "dead"}] /\ csn' \in [Txn -> Nat]
  BY SpecialCSNs, Zenon DEF crash
<1>3. crashes' \in Nat
  <2>1. crashes' = crashes + 1 /\ crashes \in Nat
    BY Zenon DEF crash, IInv, TypeOK, TxnType
  <2> QED BY <2>1
<1> USE DEF IInv, TypeOK
<1>4. (KeeperType /\ VersionInv /\ OneRequest /\ EntriesBelowSeq /\ EntriesOfTxns /\ UniqueTID
       /\ RolledBackStampNotSent /\ RemovedBehindTail)'
  BY <1>1, Frames, Zenon
<1>5. ASSUME NEW t PROVE /\ Live(t)' <=> Live(t)
                         /\ Committed(t)' <=> Committed(t)
                         /\ Sent(t)' <=> Sent(t)
  BY <1>1, Zenon DEF Live, SessionValid, Committed, Sent
<1>6. (ConnectionType /\ LogType)'
  BY <1>1, Zenon DEF ConnectionType, LogType
<1>7. (RunningType /\ ThreadType)'
  <2>1. <<>> \in Seq(Txn)
    OBVIOUS
  <2> QED BY <1>1, <2>1, Zenon DEF RunningType, ThreadType
<1>8. TxnType'
  BY <1>1, <1>2, <1>3, Zenon DEF TxnType
<1>9. (LostRequest /\ IdleIsEmpty /\ TidsInPast /\ DownInv /\ RunningPc /\ CsnOfPc)'
  BY <1>1, <1>2, Zenon DEF LostRequest, IdleIsEmpty, TidsInPast, DownInv, RunningPc, CsnOfPc
<1>10. (RequestSent /\ NotYetCommitted)'
  BY <1>1, <1>2, <1>5, Numbers, Zenon DEF RequestSent, NotYetCommitted
<1>11. (SnapshotsOfRunning /\ SnapshotsSorted)'
  <2>1. 1 .. Len(snapshots_in_use') = {}
    BY <1>1
  <2> QED BY <1>1, <2>1, Zenon DEF SnapshotsOfRunning, SnapshotsSorted
<1>12. (LogInHistory /\ SnapshotInv /\ UnknownInv /\ TailOrder /\ TailBehindRunning)'
  BY <1>1, Zenon DEF LogInHistory, SnapshotInv, UnknownInv, TailOrder, TailBehindRunning
<1>13. UndecidedNotSent'
  <2>1. \A t \in Txn : pc[t] = "idle" => ~Sent(t)
    BY Zenon DEF Sent, Live, RequestSent, NotYetCommitted
  <2> QED BY <1>2, <1>5, <2>1, Zenon DEF UndecidedNotSent
<1>14. StampIsCsn'
  BY <1>1, <1>2, Zenon DEF StampIsCsn, CsnOfPc, Decided
<1>15. (LastEntryKept /\ LoadedComplete /\ ReadyNotLive /\ ReadyListed /\ ReadyLoaded /\
        FinalizingLoaded /\ DeadInv)'
  BY <1>1, Zenon DEF LastEntryKept, LoadedComplete, ReadyNotLive, ReadyListed, ReadyLoaded,
     FinalizingLoaded, DeadInv
<1> QED BY <1>4, <1>6, <1>7, <1>8, <1>9, <1>10, <1>11, <1>12, <1>13, <1>14, <1>15, Zenon

\* A new session and an empty entry: no request and no TID of the earlier run counts.
LEMMA restartInv ==
  ASSUME IInv, restart
  PROVE  IInv'
<1> DEFINE n == [csn |-> seq, tid |-> EmptyTID]
<1>1. /\ log' = log \cup {n} /\ history' = history \cup {n} /\ seq' = seq + 1
      /\ tid_to_csn' = {e \in log : e.tid # EmptyTID}
      /\ server = "down" /\ seq <= MaxCSN
      /\ session_node_version' = session_node_version + 1
      /\ zk_version' = session_node_version + 1
  BY Zenon DEF restart, Created
<1>2. /\ last_loaded_entry' = seq /\ latest_snapshot' = seq /\ tail_ptr' = zk_tail_ptr
      /\ local_tid_counter' = MaxReservedLocalTID /\ expired' = FALSE /\ watch' = TRUE
      /\ server' = "loading" /\ upc' = "wait"
  BY Zenon DEF restart, FirstSnapshot
<1>3. UNCHANGED <<zk_tail_ptr, inflight, log_updated_event, running_list, snapshots_in_use,
                   unknown_state_list, unknown_state_list_loaded, listed, new_tail_ptr,
                   finalizing, pc, tid, csn, changed, stamped, faults, crashes>>
  BY Zenon DEF restart, runVars, unknownVars, txnVars, boundVars
<1>4. n.csn = seq /\ n.tid = EmptyTID /\ n \in CSNEntry /\ n.tid.start_csn \in Nat
  BY Numbers DEF CSNEntry, EmptyTID, TransactionID
<1>5. /\ session_node_version' \in Nat /\ seq' \in Nat /\ seq < seq'
      /\ \A m \in Nat : m <= session_node_version
            => m <= session_node_version' /\ m # session_node_version'
      /\ \A m \in Nat : m < seq => m < seq' /\ m <= seq /\ m # seq
  BY <1>1, Numbers
<1> HIDE DEF n
<1>6. local_tid_counter' \in Nat /\ local_tid_counter' >= MaxReservedLocalTID
  BY <1>2 DEF MaxReservedLocalTID
<1> USE DEF IInv, TypeOK
<1>7. /\ \A t \in Txn : pc[t] \in {"idle", "dead"}
      /\ running_list = {} /\ unknown_state_list = {} /\ unknown_state_list_loaded = {}
      /\ finalizing = {}
  BY <1>1, Zenon DEF DownInv, UnknownInv
<1>8. (RunningType /\ TxnType /\ OneRequest /\ IdleIsEmpty /\ UniqueTID /\ RunningPc /\
       SnapshotsOfRunning /\ SnapshotsSorted /\ CsnOfPc /\ StampIsCsn)'
  BY <1>3, Frames, Zenon
<1>9. (KeeperType /\ ConnectionType /\ ThreadType)'
  BY <1>1, <1>2, <1>3, <1>4, <1>5, Zenon DEF KeeperType, ConnectionType, ThreadType
<1>10. LogType'
  BY <1>1, <1>2, <1>6, Numbers, Zenon DEF LogType, KeeperType
<1>11. VersionInv'
  BY <1>1, <1>3, <1>5, Numbers, Zenon DEF VersionInv
<1>12. ASSUME NEW t PROVE /\ ~Live(t)'
                          /\ Committed(t)' <=> Committed(t)
                          /\ Sent(t)' => Sent(t)
  <2>1. ~Live(t)'
    BY <1>3, <1>5, Numbers, Zenon DEF Live, SessionValid, VersionInv
  <2>2. Committed(t)' <=> Committed(t)
    BY <1>1, <1>3, <1>4, Zenon DEF Committed
  <2> QED BY <2>1, <2>2, Zenon DEF Sent
<1>13. (RequestSent /\ NotYetCommitted /\ LostRequest)'
  BY <1>3, <1>12, Zenon DEF RequestSent, NotYetCommitted, LostRequest
<1>14. (UndecidedNotSent /\ RolledBackStampNotSent)'
  BY <1>3, <1>12, Zenon DEF UndecidedNotSent, RolledBackStampNotSent
<1>15. (LogInHistory /\ EntriesOfTxns)'
  BY <1>1, <1>3, <1>4, Zenon DEF LogInHistory, EntriesOfTxns
<1>16. EntriesBelowSeq'
  <2>1. MaxReservedCSN <= seq /\ MaxReservedCSN < seq' /\ seq' <= MaxCSN + MaxReservedCSN + 1
    <3>1. MaxReservedCSN < seq
      BY Zenon DEF EntriesBelowSeq
    <3> HIDE DEF IInv, TypeOK
    <3> QED BY <1>1, <3>1, Numbers, BoundsAssumption DEF MaxReservedCSN
  <2> QED BY <1>1, <1>4, <1>5, <2>1, Numbers, Zenon DEF EntriesBelowSeq
<1>17. TidsInPast'
  <2> SUFFICES ASSUME NEW t \in Txn, pc[t] # "idle"
               PROVE  tid[t].start_csn <= seq /\ tid[t].start_csn # seq
    BY <1>2, <1>3, Zenon DEF TidsInPast
  <2>1. tid[t].start_csn <= latest_snapshot /\ latest_snapshot < seq
    BY Zenon DEF TidsInPast, SnapshotInv
  <2> HIDE DEF IInv, TypeOK
  <2> QED BY <2>1, Numbers
<1>18. SnapshotInv'
  <2>1. listed < seq
    BY Zenon DEF SnapshotInv
  <2> QED BY <1>2, <1>3, <1>5, <2>1, Numbers, Zenon DEF SnapshotInv
<1>19. TailOrder'
  <2>1. zk_tail_ptr < seq /\ zk_tail_ptr <= zk_tail_ptr
    <3>1. zk_tail_ptr < seq
      BY Zenon DEF TailOrder
    <3> HIDE DEF IInv, TypeOK
    <3> QED BY <3>1, Numbers
  <2> QED BY <1>2, <1>3, <1>5, <2>1, Numbers, Zenon DEF TailOrder
<1>20. RemovedBehindTail'
  <2>1. \A m \in Nat : m < tail_ptr => m < zk_tail_ptr
    <3>1. tail_ptr <= zk_tail_ptr
      BY Zenon DEF TailOrder
    <3> HIDE DEF IInv, TypeOK
    <3> QED BY <3>1, Numbers
  <2> QED BY <1>1, <1>2, <1>4, <2>1, Numbers, Zenon DEF RemovedBehindTail
<1>21. (TailBehindRunning /\ ReadyNotLive /\ ReadyListed /\ ReadyLoaded /\ FinalizingLoaded)'
  BY <1>2, <1>3, <1>7, Zenon DEF TailBehindRunning, ReadyNotLive, ReadyListed, ReadyLoaded,
     FinalizingLoaded
<1>22. (UnknownInv /\ DownInv)'
  BY <1>2, <1>3, <1>7, Zenon DEF UnknownInv, DownInv
<1>23. (LastEntryKept /\ LoadedComplete)'
  BY <1>1, <1>2, <1>4, Zenon DEF LastEntryKept, LoadedComplete
<1>24. DeadInv'
  <2> SUFFICES ASSUME NEW t \in Txn, pc[t] = "dead", NEW e \in history', e.tid = tid[t]
               PROVE  e \in tid_to_csn' \/ e.tid.start_csn < tail_ptr'
    BY <1>3, <1>12, Zenon DEF DeadInv
  <2>1. e.tid # EmptyTID
    BY Zenon DEF IdleIsEmpty
  <2>2. e \in log' \/ e.tid.start_csn < tail_ptr'
    BY <1>20, <2>1, Zenon DEF RemovedBehindTail
  <2> QED BY <1>1, <1>4, <2>1, <2>2, Zenon
<1> QED BY <1>8, <1>9, <1>10, <1>11, <1>13, <1>14, <1>15, <1>16, <1>17, <1>18, <1>19, <1>20,
   <1>21, <1>22, <1>23, <1>24, Zenon

\* The server is completely started.
LEMMA setServerCompletelyStartedInv ==
  ASSUME IInv, setServerCompletelyStarted
  PROVE  IInv'
<1> USE DEF IInv, TypeOK
<1>1. UNCHANGED <<log, seq, zk_tail_ptr, session_node_version, inflight, zk_version, expired,
                   watch, log_updated_event, tid_to_csn, last_loaded_entry, latest_snapshot,
                   local_tid_counter, tail_ptr, running_list, snapshots_in_use,
                   unknown_state_list, unknown_state_list_loaded, upc, listed, new_tail_ptr,
                   finalizing, pc, tid, csn, changed, stamped, history, faults, crashes>>
  BY Zenon DEF setServerCompletelyStarted, keeperVars, connVars, loadVars, runVars,
     unknownVars, updVars, txnVars, boundVars
<1>2. (KeeperType /\ ConnectionType /\ RunningType /\ ThreadType /\ TxnType /\ VersionInv /\
       OneRequest /\ RequestSent /\ LostRequest /\ LogInHistory /\ EntriesBelowSeq /\
       EntriesOfTxns /\ IdleIsEmpty /\ TidsInPast /\ UniqueTID /\ SnapshotInv /\ RunningPc /\
       SnapshotsOfRunning /\ SnapshotsSorted /\ UnknownInv /\ CsnOfPc /\ NotYetCommitted /\
       UndecidedNotSent /\ StampIsCsn /\ RolledBackStampNotSent /\ TailBehindRunning /\
       RemovedBehindTail /\ ReadyNotLive /\ ReadyListed /\ ReadyLoaded /\ FinalizingLoaded)'
  BY <1>1, Frames, Zenon
<1> USE DEF setServerCompletelyStarted, keeperVars, connVars, loadVars, runVars, unknownVars,
            updVars, txnVars, boundVars
<1>3. (LogType /\ DownInv /\ TailOrder /\ LoadedComplete /\ DeadInv)'
  BY Zenon DEF LogType, DownInv, TailOrder, LoadedComplete, DeadInv, Live, SessionValid
<1>4. LastEntryKept'
  BY Zenon DEF LastEntryKept, UnknownCSN
<1> HIDE DEF setServerCompletelyStarted, keeperVars, connVars, loadVars, runVars, unknownVars,
             updVars, txnVars, boundVars
<1> QED BY <1>2, <1>3, <1>4, Zenon
=============================================================================
