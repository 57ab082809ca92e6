--------------------- MODULE TransactionLogCommitProofs ---------------------
(***************************************************************************)
(* The steps from BEGIN to the multi-request of a commit, and Keeper's     *)
(* processing of it, keep the invariant of the log.  Each lemma states     *)
(* first what the action changes and leaves alone, then goes through the   *)
(* parts of the invariant.                                                 *)
(***************************************************************************)
EXTENDS TransactionLogTxnProofs

USE SMTT(30), ZenonT(30)

\* A new transaction gets a TID no other one has, and the newest snapshot.
LEMMA beginTransactionInv ==
  ASSUME NEW t \in Txn, IInv, beginTransaction(t)
  PROVE  IInv'
<1> DEFINE n == [start_csn |-> latest_snapshot, local_tid |-> 1 + local_tid_counter]
<1>1. UNCHANGED <<log, seq, zk_tail_ptr, session_node_version, inflight, zk_version, expired,
                   watch, log_updated_event, server, tid_to_csn, last_loaded_entry,
                   latest_snapshot, tail_ptr, unknown_state_list, unknown_state_list_loaded,
                   upc, listed, new_tail_ptr, finalizing, stamped, history>>
  BY Zenon DEF beginTransaction, keeperVars, connVars, unknownVars, updVars, boundVars
<1>2. /\ server # "down" /\ pc[t] = "idle" /\ pc'[t] = "run" /\ tid'[t] = n
      /\ csn'[t] = UnknownCSN /\ running_list' = running_list \cup {t}
      /\ local_tid_counter' = local_tid_counter + 1
      /\ \A u \in Txn : u # t => pc'[u] = pc[u] /\ tid'[u] = tid[u] /\ csn'[u] = csn[u]
  BY Zenon DEF beginTransaction, IInv, TypeOK, TxnType
<1>3. /\ latest_snapshot \in Nat /\ local_tid_counter \in Nat /\ n \in TransactionID
      /\ n.start_csn = latest_snapshot /\ n.local_tid = local_tid_counter + 1 /\ n # EmptyTID
  <2>1. latest_snapshot \in Nat /\ local_tid_counter \in Nat
    BY Zenon DEF IInv, TypeOK, LogType
  <2> HIDE DEF IInv
  <2> QED BY <2>1 DEF TransactionID, EmptyTID
<1>4. ASSUME NEW u \in Txn PROVE tid[u] # n
  <2>1. CASE pc[u] = "idle"
    BY <1>3, <2>1, Zenon DEF IInv, IdleIsEmpty
  <2>2. CASE pc[u] # "idle"
    <3>1. tid[u].start_csn = latest_snapshot => tid[u].local_tid <= local_tid_counter
      BY <2>2, Zenon DEF IInv, TidsInPast
    <3>2. tid[u].local_tid \in Nat
      BY Zenon DEF IInv, TypeOK, TxnType, TransactionID
    <3> QED BY <1>3, <3>1, <3>2
  <2> QED BY <2>1, <2>2, Zenon
<1> HIDE DEF n
<1> USE DEF IInv, TypeOK
<1>5. tid[t] = EmptyTID /\ \A r \in inflight : r.txn # t /\ r.txn \in Txn
  BY <1>2, Zenon DEF IdleIsEmpty, RequestSent, KeeperType
<1>6. \A e \in history : e.tid # n
  BY <1>3, <1>4, Zenon DEF EntriesOfTxns
<1>7. \A u : Live(u)' <=> Live(u)
  BY <1>1, Zenon DEF Live, SessionValid
<1>8. ~Live(t) /\ ~Committed(t) /\ ~Committed(t)'
  BY <1>1, <1>2, <1>5, <1>6, Zenon DEF Live, Committed
<1>9. ASSUME NEW u \in Txn PROVE /\ Committed(u)' <=> Committed(u)
                                 /\ Sent(u)' <=> Sent(u)
                                 /\ u # t => (Loaded(u)' <=> Loaded(u))
  <2>1. Committed(u)' <=> Committed(u)
    BY <1>1, <1>2, <1>8, Zenon DEF Committed
  <2>2. u # t => (Loaded(u)' <=> Loaded(u))
    BY <1>1, <1>2, Zenon DEF Loaded
  <2> QED BY <2>1, <2>2, <1>7, Zenon DEF Sent
<1>10. \A u \in unknown_state_list \cup unknown_state_list_loaded \cup finalizing :
         u \in Txn /\ u # t
  BY <1>2, Zenon DEF UnknownInv, RunningType, ThreadType
<1>11. (KeeperType /\ ConnectionType /\ ThreadType /\ VersionInv /\ OneRequest /\ LogInHistory
        /\ EntriesBelowSeq /\ SnapshotInv /\ TailOrder /\ RemovedBehindTail /\ LastEntryKept /\
        LoadedComplete /\ ReadyNotLive)'
  BY <1>1, Frames, Zenon
<1>12. LogType'
  <2>1. local_tid_counter + 1 \in Nat /\ local_tid_counter + 1 >= MaxReservedLocalTID
    BY <1>3 DEF LogType, MaxReservedLocalTID
  <2> QED BY <2>1, <1>1, <1>2, Zenon DEF LogType
<1>13. RunningType'
  <2>1. snapshots_in_use' \in Seq(Txn)
    <3>1. snapshots_in_use \in Seq(Txn) /\ snapshots_in_use' = Append(snapshots_in_use, t)
      BY Zenon DEF beginTransaction, SnapshotsWith, RunningType
    <3> HIDE DEF IInv, TypeOK
    <3> QED BY <3>1
  <2> QED BY <2>1, <1>1, <1>2, Zenon DEF RunningType
<1>14. TxnType'
  <2>1. tid' = [tid EXCEPT ![t] = n]
    BY Zenon DEF beginTransaction, n
  <2> QED BY <1>3, <2>1, SpecialCSNs, Zenon DEF beginTransaction, TxnType, boundVars
<1>15. (RequestSent /\ LostRequest)'
  BY <1>1, <1>2, <1>5, <1>7, <1>8, <1>9, Zenon DEF RequestSent, LostRequest
<1>16. EntriesOfTxns'
  BY <1>1, <1>2, <1>5, Zenon DEF EntriesOfTxns
<1>17. (IdleIsEmpty /\ UniqueTID)'
  <2>1. IdleIsEmpty'
    BY <1>2, <1>3, Zenon DEF IdleIsEmpty
  <2>2. ASSUME NEW u \in Txn, NEW v \in Txn, u # v, tid'[u] # EmptyTID
        PROVE  tid'[u] # tid'[v]
    <3>1. CASE u # t /\ v # t
      BY <1>2, <2>2, <3>1, Zenon DEF UniqueTID
    <3>2. CASE u = t
      BY <1>2, <1>4, <2>2, <3>2, Zenon
    <3>3. CASE v = t
      BY <1>2, <1>4, <2>2, <3>3, Zenon
    <3> QED BY <3>1, <3>2, <3>3, Zenon
  <2> QED BY <2>1, <2>2, Zenon DEF UniqueTID
<1>18. TidsInPast'
  <2> SUFFICES ASSUME NEW u \in Txn, pc'[u] # "idle"
               PROVE  /\ tid'[u].start_csn <= latest_snapshot
                      /\ tid'[u].start_csn = latest_snapshot =>
                            tid'[u].local_tid <= local_tid_counter + 1
    BY <1>1, <1>2, Zenon DEF TidsInPast
  <2>1. CASE u = t
    <3> HIDE DEF IInv, TypeOK
    <3> QED BY <1>2, <1>3, <2>1
  <2>2. CASE u # t
    <3>1. /\ tid[u].start_csn <= latest_snapshot
          /\ tid[u].start_csn = latest_snapshot => tid[u].local_tid <= local_tid_counter
      BY <1>2, <2>2, Zenon DEF TidsInPast
    <3>2. tid[u].start_csn \in Nat /\ tid[u].local_tid \in Nat
      BY Zenon DEF TxnType, TransactionID
    <3> HIDE DEF IInv, TypeOK
    <3> QED BY <1>2, <1>3, <2>2, <3>1, <3>2
  <2> QED BY <2>1, <2>2, Zenon
<1>19. /\ snapshots_in_use \in Seq(Txn) /\ Len(snapshots_in_use) \in Nat
       /\ Len(snapshots_in_use') = Len(snapshots_in_use) + 1
       /\ snapshots_in_use'[Len(snapshots_in_use) + 1] = t
       /\ \A i \in 1 .. Len(snapshots_in_use) :
            snapshots_in_use'[i] = snapshots_in_use[i] /\ snapshots_in_use[i] \in Txn
  <2>1. snapshots_in_use \in Seq(Txn) /\ snapshots_in_use' = Append(snapshots_in_use, t)
    BY Zenon DEF beginTransaction, SnapshotsWith, RunningType
  <2> HIDE DEF IInv, TypeOK
  <2> QED BY <2>1
<1>20. \A i \in 1 .. Len(snapshots_in_use) : snapshots_in_use[i] # t
  BY <1>2, Zenon DEF SnapshotsOfRunning, RunningPc
<1>21. SnapshotsOfRunning'
  <2>1. \A i \in 1 .. Len(snapshots_in_use) : i \in 1 .. Len(snapshots_in_use')
    BY <1>19
  <2>2. Len(snapshots_in_use) + 1 \in 1 .. Len(snapshots_in_use')
    BY <1>19
  <2>3. \A i \in 1 .. Len(snapshots_in_use') :
          i \in 1 .. Len(snapshots_in_use) \/ i = Len(snapshots_in_use) + 1
    BY <1>19
  <2>4. ASSUME NEW u \in running_list'
        PROVE  \E i \in 1 .. Len(snapshots_in_use') : snapshots_in_use'[i] = u
    <3>1. CASE u = t
      BY <1>19, <2>2, <3>1, Zenon
    <3>2. CASE u \in running_list
      <4>1. PICK i \in 1 .. Len(snapshots_in_use) : snapshots_in_use[i] = u
        BY <3>2, Zenon DEF SnapshotsOfRunning
      <4> QED BY <1>19, <2>1, <4>1, Zenon
    <3> QED BY <1>2, <3>1, <3>2, Zenon
  <2>5. ASSUME NEW i \in 1 .. Len(snapshots_in_use') PROVE snapshots_in_use'[i] \in running_list'
    <3>1. CASE i \in 1 .. Len(snapshots_in_use)
      BY <1>2, <1>19, <3>1, Zenon DEF SnapshotsOfRunning
    <3>2. CASE i = Len(snapshots_in_use) + 1
      BY <1>2, <1>19, <3>2, Zenon
    <3> QED BY <2>3, <3>1, <3>2, Zenon
  <2> QED BY <2>4, <2>5, Zenon DEF SnapshotsOfRunning
<1>22. SnapshotsSorted'
  <2> DEFINE s == snapshots_in_use  k == Len(snapshots_in_use)
  <2> SUFFICES ASSUME NEW i \in 1 .. k + 1, NEW j \in 1 .. k + 1, i < j
               PROVE  s'[i] # s'[j] /\ tid'[s'[i]].start_csn <= tid'[s'[j]].start_csn
    BY <1>19, Zenon DEF SnapshotsSorted
  <2>1. i \in 1 .. k /\ (j = k + 1 \/ j \in 1 .. k)
    BY <1>19
  <2>2. /\ s[i] \in Txn /\ s[i] # t /\ s'[i] = s[i] /\ tid'[s[i]] = tid[s[i]]
        /\ tid[s[i]].start_csn <= latest_snapshot
    <3>1. s[i] \in Txn /\ s[i] # t /\ s'[i] = s[i]
      BY <2>1, <1>19, <1>20, Zenon
    <3>2. pc[s[i]] # "idle"
      <4>1. s[i] \in running_list
        BY <2>1, Zenon DEF SnapshotsOfRunning
      <4> QED BY <3>1, <4>1, Zenon DEF RunningPc
    <3> QED BY <1>2, <3>1, <3>2, Zenon DEF TidsInPast
  <2>3. CASE j = k + 1
    <3>1. s'[j] = t
      BY <1>19, <2>3, Zenon
    <3> QED BY <1>2, <1>3, <2>2, <3>1, Zenon
  <2>4. CASE j \in 1 .. k
    <3>1. s[i] # s[j] /\ tid[s[i]].start_csn <= tid[s[j]].start_csn
      BY <2>1, <2>4, Zenon DEF SnapshotsSorted
    <3>2. s[j] \in Txn /\ s[j] # t /\ s'[j] = s[j]
      BY <2>4, <1>19, <1>20, Zenon
    <3> QED BY <1>2, <2>2, <3>1, <3>2, Zenon
  <2> QED BY <2>1, <2>3, <2>4, Zenon
<1>23. (DownInv /\ RunningPc)'
  BY <1>1, <1>2, Zenon DEF DownInv, RunningPc
<1>24. UnknownInv'
  BY <1>1, <1>2, <1>10, Zenon DEF UnknownInv
<1>25. (CsnOfPc /\ NotYetCommitted /\ UndecidedNotSent)'
  BY <1>2, <1>7, <1>8, <1>9, Zenon DEF CsnOfPc, NotYetCommitted, UndecidedNotSent, Sent
<1>26. (StampIsCsn /\ RolledBackStampNotSent)'
  <2>1. stamped[t] = UnknownCSN
    BY <1>2, Zenon DEF StampIsCsn, CsnOfPc, Decided
  <2> QED BY <2>1, <1>1, <1>2, <1>9, SpecialCSNs, Zenon DEF StampIsCsn, Decided,
     RolledBackStampNotSent
<1>27. TailBehindRunning'
  <2>1. /\ zk_tail_ptr <= latest_snapshot
        /\ upc \in {"prune", "remove"} => new_tail_ptr <= latest_snapshot
    BY <1>2, Zenon DEF TailOrder
  <2>2. \A u \in running_list : u \in Txn /\ u # t
    BY <1>2, Zenon DEF RunningType, RunningPc
  <2> QED BY <1>1, <1>2, <1>3, <2>1, <2>2, Zenon DEF TailBehindRunning
<1>28. (ReadyListed /\ ReadyLoaded /\ FinalizingLoaded)'
  BY <1>1, <1>2, <1>7, <1>9, <1>10, Zenon DEF ReadyListed, ReadyLoaded, FinalizingLoaded
<1>29. DeadInv'
  BY <1>1, <1>2, <1>7, Zenon DEF DeadInv
<1> QED BY <1>11, <1>12, <1>13, <1>14, <1>15, <1>16, <1>17, <1>18, <1>21, <1>22, <1>23, <1>24,
   <1>25, <1>26, <1>27, <1>28, <1>29, Zenon

\* Adding or removing a part only marks the transaction as changed.
LEMMA changeInv ==
  ASSUME NEW t \in Txn, IInv, change(t)
  PROVE  IInv'
<1> USE DEF IInv, TypeOK
<1>1. UNCHANGED <<log, seq, zk_tail_ptr, session_node_version, inflight, zk_version, expired,
                   watch, log_updated_event, server, tid_to_csn, last_loaded_entry,
                   latest_snapshot, local_tid_counter, tail_ptr, running_list,
                   snapshots_in_use, unknown_state_list, unknown_state_list_loaded, upc,
                   listed, new_tail_ptr, finalizing, pc, tid, csn, stamped, history>>
  BY Zenon DEF change, keeperVars, connVars, loadVars, runVars, unknownVars, updVars,
     boundVars
<1>2. (KeeperType /\ ConnectionType /\ LogType /\ RunningType /\ ThreadType /\ VersionInv /\
       OneRequest /\ RequestSent /\ LostRequest /\ LogInHistory /\ EntriesBelowSeq /\
       EntriesOfTxns /\ IdleIsEmpty /\ TidsInPast /\ UniqueTID /\ SnapshotInv /\ DownInv /\
       RunningPc /\ SnapshotsOfRunning /\ SnapshotsSorted /\ UnknownInv /\ CsnOfPc /\
       NotYetCommitted /\ UndecidedNotSent /\ StampIsCsn /\ RolledBackStampNotSent /\
       TailOrder /\ TailBehindRunning /\ RemovedBehindTail /\ LastEntryKept /\ LoadedComplete
       /\ ReadyNotLive /\ ReadyListed /\ ReadyLoaded /\ FinalizingLoaded /\ DeadInv)'
  BY <1>1, Frames, Zenon
<1> USE DEF change, keeperVars, connVars, loadVars, runVars, unknownVars, updVars, boundVars
<1>3. TxnType'
  BY Zenon DEF TxnType
<1> HIDE DEF change, keeperVars, connVars, loadVars, runVars, unknownVars, updVars, boundVars
<1> QED BY <1>2, <1>3, Zenon

\* beforeCommit decides a read-only transaction, and makes the others COMMITTING.
LEMMA beforeCommitInv ==
  ASSUME NEW t \in Txn, IInv, beforeCommit(t)
  PROVE  IInv'
<1>1. UNCHANGED <<keeperVars, connVars, server, loadVars, runVars, unknownVars, updVars, tid,
                  stamped, history>>
  BY Zenon DEF beforeCommit
<1>2. TxnType'
  <2>1. tid[t].start_csn \in Nat /\ csn \in [Txn -> Nat]
    BY Zenon DEF IInv, TypeOK, TxnType, TransactionID
  <2>2. csn' \in [Txn -> Nat]
    BY <2>1, SpecialCSNs, Zenon DEF beforeCommit
  <2> QED BY <2>2, Zenon DEF IInv, TypeOK, TxnType, beforeCommit, boundVars
<1>3. \A u \in Txn : u # t => pc'[u] = pc[u] /\ csn'[u] = csn[u]
  BY Zenon DEF beforeCommit, IInv, TypeOK, TxnType
<1>4. /\ pc[t] = "run" /\ pc'[t] \in {"send", "end"}
      /\ pc'[t] = "send" => csn[t] = UnknownCSN /\ csn'[t] = CommittingCSN
      /\ csn[t] = UnknownCSN \/ csn'[t] = csn[t]
  BY Zenon DEF beforeCommit, IInv, TypeOK, TxnType
<1>5. ~Sent(t) /\ (csn[t] = UnknownCSN => t \in running_list /\ stamped[t] = UnknownCSN)
  BY <1>4, Zenon DEF IInv, CsnOfPc, UndecidedNotSent, RunningPc, StampIsCsn, Decided
<1>6. ~Live(t)
  BY <1>5, Zenon DEF Sent
<1>7. t \notin unknown_state_list \cup unknown_state_list_loaded \cup finalizing
  BY <1>4, Zenon DEF IInv, UnknownInv
<1> QED BY <1>1, <1>2, <1>3, <1>4, <1>5, <1>6, <1>7, TxnStepInv, Zenon

\* The request that leaves is the only one of its transaction.
LEMMA sendCommitInv ==
  ASSUME NEW t \in Txn, IInv, sendCommit(t)
  PROVE  IInv'
<1> DEFINE n == [txn |-> t, version |-> zk_version]
<1>1. UNCHANGED <<log, seq, zk_tail_ptr, session_node_version, zk_version, expired, watch,
                   log_updated_event, server, tid_to_csn, last_loaded_entry, latest_snapshot,
                   local_tid_counter, tail_ptr, running_list, snapshots_in_use,
                   unknown_state_list, unknown_state_list_loaded, upc, listed, new_tail_ptr,
                   finalizing, tid, csn, stamped, history>>
  BY Zenon DEF sendCommit, connVars, loadVars, runVars, unknownVars, updVars, boundVars
<1> USE DEF IInv, TypeOK
<1>2. (ConnectionType /\ LogType /\ RunningType /\ ThreadType /\ LogInHistory /\
       EntriesBelowSeq /\ EntriesOfTxns /\ UniqueTID /\ SnapshotInv /\ SnapshotsOfRunning /\
       SnapshotsSorted /\ TailOrder /\ TailBehindRunning /\ RemovedBehindTail /\ LastEntryKept
       /\ LoadedComplete /\ ReadyListed /\ ReadyLoaded)'
  BY <1>1, Frames, Zenon
<1>3. /\ pc[t] = "send" /\ pc'[t] = "wait" /\ \A u \in Txn : u # t => pc'[u] = pc[u]
      /\ inflight' = inflight \cup {n}
  BY Zenon DEF sendCommit, TxnType
<1>4. n \in [txn : Txn, version : Nat] /\ n.txn = t /\ n.version = session_node_version
  <2>1. zk_version \in Nat /\ zk_version = session_node_version
    BY Zenon DEF ConnectionType, VersionInv
  <2> QED BY <2>1, Zenon
<1> HIDE DEF n
<1>5. /\ t \in running_list /\ csn[t] = CommittingCSN /\ ~Committed(t)
      /\ \A r \in inflight : r.txn # t /\ r.txn \in Txn
  BY <1>3, Zenon DEF RunningPc, CsnOfPc, NotYetCommitted, RequestSent, KeeperType
<1>6. ASSUME NEW u PROVE Committed(u)' <=> Committed(u)
  BY <1>1, Zenon DEF Committed
<1>7. ASSUME NEW u, u # t PROVE /\ Live(u)' <=> Live(u)
                                /\ Sent(u)' <=> Sent(u)
  <2>1. Live(u)' <=> Live(u)
    BY <1>1, <1>3, <1>4, <1>7, Zenon DEF Live, SessionValid
  <2> QED BY <2>1, <1>6, Zenon DEF Sent
<1>8. TxnType'
  BY Zenon DEF sendCommit, TxnType, boundVars
<1>9. KeeperType'
  BY <1>1, <1>3, <1>4, Zenon DEF KeeperType
<1>10. VersionInv'
  <2>1. session_node_version <= session_node_version
    <3>1. session_node_version \in Nat
      BY Zenon DEF KeeperType
    <3> QED BY <3>1
  <2> QED BY <2>1, <1>1, <1>3, <1>4, Zenon DEF VersionInv
<1>11. (OneRequest /\ RequestSent)'
  BY <1>1, <1>3, <1>4, <1>5, <1>6, Zenon DEF OneRequest, RequestSent
<1>12. (LostRequest /\ NotYetCommitted)'
  BY <1>1, <1>3, <1>6, <1>7, Zenon DEF LostRequest, NotYetCommitted
<1>13. (IdleIsEmpty /\ TidsInPast /\ DownInv /\ RunningPc /\ CsnOfPc)'
  BY <1>1, <1>3, <1>5, Zenon DEF IdleIsEmpty, TidsInPast, DownInv, RunningPc, CsnOfPc
<1>14. UnknownInv'
  <2>1. \A u \in unknown_state_list \cup unknown_state_list_loaded \cup finalizing :
          u \in Txn /\ u # t
    BY <1>3, Zenon DEF UnknownInv, RunningType, ThreadType
  <2> QED BY <2>1, <1>1, <1>3, Zenon DEF UnknownInv
<1>15. (UndecidedNotSent /\ StampIsCsn)'
  BY <1>1, <1>3, <1>5, <1>7, SpecialCSNs, Zenon DEF UndecidedNotSent, StampIsCsn, Decided
<1>16. RolledBackStampNotSent'
  <2>1. stamped[t] = UnknownCSN
    BY <1>3, <1>5, Zenon DEF StampIsCsn, Decided
  <2> QED BY <2>1, <1>1, <1>7, SpecialCSNs, Zenon DEF RolledBackStampNotSent
<1>17. ReadyNotLive'
  <2>1. t \notin unknown_state_list_loaded
    BY <1>3, Zenon DEF UnknownInv
  <2> QED BY <2>1, <1>1, <1>7, Zenon DEF ReadyNotLive
<1>18. FinalizingLoaded'
  <2>1. t \notin finalizing
    BY <1>3, Zenon DEF UnknownInv
  <2>2. \A u : Loaded(u)' <=> Loaded(u)
    BY <1>1, Zenon DEF Loaded
  <2> QED BY <2>1, <2>2, <1>1, <1>6, <1>7, Zenon DEF FinalizingLoaded
<1>19. DeadInv'
  BY <1>1, <1>3, <1>7, Zenon DEF DeadInv
<1> QED BY <1>2, <1>8, <1>9, <1>10, <1>11, <1>12, <1>13, <1>14, <1>15, <1>16, <1>17, <1>18,
   <1>19, Zenon

\* A request of an earlier session is dropped: nothing else changes.
LEMMA keeperDropsInv ==
  ASSUME IInv, NEW r \in inflight, keeperProcess(r), ~SessionValid(r)
  PROVE  IInv'
<1>1. inflight' \subseteq inflight
  BY Zenon DEF keeperProcess
<1>2. UNCHANGED <<log, seq, zk_tail_ptr, session_node_version, history, zk_version, expired,
                   watch, log_updated_event, server, tid_to_csn, last_loaded_entry,
                   latest_snapshot, local_tid_counter, tail_ptr, running_list,
                   snapshots_in_use, unknown_state_list, unknown_state_list_loaded, upc,
                   listed, new_tail_ptr, finalizing, pc, tid, csn, changed, stamped, faults,
                   crashes>>
  BY Zenon DEF keeperProcess, loadVars, runVars, unknownVars, updVars, txnVars, boundVars
<1>3. ASSUME NEW t PROVE Live(t)' => Live(t)
  BY <1>1, <1>2, Zenon DEF Live, SessionValid
<1>4. ASSUME NEW t PROVE /\ Committed(t)' <=> Committed(t)
                         /\ Loaded(t)' <=> Loaded(t)
                         /\ Sent(t)' => Sent(t)
  BY <1>2, <1>3, Zenon DEF Committed, Loaded, Sent
<1> USE DEF IInv, TypeOK
<1>5. (ConnectionType /\ LogType /\ RunningType /\ ThreadType /\ TxnType /\ LogInHistory /\
       EntriesBelowSeq /\ EntriesOfTxns /\ IdleIsEmpty /\ TidsInPast /\ UniqueTID /\
       SnapshotInv /\ DownInv /\ RunningPc /\ SnapshotsOfRunning /\ SnapshotsSorted /\
       UnknownInv /\ CsnOfPc /\ NotYetCommitted /\ StampIsCsn /\ TailOrder /\
       TailBehindRunning /\ RemovedBehindTail /\ LastEntryKept /\ LoadedComplete /\
       ReadyListed /\ ReadyLoaded)'
  BY <1>2, Frames, Zenon
<1>6. (KeeperType /\ VersionInv /\ OneRequest /\ RequestSent)'
  BY <1>1, <1>2, <1>4, Zenon DEF KeeperType, VersionInv, OneRequest, RequestSent
<1>7. (LostRequest /\ ReadyNotLive)'
  BY <1>2, <1>3, Zenon DEF LostRequest, ReadyNotLive
<1>8. (UndecidedNotSent /\ RolledBackStampNotSent)'
  BY <1>2, <1>4, Zenon DEF UndecidedNotSent, RolledBackStampNotSent
<1>9. (FinalizingLoaded /\ DeadInv)'
  BY <1>2, <1>3, <1>4, Zenon DEF FinalizingLoaded, DeadInv
<1> QED BY <1>5, <1>6, <1>7, <1>8, <1>9, Zenon

\* Keeper creates the node of a request of the current session: its transaction
\* is committed now, and nothing changes for the others.
LEMMA keeperCreatesInv ==
  ASSUME IInv, NEW r \in inflight, keeperProcess(r), SessionValid(r)
  PROVE  IInv'
<1> DEFINE u == r.txn
           n == [csn |-> seq, tid |-> tid[u]]
<1>1. /\ inflight' = inflight \ {r} /\ session_node_version' = session_node_version
      /\ log' = log \cup {n} /\ history' = history \cup {n} /\ seq' = seq + 1 /\ seq <= MaxCSN
      /\ watch' = FALSE /\ log_updated_event' = (log_updated_event \/ watch)
  BY Zenon DEF keeperProcess, Created, WatchFires
<1>2. UNCHANGED <<zk_tail_ptr, session_node_version, zk_version, expired, server, tid_to_csn,
                   last_loaded_entry, latest_snapshot, local_tid_counter, tail_ptr,
                   running_list, snapshots_in_use, unknown_state_list,
                   unknown_state_list_loaded, upc, listed, new_tail_ptr, finalizing, pc, tid,
                   csn, changed, stamped, faults, crashes>>
  BY Zenon DEF keeperProcess, loadVars, runVars, unknownVars, updVars, txnVars, boundVars
<1>3. u \in Txn /\ tid[u] \in TransactionID
  BY Zenon DEF IInv, TypeOK, KeeperType, TxnType
<1>4. n \in CSNEntry /\ n.csn = seq /\ n.tid = tid[u] /\ seq \in Nat
  BY <1>3, Zenon DEF IInv, TypeOK, KeeperType, CSNEntry
<1>5. ~Committed(u) /\ pc[u] \notin {"idle", "run", "send"} /\ tid[u] # EmptyTID
  BY <1>3, Zenon DEF IInv, RequestSent, IdleIsEmpty
<1>6. Live(u) /\ Sent(u)
  BY Zenon DEF Live, Sent
<1> HIDE DEF n
<1>7. ASSUME NEW t PROVE Live(t)' => Live(t) /\ t # u
  <2>1. \A q \in inflight' : q \in inflight /\ q.txn # u
    BY <1>1, Zenon DEF IInv, OneRequest
  <2>2. \A q : SessionValid(q)' <=> SessionValid(q)
    BY <1>1, Zenon DEF SessionValid
  <2> QED BY <2>1, <2>2, Zenon DEF Live
<1> HIDE DEF u
<1>8. ASSUME NEW t \in Txn, t # u PROVE n.tid # tid[t]
  BY <1>3, <1>4, <1>5, <1>8, Zenon DEF IInv, UniqueTID
<1>9. ASSUME NEW t \in Txn PROVE /\ t # u => (Committed(t)' <=> Committed(t))
                                 /\ Loaded(t)' <=> Loaded(t)
                                 /\ Sent(t)' => Sent(t)
  <2>1. t # u => (Committed(t)' <=> Committed(t))
    BY <1>1, <1>2, <1>8, Zenon DEF Committed
  <2>2. Loaded(t)' <=> Loaded(t)
    BY <1>2, Zenon DEF Loaded
  <2>3. Sent(t)' => Sent(t)
    BY <2>1, <1>6, <1>7, Zenon DEF Sent
  <2> QED BY <2>1, <2>2, <2>3, Zenon
<1>10. ASSUME NEW t, ~Live(t) PROVE t # u
  BY <1>6, <1>10, Zenon
<1> USE DEF IInv, TypeOK
<1>11. (LogType /\ RunningType /\ ThreadType /\ TxnType /\ IdleIsEmpty /\ TidsInPast /\
        UniqueTID /\ DownInv /\ RunningPc /\ SnapshotsOfRunning /\ SnapshotsSorted /\
        UnknownInv /\ CsnOfPc /\ StampIsCsn /\ TailBehindRunning)'
  BY <1>2, Frames, Zenon
<1>12. KeeperType'
  <2>1. seq + 1 \in Nat
    BY <1>4
  <2> QED BY <2>1, <1>1, <1>2, <1>4, Zenon DEF KeeperType
<1>13. ConnectionType'
  BY <1>1, <1>2, Zenon DEF ConnectionType
<1>14. (VersionInv /\ OneRequest /\ LogInHistory)'
  BY <1>1, <1>2, Zenon DEF VersionInv, OneRequest, LogInHistory
<1>15. RequestSent'
  <2> SUFFICES ASSUME NEW q \in inflight'
               PROVE  ~Committed(q.txn)' /\ pc'[q.txn] \notin {"idle", "run", "send"}
    BY Zenon DEF RequestSent
  <2>1. q \in inflight /\ q.txn \in Txn
    BY <1>1, Zenon DEF KeeperType
  <2>2. q.txn # u
    BY <1>1, Zenon DEF OneRequest, u
  <2> QED BY <2>1, <2>2, <1>2, <1>9, Zenon DEF RequestSent
<1>16. (LostRequest /\ ReadyNotLive)'
  BY <1>2, <1>7, Zenon DEF LostRequest, ReadyNotLive
<1>17. EntriesBelowSeq'
  <2>1. ASSUME NEW e \in history' PROVE MaxReservedCSN <= e.csn /\ e.csn < seq'
    <3>1. CASE e \in history
      <4>1. e.csn \in Nat
        BY <3>1, Zenon DEF KeeperType, CSNEntry
      <4> QED BY <3>1, <4>1, <1>1, <1>4 DEF EntriesBelowSeq
    <3>2. CASE e = n
      BY <3>2, <1>1, <1>4, BoundsAssumption DEF EntriesBelowSeq, MaxReservedCSN
    <3> QED BY <1>1, <3>1, <3>2, Zenon
  <2>2. MaxReservedCSN < seq' /\ seq' <= MaxCSN + MaxReservedCSN + 1
    BY <1>1, <1>4, BoundsAssumption DEF EntriesBelowSeq, MaxReservedCSN
  <2> QED BY <2>1, <2>2, Zenon DEF EntriesBelowSeq
<1>18. EntriesOfTxns'
  BY <1>1, <1>2, <1>3, <1>4, Zenon DEF EntriesOfTxns
<1>19. SnapshotInv'
  <2>1. \A m \in Nat : m < seq => m < seq'
    BY <1>1, <1>4
  <2>2. latest_snapshot \in Nat /\ listed \in Nat /\ last_loaded_entry \in Nat
    BY Zenon DEF LogType, ThreadType
  <2> QED BY <1>2, <2>1, <2>2, Zenon DEF SnapshotInv
<1>20. NotYetCommitted'
  BY <1>2, <1>5, <1>9, Zenon DEF NotYetCommitted
<1>21. (UndecidedNotSent /\ RolledBackStampNotSent)'
  BY <1>2, <1>9, Zenon DEF UndecidedNotSent, RolledBackStampNotSent
<1>22. TailOrder'
  <2>1. \A m \in Nat : m < seq => m < seq'
    BY <1>1, <1>4
  <2>2. zk_tail_ptr \in Nat
    BY Zenon DEF KeeperType
  <2> QED BY <1>2, <2>1, <2>2, Zenon DEF TailOrder
<1>23. (RemovedBehindTail /\ LastEntryKept)'
  BY <1>1, <1>2, Zenon DEF RemovedBehindTail, LastEntryKept
<1>24. LoadedComplete'
  <2>1. last_loaded_entry < n.csn
    BY <1>4, Zenon DEF SnapshotInv
  <2>2. ~(n.csn <= last_loaded_entry)
    BY <2>1, <1>4 DEF LogType
  <2> QED BY <2>2, <1>1, <1>2, Zenon DEF LoadedComplete
<1>25. ReadyListed'
  <2> SUFFICES ASSUME upc = "load", NEW t \in unknown_state_list_loaded, NEW e \in history',
                      e.tid = tid[t]
               PROVE  e.csn <= listed
    BY <1>2, Zenon DEF ReadyListed
  <2>1. t \in Txn /\ t # u
    BY <1>10, Zenon DEF ReadyNotLive, RunningType
  <2>2. e \in history
    BY <2>1, <1>1, <1>8, Zenon
  <2> QED BY <2>2, Zenon DEF ReadyListed
<1>26. ReadyLoaded'
  <2> SUFFICES ASSUME upc \in {"publish", "tail", "prune", "remove", "swap"},
                      NEW t \in unknown_state_list_loaded, Committed(t)'
               PROVE  Loaded(t)'
    BY <1>2, Zenon DEF ReadyLoaded
  <2>1. t \in Txn /\ t # u
    BY <1>10, Zenon DEF ReadyNotLive, RunningType
  <2> QED BY <2>1, <1>9, Zenon DEF ReadyLoaded
<1>27. FinalizingLoaded'
  <2> SUFFICES ASSUME NEW t \in finalizing
               PROVE  ~Live(t)' /\ (Committed(t)' => Loaded(t)')
    BY <1>2, Zenon DEF FinalizingLoaded
  <2>1. t \in Txn /\ ~Live(t) /\ t # u
    BY <1>10, Zenon DEF FinalizingLoaded, ThreadType
  <2> QED BY <2>1, <1>7, <1>9, Zenon DEF FinalizingLoaded
<1>28. DeadInv'
  <2> SUFFICES ASSUME server # "down", NEW t \in Txn, pc[t] = "dead"
               PROVE  /\ ~Live(t)'
                      /\ \A e \in history' : e.tid = tid[t] =>
                            e \in tid_to_csn \/ e.tid.start_csn < tail_ptr
    BY <1>2, Zenon DEF DeadInv
  <2>1. ~Live(t) /\ t # u
    BY <1>10, Zenon DEF DeadInv
  <2>2. \A e \in history' : e.tid = tid[t] => e \in history
    BY <2>1, <1>1, <1>8, Zenon
  <2> QED BY <2>1, <2>2, <1>7, Zenon DEF DeadInv
<1> QED BY <1>11, <1>12, <1>13, <1>14, <1>15, <1>16, <1>17, <1>18, <1>19, <1>20, <1>21, <1>22,
   <1>23, <1>24, <1>25, <1>26, <1>27, <1>28, Zenon

\* Keeper creates the node of a request of the current session, or drops the request.
LEMMA keeperProcessInv ==
  ASSUME IInv, NEW r \in inflight, keeperProcess(r)
  PROVE  IInv'
BY keeperDropsInv, keeperCreatesInv, Zenon
=============================================================================
