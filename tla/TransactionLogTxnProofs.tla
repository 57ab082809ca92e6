---------------------- MODULE TransactionLogTxnProofs -----------------------
(***************************************************************************)
(* What the proofs for the single steps share: the variables that each     *)
(* part of the invariant depends on (Frames), what follows from the        *)
(* invariant about numbers, and what a step of one transaction has to      *)
(* leave true (TxnStepInv).  Then: the steps of a transaction after its    *)
(* commit request, and its rollback, keep the invariant of the log.        *)
(***************************************************************************)
EXTENDS TransactionLogInv, TLAPS

USE SMTT(30), ZenonT(30)

-----------------------------------------------------------------------------
(* The frames                                                              *)

\* Each part of the invariant depends on some of the variables only.
LEMMA Frames ==
  /\ UNCHANGED <<log, seq, zk_tail_ptr, session_node_version, inflight, history>> /\
       KeeperType => KeeperType'
  /\ UNCHANGED <<zk_version, expired, watch, log_updated_event>> /\ ConnectionType =>
       ConnectionType'
  /\ UNCHANGED <<server, tid_to_csn, last_loaded_entry, latest_snapshot, local_tid_counter,
       tail_ptr>> /\ LogType => LogType'
  /\ UNCHANGED <<running_list, snapshots_in_use, unknown_state_list,
       unknown_state_list_loaded>> /\ RunningType => RunningType'
  /\ UNCHANGED <<upc, listed, new_tail_ptr, finalizing>> /\ ThreadType => ThreadType'
  /\ UNCHANGED <<pc, tid, csn, changed, stamped, faults, crashes>> /\ TxnType => TxnType'
  /\ UNCHANGED <<session_node_version, inflight, zk_version>> /\ VersionInv => VersionInv'
  /\ UNCHANGED <<inflight>> /\ OneRequest => OneRequest'
  /\ UNCHANGED <<inflight, pc, tid, history>> /\ RequestSent => RequestSent'
  /\ UNCHANGED <<session_node_version, inflight, expired, pc>> /\ LostRequest =>
       LostRequest'
  /\ UNCHANGED <<log, tid_to_csn, history>> /\ LogInHistory => LogInHistory'
  /\ UNCHANGED <<seq, history>> /\ EntriesBelowSeq => EntriesBelowSeq'
  /\ UNCHANGED <<tid, history>> /\ EntriesOfTxns => EntriesOfTxns'
  /\ UNCHANGED <<pc, tid>> /\ IdleIsEmpty => IdleIsEmpty'
  /\ UNCHANGED <<latest_snapshot, local_tid_counter, pc, tid>> /\ TidsInPast => TidsInPast'
  /\ UNCHANGED <<tid>> /\ UniqueTID => UniqueTID'
  /\ UNCHANGED <<seq, last_loaded_entry, latest_snapshot, upc, listed>> /\ SnapshotInv =>
       SnapshotInv'
  /\ UNCHANGED <<expired, server, running_list, snapshots_in_use, upc, pc>> /\ DownInv =>
       DownInv'
  /\ UNCHANGED <<running_list, pc, csn>> /\ RunningPc => RunningPc'
  /\ UNCHANGED <<running_list, snapshots_in_use>> /\ SnapshotsOfRunning =>
       SnapshotsOfRunning'
  /\ UNCHANGED <<snapshots_in_use, tid>> /\ SnapshotsSorted => SnapshotsSorted'
  /\ UNCHANGED <<running_list, unknown_state_list, unknown_state_list_loaded, upc,
       finalizing, pc, csn>> /\ UnknownInv => UnknownInv'
  /\ UNCHANGED <<pc, csn>> /\ CsnOfPc => CsnOfPc'
  /\ UNCHANGED <<pc, tid, history>> /\ NotYetCommitted => NotYetCommitted'
  /\ UNCHANGED <<session_node_version, inflight, pc, tid, csn, history>> /\ UndecidedNotSent
       => UndecidedNotSent'
  /\ UNCHANGED <<pc, csn, stamped>> /\ StampIsCsn => StampIsCsn'
  /\ UNCHANGED <<session_node_version, inflight, tid, stamped, history>> /\
       RolledBackStampNotSent => RolledBackStampNotSent'
  /\ UNCHANGED <<seq, zk_tail_ptr, server, latest_snapshot, tail_ptr, upc, new_tail_ptr>> /\
       TailOrder => TailOrder'
  /\ UNCHANGED <<zk_tail_ptr, running_list, upc, new_tail_ptr, tid>> /\ TailBehindRunning =>
       TailBehindRunning'
  /\ UNCHANGED <<log, tail_ptr, history>> /\ RemovedBehindTail => RemovedBehindTail'
  /\ UNCHANGED <<log, server, last_loaded_entry, upc, listed>> /\ LastEntryKept =>
       LastEntryKept'
  /\ UNCHANGED <<log, server, tid_to_csn, last_loaded_entry>> /\ LoadedComplete =>
       LoadedComplete'
  /\ UNCHANGED <<session_node_version, inflight, unknown_state_list_loaded, upc>> /\
       ReadyNotLive => ReadyNotLive'
  /\ UNCHANGED <<unknown_state_list_loaded, upc, listed, tid, history>> /\ ReadyListed =>
       ReadyListed'
  /\ UNCHANGED <<tid_to_csn, unknown_state_list_loaded, upc, tid, history>> /\ ReadyLoaded
       => ReadyLoaded'
  /\ UNCHANGED <<session_node_version, inflight, tid_to_csn, finalizing, tid, history>> /\
       FinalizingLoaded => FinalizingLoaded'
  /\ UNCHANGED <<session_node_version, inflight, server, tid_to_csn, tail_ptr, pc, tid,
       history>> /\ DeadInv => DeadInv'
<1>1. UNCHANGED <<log, seq, zk_tail_ptr, session_node_version, inflight, history>> /\
       KeeperType => KeeperType'
  BY Zenon DEF KeeperType
<1>2. UNCHANGED <<zk_version, expired, watch, log_updated_event>> /\ ConnectionType =>
       ConnectionType'
  BY Zenon DEF ConnectionType
<1>3. UNCHANGED <<server, tid_to_csn, last_loaded_entry, latest_snapshot, local_tid_counter,
       tail_ptr>> /\ LogType => LogType'
  BY Zenon DEF LogType
<1>4. UNCHANGED <<running_list, snapshots_in_use, unknown_state_list,
       unknown_state_list_loaded>> /\ RunningType => RunningType'
  BY Zenon DEF RunningType
<1>5. UNCHANGED <<upc, listed, new_tail_ptr, finalizing>> /\ ThreadType => ThreadType'
  BY Zenon DEF ThreadType
<1>6. UNCHANGED <<pc, tid, csn, changed, stamped, faults, crashes>> /\ TxnType => TxnType'
  BY Zenon DEF TxnType
<1>7. UNCHANGED <<session_node_version, inflight, zk_version>> /\ VersionInv => VersionInv'
  BY Zenon DEF VersionInv
<1>8. UNCHANGED <<inflight>> /\ OneRequest => OneRequest'
  BY Zenon DEF OneRequest
<1>9. UNCHANGED <<inflight, pc, tid, history>> /\ RequestSent => RequestSent'
  BY Zenon DEF RequestSent, Committed
<1>10. UNCHANGED <<session_node_version, inflight, expired, pc>> /\ LostRequest =>
       LostRequest'
  BY DEF LostRequest, Live, SessionValid
<1>11. UNCHANGED <<log, tid_to_csn, history>> /\ LogInHistory => LogInHistory'
  BY Zenon DEF LogInHistory
<1>12. UNCHANGED <<seq, history>> /\ EntriesBelowSeq => EntriesBelowSeq'
  BY Zenon DEF EntriesBelowSeq
<1>13. UNCHANGED <<tid, history>> /\ EntriesOfTxns => EntriesOfTxns'
  BY Zenon DEF EntriesOfTxns
<1>14. UNCHANGED <<pc, tid>> /\ IdleIsEmpty => IdleIsEmpty'
  BY Zenon DEF IdleIsEmpty
<1>15. UNCHANGED <<latest_snapshot, local_tid_counter, pc, tid>> /\ TidsInPast =>
       TidsInPast'
  BY Zenon DEF TidsInPast
<1>16. UNCHANGED <<tid>> /\ UniqueTID => UniqueTID'
  BY Zenon DEF UniqueTID
<1>17. UNCHANGED <<seq, last_loaded_entry, latest_snapshot, upc, listed>> /\ SnapshotInv =>
       SnapshotInv'
  BY Zenon DEF SnapshotInv
<1>18. UNCHANGED <<expired, server, running_list, snapshots_in_use, upc, pc>> /\ DownInv =>
       DownInv'
  BY DEF DownInv
<1>19. UNCHANGED <<running_list, pc, csn>> /\ RunningPc => RunningPc'
  BY Zenon DEF RunningPc
<1>20. UNCHANGED <<running_list, snapshots_in_use>> /\ SnapshotsOfRunning =>
       SnapshotsOfRunning'
  BY Zenon DEF SnapshotsOfRunning
<1>21. UNCHANGED <<snapshots_in_use, tid>> /\ SnapshotsSorted => SnapshotsSorted'
  BY Zenon DEF SnapshotsSorted
<1>22. UNCHANGED <<running_list, unknown_state_list, unknown_state_list_loaded, upc,
       finalizing, pc, csn>> /\ UnknownInv => UnknownInv'
  BY Zenon DEF UnknownInv
<1>23. UNCHANGED <<pc, csn>> /\ CsnOfPc => CsnOfPc'
  BY Zenon DEF CsnOfPc
<1>24. UNCHANGED <<pc, tid, history>> /\ NotYetCommitted => NotYetCommitted'
  BY Zenon DEF NotYetCommitted, Committed
<1>25. UNCHANGED <<session_node_version, inflight, pc, tid, csn, history>> /\
       UndecidedNotSent => UndecidedNotSent'
  BY Zenon DEF UndecidedNotSent, Sent, Live, Committed, SessionValid
<1>26. UNCHANGED <<pc, csn, stamped>> /\ StampIsCsn => StampIsCsn'
  BY Zenon DEF StampIsCsn, Decided
<1>27. UNCHANGED <<session_node_version, inflight, tid, stamped, history>> /\
       RolledBackStampNotSent => RolledBackStampNotSent'
  BY Zenon DEF RolledBackStampNotSent, Sent, Live, Committed, SessionValid
<1>28. UNCHANGED <<seq, zk_tail_ptr, server, latest_snapshot, tail_ptr, upc, new_tail_ptr>>
       /\ TailOrder => TailOrder'
  BY Zenon DEF TailOrder
<1>29. UNCHANGED <<zk_tail_ptr, running_list, upc, new_tail_ptr, tid>> /\ TailBehindRunning
       => TailBehindRunning'
  BY Zenon DEF TailBehindRunning
<1>30. UNCHANGED <<log, tail_ptr, history>> /\ RemovedBehindTail => RemovedBehindTail'
  BY Zenon DEF RemovedBehindTail
<1>31. UNCHANGED <<log, server, last_loaded_entry, upc, listed>> /\ LastEntryKept =>
       LastEntryKept'
  BY Zenon DEF LastEntryKept
<1>32. UNCHANGED <<log, server, tid_to_csn, last_loaded_entry>> /\ LoadedComplete =>
       LoadedComplete'
  BY Zenon DEF LoadedComplete
<1>33. UNCHANGED <<session_node_version, inflight, unknown_state_list_loaded, upc>> /\
       ReadyNotLive => ReadyNotLive'
  BY Zenon DEF ReadyNotLive, Live, SessionValid
<1>34. UNCHANGED <<unknown_state_list_loaded, upc, listed, tid, history>> /\ ReadyListed =>
       ReadyListed'
  BY Zenon DEF ReadyListed
<1>35. UNCHANGED <<tid_to_csn, unknown_state_list_loaded, upc, tid, history>> /\ ReadyLoaded
       => ReadyLoaded'
  BY Zenon DEF ReadyLoaded, Committed, Loaded
<1>36. UNCHANGED <<session_node_version, inflight, tid_to_csn, finalizing, tid, history>> /\
       FinalizingLoaded => FinalizingLoaded'
  BY Zenon DEF FinalizingLoaded, Live, Committed, Loaded, SessionValid
<1>37. UNCHANGED <<session_node_version, inflight, server, tid_to_csn, tail_ptr, pc, tid,
       history>> /\ DeadInv => DeadInv'
  BY Zenon DEF DeadInv, Live, SessionValid
<1> QED BY <1>1, <1>2, <1>3, <1>4, <1>5, <1>6, <1>7, <1>8, <1>9, <1>10, <1>11, <1>12, <1>13,
          <1>14, <1>15, <1>16, <1>17, <1>18, <1>19, <1>20, <1>21, <1>22, <1>23, <1>24,
          <1>25, <1>26, <1>27, <1>28, <1>29, <1>30, <1>31, <1>32, <1>33, <1>34, <1>35,
          <1>36, <1>37, Zenon

\* getOldestSnapshot is not after the start of any running transaction.
LEMMA OldestSnapshotBound ==
  ASSUME IInv
  PROVE  /\ OldestSnapshot <= latest_snapshot
         /\ \A t \in running_list : OldestSnapshot <= tid[t].start_csn
<1>1. CASE snapshots_in_use = <<>>
  <2>1. running_list = {}
    BY <1>1 DEF IInv, SnapshotsOfRunning
  <2>2. OldestSnapshot = latest_snapshot /\ latest_snapshot \in Nat
    BY <1>1, Zenon DEF IInv, TypeOK, LogType, OldestSnapshot
  <2> QED BY <2>1, <2>2
<1>2. CASE snapshots_in_use # <<>>
  <2> DEFINE h == snapshots_in_use[1]
  <2>1. snapshots_in_use \in Seq(Txn) /\ Len(snapshots_in_use) \in Nat /\ 1 \in 1 ..
            Len(snapshots_in_use)
    BY <1>2 DEF IInv, TypeOK, RunningType
  <2>2. h \in running_list /\ h \in Txn /\ OldestSnapshot = tid[h].start_csn
    BY <1>2, <2>1 DEF IInv, TypeOK, RunningType, SnapshotsOfRunning, OldestSnapshot
  <2>3. tid[h].start_csn \in Nat /\ latest_snapshot \in Nat
    BY <2>2, Zenon DEF IInv, TypeOK, LogType, TxnType, TransactionID
  <2>4. OldestSnapshot <= latest_snapshot
    BY <2>2, <2>3, Zenon DEF IInv, RunningPc, TidsInPast
  <2>5. ASSUME NEW t \in running_list PROVE OldestSnapshot <= tid[t].start_csn
    <3>1. PICK i \in 1 .. Len(snapshots_in_use) : snapshots_in_use[i] = t
      BY Zenon DEF IInv, SnapshotsOfRunning
    <3>2. CASE i = 1
      BY <3>1, <3>2, <2>2, <2>3
    <3>3. CASE 1 < i
      BY <3>1, <3>3, <2>1, <2>2, Zenon DEF IInv, SnapshotsSorted
    <3> QED BY <2>1, <3>2, <3>3
  <2> QED BY <2>4, <2>5, Zenon
<1> QED BY <1>1, <1>2, Zenon

\* The entry of a running transaction is not pruned.
LEMMA EntryOfRunning ==
  ASSUME IInv, NEW t \in running_list, NEW e \in history, e.tid = tid[t]
  PROVE  e \in log
<1> SUFFICES ASSUME IInv PROVE e \in log
  BY Zenon DEF IInv
<1>1. t \in Txn /\ tid[t] # EmptyTID
  BY Zenon DEF IInv, TypeOK, RunningType, RunningPc, IdleIsEmpty
<1>2. tid[t].start_csn \in Nat /\ tail_ptr \in Nat /\ zk_tail_ptr \in Nat
  BY <1>1, Zenon DEF IInv, TypeOK, LogType, TxnType, KeeperType, TransactionID
<1>3. tail_ptr <= tid[t].start_csn
  BY <1>2 DEF IInv, TailOrder, TailBehindRunning
<1> QED BY <1>1, <1>2, <1>3 DEF IInv, RemovedBehindTail

\* The numbers the invariant compares are natural.
LEMMA Numbers ==
  ASSUME IInv
  PROVE  /\ seq \in Nat /\ zk_tail_ptr \in Nat /\ session_node_version \in Nat
         /\ last_loaded_entry \in Nat /\ latest_snapshot \in Nat /\ tail_ptr \in Nat
         /\ local_tid_counter \in Nat /\ listed \in Nat /\ new_tail_ptr \in Nat
         /\ \A e \in history : e.csn \in Nat /\ e.tid.start_csn \in Nat
         /\ \A t \in Txn : tid[t].start_csn \in Nat /\ tid[t].local_tid \in Nat
         /\ \A r \in inflight : r.txn \in Txn /\ r.version \in Nat
<1>1. \A e \in history : e.csn \in Nat /\ e.tid.start_csn \in Nat
  BY Zenon DEF IInv, TypeOK, KeeperType, CSNEntry, TransactionID
<1>2. \A t \in Txn : tid[t].start_csn \in Nat /\ tid[t].local_tid \in Nat
  BY Zenon DEF IInv, TypeOK, TxnType, TransactionID
<1>3. \A r \in inflight : r.txn \in Txn /\ r.version \in Nat
  BY Zenon DEF IInv, TypeOK, KeeperType
<1> QED BY <1>1, <1>2, <1>3, Zenon DEF IInv, TypeOK, KeeperType, LogType, ThreadType

\* The special CSNs differ from each other and from the number of every entry.
LEMMA SpecialCSNs ==
  /\ UnknownCSN \in Nat /\ CommittingCSN \in Nat /\ RolledBackCSN \in Nat
  /\ UnknownCSN # CommittingCSN /\ UnknownCSN # RolledBackCSN /\ CommittingCSN # RolledBackCSN
  /\ \A c \in Nat : MaxReservedCSN <= c /\ c < MaxCSN + MaxReservedCSN + 2 =>
       c \notin {UnknownCSN, CommittingCSN, RolledBackCSN}
  BY BoundsAssumption DEF UnknownCSN, CommittingCSN, RolledBackCSN, MaxReservedCSN

\* The number of an entry is none of the special ones.
LEMMA EntryCSN ==
  ASSUME IInv, NEW e \in history
  PROVE  e.csn \in Nat /\ e.csn \notin {UnknownCSN, CommittingCSN, RolledBackCSN}
<1>1. e.csn \in Nat /\ seq \in Nat
  BY Zenon DEF IInv, TypeOK, KeeperType, CSNEntry
<1>2. MaxReservedCSN <= e.csn /\ e.csn < seq /\ seq <= MaxCSN + MaxReservedCSN + 1
  BY Zenon DEF IInv, EntriesBelowSeq
<1>3. e.csn < MaxCSN + MaxReservedCSN + 2
  BY <1>1, <1>2, BoundsAssumption DEF MaxReservedCSN
<1> QED BY <1>1, <1>2, <1>3, SpecialCSNs, Zenon

-----------------------------------------------------------------------------
(* The steps                                                               *)

\* What a step of one transaction that changes only its own pc and csn must leave
\* true of that transaction, to keep the invariant.
LEMMA TxnStepInv ==
  ASSUME NEW t \in Txn, IInv,
         UNCHANGED <<keeperVars, connVars, server, loadVars, runVars, unknownVars, updVars, tid,
                     stamped, history>>,
         TxnType', \A u \in Txn : u # t => pc'[u] = pc[u] /\ csn'[u] = csn[u],
         pc[t] \notin {"idle", "dead"}, pc'[t] \notin {"idle", "dead"},
         pc'[t] \in {"run", "send"} => pc[t] \in {"run", "send"},
         Live(t) /\ pc'[t] # "wait" => expired,
         pc'[t] # "end" => t \in running_list,
         pc'[t] = "run" => csn'[t] \in {UnknownCSN, RolledBackCSN},
         pc'[t] \in {"send", "wait", "lost"} => csn'[t] = CommittingCSN,
         t \notin unknown_state_list \cup unknown_state_list_loaded,
         t \in finalizing => pc'[t] = "end",
         csn'[t] \in {UnknownCSN, RolledBackCSN} => ~Sent(t),
         stamped[t] # UnknownCSN => csn'[t] = csn[t]
  PROVE  IInv'
<1>1. UNCHANGED <<log, seq, zk_tail_ptr, session_node_version, inflight, zk_version, expired,
                   watch, log_updated_event, server, tid_to_csn, last_loaded_entry,
                   latest_snapshot, local_tid_counter, tail_ptr, running_list,
                   snapshots_in_use, unknown_state_list, unknown_state_list_loaded, upc,
                   listed, new_tail_ptr, finalizing, tid, stamped, history>>
  BY Zenon DEF keeperVars, connVars, loadVars, runVars, unknownVars, updVars
<1> USE DEF IInv, TypeOK
<1>2. (KeeperType /\ ConnectionType /\ LogType /\ RunningType /\ ThreadType /\ VersionInv /\
       OneRequest /\ LogInHistory /\ EntriesBelowSeq /\ EntriesOfTxns /\ UniqueTID /\
       SnapshotInv /\ SnapshotsOfRunning /\ SnapshotsSorted /\ RolledBackStampNotSent /\
       TailOrder /\ TailBehindRunning /\ RemovedBehindTail /\ LastEntryKept /\ LoadedComplete
       /\ ReadyNotLive /\ ReadyListed /\ ReadyLoaded /\ FinalizingLoaded)'
  BY <1>1, Frames, Zenon
<1>3. ASSUME NEW u PROVE /\ Live(u)' <=> Live(u)
                         /\ Committed(u)' <=> Committed(u)
                         /\ Sent(u)' <=> Sent(u)
  BY <1>1, Zenon DEF Live, SessionValid, Committed, Sent
<1>4. (IdleIsEmpty /\ TidsInPast /\ DownInv)'
  BY <1>1, Zenon DEF IdleIsEmpty, TidsInPast, DownInv
<1>5. RequestSent'
  <2>1. \A r \in inflight : r.txn \in Txn
    BY Zenon DEF KeeperType
  <2> QED BY <2>1, <1>1, <1>3, Zenon DEF RequestSent
<1>6. (LostRequest /\ NotYetCommitted)'
  BY <1>1, <1>3, Zenon DEF LostRequest, NotYetCommitted
<1>7. RunningPc'
  BY <1>1, Zenon DEF RunningPc
<1>8. UnknownInv'
  <2>1. \A u \in unknown_state_list \cup unknown_state_list_loaded : u \in Txn /\ u # t
    BY Zenon DEF RunningType
  <2>2. \A u \in finalizing : u \in Txn
    BY Zenon DEF ThreadType
  <2> QED BY <1>1, <2>1, <2>2, Zenon DEF UnknownInv
<1>9. CsnOfPc'
  BY Zenon DEF CsnOfPc
<1>10. UndecidedNotSent'
  BY <1>3, Zenon DEF UndecidedNotSent
<1>11. StampIsCsn'
  BY <1>1, Zenon DEF StampIsCsn, Decided
<1>12. DeadInv'
  BY <1>1, <1>3, Zenon DEF DeadInv
<1> QED BY <1>2, <1>4, <1>5, <1>6, <1>7, <1>8, <1>9, <1>10, <1>11, <1>12, Zenon

\* A request that fails before it is sent leaves no trace in Keeper.
LEMMA failBeforeSendInv ==
  ASSUME NEW t \in Txn, IInv, failBeforeSend(t)
  PROVE  IInv'
<1>1. UNCHANGED <<keeperVars, connVars, server, loadVars, runVars, unknownVars, updVars, tid,
                  stamped, history>>
  BY Zenon DEF failBeforeSend
<1>2. TxnType'
  <2>1. faults' \in Nat
    BY DEF failBeforeSend, IInv, TypeOK, TxnType
  <2> QED BY <2>1, Zenon DEF failBeforeSend, IInv, TypeOK, TxnType
<1>3. /\ pc[t] = "send" /\ pc'[t] = "lost" /\ csn' = csn
      /\ \A u \in Txn : u # t => pc'[u] = pc[u]
  BY Zenon DEF failBeforeSend, IInv, TypeOK, TxnType
<1>4. t \in running_list /\ csn[t] = CommittingCSN /\ (Live(t) => expired)
  BY <1>3, Zenon DEF IInv, RunningPc, CsnOfPc, LostRequest
<1>5. t \notin unknown_state_list \cup unknown_state_list_loaded \cup finalizing
  BY <1>3, Zenon DEF IInv, UnknownInv
<1> QED BY <1>1, <1>2, <1>3, <1>4, <1>5, SpecialCSNs, TxnStepInv, Zenon

\* A refused commit was not sent: the transaction may be rolled back.
LEMMA refuseCommitInv ==
  ASSUME NEW t \in Txn, IInv, refuseCommit(t)
  PROVE  IInv'
<1>1. UNCHANGED <<keeperVars, connVars, server, loadVars, runVars, unknownVars, updVars, tid,
                  stamped, history>>
  BY Zenon DEF refuseCommit
<1>2. TxnType'
  <2>1. faults' \in Nat
    BY DEF refuseCommit, IInv, TypeOK, TxnType
  <2> QED BY <2>1, SpecialCSNs, Zenon DEF refuseCommit, IInv, TypeOK, TxnType
<1>3. /\ pc[t] = "send" /\ pc'[t] = "end" /\ csn'[t] = UnknownCSN
      /\ \A u \in Txn : u # t => pc'[u] = pc[u] /\ csn'[u] = csn[u]
  BY Zenon DEF refuseCommit, IInv, TypeOK, TxnType
<1>4. csn[t] = CommittingCSN /\ (Live(t) => expired)
  BY <1>3, Zenon DEF IInv, CsnOfPc, LostRequest
<1>5. t \notin unknown_state_list \cup unknown_state_list_loaded \cup finalizing
  BY <1>3, Zenon DEF IInv, UnknownInv
<1>6. ~Sent(t)
  BY <1>3, Zenon DEF IInv, RequestSent, NotYetCommitted, Sent, Live
<1>7. stamped[t] = UnknownCSN
  BY <1>3, <1>4, Zenon DEF IInv, StampIsCsn, Decided
<1> QED BY <1>1, <1>2, <1>3, <1>4, <1>5, <1>6, <1>7, TxnStepInv, Zenon

\* The allocated CSN is above the reserved ones, and its request is gone.
LEMMA commitDoneInv ==
  ASSUME NEW t \in Txn, IInv, commitDone(t)
  PROVE  IInv'
<1>1. UNCHANGED <<keeperVars, connVars, server, loadVars, runVars, unknownVars, updVars, tid,
                  stamped, history>>
  BY Zenon DEF commitDone
<1>2. PICK c : [csn |-> c, tid |-> tid[t]] \in history /\ csn' = [csn EXCEPT ![t] = c]
  BY Zenon DEF commitDone, AllocatedCSN
<1>3. c \in Nat /\ c \notin {UnknownCSN, CommittingCSN, RolledBackCSN}
  BY <1>2, EntryCSN
<1>4. TxnType'
  BY <1>2, <1>3, Zenon DEF commitDone, IInv, TypeOK, TxnType, boundVars
<1>5. /\ pc[t] = "wait" /\ pc'[t] = "end" /\ csn'[t] = c
      /\ \A u \in Txn : u # t => pc'[u] = pc[u] /\ csn'[u] = csn[u]
  BY <1>2, Zenon DEF commitDone, IInv, TypeOK, TxnType
<1>6. t \notin unknown_state_list \cup unknown_state_list_loaded \cup finalizing
  BY <1>5, Zenon DEF IInv, UnknownInv
<1>7. ~Live(t)
  <2>1. Committed(t)
    BY <1>2, <1>5 DEF IInv, IdleIsEmpty, Committed
  <2> QED BY <2>1, Zenon DEF IInv, RequestSent, Live
<1>8. stamped[t] = UnknownCSN
  BY <1>5, Zenon DEF IInv, CsnOfPc, StampIsCsn, Decided
<1> QED BY <1>1, <1>3, <1>4, <1>5, <1>6, <1>7, <1>8, TxnStepInv, Zenon

\* After an injected fault the request is no longer under way.
LEMMA faultAfterCommitInv ==
  ASSUME NEW t \in Txn, IInv, faultAfterCommit(t)
  PROVE  IInv'
<1>1. UNCHANGED <<keeperVars, connVars, server, loadVars, runVars, unknownVars, updVars, tid,
                  stamped, history>>
  BY Zenon DEF faultAfterCommit
<1>2. TxnType'
  <2>1. faults' \in Nat
    BY DEF faultAfterCommit, IInv, TypeOK, TxnType
  <2> QED BY <2>1, Zenon DEF faultAfterCommit, IInv, TypeOK, TxnType
<1>3. /\ pc[t] = "wait" /\ pc'[t] = "lost" /\ csn' = csn
      /\ \A u \in Txn : u # t => pc'[u] = pc[u]
  BY Zenon DEF faultAfterCommit, IInv, TypeOK, TxnType
<1>4. t \in running_list /\ csn[t] = CommittingCSN
  BY <1>3, Zenon DEF IInv, RunningPc, CsnOfPc
<1>5. t \notin unknown_state_list \cup unknown_state_list_loaded \cup finalizing
  BY <1>3, Zenon DEF IInv, UnknownInv
<1>6. ~Live(t)
  <2>1. Committed(t)
    BY <1>3, Zenon DEF faultAfterCommit, IInv, IdleIsEmpty, Committed
  <2> QED BY <2>1, Zenon DEF IInv, RequestSent, Live
<1> QED BY <1>1, <1>2, <1>3, <1>4, <1>5, <1>6, SpecialCSNs, TxnStepInv, Zenon

\* A transaction in unknown state keeps its place in running_list.
LEMMA postponeFinalizationInv ==
  ASSUME NEW t \in Txn, IInv, postponeFinalization(t)
  PROVE  IInv'
<1> USE DEF IInv, TypeOK
<1>1. UNCHANGED <<log, seq, zk_tail_ptr, session_node_version, inflight, zk_version, server,
                   tid_to_csn, last_loaded_entry, latest_snapshot, local_tid_counter,
                   tail_ptr, running_list, snapshots_in_use, unknown_state_list_loaded, upc,
                   listed, new_tail_ptr, finalizing, tid, stamped, history>>
  BY Zenon DEF postponeFinalization, keeperVars, loadVars, runVars, updVars, boundVars
<1>2. (KeeperType /\ LogType /\ ThreadType /\ VersionInv /\ OneRequest /\ LogInHistory /\
       EntriesBelowSeq /\ EntriesOfTxns /\ UniqueTID /\ SnapshotInv /\ SnapshotsOfRunning /\
       SnapshotsSorted /\ RolledBackStampNotSent /\ TailOrder /\ TailBehindRunning /\
       RemovedBehindTail /\ LastEntryKept /\ LoadedComplete /\ ReadyNotLive /\ ReadyListed /\
       ReadyLoaded /\ FinalizingLoaded)'
  BY <1>1, Frames, Zenon
<1>3. /\ pc[t] = "lost" /\ pc'[t] = "end" /\ \A u \in Txn : u # t => pc'[u] = pc[u]
      /\ csn' = csn /\ unknown_state_list' = unknown_state_list \cup {t}
      /\ expired' = expired /\ watch' = watch /\ log_updated_event' = TRUE
  BY Zenon DEF postponeFinalization, TxnType
<1>4. (ConnectionType /\ RunningType)'
  BY <1>1, <1>3, Zenon DEF ConnectionType, RunningType
<1>5. TxnType'
  BY Zenon DEF postponeFinalization, TxnType, boundVars
<1>6. ASSUME NEW u PROVE /\ Live(u)' <=> Live(u)
                         /\ Committed(u)' <=> Committed(u)
                         /\ Sent(u)' <=> Sent(u)
  BY <1>1, Zenon DEF Live, SessionValid, Committed, Sent
<1>7. (RequestSent /\ LostRequest)'
  <2>1. \A q \in inflight : q.txn \in Txn
    BY Zenon DEF KeeperType
  <2> QED BY <2>1, <1>1, <1>3, <1>6, Zenon DEF RequestSent, LostRequest
<1>8. (IdleIsEmpty /\ TidsInPast /\ DownInv /\ RunningPc /\ CsnOfPc)'
  BY <1>1, <1>3, Zenon DEF IdleIsEmpty, TidsInPast, DownInv, RunningPc, CsnOfPc
<1>9. (NotYetCommitted /\ UndecidedNotSent /\ StampIsCsn /\ DeadInv)'
  BY <1>1, <1>3, <1>6, Zenon DEF NotYetCommitted, UndecidedNotSent, StampIsCsn, Decided,
     DeadInv
<1>10. UnknownInv'
  <2>1. /\ t \in running_list /\ csn[t] = CommittingCSN
        /\ t \notin finalizing /\ t \notin unknown_state_list_loaded
    BY <1>3, Zenon DEF RunningPc, CsnOfPc, UnknownInv
  <2>2. \A u \in unknown_state_list \cup unknown_state_list_loaded \cup finalizing : u \in Txn
    BY Zenon DEF RunningType, ThreadType
  <2> QED BY <1>1, <1>3, <2>1, <2>2, Zenon DEF UnknownInv
<1> QED BY <1>2, <1>4, <1>5, <1>7, <1>8, <1>9, <1>10, Zenon

\* Only a transaction without a request in Keeper is rolled back.
LEMMA rollbackInv ==
  ASSUME NEW t \in Txn, IInv, rollback(t)
  PROVE  IInv'
<1>1. /\ UNCHANGED <<keeperVars, connVars, server, loadVars, runVars, unknownVars, updVars, tid,
                     stamped, history>>
      /\ pc' = pc /\ t \in running_list /\ csn[t] = UnknownCSN
  BY Zenon DEF rollback
<1>2. TxnType'
  BY SpecialCSNs, Zenon DEF rollback, IInv, TypeOK, TxnType, boundVars
<1>3. csn'[t] = RolledBackCSN /\ \A u \in Txn : u # t => csn'[u] = csn[u]
  BY Zenon DEF rollback, IInv, TypeOK, TxnType
<1>4. pc[t] \in {"run", "end"}
  BY <1>1, SpecialCSNs, Zenon DEF IInv, TypeOK, TxnType, RunningPc, CsnOfPc
<1>5. /\ t \notin unknown_state_list \cup unknown_state_list_loaded
      /\ t \in finalizing => pc[t] = "end"
  BY <1>1, SpecialCSNs, Zenon DEF IInv, UnknownInv
<1>6. ~Sent(t) /\ stamped[t] = UnknownCSN
  BY <1>1, <1>4, Zenon DEF IInv, UndecidedNotSent, StampIsCsn, Decided
<1>7. ~Live(t)
  BY <1>6, Zenon DEF Sent
<1> QED BY <1>1, <1>2, <1>3, <1>4, <1>5, <1>6, <1>7, TxnStepInv, Zenon

\* The parts get the CSN of their transaction.
LEMMA stampPartsInv ==
  ASSUME NEW t \in Txn, IInv, stampParts(t)
  PROVE  IInv'
<1> USE DEF IInv, TypeOK
<1>1. UNCHANGED <<log, seq, zk_tail_ptr, session_node_version, inflight, zk_version, expired,
                   watch, log_updated_event, server, tid_to_csn, last_loaded_entry,
                   latest_snapshot, local_tid_counter, tail_ptr, running_list,
                   snapshots_in_use, unknown_state_list, unknown_state_list_loaded, upc,
                   listed, new_tail_ptr, finalizing, pc, tid, csn, history>>
  BY Zenon DEF stampParts, Decided, keeperVars, connVars, loadVars, runVars, unknownVars,
     updVars, txnVars, boundVars
<1>2. (KeeperType /\ ConnectionType /\ LogType /\ RunningType /\ ThreadType /\ VersionInv /\
       OneRequest /\ RequestSent /\ LostRequest /\ LogInHistory /\ EntriesBelowSeq /\
       EntriesOfTxns /\ IdleIsEmpty /\ TidsInPast /\ UniqueTID /\ SnapshotInv /\ DownInv /\
       RunningPc /\ SnapshotsOfRunning /\ SnapshotsSorted /\ UnknownInv /\ CsnOfPc /\
       NotYetCommitted /\ UndecidedNotSent /\ TailOrder /\ TailBehindRunning /\
       RemovedBehindTail /\ LastEntryKept /\ LoadedComplete /\ ReadyNotLive /\ ReadyListed /\
       ReadyLoaded /\ FinalizingLoaded /\ DeadInv)'
  BY <1>1, Frames, Zenon
<1>3. /\ t \in running_list /\ Decided(t) /\ stamped'[t] = csn[t]
      /\ \A u \in Txn : u # t => stamped'[u] = stamped[u]
  BY Zenon DEF stampParts, TxnType
<1>4. TxnType'
  BY Zenon DEF stampParts, TxnType, txnVars, boundVars
<1>5. StampIsCsn'
  BY <1>1, <1>3, Zenon DEF StampIsCsn, Decided
<1>6. RolledBackStampNotSent'
  <2>1. \A u \in Txn : Sent(u)' <=> Sent(u)
    BY <1>1, Zenon DEF Sent, Live, SessionValid, Committed
  <2>2. csn[t] = RolledBackCSN => ~Sent(t)
    BY <1>3, Zenon DEF RunningPc, UndecidedNotSent
  <2> QED BY <1>3, <2>1, <2>2, Zenon DEF RolledBackStampNotSent
<1> QED BY <1>2, <1>4, <1>5, <1>6, Zenon

\* Erasing a snapshot keeps the order of the others.
LEMMA releaseSnapshotInv ==
  ASSUME NEW t \in Txn, IInv, releaseSnapshot(t)
  PROVE  IInv'
<1>1. SnapshotsOfRunning'
  <2> DEFINE s == snapshots_in_use  n == Len(snapshots_in_use)
  <2>1. PICK k \in 1 .. n : s[k] = t /\ s' = Erase(s, k)
    BY Zenon DEF releaseSnapshot
  <2>2. s \in Seq(Txn) /\ n \in Nat /\ running_list' = running_list \ {t}
    BY DEF releaseSnapshot, IInv, TypeOK, RunningType
  <2>3. /\ Len(s') = n - 1
        /\ \A j \in 1 .. n - 1 : s'[j] = IF j < k THEN s[j] ELSE s[j + 1]
    BY <2>1, <2>2 DEF Erase
  <2>4. \A i \in 1 .. n : i # k => s[i] # t
    BY <2>1, <2>2 DEF IInv, SnapshotsSorted
  <2>5. ASSUME NEW u \in running_list' PROVE \E i \in 1 .. n - 1 : s'[i] = u
    <3>1. PICK i \in 1 .. n : s[i] = u
      BY <2>2, Zenon DEF IInv, SnapshotsOfRunning
    <3>2. i # k
      BY <2>1, <2>2, <3>1, Zenon
    <3>3. CASE i < k
      BY <2>2, <2>3, <3>1, <3>3
    <3>4. CASE i > k
      <4>1. i - 1 \in 1 .. n - 1 /\ ~(i - 1 < k)
        BY <2>2, <3>4
      <4>2. s'[i - 1] = u
        BY <2>2, <2>3, <3>1, <4>1
      <4> QED BY <4>1, <4>2, Zenon
    <3> QED BY <2>2, <3>2, <3>3, <3>4
  <2>6. ASSUME NEW i \in 1 .. n - 1 PROVE s'[i] \in running_list'
    <3> DEFINE b == IF i < k THEN i ELSE i + 1
    <3>1. b \in 1 .. n /\ b # k
      BY <2>2
    <3>2. s'[i] = s[b]
      BY <2>3, Zenon
    <3>3. s[b] \in running_list /\ s[b] # t
      BY <2>4, <3>1, Zenon DEF IInv, SnapshotsOfRunning
    <3> QED BY <2>2, <3>2, <3>3, Zenon
  <2> QED BY <2>3, <2>5, <2>6, Zenon DEF SnapshotsOfRunning
<1>2. SnapshotsSorted'
  <2> DEFINE s == snapshots_in_use  n == Len(snapshots_in_use)
  <2>1. PICK k \in 1 .. n : s[k] = t /\ s' = Erase(s, k)
    BY Zenon DEF releaseSnapshot
  <2>2. s \in Seq(Txn) /\ n \in Nat /\ tid' = tid
    BY DEF releaseSnapshot, IInv, TypeOK, RunningType, txnVars
  <2>3. /\ Len(s') = n - 1
        /\ \A j \in 1 .. n - 1 : s'[j] = IF j < k THEN s[j] ELSE s[j + 1]
    BY <2>1, <2>2 DEF Erase
  <2>4. \A i, j \in 1 .. n : i < j => s[i] # s[j] /\ tid[s[i]].start_csn <=
            tid[s[j]].start_csn
    BY Zenon DEF IInv, SnapshotsSorted
  <2>5. ASSUME NEW i \in 1 .. n - 1, NEW j \in 1 .. n - 1, i < j
        PROVE  s'[i] # s'[j] /\ tid[s'[i]].start_csn <= tid[s'[j]].start_csn
    <3> DEFINE b(m) == IF m < k THEN m ELSE m + 1
    <3>1. b(i) \in 1 .. n /\ b(j) \in 1 .. n /\ b(i) < b(j)
      BY <2>2, <2>5
    <3>2. s'[i] = s[b(i)] /\ s'[j] = s[b(j)]
      BY <2>3, Zenon
    <3> HIDE DEF b
    <3> QED BY <2>4, <3>1, <3>2, Zenon
  <2> QED BY <2>2, <2>3, <2>5, Zenon DEF SnapshotsSorted
<1> USE DEF IInv, TypeOK
<1>3. UNCHANGED <<log, seq, zk_tail_ptr, session_node_version, inflight, zk_version, expired,
                   watch, log_updated_event, server, tid_to_csn, last_loaded_entry,
                   latest_snapshot, local_tid_counter, tail_ptr, unknown_state_list_loaded,
                   upc, listed, new_tail_ptr, pc, tid, csn, changed, stamped, history, faults,
                   crashes>>
  BY Zenon DEF releaseSnapshot, Decided, MetadataWritten, keeperVars, connVars, loadVars,
     unknownVars, txnVars, boundVars
<1>4. (KeeperType /\ ConnectionType /\ LogType /\ TxnType /\ VersionInv /\ OneRequest /\
       RequestSent /\ LostRequest /\ LogInHistory /\ EntriesBelowSeq /\ EntriesOfTxns /\
       IdleIsEmpty /\ TidsInPast /\ UniqueTID /\ SnapshotInv /\ CsnOfPc /\ NotYetCommitted /\
       UndecidedNotSent /\ StampIsCsn /\ RolledBackStampNotSent /\ TailOrder /\
       RemovedBehindTail /\ LastEntryKept /\ LoadedComplete /\ ReadyNotLive /\ ReadyListed /\
       ReadyLoaded /\ DeadInv)'
  BY <1>3, Frames, Zenon
<1>5. RunningType'
  <2>1. snapshots_in_use' \in Seq(Txn)
    <3>1. PICK k \in 1 .. Len(snapshots_in_use) : snapshots_in_use' = Erase(snapshots_in_use, k)
      BY Zenon DEF releaseSnapshot
    <3>2. snapshots_in_use \in Seq(Txn)
      BY Zenon DEF RunningType
    <3> HIDE DEF IInv, TypeOK
    <3> QED BY <3>1, <3>2 DEF Erase
  <2> QED BY <2>1, Zenon DEF releaseSnapshot, RunningType, unknownVars
<1>6. /\ t \in running_list /\ Decided(t)
      /\ running_list' = running_list \ {t} /\ finalizing' = finalizing \ {t}
  BY Zenon DEF releaseSnapshot
<1>7. (ThreadType /\ TailBehindRunning)'
  BY <1>3, <1>6, Zenon DEF ThreadType, TailBehindRunning
<1>8. FinalizingLoaded'
  BY <1>3, <1>6, Zenon DEF FinalizingLoaded, Live, SessionValid, Committed, Loaded
<1>9. DownInv'
  BY <1>3, <1>6, Zenon DEF DownInv
<1>10. RunningPc'
  BY <1>3, <1>6, Zenon DEF RunningPc, CsnOfPc, Decided
<1>11. UnknownInv'
  <2>1. unknown_state_list' = unknown_state_list
    BY Zenon DEF releaseSnapshot, unknownVars
  <2> QED BY <1>3, <1>6, <2>1, Zenon DEF UnknownInv, Decided
<1> QED BY <1>1, <1>2, <1>4, <1>5, <1>7, <1>8, <1>9, <1>10, <1>11, Zenon

\* A part is rolled back on startup only if its transaction can no longer commit.
LEMMA loadPartsInv ==
  ASSUME NEW t \in Txn, IInv, loadParts(t)
  PROVE  IInv'
<1> USE DEF IInv, TypeOK
<1>1. UNCHANGED <<log, seq, zk_tail_ptr, session_node_version, inflight, zk_version, expired,
                   watch, log_updated_event, server, tid_to_csn, last_loaded_entry,
                   latest_snapshot, local_tid_counter, tail_ptr, running_list,
                   snapshots_in_use, unknown_state_list, unknown_state_list_loaded, upc,
                   listed, new_tail_ptr, finalizing, pc, tid, csn, history>>
  BY Zenon DEF loadParts, Loaded, keeperVars, connVars, loadVars, runVars, unknownVars,
     updVars, txnVars, boundVars
<1>2. (KeeperType /\ ConnectionType /\ LogType /\ RunningType /\ ThreadType /\ VersionInv /\
       OneRequest /\ RequestSent /\ LostRequest /\ LogInHistory /\ EntriesBelowSeq /\
       EntriesOfTxns /\ IdleIsEmpty /\ TidsInPast /\ UniqueTID /\ SnapshotInv /\ DownInv /\
       RunningPc /\ SnapshotsOfRunning /\ SnapshotsSorted /\ UnknownInv /\ CsnOfPc /\
       NotYetCommitted /\ UndecidedNotSent /\ TailOrder /\ TailBehindRunning /\
       RemovedBehindTail /\ LastEntryKept /\ LoadedComplete /\ ReadyNotLive /\ ReadyListed /\
       ReadyLoaded /\ FinalizingLoaded /\ DeadInv)'
  BY <1>1, Frames, Zenon
<1>3. /\ pc[t] = "dead" /\ server # "down"
      /\ \A u \in Txn : u # t => stamped'[u] = stamped[u]
  BY Zenon DEF loadParts, TxnType
<1>4. \/ stamped'[t] \in Nat /\ stamped'[t] # RolledBackCSN
      \/ stamped'[t] = RolledBackCSN /\ ~Loaded(t) /\ tail_ptr <= tid[t].start_csn
  <2>1. CASE \E e \in tid_to_csn : e.tid = tid[t] /\ stamped' = [stamped EXCEPT ![t] = e.csn]
    <3>1. PICK e \in tid_to_csn : stamped' = [stamped EXCEPT ![t] = e.csn]
      BY <2>1, Zenon
    <3>2. e \in history
      BY Zenon DEF LogInHistory
    <3>3. e.csn \in Nat /\ e.csn # RolledBackCSN
      BY <3>2, EntryCSN, Zenon
    <3> QED BY <3>1, <3>3, Zenon DEF TxnType
  <2>2. CASE /\ ~Loaded(t) /\ tail_ptr <= tid[t].start_csn
             /\ stamped' = [stamped EXCEPT ![t] = RolledBackCSN]
    BY <2>2, Zenon DEF TxnType
  <2> QED BY <2>1, <2>2, Zenon DEF loadParts
<1>5. TxnType'
  <2>1. stamped' \in [Txn -> Nat]
    <3>1. stamped'[t] \in Nat
      BY <1>4, SpecialCSNs, Zenon
    <3>2. \E c : stamped' = [stamped EXCEPT ![t] = c]
      BY Zenon DEF loadParts
    <3> QED BY <3>1, <3>2, Zenon DEF TxnType
  <2> QED BY <2>1, Zenon DEF loadParts, TxnType, txnVars, boundVars
<1>6. StampIsCsn'
  BY <1>1, <1>3, Zenon DEF StampIsCsn, Decided
<1>7. RolledBackStampNotSent'
  <2>1. \A u \in Txn : Sent(u)' <=> Sent(u)
    BY <1>1, Zenon DEF Sent, Live, SessionValid, Committed
  <2>2. ASSUME ~Loaded(t), tail_ptr <= tid[t].start_csn PROVE ~Sent(t)
    <3>1. ~Live(t) /\ \A e \in history : e.tid = tid[t] => tid[t].start_csn < tail_ptr
      BY <1>3, <2>2, Zenon DEF DeadInv, Loaded
    <3>2. tid[t].start_csn \in Nat /\ tail_ptr \in Nat
      BY Zenon DEF TxnType, LogType, TransactionID
    <3>3. ~(tid[t].start_csn < tail_ptr)
      BY <2>2, <3>2
    <3> QED BY <3>1, <3>3, Zenon DEF Sent, Committed
  <2> QED BY <1>3, <1>4, <2>1, <2>2, Zenon DEF RolledBackStampNotSent
<1> QED BY <1>2, <1>5, <1>6, <1>7, Zenon

\* The updating thread commits with the CSN of the loaded entry.
LEMMA finalizeCommittedInv ==
  ASSUME NEW t \in Txn, IInv, finalizeCommitted(t)
  PROVE  IInv'
<1>1. /\ UNCHANGED <<keeperVars, connVars, server, loadVars, runVars, unknownVars, updVars, tid,
                     stamped, history>>
      /\ pc' = pc /\ t \in finalizing /\ csn[t] = CommittingCSN
  BY Zenon DEF finalizeCommitted
<1>2. PICK e \in tid_to_csn : e.tid = tid[t] /\ csn' = [csn EXCEPT ![t] = e.csn]
  BY Zenon DEF finalizeCommitted
<1>3. e.csn \in Nat /\ e.csn \notin {UnknownCSN, CommittingCSN, RolledBackCSN}
  <2>1. e \in history
    BY Zenon DEF IInv, LogInHistory
  <2> QED BY <2>1, EntryCSN, Zenon
<1>4. TxnType'
  BY <1>1, <1>2, <1>3, Zenon DEF finalizeCommitted, IInv, TypeOK, TxnType, boundVars
<1>5. csn'[t] = e.csn /\ \A u \in Txn : u # t => csn'[u] = csn[u]
  BY <1>2, Zenon DEF IInv, TypeOK, TxnType
<1>6. /\ pc[t] = "end" /\ ~Live(t)
      /\ t \notin unknown_state_list \cup unknown_state_list_loaded
  BY <1>1, Zenon DEF IInv, UnknownInv, FinalizingLoaded
<1>7. stamped[t] = UnknownCSN
  BY <1>1, <1>6, Zenon DEF IInv, StampIsCsn, Decided
<1> QED BY <1>1, <1>3, <1>4, <1>5, <1>6, <1>7, TxnStepInv, Zenon

\* The updating thread gives up only transactions that can no longer commit.
LEMMA finalizeUncommittedInv ==
  ASSUME NEW t \in Txn, IInv, finalizeUncommitted(t)
  PROVE  IInv'
<1>1. /\ UNCHANGED <<keeperVars, connVars, server, loadVars, runVars, unknownVars, updVars, tid,
                     stamped, history>>
      /\ pc' = pc /\ t \in finalizing /\ csn[t] = CommittingCSN /\ ~Loaded(t)
  BY Zenon DEF finalizeUncommitted
<1>2. TxnType'
  BY SpecialCSNs, Zenon DEF finalizeUncommitted, IInv, TypeOK, TxnType, boundVars
<1>3. csn'[t] = UnknownCSN /\ \A u \in Txn : u # t => csn'[u] = csn[u]
  BY Zenon DEF finalizeUncommitted, IInv, TypeOK, TxnType
<1>4. /\ pc[t] = "end" /\ ~Live(t) /\ ~Committed(t)
      /\ t \notin unknown_state_list \cup unknown_state_list_loaded
  BY <1>1, Zenon DEF IInv, UnknownInv, FinalizingLoaded
<1>5. ~Sent(t)
  BY <1>4, Zenon DEF Sent
<1>6. stamped[t] = UnknownCSN
  BY <1>1, <1>4, Zenon DEF IInv, StampIsCsn, Decided
<1> QED BY <1>1, <1>2, <1>3, <1>4, <1>5, <1>6, TxnStepInv, Zenon
=============================================================================
