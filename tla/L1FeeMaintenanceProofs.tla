----------------------- MODULE L1FeeMaintenanceProofs -----------------------
(***************************************************************************)
(* Proofs about the L1 fee cache, for any set of heads, of refreshing      *)
(* threads and of validations, and about the maintenance task that keeps   *)
(* it, for any heads, channel capacity and backoff, and any number of head *)
(* changes and failing reads.                                              *)
(***************************************************************************)
EXTENDS L1FeeMaintenance, TLAPS

(* The cache *)

USE DEF Moves, Ready, Unavailable, Disabled, Unbuilt, NoSnapshot, Snapshot,
        AnySnapshot, IsReady

LEMMA SnapshotTyped ==
  /\ NoSnapshot \notin Snapshot
  /\ \A s \in CacheValues : s.snapshot \in AnySnapshot
  /\ \A s \in CacheValues : s.kind = "Ready" => s.snapshot \in Snapshot
BY CacheAssumption DEF CacheValues

LEMMA TypeInit == Init => TypeOK
BY CacheAssumption
   DEF Init, ProviderInit, RefreshInit, TypeOK, CacheValues, RefreshPcs,
       TxStates, IdleTx

LEMMA TypeMoveHead == TypeOK /\ MoveHead => TypeOK'
BY CacheAssumption DEF MoveHead, TypeOK, refresh

LEMMA TypeRefresh ==
  ASSUME NEW c \in Callers, TypeOK, CallRefresh(c) \/ RefreshStep(c) \/ ReturnRefresh(c)
  PROVE  TypeOK'
<1>. USE CacheAssumption DEF TypeOK, provider, ReadSucceeds, ReadFails, RefreshPcs
<1>1. CASE CallRefresh(c)
  BY <1>1 DEF CallRefresh
<1>2. CASE AcquireRefreshLock(c)
  BY <1>2 DEF AcquireRefreshLock
<1>3. CASE HeaderReadFails(c)
  BY <1>3 DEF HeaderReadFails
<1>4. CASE TargetCached(c)
  BY <1>4 DEF TargetCached, Unlock
<1>5. CASE ReadTarget(c)
  BY <1>5 DEF ReadTarget
<1>6. CASE LoadForHead(c)
  BY <1>6 DEF LoadForHead, StateRead
<1>7. CASE VerifyHead(c)
  BY <1>7 DEF VerifyHead
<1>8. CASE HeadMoved(c)
  BY <1>8, SMTT(30) DEF HeadMoved, AttemptsLeft
<1>9. CASE Publish(c)
  BY <1>9 DEF Publish, PublishedCache, Unlock, CacheValues
<1>10. CASE ReturnRefresh(c)
  BY <1>10 DEF ReturnRefresh, MaxEpoch
<1>. QED BY <1>1, <1>2, <1>3, <1>4, <1>5, <1>6, <1>7, <1>8, <1>9, <1>10 DEF RefreshStep



LEMMA TypeValidate ==
  ASSUME NEW t \in Txs, TypeOK, BeginValidation(t) \/ FinishValidation(t)
  PROVE  TypeOK'
<1>. USE DEF TypeOK, TxStates, provider, refresh
<1>1. CASE BeginValidation(t)
  <2>1. cache.snapshot \in AnySnapshot
    BY SnapshotTyped
  <2>2. tx' \in [Txs -> TxStates]
    BY <1>1, <2>1, CacheAssumption, SMTT(30) DEF BeginValidation, IdleTx
  <2>. QED BY <1>1, <2>2 DEF BeginValidation
<1>2. CASE FinishValidation(t)
  <2>1. tx' \in [Txs -> TxStates]
    BY <1>2, SMTT(30) DEF FinishValidation
  <2>. QED BY <1>2, <2>1 DEF FinishValidation
<1>. QED BY <1>1, <1>2

LEMMA TypeStutter == TypeOK /\ UNCHANGED vars => TypeOK'
BY DEF TypeOK, vars, provider, refresh

\* Every state of the cache, its refreshers and its validations is well typed: in
\* particular no call makes more than MaxAttempts attempts (the loop of
\* refresh_l1_fee_cache_from_latest).
THEOREM TypeCorrect == Spec => []TypeOK
<1>1. Init => TypeOK
  BY TypeInit
<1>2. TypeOK /\ [Next]_vars => TypeOK'
  BY TypeMoveHead, TypeRefresh, TypeValidate, TypeStutter DEF Next
<1>. QED BY <1>1, <1>2, PTL DEF Spec

-----------------------------------------------------------------------------
(* The inductive invariant, one lemma per group of actions *)

LEMMA InvInit == Init => CacheInv
<1>. SUFFICES ASSUME Init PROVE CacheInv
  OBVIOUS
<1>1. TypeOK
  BY TypeInit
<1>2. LockInv /\ EpochInv /\ LoadedInv /\ PublishInv /\ DoneInv
  BY CacheAssumption
     DEF Init, ProviderInit, RefreshInit, LockInv, EpochInv, LoadedInv,
         PublishInv, DoneInv, InCritical, Loaded
<1>3. SnapshotIsExact /\ ReturnedRefreshIsServed /\ ConfirmedIsCanonical
  BY DEF Init, ProviderInit, RefreshInit, SnapshotIsExact,
         ReturnedRefreshIsServed, ConfirmedIsCanonical
<1>4. TxInv /\ ValidAffordable
  BY DEF Init, TxInv, ValidAffordable, IdleTx
<1>. QED BY <1>1, <1>2, <1>3, <1>4 DEF CacheInv

LEMMA InvMoveHead == CacheInv /\ MoveHead => CacheInv'
<1>. SUFFICES ASSUME CacheInv, MoveHead PROVE CacheInv'
  OBVIOUS
<1>. USE CacheAssumption DEF CacheInv, MoveHead, refresh
<1>1. TypeOK'
  BY TypeMoveHead
<1>2. LockInv' /\ LoadedInv' /\ DoneInv'
  BY DEF LockInv, LoadedInv, DoneInv, InCritical, Loaded
<1>3. EpochInv'
  BY DEF TypeOK, EpochInv
<1>4. PublishInv'
  BY DEF TypeOK, EpochInv, PublishInv, Loaded
<1>5. SnapshotIsExact' /\ ReturnedRefreshIsServed'
  BY DEF SnapshotIsExact, ReturnedRefreshIsServed
<1>6. ConfirmedIsCanonical'
  BY DEF TypeOK, EpochInv, ConfirmedIsCanonical
<1>7. TxInv' /\ ValidAffordable'
  BY DEF TxInv, ValidAffordable
<1>. QED BY <1>1, <1>2, <1>3, <1>4, <1>5, <1>6, <1>7

LEMMA InvRefresh ==
  ASSUME NEW c \in Callers, CacheInv,
         CallRefresh(c) \/ RefreshStep(c) \/ ReturnRefresh(c)
  PROVE  CacheInv'
<1>. USE CacheAssumption DEF provider
<1>0. TypeOK /\ TypeOK'
  BY TypeRefresh DEF CacheInv
<1>1. CASE CallRefresh(c)
  <2>. USE <1>0, <1>1 DEF CacheInv, TypeOK, CallRefresh
  <2>1. LockInv'
    BY DEF LockInv, InCritical, RefreshPcs
  <2>2. EpochInv'
    BY DEF EpochInv
  <2>3. LoadedInv'
    BY DEF LoadedInv, Loaded, LockInv, InCritical
  <2>4. PublishInv'
    BY DEF PublishInv, Loaded, LockInv, InCritical, EpochInv, DoneInv
  <2>5. DoneInv'
    BY DEF DoneInv, EpochInv, PublishInv, Loaded, LockInv, InCritical
  <2>6. SnapshotIsExact'
    BY DEF SnapshotIsExact, LoadedInv, Loaded
  <2>7. ReturnedRefreshIsServed' /\ ConfirmedIsCanonical'
    BY DEF ReturnedRefreshIsServed, ConfirmedIsCanonical, EpochInv, PublishInv, LoadedInv, DoneInv, Loaded
  <2>8. TxInv' /\ ValidAffordable'
    BY DEF TxInv, ValidAffordable, LockInv, InCritical
  <2>. QED BY <2>1, <2>2, <2>3, <2>4, <2>5, <2>6, <2>7, <2>8
<1>2. CASE AcquireRefreshLock(c)
  <2>. USE <1>0, <1>2 DEF CacheInv, TypeOK, AcquireRefreshLock, LockFree
  <2>1. LockInv'
    BY DEF LockInv, InCritical, RefreshPcs
  <2>2. EpochInv'
    BY DEF EpochInv
  <2>3. LoadedInv'
    BY DEF LoadedInv, Loaded, LockInv, InCritical
  <2>4. PublishInv'
    BY DEF PublishInv, Loaded, LockInv, InCritical, EpochInv, DoneInv
  <2>5. DoneInv'
    BY DEF DoneInv, EpochInv, PublishInv, Loaded, LockInv, InCritical
  <2>6. SnapshotIsExact'
    BY DEF SnapshotIsExact, LoadedInv, Loaded
  <2>7. ReturnedRefreshIsServed' /\ ConfirmedIsCanonical'
    BY DEF ReturnedRefreshIsServed, ConfirmedIsCanonical, EpochInv, PublishInv, LoadedInv, DoneInv, Loaded
  <2>8. TxInv' /\ ValidAffordable'
    BY DEF TxInv, ValidAffordable, LockInv, InCritical
  <2>. QED BY <2>1, <2>2, <2>3, <2>4, <2>5, <2>6, <2>7, <2>8
<1>3. CASE HeaderReadFails(c)
  <2>. USE <1>0, <1>3 DEF CacheInv, TypeOK, HeaderReadFails, ReadFails
  <2>1. LockInv'
    BY DEF LockInv, InCritical, RefreshPcs
  <2>2. EpochInv'
    BY DEF EpochInv
  <2>3. LoadedInv'
    BY DEF LoadedInv, Loaded, LockInv, InCritical
  <2>4. PublishInv'
    BY DEF PublishInv, Loaded, LockInv, InCritical, EpochInv, DoneInv
  <2>5. DoneInv'
    BY DEF DoneInv, EpochInv, PublishInv, Loaded, LockInv, InCritical
  <2>6. SnapshotIsExact'
    BY DEF SnapshotIsExact, LoadedInv, Loaded
  <2>7. ReturnedRefreshIsServed' /\ ConfirmedIsCanonical'
    BY DEF ReturnedRefreshIsServed, ConfirmedIsCanonical, EpochInv, PublishInv, LoadedInv, DoneInv, Loaded
  <2>8. TxInv' /\ ValidAffordable'
    BY DEF TxInv, ValidAffordable, LockInv, InCritical
  <2>. QED BY <2>1, <2>2, <2>3, <2>4, <2>5, <2>6, <2>7, <2>8
<1>4. CASE TargetCached(c)
  <2>. USE <1>0, <1>4 DEF CacheInv, TypeOK, TargetCached, CachedTarget, Unlock, ReadSucceeds
  <2>1. LockInv'
    BY DEF LockInv, InCritical, RefreshPcs
  <2>2. EpochInv'
    BY DEF EpochInv
  <2>3. LoadedInv'
    BY DEF LoadedInv, Loaded, LockInv, InCritical
  <2>4. PublishInv'
    BY DEF PublishInv, Loaded, LockInv, InCritical, EpochInv, DoneInv
  <2>5. DoneInv'
    BY DEF DoneInv, EpochInv, PublishInv, Loaded, LockInv, InCritical
  <2>6. SnapshotIsExact'
    BY DEF SnapshotIsExact, LoadedInv, Loaded
  <2>7. ReturnedRefreshIsServed' /\ ConfirmedIsCanonical'
    BY DEF ReturnedRefreshIsServed, ConfirmedIsCanonical, EpochInv, PublishInv, LoadedInv, DoneInv, Loaded
  <2>8. TxInv' /\ ValidAffordable'
    BY DEF TxInv, ValidAffordable, LockInv, InCritical
  <2>. QED BY <2>1, <2>2, <2>3, <2>4, <2>5, <2>6, <2>7, <2>8
<1>5. CASE ReadTarget(c)
  <2>. USE <1>0, <1>5 DEF CacheInv, TypeOK, ReadTarget, ReadSucceeds
  <2>1. LockInv'
    BY DEF LockInv, InCritical, RefreshPcs
  <2>2. EpochInv'
    BY DEF EpochInv
  <2>3. LoadedInv'
    BY DEF LoadedInv, Loaded, LockInv, InCritical
  <2>4. PublishInv'
    BY DEF PublishInv, Loaded, LockInv, InCritical, EpochInv, DoneInv
  <2>5. DoneInv'
    BY DEF DoneInv, EpochInv, PublishInv, Loaded, LockInv, InCritical
  <2>6. SnapshotIsExact'
    BY DEF SnapshotIsExact, LoadedInv, Loaded
  <2>7. ReturnedRefreshIsServed' /\ ConfirmedIsCanonical'
    BY DEF ReturnedRefreshIsServed, ConfirmedIsCanonical, EpochInv, PublishInv, LoadedInv, DoneInv, Loaded
  <2>8. TxInv' /\ ValidAffordable'
    BY DEF TxInv, ValidAffordable, LockInv, InCritical
  <2>. QED BY <2>1, <2>2, <2>3, <2>4, <2>5, <2>6, <2>7, <2>8
<1>6. CASE LoadForHead(c)
  <2>. USE <1>0, <1>6 DEF CacheInv, TypeOK, LoadForHead, StateRead, ReadSucceeds, ReadFails
  <2>1. LockInv'
    BY DEF LockInv, InCritical, RefreshPcs
  <2>2. EpochInv'
    BY DEF EpochInv
  <2>3. LoadedInv'
    BY DEF LoadedInv, Loaded, LockInv, InCritical
  <2>4. PublishInv'
    BY DEF PublishInv, Loaded, LockInv, InCritical, EpochInv, DoneInv
  <2>5. DoneInv'
    BY DEF DoneInv, EpochInv, PublishInv, Loaded, LockInv, InCritical
  <2>6. SnapshotIsExact'
    BY DEF SnapshotIsExact, LoadedInv, Loaded
  <2>7. ReturnedRefreshIsServed' /\ ConfirmedIsCanonical'
    BY DEF ReturnedRefreshIsServed, ConfirmedIsCanonical, EpochInv, PublishInv, LoadedInv, DoneInv, Loaded
  <2>8. TxInv' /\ ValidAffordable'
    BY DEF TxInv, ValidAffordable, LockInv, InCritical
  <2>. QED BY <2>1, <2>2, <2>3, <2>4, <2>5, <2>6, <2>7, <2>8
<1>7. CASE VerifyHead(c)
  <2>. USE <1>0, <1>7 DEF CacheInv, TypeOK, VerifyHead, HeadVerified, ReadSucceeds
  <2>1. LockInv'
    BY DEF LockInv, InCritical, RefreshPcs
  <2>2. EpochInv'
    BY DEF EpochInv
  <2>3. LoadedInv'
    BY DEF LoadedInv, Loaded, LockInv, InCritical
  <2>4. PublishInv'
    BY DEF PublishInv, Loaded, LockInv, InCritical, EpochInv, DoneInv
  <2>5. DoneInv'
    BY DEF DoneInv, EpochInv, PublishInv, Loaded, LockInv, InCritical
  <2>6. SnapshotIsExact'
    BY DEF SnapshotIsExact, LoadedInv, Loaded
  <2>7. ReturnedRefreshIsServed' /\ ConfirmedIsCanonical'
    BY DEF ReturnedRefreshIsServed, ConfirmedIsCanonical, EpochInv, PublishInv, LoadedInv, DoneInv, Loaded
  <2>8. TxInv' /\ ValidAffordable'
    BY DEF TxInv, ValidAffordable, LockInv, InCritical
  <2>. QED BY <2>1, <2>2, <2>3, <2>4, <2>5, <2>6, <2>7, <2>8
<1>8. CASE HeadMoved(c)
  <2>. USE <1>0, <1>8 DEF CacheInv, TypeOK, HeadMoved, ReadSucceeds
  <2>1. LockInv'
    BY DEF LockInv, InCritical, RefreshPcs
  <2>2. EpochInv'
    BY DEF EpochInv
  <2>3. LoadedInv'
    BY DEF LoadedInv, Loaded, LockInv, InCritical
  <2>4. PublishInv'
    BY DEF PublishInv, Loaded, LockInv, InCritical, EpochInv, DoneInv
  <2>5. DoneInv'
    BY DEF DoneInv, EpochInv, PublishInv, Loaded, LockInv, InCritical
  <2>6. SnapshotIsExact'
    BY DEF SnapshotIsExact, LoadedInv, Loaded
  <2>7. ReturnedRefreshIsServed' /\ ConfirmedIsCanonical'
    BY DEF ReturnedRefreshIsServed, ConfirmedIsCanonical, EpochInv, PublishInv, LoadedInv, DoneInv, Loaded
  <2>8. TxInv' /\ ValidAffordable'
    BY DEF TxInv, ValidAffordable, LockInv, InCritical
  <2>. QED BY <2>1, <2>2, <2>3, <2>4, <2>5, <2>6, <2>7, <2>8
<1>9. CASE Publish(c)
  <2>. USE <1>0, <1>9 DEF CacheInv, TypeOK, Publish, PublishedCache, Unlock
  <2>1. LockInv'
    BY DEF LockInv, InCritical, RefreshPcs
  <2>2. EpochInv'
    BY DEF EpochInv
  <2>3. LoadedInv'
    BY DEF LoadedInv, Loaded, LockInv, InCritical
  <2>4. PublishInv'
    BY DEF PublishInv, Loaded, LockInv, InCritical, EpochInv, DoneInv
  <2>5. DoneInv'
    BY DEF DoneInv, EpochInv, PublishInv, Loaded, LockInv, InCritical
  <2>6. SnapshotIsExact'
    BY DEF SnapshotIsExact, LoadedInv, Loaded
  <2>7. ReturnedRefreshIsServed' /\ ConfirmedIsCanonical'
    BY DEF ReturnedRefreshIsServed, ConfirmedIsCanonical, EpochInv, PublishInv, LoadedInv, DoneInv, Loaded
  <2>8. TxInv' /\ ValidAffordable'
    BY DEF TxInv, ValidAffordable, LockInv, InCritical
  <2>. QED BY <2>1, <2>2, <2>3, <2>4, <2>5, <2>6, <2>7, <2>8
<1>10. CASE ReturnRefresh(c)
  <2>. USE <1>0, <1>10 DEF CacheInv, TypeOK, ReturnRefresh, MaxEpoch
  <2>1. LockInv'
    BY DEF LockInv, InCritical, RefreshPcs
  <2>2. EpochInv'
    BY DEF EpochInv
  <2>3. LoadedInv'
    BY DEF LoadedInv, Loaded, LockInv, InCritical
  <2>4. PublishInv'
    BY DEF PublishInv, Loaded, LockInv, InCritical, EpochInv, DoneInv
  <2>5. DoneInv'
    BY DEF DoneInv, EpochInv, PublishInv, Loaded, LockInv, InCritical
  <2>6. SnapshotIsExact'
    BY DEF SnapshotIsExact, LoadedInv, Loaded
  <2>7. ReturnedRefreshIsServed' /\ ConfirmedIsCanonical'
    BY DEF ReturnedRefreshIsServed, ConfirmedIsCanonical, EpochInv, PublishInv, LoadedInv, DoneInv, Loaded
  <2>8. TxInv' /\ ValidAffordable'
    BY DEF TxInv, ValidAffordable, LockInv, InCritical
  <2>. QED BY <2>1, <2>2, <2>3, <2>4, <2>5, <2>6, <2>7, <2>8
<1>. QED BY <1>1, <1>2, <1>3, <1>4, <1>5, <1>6, <1>7, <1>8, <1>9, <1>10 DEF RefreshStep

LEMMA InvValidate ==
  ASSUME NEW t \in Txs, CacheInv, BeginValidation(t) \/ FinishValidation(t)
  PROVE  CacheInv'
<1>. USE CacheAssumption DEF CacheInv, provider, refresh
<1>1. TypeOK'
  BY TypeValidate
<1>2. UNCHANGED <<head, epoch, cache, cacheEpoch, served, lock, pc, target,
                  loaded, confirmed, began>>
  BY DEF BeginValidation, FinishValidation
<1>3. LockInv' /\ EpochInv' /\ LoadedInv' /\ PublishInv' /\ DoneInv'
  BY <1>2 DEF LockInv, EpochInv, LoadedInv, PublishInv, DoneInv, InCritical, Loaded
<1>4. SnapshotIsExact' /\ ReturnedRefreshIsServed' /\ ConfirmedIsCanonical'
  BY <1>2 DEF SnapshotIsExact, ReturnedRefreshIsServed, ConfirmedIsCanonical
<1>5. CASE BeginValidation(t)
  <2>1. cache.kind \in {"Ready", "Unavailable", "Disabled", "Unbuilt"}
    BY DEF TypeOK, CacheValues
  <2>2. cache.kind = "Ready" => cache.snapshot # NoSnapshot
    BY SnapshotTyped DEF TypeOK
  <2>3. \A s \in Txs \ {t} : tx'[s] = tx[s]
    BY <1>5 DEF BeginValidation, TypeOK
  <2>4. \/ tx'[t].phase = "idle" /\ tx'[t].outcome \in {"Invalid", "Error"}
        \/ /\ tx'[t].outcome = "none"
           /\ cache.kind # "Unavailable" /\ cache.kind # "Unbuilt"
           /\ tx'[t].snapshot = cache.snapshot
           /\ tx'[t].epoch = cacheEpoch /\ tx'[t].floor = served
    BY <1>5 DEF BeginValidation, TypeOK, IdleTx
  <2>5. TxInv'
    <3>. SUFFICES ASSUME NEW s \in Txs,
                         (tx[s].phase = "checking" \/ tx[s].outcome = "Valid")'
                  PROVE  (IF tx[s].snapshot = NoSnapshot THEN cache.kind = "Disabled"
                          ELSE /\ tx[s].snapshot.state = tx[s].snapshot.head
                               /\ tx[s].epoch >= tx[s].floor)'
      BY DEF TxInv
    <3>1. CASE s # t
      BY <1>2, <2>3, <3>1 DEF TxInv
    <3>2. CASE s = t /\ cache.kind = "Ready"
      BY <2>2, <2>4, <3>2 DEF SnapshotIsExact, ReturnedRefreshIsServed
    <3>3. CASE s = t /\ cache.kind = "Disabled"
      <4>1. cache.snapshot = NoSnapshot
        BY <3>3 DEF TypeOK, CacheValues
      <4>. QED BY <1>2, <2>4, <3>3, <4>1
    <3>. QED BY <2>1, <2>4, <3>1, <3>2, <3>3
  <2>6. ValidAffordable'
    BY <2>3, <2>4 DEF ValidAffordable
  <2>. QED BY <1>1, <1>3, <1>4, <2>5, <2>6
<1>6. CASE FinishValidation(t)
  <2>1. TxInv'
    BY <1>2, <1>6, SMTT(30) DEF FinishValidation, TxInv, TypeOK, TxStates
  <2>2. ValidAffordable'
    BY <1>6, SMTT(30) DEF FinishValidation, FeeAcceptable, ValidAffordable, TypeOK, TxStates
  <2>. QED BY <1>1, <1>3, <1>4, <2>1, <2>2
<1>. QED BY <1>5, <1>6

LEMMA InvStutter == CacheInv /\ UNCHANGED vars => CacheInv'
BY TypeStutter
   DEF CacheInv, vars, provider, refresh, LockInv, EpochInv, LoadedInv, PublishInv,
       DoneInv, SnapshotIsExact, ReturnedRefreshIsServed, ConfirmedIsCanonical,
       TxInv, ValidAffordable, InCritical, Loaded

LEMMA InvNext == CacheInv /\ [Next]_vars => CacheInv'
BY InvMoveHead, InvRefresh, InvValidate, InvStutter DEF Next

LEMMA InvAlways == Spec => []CacheInv
BY InvInit, InvNext, PTL DEF Spec

-----------------------------------------------------------------------------
\* For any number of refreshing threads, reorganizations and failing reads: once a
\* refresh has returned, the cache never again holds a head confirmed before that
\* refresh began (refresh_l1_fee_cache_from_latest).
THEOREM RefreshContract == Spec => []ReturnedRefreshIsServed
BY InvAlways, PTL DEF CacheInv

\* A cached snapshot confirmed since the last head change is the canonical head's,
\* and its fees are that head's state (load_for_head, the second latest_header).
THEOREM SnapshotsCorrect == Spec => [](SnapshotIsExact /\ ConfirmedIsCanonical)
BY InvAlways, PTL DEF CacheInv

\* No validation ends Valid except under the fees of a head that some refresh
\* confirmed no earlier than the last one served (validate_basic).
THEOREM AdmissionSound == Spec => []AdmittedUnderServedHead
<1>1. CacheInv => AdmittedUnderServedHead
  BY DEF CacheInv, TxInv, ValidAffordable, AdmittedUnderServedHead
<1>. QED BY <1>1, InvAlways, PTL

\* "An older read cannot publish over a newer canonical result"
\* (publish_l1_fee_refresh under l1_fee_refresh_lock).
THEOREM PublicationMonotone == Spec => NoOlderPublish
<1>1. ASSUME CacheInv, Next PROVE cacheEpoch' >= cacheEpoch
  <2>. USE <1>1 DEF CacheInv, TypeOK
  <2>1. CASE MoveHead
    BY <2>1 DEF MoveHead
  <2>2. ASSUME NEW c \in Callers, CallRefresh(c) \/ RefreshStep(c) \/ ReturnRefresh(c)
        PROVE  cacheEpoch' >= cacheEpoch
    BY <2>2 DEF CallRefresh, RefreshStep, AcquireRefreshLock, HeaderReadFails,
                TargetCached, ReadTarget, LoadForHead, VerifyHead, HeadMoved,
                Publish, ReturnRefresh, EpochInv, PublishInv, Loaded
  <2>3. ASSUME NEW t \in Txs, BeginValidation(t) \/ FinishValidation(t)
        PROVE  cacheEpoch' >= cacheEpoch
    BY <2>3 DEF BeginValidation, FinishValidation
  <2>. QED BY <2>1, <2>2, <2>3 DEF Next
<1>2. CacheInv /\ [Next]_vars => [cacheEpoch' >= cacheEpoch]_vars
  BY <1>1
<1>. QED BY <1>2, InvAlways, PTL DEF Spec, NoOlderPublish

-----------------------------------------------------------------------------
(* The maintenance task *)

LEMMA MaintenanceInit == MInit => MaintenanceInv
<1>. SUFFICES ASSUME MInit PROVE MaintenanceInv
  OBVIOUS
<1>. USE CacheAssumption, MaintenanceAssumption DEF MInit, ProviderInit, RefreshInit
<1>1. TypeOK
  BY DEF TypeOK, CacheValues, RefreshPcs, TxStates, IdleTx
<1>2. CacheInv
  <2>1. LockInv /\ EpochInv /\ LoadedInv /\ PublishInv /\ DoneInv
    BY DEF LockInv, EpochInv, LoadedInv, PublishInv, DoneInv, InCritical, Loaded
  <2>2. SnapshotIsExact /\ ReturnedRefreshIsServed /\ ConfirmedIsCanonical
    BY DEF SnapshotIsExact, ReturnedRefreshIsServed, ConfirmedIsCanonical
  <2>3. TxInv /\ ValidAffordable
    BY DEF TxInv, ValidAffordable, IdleTx
  <2>. QED BY <1>1, <2>1, <2>2, <2>3 DEF CacheInv
<1>3. MTypeOK /\ ChannelInv
  BY <1>1 DEF MTypeOK, ChannelInv, Phases
<1>4. PhaseInv /\ CoverInv /\ RetryInv /\ RetryTracksAvailability
  BY DEF PhaseInv, CoverInv, RetryInv, RetryTracksAvailability, TaskRefreshes,
         Building, TaskRuns
<1>. QED BY <1>2, <1>3, <1>4 DEF MaintenanceInv

\* The steps of build_pool that create the cache keep the cache's own invariant.
LEMMA BuildKeepsCacheInv ==
  ASSUME MaintenanceInv, BuildDisabled \/ HydrateHeader \/ HydrateLoad \/ HydrateFails
  PROVE  CacheInv'
<1>. USE CacheAssumption, MaintenanceAssumption
     DEF MaintenanceInv, CacheInv, provider, refresh, ReadSucceeds, ReadFails
<1>1. pc[Task] = "idle" /\ cache = Unbuilt /\ lock = NoCaller /\ served = 0
  BY DEF BuildDisabled, HydrateHeader, HydrateLoad, HydrateFails, PhaseInv,
         TaskRefreshes, Building, LockInv, InCritical, TypeOK
<1>2. TypeOK'
  <2>. USE DEF TypeOK
  <2>1. CASE BuildDisabled
    BY <2>1 DEF BuildDisabled, CacheValues
  <2>2. CASE HydrateHeader
    BY <2>2 DEF HydrateHeader
  <2>3. CASE HydrateLoad
    BY <2>3 DEF HydrateLoad, CoverInv, CacheValues
  <2>4. CASE HydrateFails
    BY <2>4 DEF HydrateFails
  <2>. QED BY <2>1, <2>2, <2>3, <2>4
<1>3. pc' = pc /\ lock' = lock /\ served' = served /\ began' = began /\ tx' = tx
      /\ epoch' = epoch /\ head' = head
  BY DEF BuildDisabled, HydrateHeader, HydrateLoad, HydrateFails
<1>4. \A c \in Callers : pc[c] = "idle"
  BY <1>1
<1>5. LockInv' /\ LoadedInv' /\ PublishInv' /\ DoneInv'
  BY <1>1, <1>3, <1>4 DEF LockInv, LoadedInv, PublishInv, DoneInv, InCritical
<1>6. EpochInv'
  BY <1>3 DEF BuildDisabled, HydrateHeader, HydrateLoad, HydrateFails, EpochInv, TypeOK
<1>7. SnapshotIsExact' /\ ReturnedRefreshIsServed' /\ ConfirmedIsCanonical'
  BY <1>1, <1>3 DEF BuildDisabled, HydrateHeader, HydrateLoad, HydrateFails, CoverInv,
     SnapshotIsExact, ReturnedRefreshIsServed, ConfirmedIsCanonical, TypeOK
<1>8. TxInv' /\ ValidAffordable'
  BY <1>1, <1>3 DEF TxInv, ValidAffordable
<1>. QED BY <1>2, <1>5, <1>6, <1>7, <1>8

LEMMA MaintenanceNext == MaintenanceInv /\ [MNext]_mvars => MaintenanceInv'
<1>. SUFFICES ASSUME MaintenanceInv, [MNext]_mvars PROVE MaintenanceInv'
  OBVIOUS
<1>. USE CacheAssumption, MaintenanceAssumption
<1>0. CacheInv'
  <2>. USE DEF MaintenanceInv
  <2>1. CASE SetCanonicalHead
    BY <2>1, InvMoveHead DEF SetCanonicalHead
  <2>2. CASE UNCHANGED vars
    BY <2>2, InvStutter
  <2>3. CASE Build
    BY <2>3, <2>2, BuildKeepsCacheInv DEF Build, Subscribe
  <2>4. CASE TaskStep
    BY <2>4, <2>2, InvRefresh
       DEF TaskStep, ReceiveNotification, ReceiveLagged, Resubscribe, ReceiveClosed,
           FinishDrainRefresh, DrainEmpty, FinishStartup, BuilderGone,
           FinishNotified, RetryFires, FinishRetry, RunRefresh
  <2>5. ASSUME NEW t \in Txs, Validate(t) PROVE CacheInv'
    BY <2>5, InvValidate DEF Validate
  <2>. QED BY <2>1, <2>2, <2>3, <2>4, <2>5
           DEF MNext, Notify, CloseChannel, mvars
<1>. USE DEF MaintenanceInv
<1>a. TypeOK /\ TypeOK'
  BY <1>0 DEF CacheInv
<1>1. CASE SetCanonicalHead
  <2>. USE <1>a, <1>1 DEF SetCanonicalHead, MoveHead, refresh, channel, task
  <2>1. MTypeOK' /\ ChannelInv'
    BY DEF MTypeOK, TypeOK, ChannelInv, Phases
  <2>2. PhaseInv'
    BY DEF PhaseInv, TypeOK, TaskRefreshes, Building, TaskRuns
  <2>3. CoverInv'
    BY DEF CoverInv, ChannelInv, MTypeOK, TypeOK, PhaseInv, TaskRefreshes,
           Building, TaskRuns, Loaded, CacheInv, EpochInv
  <2>4. RetryInv' /\ RetryTracksAvailability'
    BY DEF RetryInv, RetryTracksAvailability, MTypeOK, TypeOK, PhaseInv,
           TaskRefreshes, Building, TaskRuns
  <2>. QED BY <1>0, <2>1, <2>2, <2>3, <2>4
<1>2. CASE Notify
  <2>. USE <1>a, <1>2 DEF Notify, vars, refresh, provider, channel, task
  <2>1. MTypeOK' /\ ChannelInv'
    BY DEF MTypeOK, TypeOK, ChannelInv, Phases
  <2>2. PhaseInv'
    BY DEF PhaseInv, TypeOK, TaskRefreshes, Building, TaskRuns
  <2>3. CoverInv'
    BY DEF CoverInv, ChannelInv, MTypeOK, TypeOK, PhaseInv, TaskRefreshes,
           Building, TaskRuns, Loaded, CacheInv, EpochInv
  <2>4. RetryInv' /\ RetryTracksAvailability'
    BY DEF RetryInv, RetryTracksAvailability, MTypeOK, TypeOK, PhaseInv,
           TaskRefreshes, Building, TaskRuns
  <2>. QED BY <1>0, <2>1, <2>2, <2>3, <2>4
<1>3. CASE CloseChannel
  <2>. USE <1>a, <1>3 DEF CloseChannel, vars, refresh, provider, channel, task
  <2>1. MTypeOK' /\ ChannelInv'
    BY DEF MTypeOK, TypeOK, ChannelInv, Phases
  <2>2. PhaseInv'
    BY DEF PhaseInv, TypeOK, TaskRefreshes, Building, TaskRuns
  <2>3. CoverInv'
    BY DEF CoverInv, ChannelInv, MTypeOK, TypeOK, PhaseInv, TaskRefreshes,
           Building, TaskRuns, Loaded, CacheInv, EpochInv
  <2>4. RetryInv' /\ RetryTracksAvailability'
    BY DEF RetryInv, RetryTracksAvailability, MTypeOK, TypeOK, PhaseInv,
           TaskRefreshes, Building, TaskRuns
  <2>. QED BY <1>0, <2>1, <2>2, <2>3, <2>4
<1>4. CASE BuildDisabled
  <2>. USE <1>a, <1>4 DEF BuildDisabled, refresh, provider, channel, task
  <2>1. MTypeOK' /\ ChannelInv'
    BY DEF MTypeOK, TypeOK, ChannelInv, Phases
  <2>2. PhaseInv'
    BY DEF PhaseInv, TypeOK, TaskRefreshes, Building, TaskRuns
  <2>3. CoverInv'
    BY DEF CoverInv, ChannelInv, MTypeOK, TypeOK, PhaseInv, TaskRefreshes,
           Building, TaskRuns, Loaded, CacheInv, EpochInv
  <2>4. RetryInv' /\ RetryTracksAvailability'
    BY DEF RetryInv, RetryTracksAvailability, MTypeOK, TypeOK, PhaseInv,
           TaskRefreshes, Building, TaskRuns
  <2>. QED BY <1>0, <2>1, <2>2, <2>3, <2>4
<1>5. CASE Subscribe
  <2>. USE <1>a, <1>5 DEF Subscribe, vars, refresh, provider, channel, task
  <2>1. MTypeOK' /\ ChannelInv'
    BY DEF MTypeOK, TypeOK, ChannelInv, Phases
  <2>2. PhaseInv'
    BY DEF PhaseInv, TypeOK, TaskRefreshes, Building, TaskRuns
  <2>3. CoverInv'
    BY DEF CoverInv, ChannelInv, MTypeOK, TypeOK, PhaseInv, TaskRefreshes,
           Building, TaskRuns, Loaded, CacheInv, EpochInv
  <2>4. RetryInv' /\ RetryTracksAvailability'
    BY DEF RetryInv, RetryTracksAvailability, MTypeOK, TypeOK, PhaseInv,
           TaskRefreshes, Building, TaskRuns
  <2>. QED BY <1>0, <2>1, <2>2, <2>3, <2>4
<1>6. CASE HydrateHeader
  <2>. USE <1>a, <1>6 DEF HydrateHeader, ReadSucceeds, provider, channel, task
  <2>1. MTypeOK' /\ ChannelInv'
    BY DEF MTypeOK, TypeOK, ChannelInv, Phases
  <2>2. PhaseInv'
    BY DEF PhaseInv, TypeOK, TaskRefreshes, Building, TaskRuns
  <2>3. CoverInv'
    BY DEF CoverInv, ChannelInv, MTypeOK, TypeOK, PhaseInv, TaskRefreshes,
           Building, TaskRuns, Loaded, CacheInv, EpochInv
  <2>4. RetryInv' /\ RetryTracksAvailability'
    BY DEF RetryInv, RetryTracksAvailability, MTypeOK, TypeOK, PhaseInv,
           TaskRefreshes, Building, TaskRuns
  <2>. QED BY <1>0, <2>1, <2>2, <2>3, <2>4
<1>7. CASE HydrateLoad
  <2>. USE <1>a, <1>7 DEF HydrateLoad, ReadSucceeds, provider, channel, task
  <2>1. MTypeOK' /\ ChannelInv'
    BY DEF MTypeOK, TypeOK, ChannelInv, Phases
  <2>2. PhaseInv'
    BY DEF PhaseInv, TypeOK, TaskRefreshes, Building, TaskRuns
  <2>3. CoverInv'
    BY DEF CoverInv, ChannelInv, MTypeOK, TypeOK, PhaseInv, TaskRefreshes,
           Building, TaskRuns, Loaded, CacheInv, EpochInv
  <2>4. RetryInv' /\ RetryTracksAvailability'
    BY DEF RetryInv, RetryTracksAvailability, MTypeOK, TypeOK, PhaseInv,
           TaskRefreshes, Building, TaskRuns
  <2>. QED BY <1>0, <2>1, <2>2, <2>3, <2>4
<1>8. CASE HydrateFails
  <2>. USE <1>a, <1>8 DEF HydrateFails, ReadFails, refresh, channel, task
  <2>1. MTypeOK' /\ ChannelInv'
    BY DEF MTypeOK, TypeOK, ChannelInv, Phases
  <2>2. PhaseInv'
    BY DEF PhaseInv, TypeOK, TaskRefreshes, Building, TaskRuns
  <2>3. CoverInv'
    BY DEF CoverInv, ChannelInv, MTypeOK, TypeOK, PhaseInv, TaskRefreshes,
           Building, TaskRuns, Loaded, CacheInv, EpochInv
  <2>4. RetryInv' /\ RetryTracksAvailability'
    BY DEF RetryInv, RetryTracksAvailability, MTypeOK, TypeOK, PhaseInv,
           TaskRefreshes, Building, TaskRuns
  <2>. QED BY <1>0, <2>1, <2>2, <2>3, <2>4
<1>9. CASE ReceiveNotification
  <2>. USE <1>a, <1>9 DEF ReceiveNotification, CallRefresh, Waiting, Lagged, provider, channel, task
  <2>1. MTypeOK' /\ ChannelInv'
    BY DEF MTypeOK, TypeOK, ChannelInv, Phases
  <2>2. PhaseInv'
    BY DEF PhaseInv, TypeOK, TaskRefreshes, Building, TaskRuns
  <2>3. CoverInv'
    BY DEF CoverInv, ChannelInv, MTypeOK, TypeOK, PhaseInv, TaskRefreshes,
           Building, TaskRuns, Loaded, CacheInv, EpochInv
  <2>4. RetryInv' /\ RetryTracksAvailability'
    BY DEF RetryInv, RetryTracksAvailability, MTypeOK, TypeOK, PhaseInv,
           TaskRefreshes, Building, TaskRuns
  <2>. QED BY <1>0, <2>1, <2>2, <2>3, <2>4
<1>10. CASE ReceiveLagged
  <2>. USE <1>a, <1>10 DEF ReceiveLagged, Lagged, vars, refresh, provider, channel, task
  <2>1. MTypeOK' /\ ChannelInv'
    BY DEF MTypeOK, TypeOK, ChannelInv, Phases
  <2>2. PhaseInv'
    BY DEF PhaseInv, TypeOK, TaskRefreshes, Building, TaskRuns
  <2>3. CoverInv'
    BY DEF CoverInv, ChannelInv, MTypeOK, TypeOK, PhaseInv, TaskRefreshes,
           Building, TaskRuns, Loaded, CacheInv, EpochInv
  <2>4. RetryInv' /\ RetryTracksAvailability'
    BY DEF RetryInv, RetryTracksAvailability, MTypeOK, TypeOK, PhaseInv,
           TaskRefreshes, Building, TaskRuns
  <2>. QED BY <1>0, <2>1, <2>2, <2>3, <2>4
<1>11. CASE Resubscribe
  <2>. USE <1>a, <1>11 DEF Resubscribe, CallRefresh, provider, channel, task
  <2>1. MTypeOK' /\ ChannelInv'
    BY DEF MTypeOK, TypeOK, ChannelInv, Phases
  <2>2. PhaseInv'
    BY DEF PhaseInv, TypeOK, TaskRefreshes, Building, TaskRuns
  <2>3. CoverInv'
    BY DEF CoverInv, ChannelInv, MTypeOK, TypeOK, PhaseInv, TaskRefreshes,
           Building, TaskRuns, Loaded, CacheInv, EpochInv
  <2>4. RetryInv' /\ RetryTracksAvailability'
    BY DEF RetryInv, RetryTracksAvailability, MTypeOK, TypeOK, PhaseInv,
           TaskRefreshes, Building, TaskRuns
  <2>. QED BY <1>0, <2>1, <2>2, <2>3, <2>4
<1>12. CASE ReceiveClosed
  <2>. USE <1>a, <1>12 DEF ReceiveClosed, vars, refresh, provider, channel, task
  <2>1. MTypeOK' /\ ChannelInv'
    BY DEF MTypeOK, TypeOK, ChannelInv, Phases
  <2>2. PhaseInv'
    BY DEF PhaseInv, TypeOK, TaskRefreshes, Building, TaskRuns
  <2>3. CoverInv'
    BY DEF CoverInv, ChannelInv, MTypeOK, TypeOK, PhaseInv, TaskRefreshes,
           Building, TaskRuns, Loaded, CacheInv, EpochInv
  <2>4. RetryInv' /\ RetryTracksAvailability'
    BY DEF RetryInv, RetryTracksAvailability, MTypeOK, TypeOK, PhaseInv,
           TaskRefreshes, Building, TaskRuns
  <2>. QED BY <1>0, <2>1, <2>2, <2>3, <2>4
<1>13. CASE FinishDrainRefresh
  <2>. USE <1>a, <1>13 DEF FinishDrainRefresh, ReturnRefresh, provider, channel, task
  <2>1. MTypeOK' /\ ChannelInv'
    BY DEF MTypeOK, TypeOK, ChannelInv, Phases
  <2>2. PhaseInv'
    BY DEF PhaseInv, TypeOK, TaskRefreshes, Building, TaskRuns
  <2>3. CoverInv'
    BY DEF CoverInv, ChannelInv, MTypeOK, TypeOK, PhaseInv, TaskRefreshes,
           Building, TaskRuns, Loaded, CacheInv, EpochInv
  <2>4. RetryInv' /\ RetryTracksAvailability'
    BY DEF RetryInv, RetryTracksAvailability, MTypeOK, TypeOK, PhaseInv,
           TaskRefreshes, Building, TaskRuns
  <2>. QED BY <1>0, <2>1, <2>2, <2>3, <2>4
<1>14. CASE DrainEmpty
  <2>. USE <1>a, <1>14 DEF DrainEmpty, CallRefresh, provider, channel, task
  <2>1. MTypeOK' /\ ChannelInv'
    BY DEF MTypeOK, TypeOK, ChannelInv, Phases
  <2>2. PhaseInv'
    BY DEF PhaseInv, TypeOK, TaskRefreshes, Building, TaskRuns
  <2>3. CoverInv'
    BY DEF CoverInv, ChannelInv, MTypeOK, TypeOK, PhaseInv, TaskRefreshes,
           Building, TaskRuns, Loaded, CacheInv, EpochInv
  <2>4. RetryInv' /\ RetryTracksAvailability'
    BY DEF RetryInv, RetryTracksAvailability, MTypeOK, TypeOK, PhaseInv,
           TaskRefreshes, Building, TaskRuns
  <2>. QED BY <1>0, <2>1, <2>2, <2>3, <2>4
<1>15. CASE FinishStartup
  <2>. USE <1>a, <1>15 DEF FinishStartup, ArmedDeadline, ReturnRefresh, provider, channel, task
  <2>1. MTypeOK' /\ ChannelInv'
    BY DEF MTypeOK, TypeOK, ChannelInv, Phases
  <2>2. PhaseInv'
    BY DEF PhaseInv, TypeOK, TaskRefreshes, Building, TaskRuns
  <2>3. CoverInv'
    BY DEF CoverInv, ChannelInv, MTypeOK, TypeOK, PhaseInv, TaskRefreshes,
           Building, TaskRuns, Loaded, CacheInv, EpochInv
  <2>4. RetryInv' /\ RetryTracksAvailability'
    BY DEF RetryInv, RetryTracksAvailability, MTypeOK, TypeOK, PhaseInv,
           TaskRefreshes, Building, TaskRuns
  <2>. QED BY <1>0, <2>1, <2>2, <2>3, <2>4
<1>16. CASE BuilderGone
  <2>. USE <1>a, <1>16 DEF BuilderGone, ReturnRefresh, provider, channel, task
  <2>1. MTypeOK' /\ ChannelInv'
    BY DEF MTypeOK, TypeOK, ChannelInv, Phases
  <2>2. PhaseInv'
    BY DEF PhaseInv, TypeOK, TaskRefreshes, Building, TaskRuns
  <2>3. CoverInv'
    BY DEF CoverInv, ChannelInv, MTypeOK, TypeOK, PhaseInv, TaskRefreshes,
           Building, TaskRuns, Loaded, CacheInv, EpochInv
  <2>4. RetryInv' /\ RetryTracksAvailability'
    BY DEF RetryInv, RetryTracksAvailability, MTypeOK, TypeOK, PhaseInv,
           TaskRefreshes, Building, TaskRuns
  <2>. QED BY <1>0, <2>1, <2>2, <2>3, <2>4
<1>17. CASE FinishNotified
  <2>. USE <1>a, <1>17 DEF FinishNotified, ArmedDeadline, ReturnRefresh, provider, channel, task
  <2>1. MTypeOK' /\ ChannelInv'
    BY DEF MTypeOK, TypeOK, ChannelInv, Phases
  <2>2. PhaseInv'
    BY DEF PhaseInv, TypeOK, TaskRefreshes, Building, TaskRuns
  <2>3. CoverInv'
    BY DEF CoverInv, ChannelInv, MTypeOK, TypeOK, PhaseInv, TaskRefreshes,
           Building, TaskRuns, Loaded, CacheInv, EpochInv
  <2>4. RetryInv' /\ RetryTracksAvailability'
    BY DEF RetryInv, RetryTracksAvailability, MTypeOK, TypeOK, PhaseInv,
           TaskRefreshes, Building, TaskRuns
  <2>. QED BY <1>0, <2>1, <2>2, <2>3, <2>4
<1>18. CASE RetryFires
  <2>. USE <1>a, <1>18 DEF RetryFires, CallRefresh, provider, channel, task
  <2>1. MTypeOK' /\ ChannelInv'
    BY DEF MTypeOK, TypeOK, ChannelInv, Phases
  <2>2. PhaseInv'
    BY DEF PhaseInv, TypeOK, TaskRefreshes, Building, TaskRuns
  <2>3. CoverInv'
    BY DEF CoverInv, ChannelInv, MTypeOK, TypeOK, PhaseInv, TaskRefreshes,
           Building, TaskRuns, Loaded, CacheInv, EpochInv
  <2>4. RetryInv' /\ RetryTracksAvailability'
    BY DEF RetryInv, RetryTracksAvailability, MTypeOK, TypeOK, PhaseInv,
           TaskRefreshes, Building, TaskRuns
  <2>. QED BY <1>0, <2>1, <2>2, <2>3, <2>4
<1>19. CASE FinishRetry
  <2>. USE <1>a, <1>19 DEF FinishRetry, NextDelay, ReturnRefresh, provider, channel, task
  <2>1. MTypeOK' /\ ChannelInv'
    BY DEF MTypeOK, TypeOK, ChannelInv, Phases
  <2>2. PhaseInv'
    BY DEF PhaseInv, TypeOK, TaskRefreshes, Building, TaskRuns
  <2>3. CoverInv'
    BY DEF CoverInv, ChannelInv, MTypeOK, TypeOK, PhaseInv, TaskRefreshes,
           Building, TaskRuns, Loaded, CacheInv, EpochInv
  <2>4. RetryInv' /\ RetryTracksAvailability'
    BY DEF RetryInv, RetryTracksAvailability, MTypeOK, TypeOK, PhaseInv,
           TaskRefreshes, Building, TaskRuns
  <2>. QED BY <1>0, <2>1, <2>2, <2>3, <2>4
<1>20. CASE RunRefresh
  <2>. USE <1>a, <1>20 DEF RunRefresh, channel, task, provider
  <2>1. MTypeOK'
    BY DEF MTypeOK
  <2>2. epoch' = epoch /\ head' = head
    BY DEF RefreshStep, AcquireRefreshLock, HeaderReadFails, TargetCached, ReadTarget,
           LoadForHead, VerifyHead, HeadMoved, Publish, ReadSucceeds, ReadFails
  <2>3. ChannelInv'
    BY <2>2 DEF ChannelInv
  <2>4. phase = phase' /\ ~Building /\ phase \notin {"drain", "select"} /\ TaskRuns
    BY DEF TaskRefreshes, Building, TaskRuns
  <2>5. RetryTracksAvailability'
    BY <2>4 DEF RetryTracksAvailability
  <2>6. CASE AcquireRefreshLock(Task)
    <3>. USE <2>4, <2>6 DEF AcquireRefreshLock
    <3>1. PhaseInv'
      BY DEF PhaseInv, TypeOK, TaskRefreshes, Building, TaskRuns
    <3>2. CoverInv'
      BY DEF CoverInv, ChannelInv, MTypeOK, TypeOK, PhaseInv, Building, Loaded
    <3>3. RetryInv'
      BY DEF RetryInv, TypeOK, PhaseInv, Building, TaskRuns
    <3>. QED BY <1>0, <2>1, <2>3, <2>5, <3>1, <3>2, <3>3
  <2>7. CASE HeaderReadFails(Task)
    <3>. USE <2>4, <2>7 DEF HeaderReadFails, ReadFails
    <3>1. PhaseInv'
      BY DEF PhaseInv, TypeOK, TaskRefreshes, Building, TaskRuns
    <3>2. CoverInv'
      BY DEF CoverInv, ChannelInv, MTypeOK, TypeOK, PhaseInv, Building, Loaded
    <3>3. RetryInv'
      BY DEF RetryInv, TypeOK, PhaseInv, Building, TaskRuns
    <3>. QED BY <1>0, <2>1, <2>3, <2>5, <3>1, <3>2, <3>3
  <2>8. CASE TargetCached(Task)
    <3>. USE <2>4, <2>8 DEF TargetCached, CachedTarget, ReadSucceeds
    <3>1. PhaseInv'
      BY DEF PhaseInv, TypeOK, TaskRefreshes, Building, TaskRuns
    <3>2. CoverInv'
      BY DEF CoverInv, ChannelInv, MTypeOK, TypeOK, PhaseInv, Building, Loaded
    <3>3. RetryInv'
      BY DEF RetryInv, TypeOK, PhaseInv, Building, TaskRuns
    <3>. QED BY <1>0, <2>1, <2>3, <2>5, <3>1, <3>2, <3>3
  <2>9. CASE ReadTarget(Task)
    <3>. USE <2>4, <2>9 DEF ReadTarget, ReadSucceeds
    <3>1. PhaseInv'
      BY DEF PhaseInv, TypeOK, TaskRefreshes, Building, TaskRuns
    <3>2. CoverInv'
      BY DEF CoverInv, ChannelInv, MTypeOK, TypeOK, PhaseInv, Building, Loaded
    <3>3. RetryInv'
      BY DEF RetryInv, TypeOK, PhaseInv, Building, TaskRuns
    <3>. QED BY <1>0, <2>1, <2>3, <2>5, <3>1, <3>2, <3>3
  <2>10. CASE LoadForHead(Task)
    <3>. USE <2>4, <2>10 DEF LoadForHead, ReadSucceeds, ReadFails
    <3>1. PhaseInv'
      BY DEF PhaseInv, TypeOK, TaskRefreshes, Building, TaskRuns
    <3>2. CoverInv'
      BY DEF CoverInv, ChannelInv, MTypeOK, TypeOK, PhaseInv, Building, Loaded
    <3>3. RetryInv'
      BY DEF RetryInv, TypeOK, PhaseInv, Building, TaskRuns
    <3>. QED BY <1>0, <2>1, <2>3, <2>5, <3>1, <3>2, <3>3
  <2>11. CASE VerifyHead(Task)
    <3>. USE <2>4, <2>11 DEF VerifyHead, ReadSucceeds
    <3>1. PhaseInv'
      BY DEF PhaseInv, TypeOK, TaskRefreshes, Building, TaskRuns
    <3>2. CoverInv'
      BY DEF CoverInv, ChannelInv, MTypeOK, TypeOK, PhaseInv, Building, Loaded
    <3>3. RetryInv'
      BY DEF RetryInv, TypeOK, PhaseInv, Building, TaskRuns
    <3>. QED BY <1>0, <2>1, <2>3, <2>5, <3>1, <3>2, <3>3
  <2>12. CASE HeadMoved(Task)
    <3>. USE <2>4, <2>12 DEF HeadMoved, ReadSucceeds
    <3>1. PhaseInv'
      BY DEF PhaseInv, TypeOK, TaskRefreshes, Building, TaskRuns
    <3>2. CoverInv'
      BY DEF CoverInv, ChannelInv, MTypeOK, TypeOK, PhaseInv, Building, Loaded
    <3>3. RetryInv'
      BY DEF RetryInv, TypeOK, PhaseInv, Building, TaskRuns
    <3>. QED BY <1>0, <2>1, <2>3, <2>5, <3>1, <3>2, <3>3
  <2>13. CASE Publish(Task)
    <3>. USE <2>4, <2>13 DEF Publish, PublishedCache
    <3>1. PhaseInv'
      BY DEF PhaseInv, TypeOK, TaskRefreshes, Building, TaskRuns
    <3>2. CoverInv'
      BY DEF CoverInv, ChannelInv, MTypeOK, TypeOK, PhaseInv, Building, Loaded
    <3>3. RetryInv'
      BY DEF RetryInv, TypeOK, PhaseInv, Building, TaskRuns
    <3>. QED BY <1>0, <2>1, <2>3, <2>5, <3>1, <3>2, <3>3
  <2>. QED BY <2>6, <2>7, <2>8, <2>9, <2>10, <2>11, <2>12, <2>13 DEF RefreshStep
<1>21. ASSUME NEW t \in Txs, Validate(t) PROVE MaintenanceInv'
  <2>1. /\ UNCHANGED <<channel, task>>
        /\ UNCHANGED <<head, epoch, cache, cacheEpoch, served, pc, target, loaded,
                       confirmed, result>>
    BY <1>21 DEF Validate, BeginValidation, FinishValidation, refresh, provider
  <2>. QED BY <1>0, <1>a, <2>1
     DEF channel, task, MTypeOK, ChannelInv, PhaseInv, CoverInv, RetryInv,
         RetryTracksAvailability, TaskRefreshes, Building, TaskRuns, Loaded
<1>22. CASE UNCHANGED mvars
  BY <1>0, <1>a, <1>22
     DEF mvars, vars, provider, refresh, channel, task, MTypeOK, ChannelInv, PhaseInv,
         CoverInv, RetryInv, RetryTracksAvailability, TaskRefreshes, Building,
         TaskRuns, Loaded
<1>. QED BY <1>1, <1>2, <1>3, <1>4, <1>5, <1>6, <1>7, <1>8,
            <1>9, <1>10, <1>11, <1>12, <1>13, <1>14, <1>15, <1>16,
            <1>17, <1>18, <1>19, <1>20, <1>21, <1>22
         DEF MNext, Build, TaskStep

LEMMA MaintenanceAlways == MSpec => []MaintenanceInv
BY MaintenanceInit, MaintenanceNext, PTL DEF MSpec

-----------------------------------------------------------------------------
\* No lost wake-up, for every channel capacity and any interleaving of the engine
\* with the task: at rest, a ready cache is the canonical head's (the lagged branch
\* resubscribes before it refreshes, build_pool subscribes before it hydrates).
THEOREM WakeupsKept == MSpec => []NoLostWakeup
<1>1. MaintenanceInv => NoLostWakeup
  BY DEF MaintenanceInv, CacheInv, CoverInv, ConfirmedIsCanonical, EpochInv, TypeOK,
         NoLostWakeup
<1>. QED BY <1>1, MaintenanceAlways, PTL

\* An unavailable cache always has a retry armed, a ready one never, and the
\* backoff stays between its bounds (the two branches of the select loop).
THEOREM RetriesTracked == MSpec => [](MTypeOK /\ RetryTracksAvailability)
BY MaintenanceAlways, PTL DEF MaintenanceInv

\* In the node as composed, no validation ends Valid under an unavailable cache or
\* under fees older than the last refresh served (validate_basic).
THEOREM NodeAdmissionSound == MSpec => []AdmittedUnderServedHead
<1>1. MaintenanceInv => AdmittedUnderServedHead
  BY DEF MaintenanceInv, CacheInv, TxInv, ValidAffordable, AdmittedUnderServedHead
<1>. QED BY <1>1, MaintenanceAlways, PTL
=============================================================================
