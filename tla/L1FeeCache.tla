----------------------------- MODULE L1FeeCache -----------------------------
(***************************************************************************)
(* The L1 data-fee cache of DogeosTransactionValidator                     *)
(* (dogeos-reth-txpool/src/validator.rs): one RwLock'ed cache, refreshed   *)
(* from the provider's latest canonical head under a refresh mutex, and    *)
(* read once by every transaction validation.                              *)
(*                                                                         *)
(* A head stands for the sealed header hash; the oracle values of a        *)
(* snapshot are represented by the head whose state they were read from.   *)
(* Any number of Callers may call refresh_l1_fee_cache_from_latest (it is  *)
(* a public method); L1FeeMaintenance composes this module with the one    *)
(* task that calls it in the node.                                         *)
(***************************************************************************)
EXTENDS Naturals

CONSTANTS
  Heads,        \* sealed header hashes that can become canonical
  NoHead,       \* "no snapshot"
  Callers,      \* threads that may call refresh_l1_fee_cache_from_latest
  NoCaller,     \* nobody holds l1_fee_refresh_lock
  Txs,          \* concurrent transaction validations
  Affordable,   \* heads under whose L1 fee a transaction passes the fee checks
  MaxAttempts,  \* MAX_L1_FEE_REFRESH_ATTEMPTS
  MaxMoves,     \* bound: canonical head changes in a behaviour
  MaxFaults     \* bound: failing provider reads in a behaviour

ASSUME CacheAssumption ==
  /\ Heads # {} /\ NoHead \notin Heads /\ NoCaller \notin Callers
  /\ Affordable \subseteq Heads
  /\ MaxAttempts \in Nat \ {0} /\ MaxMoves \in Nat /\ MaxFaults \in Nat

VARIABLES
  head,         \* the provider's latest canonical head
  epoch,        \* history: number of head changes so far
  faults,       \* failing provider reads so far
  cache,        \* l1_fee_cache
  cacheEpoch,   \* history: epoch at which the cached head was last confirmed
  lock,         \* holder of l1_fee_refresh_lock
  pc,           \* where each caller is inside the refresh
  target,       \* the header a caller's attempt works on
  loaded,       \* outcome of its load_for_head
  attempt,      \* its loop counter
  confirmed,    \* history: epoch of its last successful head check
  began,        \* history: epoch at which its call began
  result,       \* what its last call returned
  served,       \* history: newest `began` of a call that has returned
  tx            \* the transaction validations in progress

provider == <<head, epoch, faults>>
refresh  == <<lock, pc, target, loaded, attempt, confirmed, began, result>>
vars     == <<provider, cache, cacheEpoch, served, refresh, tx>>

Moves  == 0 .. MaxMoves
MaxEpoch(a, b) == IF a >= b THEN a ELSE b

-----------------------------------------------------------------------------
(* DogeosL1FeeSnapshot and DogeosL1FeeCache *)

\* A snapshot names its head and the head whose state supplied the fees.
Snapshot   == [head : Heads, state : Heads]
NoSnapshot == [head |-> NoHead, state |-> NoHead]
AnySnapshot == Snapshot \cup {NoSnapshot}

Ready(s)    == [kind |-> "Ready", snapshot |-> s]
Unavailable == [kind |-> "Unavailable", snapshot |-> NoSnapshot]
Disabled    == [kind |-> "Disabled", snapshot |-> NoSnapshot]
Unbuilt     == [kind |-> "Unbuilt", snapshot |-> NoSnapshot]

CacheValues == {Ready(s) : s \in Snapshot} \cup {Unavailable, Disabled, Unbuilt}

IsReady == cache.kind = "Ready"

\* Validation phases and outcomes; `floor` is what had been served when the
\* validation read the cache.
IdleTx == [phase |-> "idle", snapshot |-> NoSnapshot, epoch |-> 0, floor |-> 0,
           outcome |-> "none"]
TxStates == [phase : {"idle", "checking"}, snapshot : AnySnapshot,
             epoch : Moves, floor : Moves,
             outcome : {"none", "Valid", "Invalid", "Error"}]

RefreshPcs == {"idle", "waiting", "target", "load", "verify", "publish", "done"}

-----------------------------------------------------------------------------
(* The provider: heads move, reads fail (external) *)

\* Another header becomes canonical; reorganizations may restore an old one.
MoveHead ==
  /\ epoch < MaxMoves
  /\ \E h \in Heads \ {head} : head' = h
  /\ epoch' = epoch + 1
  /\ UNCHANGED <<faults, cache, cacheEpoch, served, refresh, tx>>

ReadSucceeds == UNCHANGED provider
ReadFails ==
  /\ faults < MaxFaults
  /\ faults' = faults + 1
  /\ UNCHANGED <<head, epoch>>

-----------------------------------------------------------------------------
(* refresh_l1_fee_cache_from_latest *)

LockFree_Ignored == TRUE
LockFree == lock = NoCaller

CachedTarget == IsReady /\ cache.snapshot.head = head

\* load_for_head opens the state of the target hash, not the latest state.
StateRead(c) == target[c]

HeadVerified_Skipped(c) == TRUE
HeadVerified(c) == head = target[c]

AttemptsLeft(c) == attempt[c] < MaxAttempts

\* The refresh guard is dropped when the call returns.
Unlock == lock' = NoCaller

CallRefresh(c) ==
  /\ pc[c] = "idle"
  /\ pc' = [pc EXCEPT ![c] = "waiting"]
  /\ began' = [began EXCEPT ![c] = epoch]
  /\ UNCHANGED <<provider, cache, cacheEpoch, served, lock, target, loaded,
                 attempt, confirmed, result, tx>>

\* Lock, then leave at once when the cache is disabled.
AcquireRefreshLock(c) ==
  /\ pc[c] = "waiting"
  /\ LockFree
  /\ attempt' = [attempt EXCEPT ![c] = 1]
  /\ IF cache.kind = "Disabled"
     THEN /\ pc' = [pc EXCEPT ![c] = "done"]
          /\ result' = [result EXCEPT ![c] = "available"]
          /\ UNCHANGED lock
     ELSE /\ pc' = [pc EXCEPT ![c] = "target"]
          /\ lock' = c
          /\ UNCHANGED result
  /\ UNCHANGED <<provider, cache, cacheEpoch, served, target, loaded,
                 confirmed, began, tx>>

\* The latest header cannot be read (at the start of an attempt or when it is
\* verified): publish the error.
HeaderReadFails(c) ==
  /\ pc[c] \in {"target", "verify"}
  /\ ReadFails
  /\ loaded' = [loaded EXCEPT ![c] = NoSnapshot]
  /\ pc' = [pc EXCEPT ![c] = "publish"]
  /\ UNCHANGED <<cache, cacheEpoch, served, lock, target, attempt, confirmed,
                 began, result, tx>>

\* The latest header is already cached: nothing to do.
TargetCached(c) ==
  /\ pc[c] = "target"
  /\ ReadSucceeds
  /\ CachedTarget
  /\ cacheEpoch' = epoch
  /\ pc' = [pc EXCEPT ![c] = "done"]
  /\ result' = [result EXCEPT ![c] = "available"]
  /\ Unlock
  /\ UNCHANGED <<cache, served, target, loaded, attempt, confirmed, began, tx>>

ReadTarget(c) ==
  /\ pc[c] = "target"
  /\ ReadSucceeds
  /\ ~CachedTarget
  /\ target' = [target EXCEPT ![c] = head]
  /\ pc' = [pc EXCEPT ![c] = "load"]
  /\ UNCHANGED <<cache, cacheEpoch, served, lock, loaded, attempt, confirmed,
                 began, result, tx>>

\* load_for_head: exact-state I/O, which may fail at any of its reads.
LoadForHead(c) ==
  /\ pc[c] = "load"
  /\ \/ /\ ReadSucceeds
        /\ loaded' = [loaded EXCEPT
                        ![c] = [head |-> target[c], state |-> StateRead(c)]]
     \/ /\ ReadFails
        /\ loaded' = [loaded EXCEPT ![c] = NoSnapshot]
  /\ pc' = [pc EXCEPT ![c] = "verify"]
  /\ UNCHANGED <<cache, cacheEpoch, served, lock, target, attempt, confirmed,
                 began, result, tx>>

\* The head is still the target: publish what was loaded.
VerifyHead(c) ==
  /\ pc[c] = "verify"
  /\ ReadSucceeds
  /\ HeadVerified(c)
  /\ confirmed' = [confirmed EXCEPT ![c] = epoch]
  /\ pc' = [pc EXCEPT ![c] = "publish"]
  /\ UNCHANGED <<cache, cacheEpoch, served, lock, target, loaded, attempt,
                 began, result, tx>>

\* The head moved: try again, or publish RefreshHeadMoved after the last attempt.
HeadMoved(c) ==
  /\ pc[c] = "verify"
  /\ ReadSucceeds
  /\ ~HeadVerified(c)
  /\ IF AttemptsLeft(c)
     THEN /\ attempt' = [attempt EXCEPT ![c] = @ + 1]
          /\ pc' = [pc EXCEPT ![c] = "target"]
          /\ UNCHANGED loaded
     ELSE /\ loaded' = [loaded EXCEPT ![c] = NoSnapshot]
          /\ pc' = [pc EXCEPT ![c] = "publish"]
          /\ UNCHANGED attempt
  /\ UNCHANGED <<cache, cacheEpoch, served, lock, target, confirmed, began,
                 result, tx>>

\* publish_l1_fee_refresh: an error replaces the old snapshot.
PublishedCache_KeepOnError(c) ==
  IF loaded[c] = NoSnapshot THEN cache ELSE Ready(loaded[c])
PublishedCache(c) ==
  IF loaded[c] = NoSnapshot THEN Unavailable ELSE Ready(loaded[c])

Publish(c) ==
  /\ pc[c] = "publish"
  /\ cache' = PublishedCache(c)
  /\ cacheEpoch' = IF loaded[c] = NoSnapshot THEN cacheEpoch ELSE confirmed[c]
  /\ result' = [result EXCEPT ![c] = IF loaded[c] = NoSnapshot THEN "unavailable"
                                     ELSE "available"]
  /\ Unlock
  /\ pc' = [pc EXCEPT ![c] = "done"]
  /\ UNCHANGED <<provider, served, target, loaded, attempt, confirmed, began, tx>>

\* The call has returned to its caller; its locals are gone.
ReturnRefresh(c) ==
  /\ pc[c] = "done"
  /\ pc' = [pc EXCEPT ![c] = "idle"]
  /\ served' = MaxEpoch(served, began[c])
  /\ target' = [target EXCEPT ![c] = NoHead]
  /\ loaded' = [loaded EXCEPT ![c] = NoSnapshot]
  /\ attempt' = [attempt EXCEPT ![c] = 1]
  /\ confirmed' = [confirmed EXCEPT ![c] = 0]
  /\ began' = [began EXCEPT ![c] = 0]
  /\ UNCHANGED <<provider, cache, cacheEpoch, lock, result, tx>>

\* The steps of a call between its start and its return.
RefreshStep(c) ==
  \/ AcquireRefreshLock(c) \/ HeaderReadFails(c) \/ TargetCached(c)
  \/ ReadTarget(c) \/ LoadForHead(c) \/ VerifyHead(c) \/ HeadMoved(c)
  \/ Publish(c)

-----------------------------------------------------------------------------
(* validate_one / validate_basic *)

\* Type checks, then the single read of the cache.  A blob transaction or an
\* L1 message is Invalid; an unavailable cache is an Error.
BeginValidation(t) ==
  /\ tx[t].phase = "idle"
  /\ cache.kind # "Unbuilt"
  /\ \/ tx' = [tx EXCEPT ![t] = [IdleTx EXCEPT !.outcome = "Invalid"]]
     \/ /\ cache.kind = "Unavailable"
        /\ tx' = [tx EXCEPT ![t] = [IdleTx EXCEPT !.outcome = "Error"]]
     \/ /\ cache.kind # "Unavailable"
        /\ tx' = [tx EXCEPT ![t] =
                    [phase |-> "checking", snapshot |-> cache.snapshot,
                     epoch |-> cacheEpoch, floor |-> served,
                     outcome |-> "none"]]
  /\ UNCHANGED <<provider, cache, cacheEpoch, served, refresh>>

\* The fee checks under the snapshot read at the start (none in dev mode).
FeeAcceptable_Unchecked(t) == TRUE
FeeAcceptable(t) ==
  tx[t].snapshot = NoSnapshot \/ tx[t].snapshot.state \in Affordable

\* Reth's own validation, the L1 fee checks and the admission check: any of the
\* three may refuse.
FinishValidation(t) ==
  /\ tx[t].phase = "checking"
  /\ \/ /\ FeeAcceptable(t)
        /\ tx' = [tx EXCEPT ![t].phase = "idle", ![t].outcome = "Valid"]
     \/ \E o \in {"Invalid", "Error"} :
          tx' = [tx EXCEPT ![t].phase = "idle", ![t].outcome = o]
  /\ UNCHANGED <<provider, cache, cacheEpoch, served, refresh>>

-----------------------------------------------------------------------------
ProviderInit ==
  /\ head \in Heads
  /\ epoch = 0
  /\ faults = 0

RefreshInit ==
  /\ lock = NoCaller
  /\ pc = [c \in Callers |-> "idle"]
  /\ target = [c \in Callers |-> NoHead]
  /\ loaded = [c \in Callers |-> NoSnapshot]
  /\ attempt = [c \in Callers |-> 1]
  /\ confirmed = [c \in Callers |-> 0]
  /\ began = [c \in Callers |-> 0]
  /\ result = [c \in Callers |-> "none"]
  /\ cacheEpoch = 0
  /\ served = 0

\* A validator is built from a hydrated snapshot, or disabled (dev mode).
Init ==
  /\ ProviderInit
  /\ RefreshInit
  /\ cache \in {Ready([head |-> head, state |-> head]), Disabled}
  /\ tx = [t \in Txs |-> IdleTx]

Next ==
  \/ MoveHead
  \/ \E c \in Callers : CallRefresh(c) \/ RefreshStep(c) \/ ReturnRefresh(c)
  \/ \E t \in Txs : BeginValidation(t) \/ FinishValidation(t)

Spec == Init /\ [][Next]_vars

-----------------------------------------------------------------------------
(* Properties *)

\* Types; in particular a refresh never makes more than MaxAttempts attempts
\* (MAX_L1_FEE_REFRESH_ATTEMPTS).
TypeOK ==
  /\ head \in Heads
  /\ epoch \in Moves
  /\ faults \in 0 .. MaxFaults
  /\ cache \in CacheValues
  /\ cacheEpoch \in Moves
  /\ lock \in Callers \cup {NoCaller}
  /\ pc \in [Callers -> RefreshPcs]
  /\ target \in [Callers -> Heads \cup {NoHead}]
  /\ loaded \in [Callers -> AnySnapshot]
  /\ attempt \in [Callers -> 1 .. MaxAttempts]
  /\ confirmed \in [Callers -> Moves]
  /\ began \in [Callers -> Moves]
  /\ result \in [Callers -> {"none", "available", "unavailable"}]
  /\ served \in Moves
  /\ tx \in [Txs -> TxStates]

\* "An older read cannot publish over a newer canonical result": the snapshot
\* in the cache is only ever replaced by one confirmed canonical no earlier
\* (publish_l1_fee_refresh under l1_fee_refresh_lock).
NoOlderPublish == [][cacheEpoch' >= cacheEpoch]_vars

\* The snapshot's fees come from the state of the head it names, whatever the
\* chain did during the I/O (load_for_head reads state_by_block_hash).
SnapshotIsExact == IsReady => cache.snapshot.state = cache.snapshot.head

\* Once a refresh that began after some head change has returned, the cache is
\* unavailable or holds a head confirmed canonical at or after that change: no
\* interleaving of callers, reorganizations and failures brings back an older
\* one (the contract of refresh_l1_fee_cache_from_latest).
ReturnedRefreshIsServed == IsReady => cacheEpoch >= served

\* A snapshot confirmed since the last head change is the canonical head's, also
\* after reorganizations that restore an earlier head (re-verification of the
\* target hash before publication).
ConfirmedIsCanonical ==
  IsReady /\ cacheEpoch = epoch => cache.snapshot.head = head

\* A validation that ends Valid passed the fee checks of a head that was
\* confirmed canonical no earlier than the last refresh returned before it read
\* the cache; with fee checking enabled there is no way around an unavailable
\* cache (validate_basic).
AdmittedUnderServedHead ==
  \A t \in Txs : tx[t].outcome = "Valid" =>
    \/ tx[t].snapshot = NoSnapshot /\ cache.kind = "Disabled"
    \/ tx[t].snapshot.head \in Affordable /\ tx[t].epoch >= tx[t].floor

-----------------------------------------------------------------------------
(* The inductive strengthening used by L1FeeCacheProofs *)

InCritical(c) == pc[c] \in {"target", "load", "verify", "publish"}
Loaded(c)     == loaded[c] # NoSnapshot

\* The refresh lock: exactly its holder is between the lock and the return, and
\* nobody gets there when the cache is disabled.
LockInv ==
  /\ \A c \in Callers : InCritical(c) <=> lock = c
  /\ cache.kind = "Disabled" => lock = NoCaller

EpochInv ==
  /\ cacheEpoch <= epoch /\ served <= epoch
  /\ \A c \in Callers : began[c] <= epoch /\ confirmed[c] <= epoch

\* What was loaded is the exact state of the target.
LoadedInv ==
  \A c \in Callers : pc[c] \in {"verify", "publish"} /\ Loaded(c) =>
    loaded[c] = [head |-> target[c], state |-> target[c]]

\* What is about to be published was confirmed after everything it could undo.
PublishInv ==
  \A c \in Callers : pc[c] = "publish" /\ Loaded(c) =>
    /\ confirmed[c] >= cacheEpoch
    /\ confirmed[c] >= served
    /\ confirmed[c] >= began[c]
    /\ \A d \in Callers : pc[d] = "done" => confirmed[c] >= began[d]
    /\ confirmed[c] = epoch => target[c] = head

DoneInv == \A c \in Callers : pc[c] = "done" /\ IsReady => cacheEpoch >= began[c]

TxInv ==
  \A t \in Txs : tx[t].phase = "checking" \/ tx[t].outcome = "Valid" =>
    IF tx[t].snapshot = NoSnapshot THEN cache.kind = "Disabled"
    ELSE tx[t].snapshot.state = tx[t].snapshot.head /\ tx[t].epoch >= tx[t].floor

ValidAffordable ==
  \A t \in Txs : tx[t].outcome = "Valid" /\ tx[t].snapshot # NoSnapshot =>
    tx[t].snapshot.state \in Affordable

CacheInv ==
  /\ TypeOK /\ LockInv /\ EpochInv /\ LoadedInv /\ PublishInv /\ DoneInv
  /\ SnapshotIsExact /\ ReturnedRefreshIsServed /\ ConfirmedIsCanonical
  /\ TxInv /\ ValidAffordable

=============================================================================
