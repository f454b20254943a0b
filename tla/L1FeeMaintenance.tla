-------------------------- MODULE L1FeeMaintenance --------------------------
(***************************************************************************)
(* The task that keeps the L1 fee cache current                            *)
(* (run_dogeos_l1_fee_cache_maintenance and the startup part of build_pool *)
(* in dogeos-reth-node/src/pool.rs), composed with the cache itself.       *)
(*                                                                         *)
(* The engine (external) sets a new canonical head and then broadcasts a   *)
(* notification.  Notifications are numbered by the head change they       *)
(* announce: `sent` is the last one broadcast, `rpos` the last one this    *)
(* receiver is past, so rpos+1 .. sent are waiting.  A receiver more than  *)
(* Capacity behind gets Lagged instead of a notification.                  *)
(***************************************************************************)
EXTENDS L1FeeCache

CONSTANTS
  Task,          \* the maintenance task, the node's only refresher
  Capacity,      \* capacity of the broadcast channel
  RetryInitial,  \* L1_FEE_RETRY_BACKOFF.initial
  RetryMax       \* L1_FEE_RETRY_BACKOFF.max

ASSUME MaintenanceAssumption ==
  /\ Callers = {Task}
  /\ Capacity \in Nat \ {0}
  /\ RetryInitial \in Nat \ {0} /\ RetryMax \in Nat /\ RetryInitial <= RetryMax

VARIABLES
  sent, rpos,    \* the notification channel
  closed,        \* "yes" once the sender is gone
  phase,         \* where build_pool and then the task are
  delay,         \* retry_delay
  deadline,      \* retry_deadline: 0 is None, otherwise the delay it was armed with
  pool           \* what build_pool has returned

channel == <<sent, rpos, closed>>
task    == <<phase, delay, deadline, pool>>
mvars   == <<vars, channel, task>>

Phases == {"subscribe", "hydrate", "hydrateLoad", "drain", "drainResubscribe",
           "drainRefresh", "startRefresh", "select", "resubscribe",
           "notifiedRefresh", "retryRefresh", "stopped", "none"}

Lagged == sent - rpos > Capacity
Waiting == rpos < sent
TaskRefreshes == phase \in {"drainRefresh", "startRefresh", "notifiedRefresh",
                            "retryRefresh"}

-----------------------------------------------------------------------------
(* The engine (external) *)

SetCanonicalHead ==
  /\ closed = "no" /\ sent = epoch
  /\ MoveHead
  /\ UNCHANGED <<channel, task>>

Notify ==
  /\ closed = "no" /\ sent < epoch
  /\ sent' = epoch
  /\ UNCHANGED <<vars, rpos, closed, task>>

CloseChannel ==
  /\ closed = "no"
  /\ closed' = "yes"
  /\ UNCHANGED <<vars, sent, rpos, task>>

-----------------------------------------------------------------------------
(* build_pool up to the spawn of the task *)

\* Development mode: no snapshot, no subscription, no task.
BuildDisabled ==
  /\ phase = "subscribe"
  /\ cache' = Disabled
  /\ phase' = "none" /\ pool' = "up"
  /\ UNCHANGED <<provider, cacheEpoch, served, refresh, tx, channel, delay, deadline>>

Subscribe ==
  /\ phase = "subscribe"
  /\ rpos' = sent
  /\ phase' = "hydrate"
  /\ UNCHANGED <<vars, sent, closed, delay, deadline, pool>>

\* DogeosL1FeeSnapshot::load_latest: header first, then its exact state.
HydrateHeader ==
  /\ phase = "hydrate"
  /\ ReadSucceeds
  /\ target' = [target EXCEPT ![Task] = head]
  /\ confirmed' = [confirmed EXCEPT ![Task] = epoch]
  /\ phase' = "hydrateLoad"
  /\ UNCHANGED <<cache, cacheEpoch, served, lock, pc, loaded, attempt, began,
                 result, tx, channel, delay, deadline, pool>>

HydrateLoad ==
  /\ phase = "hydrateLoad"
  /\ ReadSucceeds
  /\ cache' = Ready([head |-> target[Task], state |-> target[Task]])
  /\ cacheEpoch' = confirmed[Task]
  /\ phase' = "drain"
  /\ target' = [target EXCEPT ![Task] = NoHead]
  /\ confirmed' = [confirmed EXCEPT ![Task] = 0]
  /\ UNCHANGED <<served, lock, pc, loaded, attempt, began, result, tx, channel,
                 delay, deadline, pool>>

\* Either read failing fails the build.
HydrateFails ==
  /\ phase \in {"hydrate", "hydrateLoad"}
  /\ ReadFails
  /\ phase' = "stopped" /\ pool' = "failed"
  /\ UNCHANGED <<cache, cacheEpoch, served, refresh, tx, channel, delay, deadline>>

-----------------------------------------------------------------------------
(* The task: subscribe -> drain -> reconcile -> ready -> select *)

\* A queued notification (try_recv while draining, recv in the select loop)
\* triggers a refresh.
ReceiveNotification ==
  /\ phase \in {"drain", "select"}
  /\ Waiting /\ ~Lagged
  /\ rpos' = rpos + 1
  /\ phase' = IF phase = "drain" THEN "drainRefresh" ELSE "notifiedRefresh"
  /\ CallRefresh(Task)
  /\ UNCHANGED <<sent, closed, delay, deadline, pool>>

\* Lagged moves the cursor to the oldest retained notification.
ReceiveLagged ==
  /\ phase \in {"drain", "select"}
  /\ Lagged
  /\ rpos' = sent - Capacity
  /\ phase' = IF phase = "drain" THEN "drainResubscribe" ELSE "resubscribe"
  /\ UNCHANGED <<vars, sent, closed, delay, deadline, pool>>

\* After a lag: a fresh receiver at the tail first, the refresh second.
Resubscribe ==
  /\ phase \in {"drainResubscribe", "resubscribe"}
  /\ rpos' = sent
  /\ phase' = IF phase = "resubscribe" THEN "notifiedRefresh" ELSE "drainRefresh"
  /\ CallRefresh(Task)
  /\ UNCHANGED <<sent, closed, delay, deadline, pool>>

\* The channel is closed and drained: the task ends; during startup this fails
\* the build.
ReceiveClosed ==
  /\ phase \in {"drain", "select"}
  /\ ~Waiting /\ closed = "yes"
  /\ phase' = "stopped"
  /\ pool' = IF phase = "drain" THEN "failed" ELSE pool
  /\ UNCHANGED <<vars, channel, delay, deadline>>

FinishDrainRefresh ==
  /\ phase = "drainRefresh"
  /\ ReturnRefresh(Task)
  /\ phase' = "drain"
  /\ UNCHANGED <<channel, delay, deadline, pool>>

DrainEmpty ==
  /\ phase = "drain"
  /\ ~Waiting /\ closed = "no"
  /\ phase' = "startRefresh"
  /\ CallRefresh(Task)
  /\ UNCHANGED <<channel, delay, deadline, pool>>

\* The deadline armed after a refresh that the notification branch or startup ran.
ArmedDeadline_Never == 0
ArmedDeadline == IF result[Task] = "available" THEN 0 ELSE RetryInitial

FinishStartup ==
  /\ phase = "startRefresh"
  /\ ReturnRefresh(Task)
  /\ phase' = "select" /\ pool' = "up"
  /\ deadline' = ArmedDeadline
  /\ UNCHANGED <<channel, delay>>

\* ready.send fails because build_pool's future is gone.
BuilderGone ==
  /\ phase = "startRefresh"
  /\ ReturnRefresh(Task)
  /\ phase' = "stopped" /\ pool' = "failed"
  /\ UNCHANGED <<channel, delay, deadline>>

\* The bug the comment in the lagged branch warns of: skipping to the tail of
\* the channel only after the refresh.
FinishNotified_ResubscribeLast ==
  /\ phase = "notifiedRefresh"
  /\ ReturnRefresh(Task)
  /\ phase' = "select"
  /\ rpos' = sent
  /\ delay' = RetryInitial
  /\ deadline' = ArmedDeadline
  /\ UNCHANGED <<sent, closed, pool>>

FinishNotified ==
  /\ phase = "notifiedRefresh"
  /\ ReturnRefresh(Task)
  /\ phase' = "select"
  /\ delay' = RetryInitial
  /\ deadline' = ArmedDeadline
  /\ UNCHANGED <<channel, pool>>

\* wait_for_l1_fee_retry: a pending future without a deadline.
RetryFires ==
  /\ phase = "select"
  /\ deadline > 0
  /\ phase' = "retryRefresh"
  /\ CallRefresh(Task)
  /\ UNCHANGED <<channel, delay, deadline, pool>>

NextDelay == IF 2 * delay <= RetryMax THEN 2 * delay ELSE RetryMax

\* The bug of clearing the deadline on every retry.
FinishRetry_Once ==
  /\ phase = "retryRefresh"
  /\ ReturnRefresh(Task)
  /\ phase' = "select"
  /\ delay' = RetryInitial /\ deadline' = 0
  /\ UNCHANGED <<channel, pool>>

FinishRetry ==
  /\ phase = "retryRefresh"
  /\ ReturnRefresh(Task)
  /\ phase' = "select"
  /\ IF result[Task] = "available"
     THEN delay' = RetryInitial /\ deadline' = 0
     ELSE delay' = NextDelay /\ deadline' = NextDelay
  /\ UNCHANGED <<channel, pool>>

RunRefresh ==
  /\ TaskRefreshes
  /\ RefreshStep(Task)
  /\ UNCHANGED <<channel, task>>

-----------------------------------------------------------------------------
(* Validations reach the validator through the pool build_pool returned *)
Validate(t) ==
  /\ pool = "up"
  /\ BeginValidation(t) \/ FinishValidation(t)
  /\ UNCHANGED <<channel, task>>

MInit ==
  /\ ProviderInit
  /\ RefreshInit
  /\ cache = Unbuilt
  /\ tx = [t \in Txs |-> IdleTx]
  /\ sent = 0 /\ rpos = 0 /\ closed = "no"
  /\ phase = "subscribe" /\ pool = "building"
  /\ delay = RetryInitial /\ deadline = 0

Build == BuildDisabled \/ Subscribe \/ HydrateHeader \/ HydrateLoad \/ HydrateFails

TaskStep ==
  \/ ReceiveNotification \/ ReceiveLagged \/ Resubscribe \/ ReceiveClosed
  \/ FinishDrainRefresh \/ DrainEmpty \/ FinishStartup \/ BuilderGone
  \/ FinishNotified \/ RetryFires \/ FinishRetry \/ RunRefresh

MNext ==
  \/ SetCanonicalHead \/ Notify \/ CloseChannel
  \/ Build \/ TaskStep
  \/ \E t \in Txs : Validate(t)

MSpec == MInit /\ [][MNext]_mvars

\* The engine announces every head it sets; the runtime polls build_pool and
\* the task, and a timer that is due fires.  Nothing is assumed of the head, of
\* provider reads or of validations.
FairMSpec == MSpec /\ WF_mvars(Notify) /\ WF_mvars(Build) /\ WF_mvars(TaskStep)

-----------------------------------------------------------------------------
(* Properties *)

\* Types; the backoff stays between initial and max.
MTypeOK ==
  /\ TypeOK
  /\ sent \in Moves /\ rpos \in Moves
  /\ closed \in {"no", "yes"}
  /\ phase \in Phases
  /\ delay \in RetryInitial .. RetryMax
  /\ deadline \in 0 .. RetryMax
  /\ pool \in {"building", "up", "failed"}

\* No lost wake-up: when the task waits in its select loop with nothing announced
\* or about to be announced to it, a ready cache is the canonical head's.  A head
\* set during a refresh, after its verification, or around a lag always leaves a
\* notification behind (resubscribe before refresh; subscribe before hydrate).
NoLostWakeup ==
  phase = "select" /\ rpos = epoch /\ IsReady => cache.snapshot.head = head

\* An unavailable cache always has a retry armed while the task waits, so admission
\* can recover "even when no new block is published"; a ready cache has none, and
\* the next outage starts over from the initial delay.
RetryTracksAvailability ==
  phase = "select" =>
    /\ cache.kind = "Unavailable" <=> deadline > 0
    /\ deadline \in {0, delay}
    /\ IsReady => delay = RetryInitial

\* Recovery: once heads stop moving and reads stop failing (both are bounded),
\* build_pool has returned a pool or an error, and a pool that is up serves the
\* canonical head's fees for good, unless the channel is closed or fee checking is
\* disabled.
EventuallyCurrent ==
  <>[](/\ pool # "building"
       /\ pool = "up" /\ closed = "no" =>
            cache.kind = "Disabled" \/ (IsReady /\ cache.snapshot.head = head))

-----------------------------------------------------------------------------
(* The inductive strengthening used by L1FeeMaintenanceProofs *)

Building == phase \in {"subscribe", "hydrate", "hydrateLoad"}
TaskRuns == phase \in {"drain", "drainResubscribe", "select", "resubscribe"}
                      \cup {"drainRefresh", "startRefresh", "notifiedRefresh",
                            "retryRefresh"}

\* The receiver is never ahead of the broadcast, nor the broadcast of the chain.
ChannelInv == rpos <= sent /\ sent <= epoch

\* A refresh is in progress exactly in the phases that wait for one.
PhaseInv ==
  /\ TaskRefreshes <=> pc[Task] # "idle"
  /\ Building => cache = Unbuilt /\ served = 0
  /\ TaskRuns => cache.kind \in {"Ready", "Unavailable"}

\* What the cache holds, or is about to hold, covers all that was received.
CoverInv ==
  /\ phase = "hydrateLoad" => /\ confirmed[Task] >= rpos
                              /\ target[Task] \in Heads
                              /\ confirmed[Task] = epoch => target[Task] = head
  /\ phase \in {"drain", "select"} /\ IsReady => cacheEpoch >= rpos
  /\ pc[Task] = "done" /\ IsReady => cacheEpoch >= rpos
  /\ pc[Task] = "publish" /\ Loaded(Task) => confirmed[Task] >= rpos

\* The returned value tells the cache's state, and the backoff follows it.
RetryInv ==
  /\ pc[Task] = "done" => IF IsReady THEN result[Task] = "available"
                          ELSE result[Task] = "unavailable"
  /\ phase \in {"drain", "drainResubscribe", "drainRefresh", "startRefresh"} \/ Building
       => delay = RetryInitial

MaintenanceInv ==
  /\ CacheInv /\ MTypeOK /\ ChannelInv /\ PhaseInv /\ CoverInv /\ RetryInv
  /\ RetryTracksAvailability

=============================================================================
