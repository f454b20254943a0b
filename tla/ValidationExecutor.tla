------------------------- MODULE ValidationExecutor -------------------------
(***************************************************************************)
(* DogeosValidationExecutor (dogeos-reth-txpool/src/executor.rs): every    *)
(* validation first takes an in-flight permit without waiting, then queues *)
(* for a worker permit, and both permits move into a blocking job, so that *)
(* abandoning the request does not free capacity that is still in use.     *)
(* Tokio's semaphores are external; their waiters are served in order.     *)
(***************************************************************************)
EXTENDS Naturals, FiniteSets, Sequences

CONSTANTS
  Requests,         \* validate_transaction calls that may be outstanding
  MaxInflight,      \* max_inflight
  AdditionalTasks   \* additional_validation_tasks

ASSUME ExecutorAssumption ==
  /\ IsFiniteSet(Requests)
  /\ MaxInflight \in Nat \ {0}
  /\ AdditionalTasks \in Nat

VARIABLES
  inflight,   \* free permits of the in-flight semaphore
  workers,    \* free permits of the worker semaphore
  queue,      \* requests waiting for a worker permit, oldest first
  state,      \* where each request's future is
  job,        \* where each request's blocking job is
  outcome     \* the last answer a request got

vars == <<inflight, workers, queue, state, job, outcome>>

Workers == IF AdditionalTasks + 1 <= MaxInflight THEN AdditionalTasks + 1
           ELSE MaxInflight

-----------------------------------------------------------------------------
\* try_acquire_owned: the permit or Busy, at once.
HasCapacity_Unbounded == TRUE
HasCapacity == inflight > 0

Admit(r) ==
  /\ state[r] = "idle" /\ job[r] = "none"
  /\ HasCapacity
  /\ inflight' = inflight - 1
  /\ queue' = Append(queue, r)
  /\ state' = [state EXCEPT ![r] = "waiting"]
  /\ outcome' = [outcome EXCEPT ![r] = "none"]
  /\ UNCHANGED <<workers, job>>

RejectBusy(r) ==
  /\ state[r] = "idle" /\ job[r] = "none"
  /\ ~HasCapacity
  /\ outcome' = [outcome EXCEPT ![r] = "Busy"]
  /\ UNCHANGED <<inflight, workers, queue, state, job>>

\* acquire_owned().await on the worker semaphore succeeds for the oldest waiter.
AcquireWorker(r) ==
  /\ queue # <<>> /\ r = Head(queue)
  /\ workers > 0
  /\ workers' = workers - 1
  /\ queue' = Tail(queue)
  /\ state' = [state EXCEPT ![r] = "granted"]
  /\ UNCHANGED <<inflight, job, outcome>>

\* spawn_blocking: both permits move into the job; the future awaits its result.
SpawnJob(r) ==
  /\ state[r] = "granted"
  /\ state' = [state EXCEPT ![r] = "awaiting"]
  /\ job' = [job EXCEPT ![r] = "running"]
  /\ UNCHANGED <<inflight, workers, queue, outcome>>

\* The validation returns or panics; the permits are dropped in reverse order of
\* their declaration: the worker's first, the in-flight one second.
FreedWorkers == workers + 1

ReleaseWorker(r) ==
  /\ job[r] = "running"
  /\ workers' = FreedWorkers
  /\ \E o \in {"Outcome", "Worker"} : outcome' = [outcome EXCEPT ![r] = o]
  /\ job' = [job EXCEPT ![r] = "releasing"]
  /\ UNCHANGED <<inflight, queue, state>>

\* The bug of freeing the capacity from the awaiting future instead of the job.
ReleaseInflight_AwaitedOnly(r) ==
  /\ job[r] = "releasing" /\ state[r] = "awaiting"
  /\ inflight' = inflight + 1
  /\ job' = [job EXCEPT ![r] = "finished"]
  /\ UNCHANGED <<workers, queue, state, outcome>>

ReleaseInflight(r) ==
  /\ job[r] = "releasing"
  /\ inflight' = inflight + 1
  /\ job' = [job EXCEPT ![r] = "finished"]
  /\ UNCHANGED <<workers, queue, state, outcome>>

\* The join handle resolves and the caller gets its answer; a job nobody awaits
\* just ends.
Deliver(r) ==
  /\ job[r] = "finished"
  /\ state' = [state EXCEPT ![r] = "idle"]
  /\ job' = [job EXCEPT ![r] = "none"]
  /\ outcome' = [outcome EXCEPT ![r] = IF state[r] = "awaiting" THEN outcome[r]
                                       ELSE "none"]
  /\ UNCHANGED <<inflight, workers, queue>>

\* The caller's future is dropped: in the queue it gives its permit back, with
\* both permits granted it gives both back, and a spawned job runs on.
CancelReleases_RunningToo(r) == state[r] \in {"waiting", "granted", "awaiting"}
CancelReleases(r) == state[r] \in {"waiting", "granted"}

WithoutRequest(r) ==
  IF state[r] # "waiting" THEN queue
  ELSE LET i == CHOOSE i \in DOMAIN queue : queue[i] = r
       IN  [j \in 1 .. (Len(queue) - 1) |-> queue[IF j < i THEN j ELSE j + 1]]

Cancel(r) ==
  /\ state[r] \in {"waiting", "granted", "awaiting"}
  /\ inflight' = IF CancelReleases(r) THEN inflight + 1 ELSE inflight
  /\ workers' = IF state[r] = "granted" THEN workers + 1 ELSE workers
  /\ queue' = WithoutRequest(r)
  /\ state' = [state EXCEPT ![r] = IF @ = "awaiting" THEN "abandoned" ELSE "idle"]
  /\ outcome' = [outcome EXCEPT ![r] = "none"]
  /\ UNCHANGED job

-----------------------------------------------------------------------------
Init ==
  /\ inflight = MaxInflight
  /\ workers = Workers
  /\ queue = <<>>
  /\ state = [r \in Requests |-> "idle"]
  /\ job = [r \in Requests |-> "none"]
  /\ outcome = [r \in Requests |-> "none"]

JobStep(r) == ReleaseWorker(r) \/ ReleaseInflight(r) \/ Deliver(r)

Next == \E r \in Requests :
  \/ Admit(r) \/ RejectBusy(r) \/ AcquireWorker(r) \/ SpawnJob(r)
  \/ JobStep(r) \/ Cancel(r)

Spec == Init /\ [][Next]_vars

\* The runtime polls a future whose permit is granted and the blocking pool runs
\* its jobs; a job ends because its EVM simulation is bounded in steps.  Nobody
\* has to submit or to cancel.
Fairness == \A r \in Requests :
  WF_vars(AcquireWorker(r)) /\ WF_vars(SpawnJob(r)) /\ WF_vars(JobStep(r))

FairSpec == Spec /\ Fairness

-----------------------------------------------------------------------------
(* Properties *)

HoldsInflight(r) == state[r] \in {"waiting", "granted"} \/ job[r] \in {"running", "releasing"}
HoldsWorker(r)   == state[r] = "granted" \/ job[r] = "running"

Admitted == {r \in Requests : HoldsInflight(r)}
Working  == {r \in Requests : HoldsWorker(r)}

\* Types.
TypeOK ==
  /\ inflight \in 0 .. MaxInflight
  /\ workers \in 0 .. Workers
  /\ queue \in Seq(Requests)
  /\ state \in [Requests -> {"idle", "waiting", "granted", "awaiting", "abandoned"}]
  /\ job \in [Requests -> {"none", "running", "releasing", "finished"}]
  /\ outcome \in [Requests -> {"none", "Busy", "Outcome", "Worker"}]

\* Permits are conserved through every cancellation and panic: what is free and
\* what is held always add up, so no sequence of dropped requests erodes or
\* inflates the admission capacity ("cancellation ... cannot release capacity
\* while its EVM execution is still running").
PermitsConserved ==
  /\ inflight + Cardinality(Admitted) = MaxInflight
  /\ workers + Cardinality(Working) = Workers

\* The queue holds exactly the waiting requests, each once: a cancelled waiter
\* leaves no entry behind that could take a worker permit for nobody.
QueueIsWaiters ==
  /\ \A r \in Requests : state[r] = "waiting" <=> \E i \in DOMAIN queue : queue[i] = r
  /\ \A i, j \in DOMAIN queue : queue[i] = queue[j] => i = j

\* The executor implements the bounded admission it documents.
Capacity == INSTANCE AdmissionCapacity
  WITH Capacity <- MaxInflight, admitted <- Admitted,
       refused <- {r \in Requests : outcome[r] = "Busy"}
ImplementsCapacity == Capacity!CapSpec

\* However many others come, go or are abandoned, a request does not wait for a
\* worker for ever, and a job whose caller is gone still returns its capacity.
CapacityReturns ==
  \A r \in Requests :
    /\ state[r] = "waiting" ~> state[r] # "waiting"
    /\ state[r] = "abandoned" ~> ~HoldsInflight(r)

-----------------------------------------------------------------------------
(* The inductive strengthening used by ValidationExecutorProofs *)

\* A job exists exactly while its future awaits it or has been dropped, and a
\* caller that was told Busy has nothing outstanding.
FutureAndJob ==
  \A r \in Requests :
    /\ state[r] \in {"awaiting", "abandoned"} <=> job[r] # "none"
    /\ outcome[r] = "Busy" => state[r] = "idle"

ExecutorInv == TypeOK /\ QueueIsWaiters /\ FutureAndJob /\ PermitsConserved
=============================================================================
