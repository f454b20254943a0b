---------------------------- MODULE TxSubmission ----------------------------
(***************************************************************************)
(* Submission of raw transactions: the eth_sendRawTransaction handler that *)
(* the node installs (dogeos-reth-node/src/lib.rs), the forwarder          *)
(* (dogeos-reth-rpc/src/forwarder.rs) and its sequencer client             *)
(* (sequencer.rs).  The local pool's decision and the sequencer are        *)
(* external: the pool refuses what it already holds, what was mined, and   *)
(* anything else it finds wrong; the sequencer accepts or refuses, and its *)
(* answer may be lost.                                                     *)
(***************************************************************************)
EXTENDS Integers, FiniteSets

CONSTANTS
  Txs,       \* raw transactions
  Callers    \* calls of eth_sendRawTransaction, each made once

ASSUME CallersAssumption == IsFiniteSet(Callers)

VARIABLES
  handler,   \* "unset", or who answers: "local", "await" or "spawn"
  pool,      \* transactions in the local pool
  mined,     \* transactions in imported blocks
  left,      \* history: how often a transaction left the pool
  sequencer, \* transactions the sequencer accepted from this node
  call       \* the calls

svars == <<handler, pool, mined, left, sequencer, call>>

NoCall == [pc |-> "idle", admitted |-> FALSE, sent |-> FALSE, answer |-> "none"]

SubmitInit ==
  /\ handler = "unset"
  /\ pool = {} /\ mined = {} /\ sequencer = {}
  /\ left = [tx \in Txs |-> 0]
  /\ call = [c \in Callers |-> NoCall]

-----------------------------------------------------------------------------
(* Launch *)

\* The --sequencer URL, else Reth's forwarder URL, replaces the handler.
ForwarderUrl(sequencerUrl, rpcForwarder) == sequencerUrl \/ rpcForwarder

ExtendRpcModules ==
  /\ handler = "unset"
  /\ \E sequencerUrl, rpcForwarder, noPropagation \in BOOLEAN :
       handler' = IF ~ForwarderUrl(sequencerUrl, rpcForwarder) THEN "local"
                  ELSE IF noPropagation THEN "await" ELSE "spawn"
  /\ UNCHANGED <<pool, mined, left, sequencer, call>>

-----------------------------------------------------------------------------
(* A call *)

Submit(c, tx) ==
  /\ handler # "unset" /\ call[c].pc = "idle"
  /\ call' = [call EXCEPT ![c] = [pc |-> "local", tx |-> tx, admitted |-> FALSE,
                                  sent |-> FALSE, answer |-> "none"]]
  /\ UNCHANGED <<handler, pool, mined, left, sequencer>>

\* The local pool comes first; its error is returned and nothing is sent.
LocalRefuse(c) ==
  /\ call[c].pc = "local"
  /\ call' = [call EXCEPT ![c].pc = "done", ![c].answer = "refused"]
  /\ UNCHANGED <<handler, pool, mined, left, sequencer>>

PoolTakes(tx) == tx \notin pool \cup mined

\* With "spawn" the caller has its hash while the forward is still to run.
AfterAdmission_AnswerFirst(c) ==
  IF handler = "local" THEN [call[c] EXCEPT !.pc = "done", !.admitted = TRUE, !.answer = "hash"]
  ELSE [call[c] EXCEPT !.pc = "forward", !.admitted = TRUE, !.answer = "hash"]
AfterAdmission_NoSpawn(c) ==
  IF handler # "await" THEN [call[c] EXCEPT !.pc = "done", !.admitted = TRUE, !.answer = "hash"]
  ELSE [call[c] EXCEPT !.pc = "forward", !.admitted = TRUE]
AfterAdmission(c) ==
  CASE handler = "local" -> [call[c] EXCEPT !.pc = "done", !.admitted = TRUE, !.answer = "hash"]
    [] handler = "spawn" -> [call[c] EXCEPT !.pc = "forward", !.admitted = TRUE, !.answer = "hash"]
    [] handler = "await" -> [call[c] EXCEPT !.pc = "forward", !.admitted = TRUE]

LocalAdmit(c) ==
  /\ call[c].pc = "local" /\ PoolTakes(call[c].tx)
  /\ pool' = pool \cup {call[c].tx}
  /\ call' = [call EXCEPT ![c] = AfterAdmission(c)]
  /\ UNCHANGED <<handler, mined, left, sequencer>>

\* forward_raw_transaction: one request, without a timeout or a retry.
Forward(c) ==
  /\ call[c].pc = "forward"
  /\ call' = [call EXCEPT ![c].pc = "sent", ![c].sent = TRUE]
  /\ UNCHANGED <<handler, pool, mined, left, sequencer>>

\* The answer, or its failure, ends the call; a spawned forward only logs it.
Settled(c, answer) ==
  call' = [call EXCEPT ![c].pc = "done",
                       ![c].answer = IF handler = "await" THEN answer ELSE @]

SequencerAccepts(c) ==
  /\ call[c].pc = "sent"
  /\ sequencer' = sequencer \cup {call[c].tx}
  /\ \E answer \in {"hash", "sequencerError"} : Settled(c, answer)
  /\ UNCHANGED <<handler, pool, mined, left>>

SequencerFails(c) ==
  /\ call[c].pc = "sent" /\ Settled(c, "sequencerError")
  /\ UNCHANGED <<handler, pool, mined, left, sequencer>>

\* The caller goes away before it has its answer, and the future of its call,
\* wherever it waits, goes with it: the pool may still take what it was handed,
\* and the sequencer what was sent, but nothing else happens for the call.
DropCall(c) ==
  /\ call[c].pc \in {"local", "forward", "sent"} /\ call[c].answer = "none"
  /\ \E taken, accepted \in BOOLEAN :
       /\ taken => call[c].pc = "local" /\ PoolTakes(call[c].tx)
       /\ accepted => call[c].pc = "sent"
       /\ pool' = IF taken THEN pool \cup {call[c].tx} ELSE pool
       /\ sequencer' = IF accepted THEN sequencer \cup {call[c].tx} ELSE sequencer
       /\ call' = [call EXCEPT ![c].pc = "done", ![c].answer = "dropped",
                               ![c].admitted = IF taken THEN TRUE ELSE @]
  /\ UNCHANGED <<handler, mined, left>>

\* The pool evicts a transaction.
LeavePool(tx) ==
  /\ tx \in pool
  /\ pool' = pool \ {tx}
  /\ left' = [left EXCEPT ![tx] = @ + 1]
  /\ UNCHANGED <<handler, mined, sequencer, call>>

SubmitNext ==
  \/ ExtendRpcModules
  \/ \E c \in Callers :
       \/ \E tx \in Txs : Submit(c, tx)
       \/ LocalRefuse(c) \/ LocalAdmit(c) \/ Forward(c)
       \/ SequencerAccepts(c) \/ SequencerFails(c) \/ DropCall(c)
  \/ \E tx \in Txs : LeavePool(tx)

-----------------------------------------------------------------------------
(* Properties *)

Admissions(tx) == {c \in Callers : call[c].admitted /\ call[c].tx = tx}

\* What a caller is told is what happened, whatever other callers submit the
\* same transaction meanwhile, although the local pool and the sequencer
\* decide one after the other and the second may fail: a hash means that the
\* transaction entered the pool, and, where the sequencer is awaited, that
\* the sequencer has it; a sequencer error means that it entered the pool all
\* the same; a refusal means that this call sent nothing.  The sequencer is
\* sent only what the pool admitted, once for each time it was admitted.
AnswerIsTruthful ==
  /\ \A c \in Callers :
       /\ call[c].answer = "hash" => /\ call[c].admitted
                                     /\ handler = "await" => call[c].tx \in sequencer
       /\ call[c].answer = "sequencerError" => call[c].admitted /\ call[c].sent
       /\ call[c].answer = "refused" => ~call[c].sent
       /\ call[c].sent => call[c].admitted
  /\ \A tx \in Txs :
       /\ tx \in sequencer => Admissions(tx) # {}
       /\ Cardinality(Admissions(tx)) <= left[tx] + 1

\* With a forwarder, a transaction that the pool admitted is sent to the
\* sequencer, also when the caller has had its answer by then: only a caller
\* that leaves before it is answered leaves a transaction in the pool that
\* the sequencer never sees, so none that was told a hash does.
AdmittedIsForwarded ==
  \A c \in Callers :
    call[c].admitted /\ handler # "local" ~> call[c].sent \/ call[c].answer = "dropped"
=============================================================================
