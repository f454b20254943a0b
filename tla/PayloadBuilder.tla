--------------------------- MODULE PayloadBuilder ---------------------------
(***************************************************************************)
(* build_payload (dogeos-reth-payload/src/builder.rs) with the resource    *)
(* accounting of ExecutionInfo and PayloadBuildingBreaker, the gas rule of *)
(* ScrollBlockExecutor (dogeos-reth-evm/src/block/mod.rs) and, through     *)
(* EXTENDS, the code-witness meter whose inspector observes every          *)
(* execution.                                                              *)
(*                                                                         *)
(* One build attempt: pre-execution system calls, the forced transactions  *)
(* of the attributes, the pool's best transactions, finalization.  The EVM *)
(* (external) decides what an execution loads, uses and returns; the pool's *)
(* iterator (external) drops the rest of a sender's chain when one of its  *)
(* transactions is marked invalid.  The step allowance of a builder's      *)
(* meter is u64::MAX, so its step counter is left out.                     *)
(***************************************************************************)
EXTENDS CodeWitnessMeter, Sequences, FiniteSets, PartialSums

CONSTANTS
  Txs,            \* transactions
  Attr,           \* their kind, gas limit, encoded size, sender, tip, ...
  ForcedChoices,  \* transaction lists the engine may force
  PoolChoices,    \* best-transaction lists the pool may offer
  Configs,        \* [da, gas]: max_da_block_size and gas_limit, or NoLimit
  NoLimit,        \* an Option that is None
  BlockGasLimit,  \* gas limit of the block under construction
  MinTxGas,       \* MIN_TRANSACTION_GAS
  MinTxDa,        \* MIN_TRANSACTION_DATA_SIZE
  BestFees        \* fees of the best payload so far, or NoLimit

NoTx == "notx"

\* A limit of u64::MAX, where the saturating counters stop, would be none.
ASSUME BuilderAssumption ==
  /\ NoTx \notin Txs /\ MaxCodeBytes < U64Max
  /\ \A t \in Txs : Attr[t] \in
       [kind : {"l1", "l2", "blob"}, gas : Nat \ {0}, da : Nat, auths : Nat,
        sender : Nat, tip : Nat, queue : Nat]
  /\ ForcedChoices \subseteq Seq(Txs) /\ PoolChoices \subseteq Seq(Txs)
  /\ \A c \in Configs : c.da \in Nat \cup {NoLimit} /\ c.gas \in Nat \cup {NoLimit}
  /\ BlockGasLimit \in Nat /\ MinTxGas \in Nat /\ MinTxDa \in Nat
  /\ BestFees \subseteq Nat \cup {NoLimit}

SameSender(txs, i, j) == Attr[txs[i]].sender = Attr[txs[j]].sender

\* The pool offers a transaction once, and what is forced is not also offered behind
\* another transaction of its sender.
ASSUME PoolAssumption ==
  \A p \in PoolChoices : \A i, j \in DOMAIN p :
    /\ p[i] = p[j] => i = j
    /\ i < j /\ SameSender(p, i, j) =>
         \A f \in ForcedChoices : \A k \in DOMAIN f : f[k] # p[j]

VARIABLES
  config, forced, noTxPool, best,  \* the arguments of the attempt
  offered,     \* the best-transaction list of the attempt
  pool,        \* positions in it that the iterator has still to yield
  next,        \* index of the next forced transaction
  phase,       \* where build_payload is
  cur,         \* the transaction being executed
  info,        \* ExecutionInfo: cumulative gas and DA bytes, total fees
  gasUsed,     \* ScrollBlockExecutor.gas_used
  block,       \* committed transactions
  cancelled, late,  \* the cancellation token and the breaker's clock
  outcome,     \* what build_payload returned, or "none"
  used,        \* history: codes the current execution has loaded
  witness,     \* history: codes loaded by everything that is part of the block
  reserves,    \* history: authorization reserve of the committed transactions
  skipped,     \* history: positions in forced that were skipped as invalid
  stale,       \* history: pool transactions whose nonce was too low
  synthetic    \* history: committed transactions the inspector had stopped

args    == <<config, forced, noTxPool, best, offered>>
signals == <<cancelled, late>>
history == <<used, witness, reserves, skipped, stale, synthetic>>
progress == <<pool, next, phase, cur, info, gasUsed, block, outcome>>
bvars   == <<meter, args, signals, progress, history>>

Monus(a, b) == IF a > b THEN a - b ELSE 0
Above(x, limit) == limit # NoLimit /\ x > limit

Executing == phase \in {"system", "forcedExec", "poolExec", "final"}

-----------------------------------------------------------------------------
(* Execution, shared by all kinds *)

\* The inspector sees the current execution load the codes S.
Hook ==
  /\ Executing /\ outcome = "none"
  /\ \E S \in SUBSET Codes :
       /\ \/ EnterFrame(IF cur = NoTx THEN 0 ELSE Attr[cur].auths, S)
          \/ AccessCode(S)
       /\ used' = used \cup S
  /\ UNCHANGED <<args, signals, progress, witness, reserves, skipped, stale, synthetic>>

\* begin_transaction before an execution; the meter forgets its predecessor.
BeginExecution ==
  /\ ResetTransaction
  /\ used' = {}

\* build_payload returns without a payload; the candidate is dropped.
Return(r) ==
  /\ outcome' = r /\ phase' = "done" /\ cur' = NoTx /\ used' = {}
  /\ ResetTransaction
  /\ UNCHANGED <<args, signals, pool, next, info, gasUsed, block, witness, reserves,
                 skipped, stale, synthetic>>

\* The executor's own gas rule, which the builder's checks are to pre-empt.
ExecutorGasRule(t) == gasUsed + Attr[t].gas <= BlockGasLimit

\* code_witness_commit: the gate before anything is committed.
CommitGate == exceeded = "none"

\* commit_transaction and accept_transaction.
Commit(t) ==
  /\ ExecutorGasRule(t)
  /\ initialized = "yes"
  /\ CommitGate
  /\ \E g \in {1, Attr[t].gas} :
       /\ gasUsed' = gasUsed + g
       /\ info' = [gas  |-> info.gas + g,
                   da   |-> info.da + Attr[t].da,
                   fees |-> IF phase = "poolExec" THEN info.fees + Attr[t].tip * g
                            ELSE info.fees]
  /\ block' = Append(block, t)
  /\ IF AcceptRefused THEN UNCHANGED meter ELSE AcceptTransaction
  /\ witness' = witness \cup used /\ used' = {}
  /\ reserves' = reserves + AuthReserve * Attr[t].auths
  /\ synthetic' = IF halted = "yes" THEN synthetic \cup {t} ELSE synthetic

\* accept_system_code_budget.
AcceptSystem(nextPhase, result) ==
  /\ ~AcceptRefused
  /\ AcceptTransaction
  /\ witness' = witness \cup used /\ used' = {}
  /\ phase' = nextPhase /\ outcome' = result
  /\ UNCHANGED <<args, signals, pool, next, cur, info, gasUsed, block,
                 reserves, skipped, stale, synthetic>>

SystemOverBudget ==
  /\ phase \in {"system", "final"} /\ outcome = "none"
  /\ AcceptRefused
  /\ Return("SystemOverBudget")

\* Provider, pre-execution, decoding, executor (its gas rule included) and
\* finalization errors.
Fails ==
  /\ outcome = "none"
  /\ phase \in {"system", "decode", "forced", "forcedExec", "poolExec", "final"}
  /\ Return("Failed")

-----------------------------------------------------------------------------
(* Pre-execution changes, then the forced transactions *)

PreExecuted ==
  /\ phase = "system" /\ outcome = "none"
  /\ AcceptSystem("decode", "none")

\* The DA bytes of all forced transactions, whether they will execute or not.
DaSizes(txs) == [i \in DOMAIN txs |-> Attr[txs[i]].da]
TotalDa(txs) == SumTo(DaSizes(txs), Len(txs))

DecodeForced ==
  /\ phase = "decode" /\ outcome = "none"
  /\ IF Above(TotalDa(forced), config.da) THEN Return("ForcedOverDa")
     ELSE /\ phase' = "forced"
          /\ UNCHANGED <<meter, args, signals, pool, next, cur, info, gasUsed, block,
                         outcome, history>>

ForcedFits(t) == info.gas + Attr[t].gas <= BlockGasLimit

\* A blob or a transaction that does not fit ends the attempt.
RefuseForced ==
  /\ phase = "forced" /\ outcome = "none" /\ next <= Len(forced)
  /\ Attr[forced[next]].kind = "blob" \/ ~ForcedFits(forced[next])
  /\ Return("ForcedRefused")

BeginForced ==
  /\ phase = "forced" /\ outcome = "none" /\ next <= Len(forced)
  /\ Attr[forced[next]].kind # "blob" /\ ForcedFits(forced[next])
  /\ BeginExecution
  /\ phase' = "forcedExec" /\ cur' = forced[next]
  /\ UNCHANGED <<args, signals, pool, next, info, gasUsed, block, outcome,
                 witness, reserves, skipped, stale, synthetic>>

CommitForced ==
  /\ phase = "forcedExec" /\ outcome = "none"
  /\ Commit(cur)
  /\ phase' = "forced" /\ next' = next + 1 /\ cur' = NoTx
  /\ UNCHANGED <<args, signals, pool, outcome, skipped, stale>>

\* forced_code_budget_result: mandatory inputs are not dropped.
ForcedOverBudget_Skips ==
  /\ phase = "forcedExec" /\ outcome = "none"
  /\ ExecutorGasRule(cur) /\ ~CommitGate
  /\ ResetTransaction
  /\ phase' = "forced" /\ next' = next + 1 /\ cur' = NoTx
  /\ UNCHANGED <<args, signals, pool, info, gasUsed, block, outcome, history>>

ForcedOverBudget ==
  /\ phase = "forcedExec" /\ outcome = "none"
  /\ ExecutorGasRule(cur) /\ ~CommitGate
  /\ Return("ForcedOverBudget")

\* InvalidTx comes from the checks before the first frame: the transaction is
\* skipped.
SkipForced ==
  /\ phase = "forcedExec" /\ outcome = "none"
  /\ ExecutorGasRule(cur) /\ initialized = "no"
  /\ ResetTransaction
  /\ skipped' = skipped \cup {next}
  /\ phase' = "forced" /\ next' = next + 1 /\ cur' = NoTx
  /\ UNCHANGED <<args, signals, pool, info, gasUsed, block, outcome, used,
                 witness, reserves, stale, synthetic>>

-----------------------------------------------------------------------------
(* The pool *)

\* is_tx_over_limits, blob or L1 message.
OverLimits_GasOnly(t) == info.gas + Attr[t].gas > BlockGasLimit
OverLimits(t) ==
  \/ Above(info.da + Attr[t].da, config.da)
  \/ info.gas + Attr[t].gas > BlockGasLimit

Unusable_BlobOnly(t) == OverLimits(t) \/ Attr[t].kind = "blob"
Unusable(t) == OverLimits(t) \/ Attr[t].kind # "l2"

\* should_break.
Breaks ==
  \/ late = "yes"
  \/ config.gas # NoLimit /\ info.gas > Monus(config.gas, MinTxGas)
  \/ config.da # NoLimit /\ info.da > Monus(config.da, MinTxDa)

\* next and mark_invalid of the iterator (external): the transactions come in order,
\* and the rest of an invalid one's sender chain goes with it.
IsNext(i) == i \in pool /\ \A j \in pool : i <= j
WithoutSender(positions, sender) ==
  {i \in positions : Attr[offered[i]].sender # sender}

\* All forced transactions are through.
EndForced ==
  /\ phase = "forced" /\ outcome = "none" /\ next > Len(forced)
  /\ IF noTxPool
     THEN /\ BeginExecution
          /\ phase' = "final"
          /\ UNCHANGED <<witness, reserves, skipped, stale, synthetic>>
     ELSE /\ phase' = "pool"
          /\ UNCHANGED <<meter, history>>
  /\ UNCHANGED <<args, signals, pool, next, cur, info, gasUsed, block, outcome>>

DiscardPool ==
  /\ phase = "pool" /\ outcome = "none"
  /\ \E i \in pool :
       /\ IsNext(i) /\ Unusable(offered[i])
       /\ pool' = WithoutSender(pool \ {i}, Attr[offered[i]].sender)
  /\ UNCHANGED <<meter, args, signals, next, phase, cur, info, gasUsed, block,
                 outcome, history>>

ReturnCancelled ==
  /\ phase = "pool" /\ outcome = "none" /\ cancelled = "yes"
  /\ \E i \in pool : IsNext(i) /\ ~Unusable(offered[i])
  /\ Return("Cancelled")

BeginPool ==
  /\ phase = "pool" /\ outcome = "none" /\ cancelled = "no" /\ ~Breaks
  /\ \E i \in pool :
       /\ IsNext(i) /\ ~Unusable(offered[i])
       /\ cur' = offered[i] /\ pool' = pool \ {i}
  /\ BeginExecution
  /\ phase' = "poolExec"
  /\ UNCHANGED <<args, signals, next, info, gasUsed, block, outcome, witness,
                 reserves, skipped, stale, synthetic>>

CommitPool ==
  /\ phase = "poolExec" /\ outcome = "none"
  /\ Commit(cur)
  /\ phase' = "pool" /\ cur' = NoTx
  /\ UNCHANGED <<args, signals, pool, next, outcome, skipped, stale>>

\* Over the code budget, or InvalidTx: nothing is committed; the sender's chain goes,
\* except for a nonce that is too low, whose successors may be fine.
DroppedPool_KeepChain(nonceTooLow) == pool
DroppedPool_Requeue(nonceTooLow) == pool \cup {i \in DOMAIN offered : offered[i] = cur}
DroppedPool(nonceTooLow) ==
  IF nonceTooLow THEN pool ELSE WithoutSender(pool, Attr[cur].sender)

DropPool ==
  /\ phase = "poolExec" /\ outcome = "none"
  /\ ExecutorGasRule(cur)
  /\ \E nonceTooLow \in BOOLEAN :
       /\ IF CommitGate THEN initialized = "no" ELSE ~nonceTooLow
       /\ pool' = DroppedPool(nonceTooLow)
       /\ stale' = IF nonceTooLow THEN stale \cup {cur} ELSE stale
  /\ ResetTransaction
  /\ phase' = "pool" /\ cur' = NoTx
  /\ UNCHANGED <<args, signals, next, info, gasUsed, block, outcome, used,
                 witness, reserves, skipped, synthetic>>

\* The iterator is exhausted or the breaker trips: continue only with a better payload.
EndPool ==
  /\ phase = "pool" /\ outcome = "none"
  /\ \A i \in pool : IsNext(i) => ~Unusable(offered[i]) /\ cancelled = "no" /\ Breaks
  /\ IF best = NoLimit \/ info.fees > best
     THEN /\ BeginExecution
          /\ phase' = "final"
          /\ UNCHANGED <<args, signals, pool, next, cur, info, gasUsed, block,
                         outcome, witness, reserves, skipped, stale, synthetic>>
     ELSE Return("Aborted")

\* builder.finish and the second system budget check.
FinalBudget_Skipped(result) ==
  /\ phase' = "done" /\ outcome' = result
  /\ witness' = witness \cup used /\ used' = {}
  /\ UNCHANGED <<meter, args, signals, pool, next, cur, info, gasUsed, block,
                 reserves, skipped, stale, synthetic>>
FinalBudget(result) == AcceptSystem("done", result)

Finalize ==
  /\ phase = "final" /\ outcome = "none"
  /\ FinalBudget(IF noTxPool THEN "Freeze" ELSE "Better")

-----------------------------------------------------------------------------
(* The environment *)

Cancel ==
  /\ outcome = "none" /\ cancelled = "no"
  /\ cancelled' = "yes"
  /\ UNCHANGED <<meter, args, late, progress, history>>

TimeUp ==
  /\ outcome = "none" /\ late = "no"
  /\ late' = "yes"
  /\ UNCHANGED <<meter, args, cancelled, progress, history>>

BuilderInit ==
  /\ MeterInit
  /\ config \in Configs /\ forced \in ForcedChoices /\ noTxPool \in BOOLEAN
  /\ best \in BestFees
  /\ offered \in PoolChoices /\ pool = DOMAIN offered
  /\ next = 1 /\ phase = "system" /\ cur = NoTx
  /\ info = [gas |-> 0, da |-> 0, fees |-> 0] /\ gasUsed = 0 /\ block = <<>>
  /\ cancelled = "no" /\ late = "no" /\ outcome = "none"
  /\ used = {} /\ witness = {} /\ reserves = 0
  /\ skipped = {} /\ stale = {} /\ synthetic = {}

BuildStep ==
  \/ PreExecuted \/ SystemOverBudget \/ Fails \/ DecodeForced \/ RefuseForced
  \/ BeginForced \/ CommitForced \/ ForcedOverBudget \/ SkipForced
  \/ EndForced \/ DiscardPool \/ ReturnCancelled \/ BeginPool
  \/ CommitPool \/ DropPool \/ EndPool \/ Finalize

BuilderNext == Hook \/ BuildStep \/ Cancel \/ TimeUp

BuilderSpec == BuilderInit /\ [][BuilderNext]_bvars

\* The build thread runs, and an execution does not load code forever.
FairBuilderSpec == BuilderSpec /\ WF_bvars(BuildStep)

-----------------------------------------------------------------------------
(* Properties *)

Built == outcome \in {"Freeze", "Better"}

\* The codes that a built block really loads, in its transactions and in both of
\* its system phases, and the reserve of its authorizations fit the budget: the
\* meter's rollback of skipped and rejected transactions loses nothing
\* (execute_with_code_budget, accept_system_code_budget), and no transaction in
\* it was stopped by the inspector: "It must never commit that synthetic halt".
BlockFitsCodeBudget ==
  /\ Built => CodeBytes[witness] + reserves <= MaxCodeBytes
  /\ synthetic = {}

\* The builder's gas budget is the executor's: the builder never hands it a
\* transaction that the block-gas rule refuses, and the block stays in its limit.
GasFits ==
  /\ info.gas = gasUsed /\ gasUsed <= BlockGasLimit
  /\ phase \in {"forcedExec", "poolExec"} => ExecutorGasRule(cur)

\* Besides, its encoded transactions fit max_da_block_size, also when forced ones
\* that counted towards it were skipped.
BlockFitsLimits == GasFits /\ ~Above(TotalDa(block), config.da)

\* A built block starts with every forced transaction that was not invalid, in
\* order, and with no_tx_pool it holds nothing else.
PlaceOf(k) == k - Cardinality(skipped \cap 1 .. k)
ForcedKept ==
  Built =>
    /\ \A k \in DOMAIN forced \ skipped :
         PlaceOf(k) \in DOMAIN block /\ block[PlaceOf(k)] = forced[k]
    /\ noTxPool => Len(block) = Len(forced) - Cardinality(skipped)

\* validate_l1_messages of dogeos-reth-consensus: L1 messages first, with
\* consecutive queue indices.
L1OrderValid(txs) ==
  \A i \in 2 .. Len(txs) : Attr[txs[i]].kind = "l1" =>
    Attr[txs[i - 1]].kind = "l1" /\ Attr[txs[i]].queue = Attr[txs[i - 1]].queue + 1

\* A block built from well-ordered attributes passes the consensus check on its
\* L1 messages, unless the EVM called one of them invalid.
BuiltL1Order ==
  Built /\ L1OrderValid(forced) /\ (\A k \in skipped : Attr[forced[k]].kind # "l1")
    => L1OrderValid(block)

\* The transactions of the block, and an offered one whose nonce is used.
InBlock == {block[i] : i \in DOMAIN block}
Settled(i) == offered[i] \in InBlock \cup stale

\* The block never has a gap in a sender's chain: what it takes from the pool,
\* with the transactions whose nonce had already been used, is the start of the
\* sender's list.
NoNonceGap ==
  \A i, j \in DOMAIN offered :
    i < j /\ SameSender(offered, i, j) /\ offered[j] \in InBlock => Settled(i)

\* Every attempt returns.
BuildEnds == <>(outcome # "none")

\* The inductive invariant: what the meter has accepted is what the block has loaded,
\* apart from empty code, and what is pending is what the current execution has
\* loaded; an execution that the inspector stopped shows that a limit was hit.
Filled(S) == {c \in S : CodeBytes[{c}] > 0}

BuilderTypeOK ==
  /\ forced \in Seq(Txs) /\ offered \in Seq(Txs) /\ pool \subseteq DOMAIN offered
  /\ next \in Nat \ {0}
  /\ cur \in IF phase \in {"forcedExec", "poolExec"} THEN Txs ELSE {NoTx}
  /\ info \in [gas : Nat, da : Nat, fees : Nat] /\ gasUsed \in Nat
  /\ used \subseteq Codes /\ witness \subseteq Codes /\ reserves \in Nat

CandidateReserve ==
  IF initialized = "yes" /\ cur # NoTx THEN AuthReserve * Attr[cur].auths ELSE 0

WitnessInv ==
  /\ accepted = Filled(witness) /\ acceptedReserve = reserves
  /\ Executing => pending = Filled(used) /\ pendingReserve = CandidateReserve
  /\ halted = "yes" => exceeded # "none"
  /\ synthetic = {}

BuilderInv == BuilderTypeOK /\ MeterInv /\ WitnessInv /\ GasFits

\* For the nonces: whatever precedes an offered transaction in its sender's chain is
\* offered too, settled, or being executed, and is settled once the former's turn comes.
ChainInv ==
  /\ forced \in ForcedChoices /\ offered \in PoolChoices /\ block \in Seq(Txs)
  /\ phase = "forcedExec" => next \in DOMAIN forced /\ cur = forced[next]
  /\ phase = "poolExec" => \E k \in DOMAIN offered :
       /\ cur = offered[k]
       /\ \A i \in DOMAIN offered : i < k /\ SameSender(offered, i, k) => Settled(i)
  /\ phase # "done" => \A j \in pool : \A i \in DOMAIN offered :
       i < j /\ SameSender(offered, i, j) =>
         i \in pool \/ Settled(i) \/ (phase = "poolExec" /\ cur = offered[i])

\* For the content of the block: the forced transactions so far are in it, where they
\* belong, or skipped; nothing else is, until the pool's turn comes.
Early == phase \in {"system", "decode", "forced", "forcedExec"}
Beyond == phase \in {"pool", "poolExec", "final"} \/ Built

ForcedInv ==
  /\ skipped \subseteq 1 .. next - 1 /\ next - 1 <= Len(forced)
  /\ \A k \in (1 .. next - 1) \ skipped :
       PlaceOf(k) \in DOMAIN block /\ block[PlaceOf(k)] = forced[k]
  /\ (Early \/ noTxPool) => Len(block) = next - 1 - Cardinality(skipped)
  /\ phase \in {"pool", "poolExec"} => ~noTxPool
  /\ Beyond => next = Len(forced) + 1
  /\ phase \in {"system", "decode"} => next = 1

OrderInv ==
  /\ phase = "poolExec" => Attr[cur].kind = "l2"
  /\ L1OrderValid(forced) /\ (\A k \in skipped : Attr[forced[k]].kind # "l1")
       => L1OrderValid(block)

\* What the forced transactions add up to bounds what they have added so far.
DaInv ==
  /\ config \in Configs
  /\ info.da = TotalDa(block) /\ ~Above(info.da, config.da)
  /\ phase \in {"forced", "forcedExec"} =>
       /\ ~Above(TotalDa(forced), config.da)
       /\ info.da <= SumTo(DaSizes(forced), next - 1)
  /\ phase = "poolExec" => ~Above(info.da + Attr[cur].da, config.da)

ContentInv == ForcedInv /\ OrderInv /\ DaInv

=============================================================================
