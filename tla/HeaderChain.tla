----------------------------- MODULE HeaderChain -----------------------------
(***************************************************************************)
(* The header fields that the payload builder computes and block import    *)
(* checks: timestamp, gas limit and the L2 base fee, with the fee          *)
(* prediction that the transaction pool works with.                        *)
(*                                                                         *)
(* Builder: next_block_gas_limit and ScrollBaseFeeProvider                 *)
(* (dogeos-reth-payload, dogeos-reth-evm/src/base_fee.rs).  Import:        *)
(* DogeosConsensus and ScrollEvmConfig::validate_block_pre_execution.      *)
(* Pool: DogeosPoolMaintenance (dogeos-reth-txpool/src/maintenance.rs).    *)
(* What else a block can have wrong (header fields with one legal value,   *)
(* roots, receipts, the order of L1 messages) is its `defect`: the first   *)
(* stage of import that refuses it.                                        *)
(***************************************************************************)
EXTENDS Integers

CONSTANTS
  MaxTime,          \* bound: timestamps
  MaxGasLimit,      \* bound: gas limits of the chain
  MinGasLimit,      \* MINIMUM_GAS_LIMIT
  BoundDivisor,     \* GAS_LIMIT_BOUND_DIVISOR
  GasTarget,        \* ScrollBuilderConfig.gas_limit, or None
  AttributeGas,     \* gas limits the engine may ask for, None included
  None,             \* an Option that is None
  TsukiV2Time,      \* activation time of TsukiV2
  MaxFee,           \* MAX_L2_BASE_FEE
  PreTsukiV2MaxFee, \* PRE_TSUKI_V2_MAX_L2_BASE_FEE
  FeeParams,        \* EIP-1559 [denominator, elasticity] before and from TsukiV2
  DefaultOverhead,  \* DEFAULT_BASE_FEE_OVERHEAD
  Slots,            \* values of the system config's overhead slot
  U64Max            \* largest u64

ASSUME HeaderAssumption ==
  /\ MaxTime \in Nat /\ MaxGasLimit \in Nat /\ TsukiV2Time \in Nat
  /\ MinGasLimit \in 1 .. MaxGasLimit /\ BoundDivisor \in Nat \ {0}
  /\ GasTarget = None \/ GasTarget \in MinGasLimit .. MaxGasLimit
  /\ AttributeGas \subseteq Nat \cup {None}
  /\ MaxFee \in Nat /\ PreTsukiV2MaxFee \in 0 .. MaxFee /\ MaxFee <= U64Max
  /\ \A f \in {"before", "from"} :
       FeeParams[f].denominator \in Nat \ {0} /\ FeeParams[f].elasticity \in 1 .. MinGasLimit
  /\ DefaultOverhead \in Nat /\ Slots \subseteq Nat /\ U64Max \in Nat

VARIABLES
  tip,        \* canonical head's header; `overhead` is what its own fee used
  slot,       \* overhead slot in its post-state
  now,        \* wall clock
  cand,       \* header of a block that waits to be imported
  poolFee,    \* pending base fee of the pool
  poolHead    \* what the pool's fee stands for

hvars == <<tip, slot, now, cand, poolFee, poolHead>>

MinOf(a, b) == IF a <= b THEN a ELSE b
Monus(a, b) == IF a > b THEN a - b ELSE 0
Clamp(x, lo, hi) == IF x < lo THEN lo ELSE MinOf(x, hi)

NoCand == [from |-> "none"]
Defects == {"none", "payload", "header", "body", "output"}

-----------------------------------------------------------------------------
(* The base fee *)

TsukiV2(time) == time >= TsukiV2Time
MaxFeeAt(time) == IF TsukiV2(time) THEN MaxFee ELSE PreTsukiV2MaxFee
ParamsAt(time) == IF TsukiV2(time) THEN FeeParams["from"] ELSE FeeParams["before"]

\* base_fee_overhead: zero means the default; saturating_to::<u64>.
Overhead(s) == MinOf(IF s = 0 THEN DefaultOverhead ELSE s, U64Max)

\* EIP-1559's calc_next_block_base_fee (external).
Eip1559(used, limit, fee, params) ==
  LET target == limit \div params.elasticity
      scale  == target * params.denominator
  IN  IF used = target THEN fee
      ELSE IF used > target
           THEN LET up == (fee * (used - target)) \div scale
                IN  fee + (IF up = 0 THEN 1 ELSE up)
           ELSE Monus(fee, (fee * (target - used)) \div scale)

\* next_block_base_fee_with_overhead.
Clamped(fee, time) == MinOf(fee, MaxFeeAt(time))

NextBaseFee(parent, overhead, time) ==
  Clamped(MinOf(Eip1559(parent.gasUsed, parent.gasLimit,
                        Monus(parent.baseFee, overhead), ParamsAt(time)) + overhead,
                U64Max),
          time)

\* next_block_base_fee_for_parent: the overhead comes from the parent's post-state.
ChildFee(time) == NextBaseFee(tip, Overhead(slot), time)

\* predict_next_block_base_fee.
PredictionTime(parent) == parent.time + 1
PredictedFee_Stateless(parent, s) == NextBaseFee(parent, DefaultOverhead, PredictionTime(parent))
PredictedFee(parent, s) == NextBaseFee(parent, Overhead(s), PredictionTime(parent))

-----------------------------------------------------------------------------
(* The builder *)

\* next_block_gas_limit.
NextGasLimit_Jump(attribute, parent) ==
  IF attribute # None THEN attribute
  ELSE IF GasTarget = None THEN parent ELSE GasTarget
NextGasLimit(attribute, parent) ==
  LET step == parent \div BoundDivisor
  IN  IF attribute # None THEN attribute
      ELSE IF GasTarget = None THEN parent
      ELSE Clamp(GasTarget, Monus(parent, step), parent + step)

\* validate_payload_attributes_against_header.
AttributesFit(time) == time >= tip.time

\* assemble_block: the environment's values, and the one legal value elsewhere.
BuiltHeader(time, limit, used, fee, explicit, s) ==
  [from |-> "builder", explicit |-> explicit, time |-> time, gasLimit |-> limit,
   gasUsed |-> used, baseFee |-> fee, overhead |-> Overhead(slot), slot |-> s,
   defect |-> "none"]

\* build_payload's header inputs; the block may write the overhead slot.
Build ==
  /\ cand = NoCand
  /\ \E time \in 0 .. MaxTime, attribute \in AttributeGas, s \in Slots :
       LET limit == NextGasLimit(attribute, tip.gasLimit)
       IN  /\ AttributesFit(time)
           /\ \E used \in {0, limit \div 2, limit} :
                cand' = BuiltHeader(time, limit, used, ChildFee(time),
                                    attribute # None, s)
  /\ UNCHANGED <<tip, slot, now, poolFee, poolHead>>

\* A block from elsewhere: any timestamp, gas limit and fee, or one defect.
PeerBlock ==
  /\ cand = NoCand
  /\ \E time \in 0 .. MaxTime, limit \in MinGasLimit - 1 .. MaxGasLimit,
        fee \in {ChildFee(PredictionTime(tip)), MaxFee, MaxFee + 1}, defect \in Defects :
       /\ defect # "none" => time = tip.time /\ limit = tip.gasLimit
       /\ cand' = [from |-> "peer", explicit |-> FALSE, time |-> time,
                   gasLimit |-> limit, gasUsed |-> limit, baseFee |-> fee,
                   overhead |-> Overhead(slot), slot |-> slot, defect |-> defect]
  /\ UNCHANGED <<tip, slot, now, poolFee, poolHead>>

-----------------------------------------------------------------------------
(* Import *)

\* validate_dogeos_fields and convert_payload_to_block.
ValidPayload(h) == h.defect # "payload"

\* validate_header_timestamp: no block from the future.
ValidTimestamp(h) == h.time <= now

\* validate_header.
ValidHeader(h) ==
  /\ h.defect # "header"
  /\ h.baseFee <= MaxFee
  /\ ValidTimestamp(h)
  /\ h.gasUsed <= h.gasLimit

\* validate_gas_limit_against_parent.
ValidGasLimit(h) ==
  /\ LET diff == IF h.gasLimit > tip.gasLimit THEN h.gasLimit - tip.gasLimit
                 ELSE tip.gasLimit - h.gasLimit
     IN  diff <= tip.gasLimit \div BoundDivisor
  /\ h.gasLimit >= MinGasLimit

\* validate_header_against_parent.
ValidAgainstParent(h) == h.time >= tip.time /\ ValidGasLimit(h)

\* DogeosConsensus::validate_block_pre_execution and _post_execution: the body,
\* and what its execution produced, match the header.
ValidBody(h) == h.defect # "body"
ValidOutput(h) == h.defect # "output"

\* validate_block_pre_execution: the exact base fee.
ValidBaseFee_Unchecked(h) == TRUE
ValidBaseFee(h) == h.baseFee = ChildFee(h.time)

Accepts(h) ==
  /\ ValidPayload(h) /\ ValidHeader(h) /\ ValidAgainstParent(h)
  /\ ValidBody(h) /\ ValidBaseFee(h) /\ ValidOutput(h)

Import ==
  /\ cand # NoCand
  /\ Accepts(cand)
  /\ tip' = [time |-> cand.time, gasLimit |-> cand.gasLimit, gasUsed |-> cand.gasUsed,
             baseFee |-> cand.baseFee, overhead |-> cand.overhead]
  /\ slot' = cand.slot
  /\ cand' = NoCand
  /\ poolHead' = IF poolHead = "none" THEN "none" ELSE "behind"
  /\ UNCHANGED <<now, poolFee>>

Reject ==
  /\ cand # NoCand
  /\ ~Accepts(cand)
  /\ cand' = NoCand
  /\ UNCHANGED <<tip, slot, now, poolFee, poolHead>>

Tick ==
  /\ now < MaxTime
  /\ now' = now + 1
  /\ UNCHANGED <<tip, slot, cand, poolFee, poolHead>>

-----------------------------------------------------------------------------
(* The pool: set_block_info and on_canonical_state_change *)

\* pending_base_fee when the head's state cannot be read.
KeptFee == IF poolHead = "none" THEN MaxFee ELSE poolFee

\* "unread" stands for a fee that has never come from a head.
PoolApply ==
  /\ poolHead \in {"none", "behind"}
  /\ \/ /\ poolFee' = PredictedFee(tip, slot)
        /\ poolHead' = "read"
     \/ /\ poolFee' = KeptFee
        /\ poolHead' = IF poolHead = "none" \/ poolFee = MaxFee THEN "unread" ELSE "kept"
  /\ UNCHANGED <<tip, slot, now, cand>>

-----------------------------------------------------------------------------
(* The genesis head, and the pool before its first head *)
HInit ==
  /\ \E limit \in MinGasLimit .. MaxGasLimit, fee \in 0 .. MaxFeeAt(0), s \in Slots :
       /\ tip = [time |-> 0, gasLimit |-> limit, gasUsed |-> 0, baseFee |-> fee,
                 overhead |-> 0]
       /\ slot = s
  /\ now = 0
  /\ cand = NoCand
  /\ poolFee = 0
  /\ poolHead = "none"

HNext == Build \/ PeerBlock \/ Import \/ Reject \/ Tick \/ PoolApply

HSpec == HInit /\ [][HNext]_hvars

-----------------------------------------------------------------------------
(* Properties *)

\* What next_block_gas_limit, the fee provider and the assembler put in a header
\* passes every header check of import once the wall clock has reached its
\* timestamp, as long as the engine asked for no gas limit of its own: the node
\* never builds a block it would refuse.
BuiltIsImportable ==
  (cand # NoCand /\ cand.from = "builder" /\ ~cand.explicit /\ cand.time <= now)
    => Accepts(cand)

\* The canonical base fee lies between the overhead that its own parent state
\* configured and the clamp of its own timestamp, whoever built the block.
FeeBand ==
  /\ tip.baseFee <= MaxFeeAt(tip.time)
  /\ tip.baseFee >= MinOf(tip.overhead, MaxFeeAt(tip.time))

\* The fee the pool works with is right for the next block.  While it comes from
\* the current head, every child that import accepts has exactly that fee, unless
\* TsukiV2 separates the child's timestamp from the predicted one
\* (predict_next_block_base_fee against the real fee).  Until the pool has read
\* its first head, no block the node accepts has a fee above the pool's:
\* pending_base_fee promotes nothing underpriced when the state cannot be read.
PoolFeeFitsChild ==
  cand # NoCand /\ Accepts(cand) =>
    /\ (poolHead = "read" /\ TsukiV2(cand.time) = TsukiV2(PredictionTime(tip)))
         => cand.baseFee = poolFee
    /\ poolHead = "unread" => cand.baseFee <= poolFee

\* The inductive invariant: FeeBand with the ranges the arithmetic needs, what a
\* waiting block owes to the tip it was made for, and what the pool's fee is.
Header == [time : Nat, gasLimit : Nat, gasUsed : Nat, baseFee : Nat, overhead : Nat]
Candidate ==
  [from : {"builder", "peer"}, explicit : BOOLEAN, time : Nat, gasLimit : Nat,
   gasUsed : Nat, baseFee : Nat, overhead : Nat, slot : Nat, defect : Defects]

HTypeOK ==
  /\ tip \in Header /\ tip.gasLimit >= MinGasLimit
  /\ slot \in Nat /\ now \in Nat /\ poolFee \in Nat
  /\ cand = NoCand \/ cand \in Candidate
  /\ poolHead \in {"none", "behind", "read", "kept", "unread"}

CandInv ==
  cand # NoCand =>
    /\ cand.overhead = Overhead(slot)
    /\ cand.from = "builder" =>
         /\ cand.time >= tip.time /\ cand.gasUsed <= cand.gasLimit
         /\ cand.baseFee = ChildFee(cand.time) /\ cand.defect = "none"
         /\ ~cand.explicit => cand.gasLimit = NextGasLimit(None, tip.gasLimit)

PoolInv ==
  /\ poolHead = "read" => poolFee = PredictedFee(tip, slot)
  /\ poolHead = "unread" => poolFee = MaxFee

HInv == HTypeOK /\ FeeBand /\ CandInv /\ PoolInv

\* base_fee.rs: "the earliest timestamp a child can have, `parent.timestamp + 1`":
\* no block that import accepts is earlier than the timestamp the prediction uses.
ChildAfterPrediction ==
  (cand # NoCand /\ Accepts(cand)) => cand.time >= PredictionTime(tip)

=============================================================================
