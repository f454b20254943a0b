--------------------------- MODULE ComponentProofs ---------------------------
(***************************************************************************)
(* Theorems about three components that share no state.                    *)
(*                                                                         *)
(* HeaderChain, for every schedule, limit and fee parameter: the canonical *)
(* fee stays in its band, the node imports what it builds, and the pool's  *)
(* fee is right for the next block.                                        *)
(*                                                                         *)
(* ScrollWire, for any peers, announcements and filter size, and any       *)
(* number of connections and messages: the duplicate filter is exactly the *)
(* last submissions, and the manager sends on a peer's newest connection.  *)
(*                                                                         *)
(* ValidationExecutor, for any finite set of requests, any capacity and    *)
(* any number of workers: permits are conserved, the queue holds the       *)
(* waiters in order, and the executor implements AdmissionCapacity.        *)
(***************************************************************************)
EXTENDS HeaderChain, ScrollWire, ValidationExecutor, FiniteSetTheorems, TLAPS

USE HeaderAssumption

(* Arithmetic *)

\* EIP-1559's fee is a natural number as long as the gas target is not zero.
LEMMA Eip1559Nat ==
  ASSUME NEW used \in Nat, NEW limit \in Nat, NEW fee \in Nat, NEW params,
         params.denominator \in Nat \ {0}, params.elasticity \in Nat \ {0},
         params.elasticity <= limit
  PROVE  Eip1559(used, limit, fee, params) \in Nat
<1> DEFINE target == limit \div params.elasticity
           scale  == target * params.denominator
<1>1. target \in Nat \ {0}
  OBVIOUS
<1>2. scale \in Nat \ {0}
  BY <1>1
<1> HIDE DEF target
<1>3. ASSUME NEW n \in Nat PROVE (fee * n) \div scale \in Nat
  <2> HIDE DEF scale
  <2>1. fee * n \in Nat
    OBVIOUS
  <2>2. ASSUME NEW x \in Nat PROVE x \div scale \in Nat
    BY <1>2
  <2>. QED BY <2>1, <2>2
<1> HIDE DEF scale
<1>4. CASE used = target
  BY <1>4 DEF Eip1559, target
<1>5. CASE used > target
  <2>1. used - target \in Nat
    BY <1>1, <1>5
  <2>2. (fee * (used - target)) \div scale \in Nat
    BY <2>1, <1>3
  <2>. QED BY <1>5, <1>1, <2>2 DEF Eip1559, target, scale
<1>6. CASE used < target
  <2>1. target - used \in Nat
    BY <1>1, <1>6
  <2>2. (fee * (target - used)) \div scale \in Nat
    BY <2>1, <1>3
  <2>. QED BY <1>6, <1>1, <2>2 DEF Eip1559, Monus, target, scale
<1>. QED BY <1>1, <1>4, <1>5, <1>6

\* The overhead is a u64, whatever the slot holds.
LEMMA OverheadNat ==
  ASSUME NEW s \in Nat
  PROVE  Overhead(s) \in Nat
  BY DEF Overhead, MinOf

\* A child's fee lies between its overhead and the clamp of its timestamp.
LEMMA NextFeeBand ==
  ASSUME NEW parent \in Header, parent.gasLimit >= MinGasLimit,
         NEW overhead \in Nat, overhead <= U64Max, NEW time \in Nat
  PROVE  /\ NextBaseFee(parent, overhead, time) \in Nat
         /\ NextBaseFee(parent, overhead, time) <= MaxFeeAt(time)
         /\ NextBaseFee(parent, overhead, time) >= MinOf(overhead, MaxFeeAt(time))
<1> DEFINE base == Monus(parent.baseFee, overhead)
           fee  == Eip1559(parent.gasUsed, parent.gasLimit, base, ParamsAt(time))
<1>1. MaxFeeAt(time) \in Nat /\ MaxFeeAt(time) <= U64Max
  BY DEF MaxFeeAt
<1>2. base \in Nat
  BY DEF Monus, Header
<1>3. /\ ParamsAt(time).denominator \in Nat \ {0}
      /\ ParamsAt(time).elasticity \in Nat \ {0}
      /\ ParamsAt(time).elasticity <= parent.gasLimit
  BY DEF ParamsAt, Header
<1> HIDE DEF base
<1>4. fee \in Nat
  BY <1>2, <1>3, Eip1559Nat DEF Header
<1>5. NextBaseFee(parent, overhead, time) = MinOf(MinOf(fee + overhead, U64Max), MaxFeeAt(time))
  BY DEF NextBaseFee, Clamped, base
<1> HIDE DEF fee
<1>. QED BY <1>1, <1>4, <1>5 DEF MinOf

\* The same for a child of the tip.
LEMMA ChildFeeBand ==
  ASSUME HTypeOK, NEW time \in Nat
  PROVE  /\ ChildFee(time) \in Nat
         /\ ChildFee(time) <= MaxFeeAt(time)
         /\ ChildFee(time) >= MinOf(Overhead(slot), MaxFeeAt(time))
<1>1. Overhead(slot) \in Nat /\ Overhead(slot) <= U64Max
  BY DEF HTypeOK, Overhead, MinOf
<1>. QED BY <1>1, NextFeeBand DEF HTypeOK, ChildFee

\* The configured ramp stays within the step that import allows.
LEMMA RampBounded ==
  ASSUME NEW parent \in Nat, parent >= MinGasLimit
  PROVE  /\ NextGasLimit(None, parent) \in Nat
         /\ NextGasLimit(None, parent) >= MinGasLimit
         /\ NextGasLimit(None, parent) - parent <= parent \div BoundDivisor
         /\ parent - NextGasLimit(None, parent) <= parent \div BoundDivisor
<1> DEFINE step == parent \div BoundDivisor
<1>1. step \in Nat
  OBVIOUS
<1>2. CASE GasTarget = None
  BY <1>1, <1>2 DEF NextGasLimit
<1>3. CASE GasTarget # None
  <2>1. NextGasLimit(None, parent) = Clamp(GasTarget, Monus(parent, step), parent + step)
    BY <1>3 DEF NextGasLimit
  <2> HIDE DEF step
  <2>2. /\ Clamp(GasTarget, Monus(parent, step), parent + step) \in Nat
        /\ Clamp(GasTarget, Monus(parent, step), parent + step) >= MinGasLimit
        /\ Clamp(GasTarget, Monus(parent, step), parent + step) - parent <= step
        /\ parent - Clamp(GasTarget, Monus(parent, step), parent + step) <= step
    BY <1>1, <1>3 DEF Clamp, Monus, MinOf
  <2>. QED BY <2>1, <2>2 DEF step
<1>. QED BY <1>2, <1>3

-----------------------------------------------------------------------------
(* The invariant *)

LEMMA HInitInv == HInit => HInv
<1> SUFFICES ASSUME HInit PROVE HInv
  OBVIOUS
<1>1. PICK limit \in MinGasLimit .. MaxGasLimit, fee \in 0 .. MaxFeeAt(0), s \in Slots :
        /\ tip = [time |-> 0, gasLimit |-> limit, gasUsed |-> 0, baseFee |-> fee,
                  overhead |-> 0]
        /\ slot = s
  BY DEF HInit
<1>2. MaxFeeAt(0) \in Nat
  BY DEF MaxFeeAt
<1>3. HTypeOK
  BY <1>1, <1>2 DEF HInit, HTypeOK, Header
<1>4. FeeBand
  BY <1>1, <1>2 DEF FeeBand, MinOf
<1>5. CandInv /\ PoolInv
  BY DEF HInit, CandInv, PoolInv
<1>. QED BY <1>3, <1>4, <1>5 DEF HInv

LEMMA BuildInv ==
  ASSUME HInv, Build
  PROVE  HInv'
<1>0. PICK time \in 0 .. MaxTime, attribute \in AttributeGas, s \in Slots :
        LET limit == NextGasLimit(attribute, tip.gasLimit)
        IN  /\ AttributesFit(time)
            /\ \E used \in {0, limit \div 2, limit} :
                 cand' = BuiltHeader(time, limit, used, ChildFee(time), attribute # None, s)
  BY DEF Build
<1>1. PICK used \in {0, NextGasLimit(attribute, tip.gasLimit) \div 2,
                     NextGasLimit(attribute, tip.gasLimit)} :
        /\ AttributesFit(time)
        /\ cand' = BuiltHeader(time, NextGasLimit(attribute, tip.gasLimit), used,
                               ChildFee(time), attribute # None, s)
  BY <1>0
<1> DEFINE limit == NextGasLimit(attribute, tip.gasLimit)
<1>2. UNCHANGED <<tip, slot, now, poolFee, poolHead>>
  BY DEF Build
<1>3. limit \in Nat
  <2>1. CASE attribute # None
    BY <2>1 DEF NextGasLimit
  <2>2. CASE attribute = None
    BY <2>2, RampBounded DEF HInv, HTypeOK, Header
  <2>. QED BY <2>1, <2>2
<1>4. used \in Nat /\ used <= limit
  <2> HIDE DEF limit
  <2>1. limit \div 2 \in Nat /\ limit \div 2 <= limit
    BY <1>3
  <2>. QED BY <1>1, <1>3, <2>1 DEF limit
<1>5. time \in Nat /\ s \in Nat /\ ChildFee(time) \in Nat /\ Overhead(slot) \in Nat
  <2>1. time \in Nat
    OBVIOUS
  <2>2. s \in Nat
    <3>1. Slots \subseteq Nat
      BY HeaderAssumption, Zenon
    <3>. QED BY <3>1
  <2>. QED BY <2>1, <2>2, ChildFeeBand, OverheadNat DEF HInv, HTypeOK
<1>6. cand' \in Candidate
  BY <1>1, <1>3, <1>4, <1>5 DEF BuiltHeader, Candidate, Defects
<1>7. HTypeOK'
  BY <1>2, <1>6 DEF HInv, HTypeOK
<1>8. FeeBand' /\ PoolInv'
  BY <1>2 DEF HInv, FeeBand, PoolInv, PredictedFee
<1>9. CandInv'
  <2>1. ~cand'.explicit => cand'.gasLimit = NextGasLimit(None, tip.gasLimit)
    BY <1>1 DEF BuiltHeader
  <2>2. cand'.time >= tip.time
    BY <1>1 DEF BuiltHeader, AttributesFit
  <2>3. /\ cand'.overhead = Overhead(slot) /\ cand'.defect = "none"
        /\ cand'.baseFee = ChildFee(cand'.time) /\ cand'.gasUsed <= cand'.gasLimit
    BY <1>1, <1>4 DEF BuiltHeader
  <2>. QED BY <1>2, <2>1, <2>2, <2>3 DEF CandInv, ChildFee
<1>. QED BY <1>7, <1>8, <1>9 DEF HInv

LEMMA PeerBlockInv ==
  ASSUME HInv, PeerBlock
  PROVE  HInv'
<1>1. PICK time \in 0 .. MaxTime, limit \in MinGasLimit - 1 .. MaxGasLimit,
           fee \in {ChildFee(PredictionTime(tip)), MaxFee, MaxFee + 1}, defect \in Defects :
        cand' = [from |-> "peer", explicit |-> FALSE, time |-> time,
                 gasLimit |-> limit, gasUsed |-> limit, baseFee |-> fee,
                 overhead |-> Overhead(slot), slot |-> slot, defect |-> defect]
  BY DEF PeerBlock
<1>2. UNCHANGED <<tip, slot, now, poolFee, poolHead>>
  BY DEF PeerBlock
<1>3. fee \in Nat
  <2>1. PredictionTime(tip) \in Nat
    BY DEF HInv, HTypeOK, Header, PredictionTime
  <2>. QED BY <2>1, ChildFeeBand DEF HInv
<1>4. time \in Nat /\ limit \in Nat /\ slot \in Nat /\ Overhead(slot) \in Nat
  BY OverheadNat DEF HInv, HTypeOK
<1>5. cand' \in Candidate
  BY <1>1, <1>3, <1>4 DEF Candidate
<1>6. HTypeOK'
  BY <1>2, <1>5 DEF HInv, HTypeOK
<1>7. FeeBand' /\ PoolInv'
  BY <1>2 DEF HInv, FeeBand, PoolInv, PredictedFee
<1>8. CandInv'
  BY <1>1, <1>2 DEF CandInv
<1>. QED BY <1>6, <1>7, <1>8 DEF HInv

LEMMA ImportInv ==
  ASSUME HInv, Import
  PROVE  HInv'
<1>1. /\ cand # NoCand /\ cand \in Candidate /\ Accepts(cand)
      /\ tip' = [time |-> cand.time, gasLimit |-> cand.gasLimit, gasUsed |-> cand.gasUsed,
                 baseFee |-> cand.baseFee, overhead |-> cand.overhead]
      /\ slot' = cand.slot /\ cand' = NoCand /\ UNCHANGED <<now, poolFee>>
      /\ poolHead' \in {"none", "behind"}
  BY DEF HInv, HTypeOK, Import
<1>2. tip' \in Header /\ tip'.gasLimit >= MinGasLimit
  BY <1>1 DEF Candidate, Header, Accepts, ValidAgainstParent, ValidGasLimit
<1>3. HTypeOK'
  BY <1>1, <1>2 DEF HInv, HTypeOK, Candidate
<1>4. FeeBand'
  <2>1. cand.baseFee = ChildFee(cand.time) /\ cand.overhead = Overhead(slot)
    BY <1>1 DEF HInv, CandInv, Accepts, ValidBaseFee
  <2>2. cand.time \in Nat
    BY <1>1 DEF Candidate
  <2>3. /\ cand.baseFee <= MaxFeeAt(cand.time)
        /\ cand.baseFee >= MinOf(cand.overhead, MaxFeeAt(cand.time))
    BY <2>1, <2>2, ChildFeeBand DEF HInv
  <2>. QED BY <1>1, <2>3 DEF FeeBand
<1>5. CandInv' /\ PoolInv'
  BY <1>1 DEF CandInv, PoolInv
<1>. QED BY <1>3, <1>4, <1>5 DEF HInv

LEMMA PoolApplyInv ==
  ASSUME HInv, PoolApply
  PROVE  HInv'
<1>1. UNCHANGED <<tip, slot, now, cand>>
  BY DEF PoolApply
<1>2. FeeBand' /\ CandInv'
  BY <1>1 DEF HInv, FeeBand, CandInv, ChildFee
<1>3. PredictedFee(tip, slot)' = PredictedFee(tip, slot)
  BY <1>1 DEF PredictedFee
<1>4. CASE poolFee' = PredictedFee(tip, slot) /\ poolHead' = "read"
  <2>1. PredictionTime(tip) \in Nat
    BY DEF HInv, HTypeOK, Header, PredictionTime
  <2>2. PredictedFee(tip, slot) \in Nat
    BY <2>1, ChildFeeBand DEF HInv, PredictedFee, ChildFee
  <2>. QED BY <1>1, <1>2, <1>3, <1>4, <2>2 DEF HInv, HTypeOK, PoolInv
<1>5. CASE /\ poolFee' = KeptFee
           /\ poolHead' = IF poolHead = "none" \/ poolFee = MaxFee THEN "unread" ELSE "kept"
  BY <1>1, <1>2, <1>5 DEF HInv, HTypeOK, PoolInv, KeptFee
<1>. QED BY <1>4, <1>5 DEF PoolApply

LEMMA HStepInv == HInv /\ [HNext]_hvars => HInv'
<1> SUFFICES ASSUME HInv, [HNext]_hvars PROVE HInv'
  OBVIOUS
<1>1. CASE Reject \/ Tick
  BY <1>1 DEF Reject, Tick, HInv, HTypeOK, FeeBand, CandInv, PoolInv, ChildFee, PredictedFee
<1>2. CASE UNCHANGED hvars
  BY <1>2 DEF hvars, HInv, HTypeOK, FeeBand, CandInv, PoolInv, ChildFee, PredictedFee
<1>. QED BY <1>1, <1>2, BuildInv, PeerBlockInv, ImportInv, PoolApplyInv DEF HNext

LEMMA HInvariant == HSpec => []HInv
  BY HInitInv, HStepInv, PTL DEF HSpec

-----------------------------------------------------------------------------
(* Theorems *)

\* Header, candidate, pool fee and clock keep their types, and the chain's gas
\* limit never falls below the minimum of validate_gas_limit_against_parent.
THEOREM HeaderTypeCorrect == HSpec => []HTypeOK
<1>1. HInv => HTypeOK
  BY DEF HInv
<1>. QED BY <1>1, HInvariant, PTL

\* The canonical base fee stays between the overhead of its own parent's state and
\* the clamp of its timestamp, for every schedule and every EIP-1559 parameter.
THEOREM FeeStaysInBand == HSpec => []FeeBand
<1>1. HInv => FeeBand
  BY DEF HInv
<1>. QED BY <1>1, HInvariant, PTL

\* A block that the builder made without an explicit gas limit passes every header
\* check of import once its timestamp has come.
THEOREM BuilderImports == HSpec => []BuiltIsImportable
<1>1. HInv => BuiltIsImportable
  <2> SUFFICES ASSUME HInv, cand # NoCand, cand.from = "builder", ~cand.explicit,
                      cand.time <= now
               PROVE  Accepts(cand)
    BY DEF BuiltIsImportable
  <2>1. cand \in Candidate
    BY DEF HInv, HTypeOK
  <2>2. /\ cand.time >= tip.time /\ cand.gasUsed <= cand.gasLimit
        /\ cand.baseFee = ChildFee(cand.time) /\ cand.defect = "none"
        /\ cand.gasLimit = NextGasLimit(None, tip.gasLimit)
    BY DEF HInv, CandInv
  <2>3. ValidGasLimit(cand)
    <3>1. tip.gasLimit \in Nat /\ tip.gasLimit >= MinGasLimit
      BY DEF HInv, HTypeOK, Header
    <3>2. /\ cand.gasLimit \in Nat /\ cand.gasLimit >= MinGasLimit
          /\ cand.gasLimit - tip.gasLimit <= tip.gasLimit \div BoundDivisor
          /\ tip.gasLimit - cand.gasLimit <= tip.gasLimit \div BoundDivisor
      BY <2>2, <3>1, RampBounded
    <3>. QED BY <3>1, <3>2 DEF ValidGasLimit
  <2>4. cand.baseFee <= MaxFee
    <3>1. cand.time \in Nat
      BY <2>1 DEF Candidate
    <3>2. ChildFee(cand.time) \in Nat /\ ChildFee(cand.time) <= MaxFeeAt(cand.time)
      BY <3>1, ChildFeeBand DEF HInv
    <3>. QED BY <2>2, <3>2 DEF MaxFeeAt
  <2>. QED BY <2>2, <2>3, <2>4 DEF Accepts, ValidPayload, ValidHeader, ValidTimestamp,
              ValidAgainstParent, ValidBody, ValidOutput, ValidBaseFee
<1>. QED BY <1>1, HInvariant, PTL

\* A fee that the pool read from the head is the fee of every acceptable child on
\* the same side of TsukiV2, and a pool that has read no head promotes nothing that
\* the next block would find underpriced.
THEOREM PoolFeeFits == HSpec => []PoolFeeFitsChild
<1>1. HInv => PoolFeeFitsChild
  <2> SUFFICES ASSUME HInv, cand # NoCand, Accepts(cand)
               PROVE  /\ (poolHead = "read" /\ TsukiV2(cand.time) = TsukiV2(PredictionTime(tip)))
                           => cand.baseFee = poolFee
                      /\ poolHead = "unread" => cand.baseFee <= poolFee
    BY DEF PoolFeeFitsChild
  <2>1. cand.baseFee = ChildFee(cand.time) /\ cand.baseFee <= MaxFee
    BY DEF Accepts, ValidBaseFee, ValidHeader
  <2>2. ASSUME TsukiV2(cand.time) = TsukiV2(PredictionTime(tip))
        PROVE  ChildFee(cand.time) = PredictedFee(tip, slot)
    <3>1. /\ ParamsAt(cand.time) = ParamsAt(PredictionTime(tip))
          /\ MaxFeeAt(cand.time) = MaxFeeAt(PredictionTime(tip))
      BY <2>2 DEF ParamsAt, MaxFeeAt
    <3>. QED BY <3>1 DEF ChildFee, PredictedFee, NextBaseFee, Clamped
  <2>. QED BY <2>1, <2>2 DEF HInv, PoolInv
<1>. QED BY <1>1, HInvariant, PTL

-----------------------------------------------------------------------------
HIDE HeaderAssumption
USE WireAssumption

(* Sequences *)

\* Appending adds one element to what a sequence holds.
LEMMA InOrderAppend ==
  ASSUME NEW S, NEW s \in Seq(S), NEW x \in S
  PROVE  /\ Append(s, x) \in Seq(S)
         /\ InOrder(Append(s, x)) = InOrder(s) \cup {x}
  BY DEF InOrder

\* A sequence holds its head and what its tail holds.
LEMMA InOrderTail ==
  ASSUME NEW S, NEW s \in Seq(S), s # <<>>
  PROVE  /\ Head(s) \in S /\ Tail(s) \in Seq(S)
         /\ Len(Tail(s)) = Len(s) - 1
         /\ \A i \in DOMAIN Tail(s) : i + 1 \in DOMAIN s /\ Tail(s)[i] = s[i + 1]
         /\ Head(s) = s[1] /\ 1 \in DOMAIN s
         /\ InOrder(s) = InOrder(Tail(s)) \cup {Head(s)}
<1>1. /\ Head(s) \in S /\ Tail(s) \in Seq(S) /\ Len(Tail(s)) = Len(s) - 1
      /\ \A i \in DOMAIN Tail(s) : i + 1 \in DOMAIN s /\ Tail(s)[i] = s[i + 1]
      /\ Head(s) = s[1] /\ 1 \in DOMAIN s
  OBVIOUS
<1>2. ASSUME NEW i \in DOMAIN s PROVE s[i] \in InOrder(Tail(s)) \cup {Head(s)}
  <2>1. CASE i = 1
    BY <1>1, <2>1
  <2>2. CASE i # 1
    <3>1. i - 1 \in DOMAIN Tail(s)
      BY <2>2, <1>1
    <3>2. Tail(s)[i - 1] = s[i]
      BY <3>1, <1>1
    <3>. QED BY <3>1, <3>2 DEF InOrder
  <2>. QED BY <2>1, <2>2
<1>3. InOrder(Tail(s)) \cup {Head(s)} \subseteq InOrder(s)
  BY <1>1 DEF InOrder
<1>4. InOrder(s) \subseteq InOrder(Tail(s)) \cup {Head(s)}
  BY <1>2 DEF InOrder
<1>. QED BY <1>1, <1>3, <1>4

\* Established events of different connections are different.
LEMMA EstablishedInjective ==
  ASSUME NEW c, NEW d, Established(c) = Established(d)
  PROVE  c = d
<1>1. Established(c).conn = c /\ Established(d).conn = d
  BY DEF Established
<1>. QED BY <1>1

-----------------------------------------------------------------------------
(* The duplicate filter *)

LEMMA FilterStep ==
  ASSUME WTypeOK, SeenIsLastSubmitted, NEW b \in Announcements, Verified(b),
         blocksSeen' = Inserted(b), submitted' = Append(submitted, b)
  PROVE  /\ blocksSeen' \in Seq(Authorized) /\ submitted' \in Seq(Announcements)
         /\ SeenIsLastSubmitted'
<1> DEFINE s == Append(blocksSeen, b.key)
<1>1. /\ blocksSeen \in Seq(Authorized) /\ submitted \in Seq(Announcements)
      /\ Len(blocksSeen) \in Nat /\ Len(submitted) \in Nat
  BY DEF WTypeOK
<1>2. /\ s \in Seq(Authorized) /\ Len(s) = Len(blocksSeen) + 1
      /\ \A i \in DOMAIN blocksSeen : s[i] = blocksSeen[i]
      /\ s[Len(blocksSeen) + 1] = b.key
  <2>1. b.key \in Authorized
    BY DEF Verified
  <2>. QED BY <1>1, <2>1
<1>3. /\ submitted' \in Seq(Announcements) /\ Len(submitted') = Len(submitted) + 1
      /\ \A i \in DOMAIN submitted : submitted'[i] = submitted[i]
      /\ submitted'[Len(submitted) + 1] = b
  BY <1>1
<1>4. /\ Len(blocksSeen) = IF Len(submitted) < LruSize THEN Len(submitted) ELSE LruSize
      /\ \A i \in DOMAIN blocksSeen :
           blocksSeen[i] = submitted[Len(submitted) - Len(blocksSeen) + i].key
  BY DEF SeenIsLastSubmitted
<1> HIDE DEF s
<1>5. ASSUME NEW i \in 1 .. Len(s)
      PROVE  s[i] = submitted'[Len(submitted') - Len(s) + i].key
  <2>1. CASE i = Len(blocksSeen) + 1
    BY <1>1, <1>2, <1>3, <2>1
  <2>2. CASE i # Len(blocksSeen) + 1
    <3>1. i \in DOMAIN blocksSeen
      BY <1>1, <1>2, <2>2
    <3>2. Len(submitted) - Len(blocksSeen) + i \in DOMAIN submitted
      BY <1>1, <1>4, <3>1
    <3>3. s[i] = submitted[Len(submitted) - Len(blocksSeen) + i].key
      BY <1>2, <1>4, <3>1, SMTT(30)
    <3>4. Len(submitted') - Len(s) + i = Len(submitted) - Len(blocksSeen) + i
      BY <1>1, <1>2, <1>3
    <3>. QED BY <1>3, <3>2, <3>3, <3>4
  <2>. QED BY <2>1, <2>2
<1>6. \A i \in DOMAIN submitted' : Verified(submitted[i])'
  <2>1. DOMAIN submitted' = 1 .. Len(submitted) + 1 /\ DOMAIN submitted = 1 .. Len(submitted)
    BY <1>1, <1>3
  <2>2. \A i \in DOMAIN submitted : Verified(submitted[i])
    BY DEF SeenIsLastSubmitted
  <2>. QED BY <1>1, <1>3, <2>1, <2>2 DEF Verified
<1>7. CASE Len(s) > LruSize
  <2>1. blocksSeen' = Tail(s) /\ s # <<>>
    BY <1>7, <1>1, <1>2 DEF Inserted, s
  <2>2. /\ Tail(s) \in Seq(Authorized) /\ Len(Tail(s)) = Len(s) - 1
        /\ \A i \in DOMAIN Tail(s) : Tail(s)[i] = s[i + 1]
    BY <1>2, <2>1, InOrderTail
  <2>3. Len(blocksSeen) = LruSize /\ Len(submitted) >= LruSize
    BY <1>1, <1>2, <1>4, <1>7
  <2>4. ASSUME NEW i \in DOMAIN blocksSeen'
        PROVE  blocksSeen'[i] = submitted'[Len(submitted') - Len(blocksSeen') + i].key
    <3>0. DOMAIN Tail(s) = 1 .. Len(Tail(s))
      BY <2>2
    <3>1. i \in 1 .. Len(s) - 1 /\ i + 1 \in 1 .. Len(s)
      BY <1>1, <1>2, <2>1, <2>2, <3>0
    <3>2. Tail(s)[i] = submitted'[Len(submitted') - Len(s) + (i + 1)].key
      BY <2>1, <2>2, <3>1, <1>5
    <3>3. Len(submitted') - Len(s) + (i + 1) = Len(submitted') - Len(blocksSeen') + i
      <4>1. Len(blocksSeen') = Len(s) - 1
        BY <2>1, <2>2
      <4>2. Len(s) \in Nat /\ Len(submitted') \in Nat /\ i \in Nat
        BY <1>1, <1>2, <1>3, <3>1
      <4>. QED BY <4>1, <4>2
    <3>. QED BY <2>1, <3>2, <3>3
  <2>5. Len(blocksSeen') = IF Len(submitted') < LruSize THEN Len(submitted') ELSE LruSize
    BY <1>1, <1>2, <1>3, <2>1, <2>2, <2>3
  <2>. QED BY <1>3, <1>6, <2>1, <2>2, <2>4, <2>5, Zenon DEF SeenIsLastSubmitted
<1>8. CASE ~(Len(s) > LruSize)
  <2>1. blocksSeen' = s
    BY <1>8 DEF Inserted, s
  <2>2. DOMAIN s = 1 .. Len(s)
    BY <1>2
  <2>3. Len(s) = IF Len(submitted') < LruSize THEN Len(submitted') ELSE LruSize
    BY <1>1, <1>2, <1>3, <1>4, <1>8
  <2>. QED BY <1>2, <1>3, <1>5, <1>6, <2>1, <2>2, <2>3 DEF SeenIsLastSubmitted
<1>. QED BY <1>7, <1>8

-----------------------------------------------------------------------------
(* The event queue *)

\* A new connection: its number is the next, its event the last.
LEMMA ConnectInv ==
  ASSUME WInv, NEW p \in Peers, Connect(p)
  PROVE  WInv'
<1>1. PICK c \in Conns :
        /\ owner[c] = NoPeer /\ \A d \in 1 .. c - 1 : owner[d] # NoPeer
        /\ owner' = [owner EXCEPT ![c] = p]
        /\ alive' = alive \cup {c}
        /\ events' = Append(events, Established(c))
  BY DEF Connect, EstablishedEvents
<1>2. UNCHANGED <<user, outbox, connections, blocksSeen, importing, messages, submitted, failed>>
  BY DEF Connect
<1>3. Established(c) \in Events
  <2>1. Established(c) \in ConnectionEvents
    BY DEF Established, ConnectionEvents
  <2>. QED BY <2>1 DEF Events
<1>4. events' \in Seq(Events) /\ InOrder(events') = InOrder(events) \cup {Established(c)}
  BY <1>1, <1>3, InOrderAppend DEF WInv, WTypeOK
<1>5. Opened' = Opened \cup {c} /\ c \notin Opened
  BY <1>1 DEF WInv, WTypeOK, Opened
<1>6. \A d \in Opened : d < c
  <2> SUFFICES ASSUME NEW d \in Opened, ~(d < c) PROVE FALSE
    OBVIOUS
  <2>1. d # c /\ d \in Nat /\ c \in Nat
    BY <1>5 DEF Opened, Conns
  <2>2. c \in 1 .. d - 1
    BY <2>1 DEF Conns
  <2>. QED BY <1>5, <2>2 DEF WInv, OrderInv
<1>7. \A d : Queued(d)' <=> Queued(d) \/ d = c
  BY <1>4, EstablishedInjective DEF Queued
<1>8. ~Queued(c)
  <2> SUFFICES ASSUME Queued(c) PROVE FALSE
    OBVIOUS
  <2>1. PICK i \in DOMAIN events : events[i] = Established(c)
    BY DEF Queued, InOrder
  <2>2. events[i].kind = "established" /\ events[i].conn = c
    BY <2>1 DEF Established
  <2>. QED BY <2>2, <1>5 DEF WInv, OrderInv
<1>9. WTypeOK'
  BY <1>1, <1>2, <1>4 DEF WInv, WTypeOK
<1>10. OrderInv'
  <2>1. \A d \in Opened' : \A e \in 1 .. d - 1 : e \in Opened'
    <3> SUFFICES ASSUME NEW d \in Opened', NEW e \in 1 .. d - 1 PROVE e \in Opened'
      OBVIOUS
    <3>1. CASE d = c
      <4>1. owner[e] # NoPeer /\ e \in Conns
        BY <1>1, <3>1 DEF Conns
      <4>. QED BY <4>1, <1>5 DEF Opened
    <3>2. CASE d \in Opened
      BY <3>2, <1>5 DEF WInv, OrderInv
    <3>. QED BY <3>1, <3>2, <1>5
  <2>2. Len(events) \in Nat /\ Len(events') = Len(events) + 1 /\ DOMAIN events = 1 .. Len(events)
        /\ DOMAIN events' = 1 .. Len(events) + 1
        /\ (\A i \in 1 .. Len(events) : events'[i] = events[i])
        /\ events'[Len(events) + 1] = Established(c)
    BY <1>1, <1>3 DEF WInv, WTypeOK
  <2>3. Established(c).kind = "established" /\ Established(c).conn = c
    BY DEF Established
  <2>4. ASSUME NEW i \in DOMAIN events', events'[i].kind = "established"
        PROVE  events'[i] = Established(events'[i].conn) /\ events'[i].conn \in Opened'
    <3>1. CASE i = Len(events) + 1
      BY <3>1, <2>2, <2>3, <1>5
    <3>2. CASE i \in DOMAIN events
      BY <3>2, <2>2, <2>4, <1>5 DEF WInv, OrderInv
    <3>. QED BY <3>1, <3>2, <2>2
  <2>5. ASSUME NEW i \in DOMAIN events', NEW j \in DOMAIN events', i < j,
               events'[i].kind = "established", events'[j].kind = "established"
        PROVE  events'[i].conn < events'[j].conn
    <3>1. i \in DOMAIN events
      BY <2>2, <2>5
    <3>2. events'[i] = events[i] /\ events[i].conn \in Opened
      BY <3>1, <2>2, <2>5 DEF WInv, OrderInv
    <3>3. CASE j = Len(events) + 1
      BY <3>2, <3>3, <2>2, <2>3, <1>6
    <3>4. CASE j \in DOMAIN events
      BY <3>1, <3>4, <2>2, <2>5 DEF WInv, OrderInv
    <3>. QED BY <3>3, <3>4, <2>2
  <2>6. ASSUME NEW d \in Opened', NEW e \in Opened', d < e, Queued(d)'
        PROVE  Queued(e)'
    <3>1. CASE e = c
      BY <3>1, <1>7
    <3>2. CASE e # c
      <4>1. e \in Opened /\ e < c
        BY <3>2, <1>5, <1>6
      <4>2. d # c
        BY <2>6, <4>1 DEF Opened, Conns
      <4>. QED BY <2>6, <4>1, <4>2, <1>5, <1>7 DEF WInv, OrderInv
    <3>. QED BY <3>1, <3>2
  <2>7. \A i \in DOMAIN events' : events'[i].kind = "established" =>
          events'[i] = Established(events'[i].conn) /\ events'[i].conn \in Opened'
    BY <2>4
  <2>8. \A i, j \in DOMAIN events' :
          i < j /\ events'[i].kind = "established" /\ events'[j].kind = "established" =>
            events'[i].conn < events'[j].conn
    BY <2>5
  <2>9. \A d, e \in Opened' : d < e /\ Queued(d)' => Queued(e)'
    BY <2>6
  <2>. QED BY <2>1, <2>7, <2>8, <2>9 DEF OrderInv, Established
<1>11. RegisteredInv'
  <2>1. ASSUME NEW q \in Peers, connections[q] # 0
        PROVE  owner'[connections[q]] = q /\ ~Queued(connections[q])'
    <3>1. owner[connections[q]] = q /\ ~Queued(connections[q]) /\ connections[q] \in Conns
      BY <2>1 DEF WInv, RegisteredInv, WTypeOK, Conns
    <3>2. connections[q] # c
      BY <3>1, <1>1
    <3>. QED BY <3>1, <3>2, <1>1, <1>2, <1>7 DEF WInv, WTypeOK
  <2>2. ASSUME NEW d \in failed
        PROVE  d \in Opened' /\ ~Queued(d)'
    BY <1>5, <1>7 DEF WInv, RegisteredInv
  <2>. QED BY <1>2, <2>1, <2>2 DEF RegisteredInv
<1>12. NewestIsRegistered'
  <2> SUFFICES ASSUME NEW q \in Peers, NEW d \in Opened', owner'[d] = q,
                      \A e \in Opened' : owner'[e] = q => e <= d,
                      ~Queued(d)'
               PROVE  connections'[q] = (IF d \in failed' THEN 0 ELSE d)
    BY DEF NewestIsRegistered, Queued
  <2>1. d # c /\ d \in Opened /\ ~Queued(d) /\ owner[d] = q
    BY <1>1, <1>5, <1>7 DEF WInv, WTypeOK
  <2>2. \A e \in Opened : owner[e] = q => e <= d
    BY <1>1, <1>5 DEF WInv, WTypeOK, Opened
  <2>. QED BY <2>1, <2>2, <1>2 DEF WInv, NewestIsRegistered, Queued
<1>13. SeenIsLastSubmitted'
  BY <1>2 DEF WInv, SeenIsLastSubmitted
<1>. QED BY <1>9, <1>10, <1>11, <1>12, <1>13 DEF WInv

\* The manager takes the oldest event: nothing else changes in the queue, and the
\* connection of an established event leaves it for good.
LEMMA TakeEvent ==
  ASSUME WInv, events # <<>>, events' = Tail(events), owner' = owner
  PROVE  /\ events' \in Seq(Events) /\ Head(events) \in Events /\ OrderInv'
         /\ Head(events).kind = "block" => \A c : Queued(c)' <=> Queued(c)
         /\ Head(events).kind = "established" =>
              /\ Head(events).conn \in Opened /\ Queued(Head(events).conn)
              /\ \A c : Queued(c)' <=> Queued(c) /\ c # Head(events).conn
<1> DEFINE h == Head(events)
<1>1. /\ h \in Events /\ events' \in Seq(Events) /\ Len(events') = Len(events) - 1
      /\ \A i \in DOMAIN events' : i + 1 \in DOMAIN events /\ events'[i] = events[i + 1]
      /\ h = events[1] /\ 1 \in DOMAIN events
      /\ InOrder(events) = InOrder(events') \cup {h}
  BY InOrderTail DEF WInv, WTypeOK
<1>2. Opened' = Opened
  BY DEF Opened
<1> HIDE DEF h
<1>3. DOMAIN events' \subseteq Nat \ {0} /\ DOMAIN events \subseteq Nat \ {0}
  BY <1>1 DEF WInv, WTypeOK
<1>4. ASSUME h.kind = "block", NEW c
      PROVE  Queued(c)' <=> Queued(c)
  <2>1. h # Established(c)
    BY <1>4 DEF Established
  <2>. QED BY <2>1, <1>1 DEF Queued, Established
<1>5. ASSUME h.kind = "established"
      PROVE  /\ h = Established(h.conn) /\ h.conn \in Opened /\ Queued(h.conn)
             /\ \A i \in DOMAIN events' : events'[i].kind = "established" => h.conn < events'[i].conn
  <2>1. h = Established(h.conn) /\ h.conn \in Opened
    BY <1>1, <1>5 DEF WInv, OrderInv
  <2>2. h \in InOrder(events)
    BY <1>1
  <2>3. Queued(h.conn)
    BY <2>1, <2>2 DEF Queued
  <2>4. ASSUME NEW i \in DOMAIN events', events'[i].kind = "established"
        PROVE  h.conn < events'[i].conn
    <3>1. i + 1 \in DOMAIN events /\ events'[i] = events[i + 1] /\ 1 < i + 1
      BY <1>1, <1>3
    <3>. QED BY <3>1, <1>1, <1>5, <2>4 DEF WInv, OrderInv
  <2>. QED BY <2>1, <2>3, <2>4
<1>6. ASSUME h.kind = "established", NEW c, Queued(c)'
      PROVE  h.conn < c /\ h.conn \in Nat
  <2>1. PICK i \in DOMAIN events' : events'[i] = Established(c)
    BY <1>6 DEF Queued, InOrder, Established
  <2>2. events'[i].kind = "established" /\ events'[i].conn = c
    BY <2>1 DEF Established
  <2>. QED BY <2>2, <1>5, <1>6 DEF Opened, Conns
<1>7. ASSUME h.kind = "established", NEW c
      PROVE  Queued(c)' <=> Queued(c) /\ c # h.conn
  <2>1. CASE Queued(c)'
    BY <2>1, <1>1, <1>6, <1>7 DEF Queued, Established
  <2>2. ASSUME Queued(c), c # h.conn PROVE Queued(c)'
    <3>1. h # Established(c)
      BY <2>2, <1>5, <1>7, EstablishedInjective
    <3>. QED BY <3>1, <2>2, <1>1 DEF Queued, Established
  <2>. QED BY <2>1, <2>2
<1>8. OrderInv'
  <2>1. \A c \in Opened' : \A d \in 1 .. c - 1 : d \in Opened'
    BY <1>2 DEF WInv, OrderInv
  <2>2. ASSUME NEW i \in DOMAIN events', events'[i].kind = "established"
        PROVE  events'[i] = Established(events'[i].conn) /\ events'[i].conn \in Opened'
    BY <1>1, <1>2, <2>2 DEF WInv, OrderInv
  <2>3. ASSUME NEW i \in DOMAIN events', NEW j \in DOMAIN events', i < j,
               events'[i].kind = "established", events'[j].kind = "established"
        PROVE  events'[i].conn < events'[j].conn
    <3>1. i + 1 < j + 1 /\ i + 1 \in DOMAIN events /\ j + 1 \in DOMAIN events
      BY <1>1, <1>3, <2>3
    <3>2. events'[i] = events[i + 1] /\ events'[j] = events[j + 1]
      BY <1>1
    <3>. QED BY <3>1, <3>2, <2>3 DEF WInv, OrderInv
  <2>4. ASSUME NEW c \in Opened', NEW d \in Opened', c < d, Queued(c)'
        PROVE  Queued(d)'
    <3>1. c \in Nat /\ d \in Nat /\ c \in Opened /\ d \in Opened
      BY <1>2 DEF Opened, Conns
    <3>2. h.kind \in {"established", "block"}
      BY <1>1 DEF Events, ConnectionEvents, BlockEvents
    <3>3. CASE h.kind = "block"
      BY <3>1, <3>3, <1>4, <2>4 DEF WInv, OrderInv
    <3>4. CASE h.kind = "established"
      <4>1. h.conn < c /\ h.conn \in Nat
        BY <1>6, <2>4, <3>4
      <4>2. d # h.conn
        BY <2>4, <3>1, <4>1
      <4>3. Queued(c)
        BY <1>7, <2>4, <3>4
      <4>4. Queued(d)
        BY <2>4, <3>1, <4>3 DEF WInv, OrderInv
      <4>. QED BY <1>7, <3>4, <4>2, <4>4
    <3>. QED BY <3>2, <3>3, <3>4
  <2>5. \A i \in DOMAIN events' : events'[i].kind = "established" =>
          events'[i] = Established(events'[i].conn) /\ events'[i].conn \in Opened'
    BY <2>2
  <2>6. \A i, j \in DOMAIN events' :
          i < j /\ events'[i].kind = "established" /\ events'[j].kind = "established" =>
            events'[i].conn < events'[j].conn
    BY <2>3
  <2>7. \A c, d \in Opened' : c < d /\ Queued(c)' => Queued(d)'
    BY <2>4
  <2>. QED BY <2>1, <2>5, <2>6, <2>7 DEF OrderInv
<1>. QED BY <1>1, <1>4, <1>5, <1>7, <1>8 DEF h

\* When the queue, the owners, the registrations and the failures stay as they are
\* for every connection, so does what the invariant says of them.
LEMMA RegistrationsKept ==
  ASSUME WInv, UNCHANGED <<owner, connections, failed>>, \A c : Queued(c)' <=> Queued(c)
  PROVE  RegisteredInv' /\ NewestIsRegistered'
<1>1. Opened' = Opened
  BY DEF Opened
<1>2. RegisteredInv'
  BY <1>1 DEF WInv, RegisteredInv
<1>3. NewestIsRegistered'
  <2> SUFFICES ASSUME NEW p \in Peers, NEW c \in Opened', owner'[c] = p,
                      \A d \in Opened' : owner'[d] = p => d <= c, ~Queued(c)'
               PROVE  connections'[p] = (IF c \in failed' THEN 0 ELSE c)
    BY DEF NewestIsRegistered, Queued
  <2>. QED BY <1>1 DEF WInv, NewestIsRegistered, Queued
<1>. QED BY <1>2, <1>3

\* An announcement that arrives changes nothing for connections.
LEMMA ReceiveInv ==
  ASSUME WInv, NEW c \in Conns, ReceiveBlock(c)
  PROVE  WInv'
<1>1. PICK b \in Announcements : events' = Append(events, NewBlock(b))
  BY DEF ReceiveBlock
<1>2. UNCHANGED <<user, owner, alive, outbox, connections, blocksSeen, importing, submitted, failed>>
  BY DEF ReceiveBlock
<1>3. NewBlock(b) \in Events /\ NewBlock(b).kind = "block"
  BY DEF NewBlock, Events, BlockEvents
<1>4. events' \in Seq(Events) /\ InOrder(events') = InOrder(events) \cup {NewBlock(b)}
  BY <1>1, <1>3, InOrderAppend DEF WInv, WTypeOK
<1>5. ASSUME NEW d PROVE Queued(d)' <=> Queued(d)
  <2>1. NewBlock(b) # Established(d)
    BY <1>3 DEF Established
  <2>. QED BY <2>1, <1>4 DEF Queued, Established
<1>6. Opened' = Opened
  BY <1>2 DEF Opened
<1>7. OrderInv'
  <2>1. /\ Len(events) \in Nat /\ DOMAIN events = 1 .. Len(events)
        /\ DOMAIN events' = 1 .. Len(events) + 1
        /\ \A i \in 1 .. Len(events) : events'[i] = events[i]
        /\ events'[Len(events) + 1] = NewBlock(b)
    BY <1>1, <1>3 DEF WInv, WTypeOK
  <2>2. \A i \in DOMAIN events' : events'[i].kind = "established" =>
          i \in DOMAIN events /\ events'[i] = events[i]
    BY <2>1, <1>3
  <2>3. \A i \in DOMAIN events' : events'[i].kind = "established" =>
          events'[i] = Established(events'[i].conn) /\ events'[i].conn \in Opened'
    BY <2>2, <1>6 DEF WInv, OrderInv
  <2>4. \A i, j \in DOMAIN events' :
          i < j /\ events'[i].kind = "established" /\ events'[j].kind = "established" =>
            events'[i].conn < events'[j].conn
    BY <2>2 DEF WInv, OrderInv
  <2>. QED BY <1>5, <1>6, <2>3, <2>4 DEF WInv, OrderInv
<1>8. RegisteredInv' /\ NewestIsRegistered'
  BY <1>2, <1>5, RegistrationsKept
<1>9. WTypeOK' /\ SeenIsLastSubmitted'
  BY <1>2, <1>4 DEF WInv, WTypeOK, SeenIsLastSubmitted
<1>. QED BY <1>7, <1>8, <1>9 DEF WInv

\* A step that leaves the queue and the registrations alone.
LEMMA QueueUntouched ==
  ASSUME WInv, UNCHANGED <<owner, events, connections, failed>>
  PROVE  OrderInv' /\ RegisteredInv' /\ NewestIsRegistered'
<1>1. Opened' = Opened /\ \A c : Queued(c)' <=> Queued(c)
  BY DEF Opened, Queued, Established
<1>2. OrderInv'
  BY <1>1 DEF WInv, OrderInv
<1>. QED BY <1>1, <1>2, RegistrationsKept

\* The manager registers the connection whose event it takes.
LEMMA PollEstablishedInv ==
  ASSUME WInv, PollEstablished
  PROVE  WInv'
<1>0. events # <<>> /\ Head(events).kind = "established" /\ events' = Tail(events) /\ owner' = owner
  BY DEF PollEstablished
<1>a. PICK c \in Opened : c = Head(events).conn
  BY <1>0, TakeEvent
<1>b. PICK p \in Peers : p = owner[c]
  BY DEF Opened, WInv, WTypeOK
<1>1. /\ connections' = [connections EXCEPT ![p] = c]
      /\ UNCHANGED <<user, owner, alive, outbox, blocksSeen, importing, messages, submitted, failed>>
  BY <1>a, <1>b DEF PollEstablished, Registered
<1>2. /\ events' \in Seq(Events) /\ OrderInv' /\ Queued(c)
      /\ \A d : Queued(d)' <=> Queued(d) /\ d # c
  BY <1>0, <1>a, TakeEvent
<1>3. Opened' = Opened /\ c \in Conns /\ c \in 0 .. MaxConns /\ c # 0
  BY <1>1, <1>2 DEF Opened, Conns, WInv, WTypeOK
<1>4. WTypeOK'
  BY <1>1, <1>2, <1>3 DEF WInv, WTypeOK
<1>5. c \notin failed
  BY <1>2 DEF WInv, RegisteredInv
<1>6. RegisteredInv'
  <2>1. ASSUME NEW q \in Peers, connections'[q] # 0
        PROVE  owner'[connections'[q]] = q /\ Established(connections'[q]) \notin InOrder(events')
    <3>1. CASE q = p
      <4>1. connections'[q] = c
        BY <1>1, <3>1 DEF WInv, WTypeOK
      <4>2. Established(c) \notin InOrder(events')
        BY <1>2 DEF Queued, Established
      <4>. QED BY <1>1, <1>b, <3>1, <4>1, <4>2
    <3>2. CASE q # p
      <4>1. connections'[q] = connections[q]
        BY <1>1, <3>2 DEF WInv, WTypeOK
      <4>2. owner[connections[q]] = q /\ Established(connections[q]) \notin InOrder(events)
        BY <2>1, <4>1 DEF WInv, RegisteredInv, Queued
      <4>3. PICK d : d = connections[q]
        OBVIOUS
      <4>4. ~Queued(d)'
        BY <1>2, <4>2, <4>3 DEF Queued
      <4>. QED BY <1>1, <4>1, <4>2, <4>3, <4>4 DEF Queued, Established
    <3>. QED BY <3>1, <3>2
  <2>2. \A d \in failed' : d \in Opened' /\ ~Queued(d)'
    BY <1>1, <1>2, <1>3 DEF WInv, RegisteredInv
  <2>. QED BY <2>1, <2>2 DEF RegisteredInv, Queued, Established
<1>7. NewestIsRegistered'
  <2> SUFFICES ASSUME NEW q \in Peers, NEW d \in Opened', owner'[d] = q,
                      \A e \in Opened' : owner'[e] = q => e <= d, ~Queued(d)'
               PROVE  connections'[q] = (IF d \in failed' THEN 0 ELSE d)
    BY DEF NewestIsRegistered, Queued
  <2>1. CASE q = p
    <3>1. c <= d /\ d \in Opened /\ c \in Nat /\ d \in Nat
      BY <1>1, <1>2, <1>3, <1>b, <2>1 DEF Opened, Conns
    <3>2. d = c
      <4> SUFFICES ASSUME d # c PROVE FALSE
        OBVIOUS
      <4>1. c < d
        BY <3>1
      <4>2. Queued(d)
        BY <1>2, <3>1, <4>1 DEF WInv, OrderInv
      <4>. QED BY <1>2, <4>2
    <3>. QED BY <1>1, <1>3, <1>5, <2>1, <3>2 DEF WInv, WTypeOK
  <2>2. CASE q # p
    <3>1. connections'[q] = connections[q] /\ d # c /\ d \in Opened /\ owner[d] = q
      BY <1>1, <1>3, <1>b, <2>2 DEF WInv, WTypeOK
    <3>2. ~Queued(d)
      BY <1>2, <3>1
    <3>3. \A e \in Opened : owner[e] = q => e <= d
      BY <1>1, <1>3
    <3>. QED BY <1>1, <3>1, <3>2, <3>3 DEF WInv, NewestIsRegistered, Queued
  <2>. QED BY <2>1, <2>2
<1>8. SeenIsLastSubmitted'
  BY <1>1 DEF WInv, SeenIsLastSubmitted
<1>. QED BY <1>2, <1>4, <1>6, <1>7, <1>8 DEF WInv

\* An announcement taken from the queue, handed to an embedder or refused.
LEMMA DropAnnouncementInv ==
  ASSUME WInv, PollBlock \/ RejectAnnouncement
  PROVE  WInv'
<1>1. /\ events # <<>> /\ Head(events).kind = "block" /\ events' = Tail(events)
      /\ UNCHANGED <<user, owner, alive, connections, blocksSeen, importing, submitted, failed>>
  BY DEF PollBlock, RejectAnnouncement, AfterReject
<1>2. events' \in Seq(Events) /\ OrderInv' /\ \A c : Queued(c)' <=> Queued(c)
  BY <1>1, TakeEvent
<1>3. RegisteredInv' /\ NewestIsRegistered'
  BY <1>1, <1>2, RegistrationsKept
<1>4. WTypeOK' /\ SeenIsLastSubmitted'
  BY <1>1, <1>2 DEF WInv, WTypeOK, SeenIsLastSubmitted
<1>. QED BY <1>2, <1>3, <1>4 DEF WInv

\* An announcement passed to the engine becomes the newest entry of the filter.
LEMMA SubmitInv ==
  ASSUME WInv, SubmitAnnouncement
  PROVE  WInv'
<1> DEFINE b == Head(events).block
<1>1. /\ events # <<>> /\ Head(events).kind = "block" /\ events' = Tail(events)
      /\ Verified(b) /\ importing' = b
      /\ blocksSeen' = Inserted(b) /\ submitted' = Append(submitted, b)
      /\ UNCHANGED <<user, owner, alive, connections, failed>>
  BY DEF SubmitAnnouncement
<1>2. /\ events' \in Seq(Events) /\ OrderInv' /\ \A c : Queued(c)' <=> Queued(c)
      /\ Head(events) \in Events
  BY <1>1, TakeEvent
<1>6. b \in Announcements
  <2>1. Head(events) \notin ConnectionEvents
    BY <1>1 DEF ConnectionEvents
  <2>2. Head(events) \in BlockEvents
    BY <1>2, <2>1, Zenon DEF Events
  <2>. QED BY <2>2 DEF BlockEvents
<1> HIDE DEF b
<1>3. RegisteredInv' /\ NewestIsRegistered'
  BY <1>1, <1>2, RegistrationsKept
<1>4. /\ blocksSeen' \in Seq(Authorized) /\ submitted' \in Seq(Announcements)
      /\ SeenIsLastSubmitted'
  BY <1>1, <1>6, FilterStep DEF WInv
<1>5. WTypeOK'
  BY <1>1, <1>2, <1>4, <1>6 DEF WInv, WTypeOK
<1>. QED BY <1>2, <1>3, <1>4, <1>5 DEF WInv

\* A failed send forgets the connection it was made on.
LEMMA AnnounceInv ==
  ASSUME WInv, NEW p \in Peers, AnnounceBlock(p)
  PROVE  WInv'
<1> DEFINE c == connections[p]
<1>1. c # 0 /\ UNCHANGED <<user, owner, alive, events, blocksSeen, importing, submitted>>
  BY DEF AnnounceBlock
<1>2. SeenIsLastSubmitted'
  BY <1>1 DEF WInv, SeenIsLastSubmitted
<1>3. CASE c \in alive
  <2>1. UNCHANGED <<connections, failed>>
    BY <1>3 DEF AnnounceBlock
  <2>2. OrderInv' /\ RegisteredInv' /\ NewestIsRegistered'
    BY <1>1, <2>1, QueueUntouched
  <2>3. WTypeOK'
    BY <1>1, <2>1 DEF WInv, WTypeOK
  <2>. QED BY <1>2, <2>2, <2>3 DEF WInv
<1>4. CASE c \notin alive
  <2>1. connections' = [connections EXCEPT ![p] = 0] /\ failed' = failed \cup {c}
    BY <1>4 DEF AnnounceBlock
  <2>2. Opened' = Opened /\ \A d : Queued(d)' <=> Queued(d)
    BY <1>1 DEF Opened, Queued, Established
  <2>3. c \in Conns /\ owner[c] = p /\ c \in Opened /\ ~Queued(c)
    BY <1>1 DEF WInv, WTypeOK, RegisteredInv, Opened, Conns
  <2> HIDE DEF c
  <2>4. WTypeOK'
    BY <1>1, <2>1, <2>3 DEF WInv, WTypeOK
  <2>5. OrderInv'
    BY <1>1, <2>2 DEF WInv, OrderInv
  <2>6. RegisteredInv'
    <3>1. InOrder(events') = InOrder(events)
      BY <1>1
    <3>2. ASSUME NEW q \in Peers, connections'[q] # 0
          PROVE  owner'[connections'[q]] = q /\ Established(connections'[q]) \notin InOrder(events')
      <4>1. connections'[q] = connections[q]
        BY <2>1, <3>2 DEF WInv, WTypeOK
      <4>2. owner[connections[q]] = q /\ Established(connections[q]) \notin InOrder(events)
        BY <3>2, <4>1 DEF WInv, RegisteredInv, Queued
      <4>. QED BY <1>1, <3>1, <4>1, <4>2
    <3>3. \A d \in failed' : d \in Opened' /\ ~Queued(d)'
      BY <2>1, <2>2, <2>3 DEF WInv, RegisteredInv
    <3>. QED BY <3>2, <3>3 DEF RegisteredInv, Queued, Established
  <2>7. NewestIsRegistered'
    <3> SUFFICES ASSUME NEW q \in Peers, NEW d \in Opened', owner'[d] = q,
                        \A e \in Opened' : owner'[e] = q => e <= d, ~Queued(d)'
                 PROVE  connections'[q] = (IF d \in failed' THEN 0 ELSE d)
      BY DEF NewestIsRegistered, Queued
    <3>1. connections[q] = (IF d \in failed THEN 0 ELSE d)
      BY <1>1, <2>2 DEF WInv, NewestIsRegistered, Queued
    <3>2. CASE q = p
      <4>1. d = c
        BY <1>1, <3>1, <3>2 DEF c
      <4>. QED BY <2>1, <3>2, <4>1 DEF WInv, WTypeOK
    <3>3. CASE q # p
      <4>1. d # c
        BY <1>1, <2>3, <3>3
      <4>. QED BY <2>1, <3>1, <3>3, <4>1 DEF WInv, WTypeOK
    <3>. QED BY <3>2, <3>3
  <2>. QED BY <1>2, <2>4, <2>5, <2>6, <2>7 DEF WInv
<1>. QED BY <1>3, <1>4

-----------------------------------------------------------------------------
(* The invariant *)

LEMMA WInitInv == WInit => WInv
<1> SUFFICES ASSUME WInit PROVE WInv
  OBVIOUS
<1>1. Opened = {} /\ InOrder(events) = {} /\ \A c : ~Queued(c)
  BY DEF WInit, Opened, InOrder, Queued
<1>2. WTypeOK
  BY DEF WInit, WTypeOK
<1>3. OrderInv /\ RegisteredInv
  BY <1>1 DEF WInit, OrderInv, RegisteredInv
<1>4. NewestIsRegistered
  BY <1>1 DEF NewestIsRegistered
<1>5. SeenIsLastSubmitted
  BY DEF WInit, SeenIsLastSubmitted, InOrder
<1>. QED BY <1>2, <1>3, <1>4, <1>5 DEF WInv

LEMMA WStepInv == WInv /\ [WNext]_wvars => WInv'
<1> SUFFICES ASSUME WInv, [WNext]_wvars PROVE WInv'
  OBVIOUS
<1>1. ASSUME NEW p \in Peers, Connect(p) PROVE WInv'
  BY <1>1, ConnectInv
<1>2. ASSUME NEW p \in Peers, AnnounceBlock(p) PROVE WInv'
  BY <1>2, AnnounceInv
<1>3. ASSUME NEW c \in Conns, ReceiveBlock(c) PROVE WInv'
  BY <1>3, ReceiveInv
<1>4. CASE \/ \E c \in Conns : SendQueued(c) \/ CloseConnection(c)
           \/ EngineAnswers \/ UNCHANGED wvars
  <2>1. /\ UNCHANGED <<user, owner, events, connections, blocksSeen, submitted, failed>>
        /\ alive' \subseteq alive /\ importing' \in {importing, NoBlock}
    BY <1>4 DEF SendQueued, CloseConnection, EngineAnswers, AfterAnswer, wvars
  <2>2. OrderInv' /\ RegisteredInv' /\ NewestIsRegistered'
    BY <2>1, QueueUntouched
  <2>3. WTypeOK' /\ SeenIsLastSubmitted'
    BY <2>1 DEF WInv, WTypeOK, SeenIsLastSubmitted
  <2>. QED BY <2>2, <2>3 DEF WInv
<1>5. CASE PollBlock \/ RejectAnnouncement
  BY <1>5, DropAnnouncementInv
<1>6. CASE PollEstablished
  BY <1>6, PollEstablishedInv
<1>7. CASE SubmitAnnouncement
  BY <1>7, SubmitInv
<1>. QED BY <1>1, <1>2, <1>3, <1>4, <1>5, <1>6, <1>7 DEF WNext, ImporterStep

LEMMA WInvariant == WSpec => []WInv
BY WInitInv, WStepInv, PTL DEF WSpec

\* The wire protocol's state keeps its type: queues hold events of connections, and
\* the filter holds keys of the configured signer only.
THEOREM WireTypeCorrect == WSpec => []WTypeOK
<1>1. WInv => WTypeOK
  BY DEF WInv
<1>. QED BY <1>1, WInvariant, PTL

\* import_event's duplicate filter is exactly the keys of its last LruSize submissions: however
\* many refused announcements come in between, none displaces an accepted one.
THEOREM FilterIsLastSubmitted == WSpec => []SeenIsLastSubmitted
<1>1. WInv => SeenIsLastSubmitted
  BY DEF WInv
<1>. QED BY <1>1, WInvariant, PTL

\* Whatever the order of reconnects, closes and failed sends, a manager that has read
\* a peer's newest connection sends on that one until a send on it fails.
THEOREM NewestConnectionRegistered == WSpec => []NewestIsRegistered
<1>1. WInv => NewestIsRegistered
  BY DEF WInv
<1>. QED BY <1>1, WInvariant, PTL

-----------------------------------------------------------------------------
HIDE WireAssumption

\* The sets of permit holders are finite, with natural cardinalities.
LEMMA HoldersFinite ==
  /\ IsFiniteSet(Admitted) /\ Cardinality(Admitted) \in Nat
  /\ IsFiniteSet(Working) /\ Cardinality(Working) \in Nat
<1>1. Admitted \in SUBSET Requests /\ Working \in SUBSET Requests
  BY DEF Admitted, Working
<1>2. IsFiniteSet(Admitted) /\ IsFiniteSet(Working)
  BY <1>1, FS_Subset, ExecutorAssumption
<1>. QED BY <1>2, FS_CardinalityType

LEMMA WorkersPositive == Workers \in Nat \ {0} /\ Workers <= MaxInflight
BY ExecutorAssumption DEF Workers

\* Whoever holds the worker permit also holds the in-flight permit.
LEMMA WorkingAdmitted == ASSUME NEW r, HoldsWorker(r) PROVE HoldsInflight(r)
BY DEF HoldsWorker, HoldsInflight

LEMMA ExecutorInit == Init => ExecutorInv
<1>. SUFFICES ASSUME Init PROVE ExecutorInv
  OBVIOUS
<1>. USE ExecutorAssumption, WorkersPositive DEF Init
<1>1. TypeOK
  BY DEF TypeOK
<1>2. QueueIsWaiters /\ FutureAndJob
  BY DEF QueueIsWaiters, FutureAndJob
<1>3. Admitted = {} /\ Working = {}
  BY DEF Admitted, Working, HoldsInflight, HoldsWorker
<1>4. PermitsConserved
  BY <1>3, FS_EmptySet DEF PermitsConserved
<1>. QED BY <1>1, <1>2, <1>4 DEF ExecutorInv

-----------------------------------------------------------------------------
(* How each kind of step changes the sets of permit holders *)

LEMMA HoldersFrame ==
  ASSUME NEW r \in Requests, TypeOK, FutureAndJob, QueueIsWaiters,
         Admit(r) \/ RejectBusy(r) \/ AcquireWorker(r) \/ SpawnJob(r) \/ JobStep(r)
           \/ Cancel(r)
  PROVE  \A s \in Requests \ {r} : state'[s] = state[s] /\ job'[s] = job[s]
BY DEF TypeOK, Admit, RejectBusy, AcquireWorker, SpawnJob, JobStep, ReleaseWorker,
       ReleaseInflight, Deliver, Cancel

\* The permits move with the sets: a request joins or leaves each set exactly when
\* the corresponding semaphore changes by one.
LEMMA HoldersStep ==
  ASSUME NEW r \in Requests, ExecutorInv,
         Admit(r) \/ RejectBusy(r) \/ AcquireWorker(r) \/ SpawnJob(r) \/ JobStep(r)
           \/ Cancel(r)
  PROVE  /\ \/ inflight' = inflight /\ Admitted' = Admitted
            \/ /\ inflight > 0 /\ inflight' = inflight - 1
               /\ r \notin Admitted /\ Admitted' = Admitted \cup {r}
            \/ inflight' = inflight + 1 /\ r \in Admitted /\ Admitted' = Admitted \ {r}
         /\ \/ workers' = workers /\ Working' = Working
            \/ /\ workers > 0 /\ workers' = workers - 1
               /\ r \notin Working /\ Working' = Working \cup {r}
            \/ workers' = workers + 1 /\ r \in Working /\ Working' = Working \ {r}
<1>0. \A s \in Requests \ {r} :
        (HoldsInflight(s)' <=> HoldsInflight(s)) /\ (HoldsWorker(s)' <=> HoldsWorker(s))
  BY HoldersFrame DEF ExecutorInv, HoldsInflight, HoldsWorker
<1>1. /\ HoldsInflight(r)' = HoldsInflight(r) => Admitted' = Admitted
      /\ HoldsInflight(r)' => Admitted' = Admitted \cup {r}
      /\ ~HoldsInflight(r)' => Admitted' = Admitted \ {r}
      /\ r \in Admitted <=> HoldsInflight(r)
  BY <1>0 DEF Admitted
<1>2. /\ HoldsWorker(r)' = HoldsWorker(r) => Working' = Working
      /\ HoldsWorker(r)' => Working' = Working \cup {r}
      /\ ~HoldsWorker(r)' => Working' = Working \ {r}
      /\ r \in Working <=> HoldsWorker(r)
  BY <1>0 DEF Working
<1>. USE DEF ExecutorInv, TypeOK, FutureAndJob, HoldsInflight, HoldsWorker
<1>3. CASE Admit(r)
  BY <1>1, <1>2, <1>3 DEF Admit, HasCapacity
<1>4. CASE RejectBusy(r)
  BY <1>1, <1>2, <1>4 DEF RejectBusy
<1>5. CASE AcquireWorker(r)
  <2>1. state[r] = "waiting" /\ job[r] = "none"
    BY <1>5 DEF AcquireWorker, QueueIsWaiters
  <2>. QED BY <1>1, <1>2, <1>5, <2>1 DEF AcquireWorker
<1>6. CASE SpawnJob(r)
  BY <1>1, <1>2, <1>6 DEF SpawnJob
<1>7. CASE ReleaseWorker(r)
  BY <1>1, <1>2, <1>7 DEF ReleaseWorker, FreedWorkers
<1>8. CASE ReleaseInflight(r)
  BY <1>1, <1>2, <1>8 DEF ReleaseInflight
<1>9. CASE Deliver(r)
  BY <1>1, <1>2, <1>9 DEF Deliver
<1>10. CASE Cancel(r)
  BY <1>1, <1>2, <1>10 DEF Cancel, CancelReleases
<1>. QED BY <1>3, <1>4, <1>5, <1>6, <1>7, <1>8, <1>9, <1>10 DEF JobStep

\* A counter of free permits and a finite set of holders that move together keep
\* their sum.
LEMMA PermitArithmetic ==
  ASSUME NEW N \in Nat, NEW n \in 0 .. N, NEW S, IsFiniteSet(S), n + Cardinality(S) = N,
         NEW m, NEW T, NEW x,
         \/ m = n /\ T = S
         \/ n > 0 /\ m = n - 1 /\ x \notin S /\ T = S \cup {x}
         \/ m = n + 1 /\ x \in S /\ T = S \ {x}
  PROVE  m \in 0 .. N /\ m + Cardinality(T) = N
<1>0. Cardinality(S) \in Nat
  BY FS_CardinalityType
<1>1. CASE m = n /\ T = S
  BY <1>1
<1>2. CASE n > 0 /\ m = n - 1 /\ x \notin S /\ T = S \cup {x}
  <2>1. Cardinality(T) = Cardinality(S) + 1
    BY <1>2, FS_AddElement
  <2>. QED BY <1>0, <1>2, <2>1
<1>3. CASE m = n + 1 /\ x \in S /\ T = S \ {x}
  <2>1. Cardinality(T) = Cardinality(S) - 1
    BY <1>3, FS_RemoveElement
  <2>2. Cardinality(T) \in Nat
    BY <1>3, FS_RemoveElement, FS_CardinalityType
  <2>. QED BY <1>0, <1>3, <2>1, <2>2
<1>. QED BY <1>1, <1>2, <1>3

LEMMA ConservedStep ==
  ASSUME NEW r \in Requests, ExecutorInv,
         Admit(r) \/ RejectBusy(r) \/ AcquireWorker(r) \/ SpawnJob(r) \/ JobStep(r)
           \/ Cancel(r)
  PROVE  /\ PermitsConserved'
         /\ inflight' \in 0 .. MaxInflight
         /\ workers' \in 0 .. Workers
<1>1. inflight \in 0 .. MaxInflight /\ workers \in 0 .. Workers /\ PermitsConserved
  BY DEF ExecutorInv, TypeOK
<1>2. \/ inflight' = inflight /\ Admitted' = Admitted
      \/ /\ inflight > 0 /\ inflight' = inflight - 1
         /\ r \notin Admitted /\ Admitted' = Admitted \cup {r}
      \/ inflight' = inflight + 1 /\ r \in Admitted /\ Admitted' = Admitted \ {r}
  BY HoldersStep
<1>3. \/ workers' = workers /\ Working' = Working
      \/ /\ workers > 0 /\ workers' = workers - 1
         /\ r \notin Working /\ Working' = Working \cup {r}
      \/ workers' = workers + 1 /\ r \in Working /\ Working' = Working \ {r}
  BY HoldersStep
<1>4. MaxInflight \in Nat /\ Workers \in Nat
  BY ExecutorAssumption, WorkersPositive
<1>5. inflight + Cardinality(Admitted) = MaxInflight /\ workers + Cardinality(Working) = Workers
  BY <1>1 DEF PermitsConserved
<1>6. IsFiniteSet(Admitted) /\ IsFiniteSet(Working)
  BY HoldersFinite
<1>7. inflight' \in 0 .. MaxInflight /\ inflight' + Cardinality(Admitted') = MaxInflight
  BY <1>1, <1>2, <1>4, <1>5, <1>6, PermitArithmetic
<1>8. workers' \in 0 .. Workers /\ workers' + Cardinality(Working') = Workers
  BY <1>1, <1>3, <1>4, <1>5, <1>6, PermitArithmetic
<1>. QED BY <1>7, <1>8 DEF PermitsConserved, Workers

-----------------------------------------------------------------------------
LEMMA QueueStep ==
  ASSUME NEW r \in Requests, ExecutorInv,
         Admit(r) \/ RejectBusy(r) \/ AcquireWorker(r) \/ SpawnJob(r) \/ JobStep(r)
           \/ Cancel(r)
  PROVE  queue' \in Seq(Requests) /\ QueueIsWaiters'
<1>. USE DEF ExecutorInv, TypeOK, FutureAndJob
<1>1. CASE Admit(r)
  <2>1. state[r] # "waiting"
    BY <1>1 DEF Admit
  <2>2. /\ queue' \in Seq(Requests) /\ Len(queue') = Len(queue) + 1
        /\ \A i \in 1 .. Len(queue) : queue'[i] = queue[i]
        /\ queue'[Len(queue) + 1] = r
    BY <1>1 DEF Admit
  <2>3. state' = [state EXCEPT ![r] = "waiting"]
    BY <1>1 DEF Admit
  <2>4. DOMAIN queue = 1 .. Len(queue) /\ DOMAIN queue' = 1 .. (Len(queue) + 1)
    BY <2>2
  <2>5. \A i, j \in DOMAIN queue' : queue'[i] = queue'[j] => i = j
    BY <2>1, <2>2, <2>4 DEF QueueIsWaiters
  <2>6. ASSUME NEW s \in Requests
        PROVE  state'[s] = "waiting" <=> \E i \in DOMAIN queue' : queue'[i] = s
    <3>1. CASE s = r
      <4>1. Len(queue) + 1 \in DOMAIN queue' /\ queue'[Len(queue) + 1] = s
        BY <2>2, <2>4, <3>1
      <4>2. state'[s] = "waiting"
        BY <2>3, <3>1
      <4>. QED BY <4>1, <4>2
    <3>2. CASE s # r
      BY <2>2, <2>3, <2>4, <3>2, SMTT(30) DEF QueueIsWaiters
    <3>. QED BY <3>1, <3>2
  <2>. QED BY <2>2, <2>5, <2>6 DEF QueueIsWaiters
<1>2. CASE RejectBusy(r) \/ SpawnJob(r) \/ JobStep(r)
  <2>1. queue' = queue
    BY <1>2 DEF RejectBusy, SpawnJob, JobStep, ReleaseWorker, ReleaseInflight, Deliver
  <2>2. \A s \in Requests : state'[s] = "waiting" <=> state[s] = "waiting"
    BY <1>2 DEF RejectBusy, SpawnJob, JobStep, ReleaseWorker, ReleaseInflight, Deliver
  <2>. QED BY <2>1, <2>2 DEF QueueIsWaiters
<1>3. CASE AcquireWorker(r)
  <2>1. queue # <<>> /\ r = queue[1]
    BY <1>3 DEF AcquireWorker
  <2>2. /\ queue' \in Seq(Requests) /\ Len(queue') = Len(queue) - 1
        /\ DOMAIN queue = 1 .. Len(queue) /\ DOMAIN queue' = 1 .. Len(queue')
        /\ \A i \in 1 .. Len(queue') : queue'[i] = queue[i + 1]
    BY <1>3, <2>1 DEF AcquireWorker
  <2>3. state' = [state EXCEPT ![r] = "granted"]
    BY <1>3 DEF AcquireWorker
  <2>4. \A i \in 2 .. Len(queue) : queue[i] # r
    BY <2>1 DEF QueueIsWaiters
  <2>5. \A i \in 2 .. Len(queue) : i - 1 \in 1 .. Len(queue') /\ queue'[i - 1] = queue[i]
    BY <2>1, <2>2
  <2>6. \A i, j \in DOMAIN queue' : queue'[i] = queue'[j] => i = j
    <3>1. ASSUME NEW i \in 1 .. Len(queue'), NEW j \in 1 .. Len(queue'),
                 queue'[i] = queue'[j]
          PROVE  i = j
      <4>1. i + 1 \in DOMAIN queue /\ j + 1 \in DOMAIN queue
        BY <2>2
      <4>2. queue[i + 1] = queue[j + 1]
        BY <2>2, <3>1
      <4>3. i + 1 = j + 1
        BY <4>1, <4>2 DEF QueueIsWaiters
      <4>. QED BY <4>3
    <3>. QED BY <2>2, <3>1
  <2>7. ASSUME NEW s \in Requests
        PROVE  state'[s] = "waiting" <=> \E i \in DOMAIN queue' : queue'[i] = s
    <3>1. CASE s = r
      BY <2>2, <2>3, <2>4, <3>1, SMTT(30)
    <3>2. CASE s # r
      <4>1. state'[s] = "waiting" <=> \E i \in 1 .. Len(queue) : queue[i] = s
        <5>1. state[s] = "waiting" <=> \E i \in DOMAIN queue : queue[i] = s
          BY DEF QueueIsWaiters
        <5>2. state'[s] = state[s]
          BY <2>3, <3>2
        <5>. QED BY <2>2, <5>1, <5>2, Zenon
      <4>2. ASSUME NEW i \in 1 .. Len(queue), queue[i] = s
            PROVE  \E j \in DOMAIN queue' : queue'[j] = s
        <5>1. i \in 2 .. Len(queue)
          BY <2>1, <3>2, <4>2
        <5>2. i - 1 \in DOMAIN queue' /\ queue'[i - 1] = s
          BY <2>2, <2>5, <4>2, <5>1
        <5>. QED BY <5>2
      <4>3. ASSUME NEW j \in DOMAIN queue', queue'[j] = s
            PROVE  \E i \in 1 .. Len(queue) : queue[i] = s
        <5>1. j + 1 \in 1 .. Len(queue) /\ queue[j + 1] = s
          BY <2>2, <4>3
        <5>. QED BY <5>1
      <4>. QED BY <4>1, <4>2, <4>3
    <3>. QED BY <3>1, <3>2
  <2>. QED BY <2>2, <2>6, <2>7 DEF QueueIsWaiters
<1>4. CASE Cancel(r) /\ state[r] # "waiting"
  <2>1. queue' = queue
    BY <1>4 DEF Cancel, WithoutRequest
  <2>2. \A s \in Requests : state'[s] = "waiting" <=> state[s] = "waiting"
    BY <1>4 DEF Cancel
  <2>. QED BY <2>1, <2>2 DEF QueueIsWaiters
<1>5. CASE Cancel(r) /\ state[r] = "waiting"
  <2>. DEFINE k == CHOOSE i \in DOMAIN queue : queue[i] = r
  <2>1. k \in 1 .. Len(queue) /\ queue[k] = r
    BY <1>5 DEF QueueIsWaiters
  <2>2. queue' = [j \in 1 .. (Len(queue) - 1) |-> queue[IF j < k THEN j ELSE j + 1]]
    BY <1>5 DEF Cancel, WithoutRequest
  <2>3. state' = [state EXCEPT ![r] = "idle"]
    BY <1>5 DEF Cancel
  <2>. HIDE DEF k
  <2>4. /\ queue' \in Seq(Requests) /\ Len(queue') = Len(queue) - 1
        /\ DOMAIN queue = 1 .. Len(queue) /\ DOMAIN queue' = 1 .. Len(queue')
    BY <2>1, <2>2
  <2>5. \A i \in 1 .. Len(queue) : i # k => queue[i] # r
    BY <2>1 DEF QueueIsWaiters
  <2>6. \A j \in 1 .. Len(queue') :
          /\ (IF j < k THEN j ELSE j + 1) \in 1 .. Len(queue) \ {k}
          /\ queue'[j] = queue[IF j < k THEN j ELSE j + 1]
    BY <2>1, <2>2, <2>4
  <2>7. \A i \in 1 .. Len(queue) : i # k =>
          /\ (IF i < k THEN i ELSE i - 1) \in 1 .. Len(queue')
          /\ queue'[IF i < k THEN i ELSE i - 1] = queue[i]
    BY <2>1, <2>2, <2>4
  <2>8. \A i, j \in DOMAIN queue' : queue'[i] = queue'[j] => i = j
    <3>1. ASSUME NEW i \in 1 .. Len(queue'), NEW j \in 1 .. Len(queue'),
                 queue'[i] = queue'[j]
          PROVE  i = j
      <4>. DEFINE ii == IF i < k THEN i ELSE i + 1
                  jj == IF j < k THEN j ELSE j + 1
      <4>1. ii \in DOMAIN queue /\ jj \in DOMAIN queue /\ queue[ii] = queue[jj]
        BY <2>4, <2>6, <3>1
      <4>2. ii = jj
        <5>. HIDE DEF ii, jj
        <5>. QED BY <4>1 DEF QueueIsWaiters
      <4>. QED BY <2>1, <2>4, <4>2
    <3>. QED BY <2>4, <3>1
  <2>9. ASSUME NEW s \in Requests
        PROVE  state'[s] = "waiting" <=> \E i \in DOMAIN queue' : queue'[i] = s
    <3>1. CASE s = r
      BY <2>3, <2>4, <2>5, <2>6, <3>1
    <3>2. CASE s # r
      <4>1. state'[s] = "waiting" <=> \E i \in DOMAIN queue : queue[i] = s
        BY <2>3, <3>2 DEF QueueIsWaiters
      <4>2. ASSUME NEW i \in DOMAIN queue, queue[i] = s
            PROVE  \E j \in DOMAIN queue' : queue'[j] = s
        <5>. DEFINE jj == IF i < k THEN i ELSE i - 1
        <5>1. i # k
          BY <2>1, <3>2, <4>2
        <5>2. jj \in DOMAIN queue' /\ queue'[jj] = s
          BY <2>4, <2>7, <4>2, <5>1
        <5>. HIDE DEF jj
        <5>. QED BY <5>2
      <4>3. ASSUME NEW j \in DOMAIN queue', queue'[j] = s
            PROVE  \E i \in DOMAIN queue : queue[i] = s
        <5>. DEFINE ii == IF j < k THEN j ELSE j + 1
        <5>1. ii \in DOMAIN queue /\ queue[ii] = s
          BY <2>4, <2>6, <4>3
        <5>. HIDE DEF ii
        <5>. QED BY <5>1
      <4>. QED BY <4>1, <4>2, <4>3
    <3>. QED BY <3>1, <3>2
  <2>. QED BY <2>4, <2>8, <2>9 DEF QueueIsWaiters
<1>. QED BY <1>1, <1>2, <1>3, <1>4, <1>5

LEMMA ExecutorNext == ExecutorInv /\ [Next]_vars => ExecutorInv'
<1>. SUFFICES ASSUME ExecutorInv, [Next]_vars PROVE ExecutorInv'
  OBVIOUS
<1>1. ASSUME NEW r \in Requests,
             Admit(r) \/ RejectBusy(r) \/ AcquireWorker(r) \/ SpawnJob(r) \/ JobStep(r)
               \/ Cancel(r)
      PROVE  ExecutorInv'
  <2>1. PermitsConserved' /\ inflight' \in 0 .. MaxInflight /\ workers' \in 0 .. Workers
    BY <1>1, ConservedStep
  <2>2. QueueIsWaiters' /\ queue' \in Seq(Requests)
    BY <1>1, QueueStep
  <2>3. /\ state' \in [Requests -> {"idle", "waiting", "granted", "awaiting", "abandoned"}]
        /\ job' \in [Requests -> {"none", "running", "releasing", "finished"}]
        /\ outcome' \in [Requests -> {"none", "Busy", "Outcome", "Worker"}]
    BY <1>1 DEF ExecutorInv, TypeOK, Admit, RejectBusy, AcquireWorker, SpawnJob,
                JobStep, ReleaseWorker, ReleaseInflight, Deliver, Cancel
  <2>4. FutureAndJob'
    <3>. USE DEF ExecutorInv, TypeOK, FutureAndJob
    <3>1. CASE AcquireWorker(r)
      <4>1. state[r] = "waiting"
        BY <3>1 DEF AcquireWorker, QueueIsWaiters
      <4>. QED BY <3>1, <4>1 DEF AcquireWorker
    <3>2. CASE Admit(r) \/ RejectBusy(r) \/ SpawnJob(r)
      BY <3>2 DEF Admit, RejectBusy, SpawnJob
    <3>3. CASE JobStep(r)
      BY <3>3 DEF JobStep, ReleaseWorker, ReleaseInflight, Deliver
    <3>4. CASE Cancel(r)
      BY <3>4 DEF Cancel
    <3>. QED BY <1>1, <3>1, <3>2, <3>3, <3>4
  <2>. QED BY <2>1, <2>2, <2>3, <2>4 DEF ExecutorInv, TypeOK, Workers
<1>2. CASE UNCHANGED vars
  BY <1>2 DEF vars, ExecutorInv, TypeOK, QueueIsWaiters, FutureAndJob,
              PermitsConserved, Admitted, Working, HoldsInflight, HoldsWorker
<1>. QED BY <1>1, <1>2 DEF Next

LEMMA ExecutorAlways == Spec => []ExecutorInv
BY ExecutorInit, ExecutorNext, PTL DEF Spec

-----------------------------------------------------------------------------
\* Through any sequence of cancellations, panics and refusals, and for any number
\* of requests, free and held permits add up: dropping a request neither loses nor
\* creates admission capacity (the permits moved into spawn_blocking).
THEOREM PermitsAlwaysConserved == Spec => [](TypeOK /\ PermitsConserved)
BY ExecutorAlways, PTL DEF ExecutorInv

\* A cancelled waiter leaves nothing in the worker queue.
THEOREM QueueCorrect == Spec => []QueueIsWaiters
BY ExecutorAlways, PTL DEF ExecutorInv

\* The executor implements the bounded admission that its documentation promises:
\* it admits below the capacity only and refuses at the capacity only.
THEOREM ExecutorImplementsCapacity == Spec => ImplementsCapacity
<1>. DEFINE Refused == {r \in Requests : outcome[r] = "Busy"}
<1>1. Init => Capacity!CapInit
  BY DEF Init, Capacity!CapInit, Admitted, HoldsInflight
<1>2. ASSUME ExecutorInv, [Next]_vars
      PROVE  [Capacity!CapNext]_<<Admitted, Refused>>
  <2>1. CASE UNCHANGED vars
    BY <2>1 DEF vars, Admitted, HoldsInflight
  <2>2. ASSUME NEW r \in Requests,
               Admit(r) \/ RejectBusy(r) \/ AcquireWorker(r) \/ SpawnJob(r)
                 \/ JobStep(r) \/ Cancel(r)
        PROVE  [Capacity!CapNext]_<<Admitted, Refused>>
    <3>1. inflight + Cardinality(Admitted) = MaxInflight /\ inflight \in 0 .. MaxInflight
      BY <1>2 DEF ExecutorInv, PermitsConserved, TypeOK
    <3>2. Cardinality(Admitted) \in Nat
      BY HoldersFinite
    <3>3. \/ inflight' = inflight /\ Admitted' = Admitted
          \/ /\ inflight > 0 /\ inflight' = inflight - 1
             /\ r \notin Admitted /\ Admitted' = Admitted \cup {r}
          \/ inflight' = inflight + 1 /\ r \in Admitted /\ Admitted' = Admitted \ {r}
      BY <1>2, <2>2, HoldersStep
    <3>. USE ExecutorAssumption DEF ExecutorInv, TypeOK, FutureAndJob
    <3>4. CASE Admit(r)
      <4>1. Refused' = Refused \ {r}
        BY <1>2, <3>4 DEF Admit
      <4>2. inflight > 0 /\ inflight' = inflight - 1
        BY <3>4 DEF Admit, HasCapacity
      <4>3. r \notin Admitted /\ Admitted' = Admitted \cup {r}
        BY <3>1, <3>3, <4>2
      <4>4. Cardinality(Admitted) < MaxInflight
        BY <3>1, <3>2, <4>2
      <4>5. Capacity!Admit(r)
        BY <4>1, <4>3, <4>4 DEF Capacity!Admit, Capacity!Cardinality, Cardinality, Capacity!IsFiniteSet, IsFiniteSet
      <4>. QED BY <4>5 DEF Capacity!CapNext
    <3>5. CASE RejectBusy(r)
      <4>1. Refused' = Refused \cup {r} /\ inflight' = inflight /\ inflight = 0
        BY <1>2, <3>1, <3>5 DEF RejectBusy, HasCapacity
      <4>2. r \notin Admitted
        BY <1>2, <3>5 DEF RejectBusy, Admitted, HoldsInflight
      <4>3. Admitted' = Admitted
        BY <3>1, <3>3, <4>1
      <4>4. Cardinality(Admitted) = MaxInflight
        BY <3>1, <3>2, <4>1
      <4>5. Capacity!Refuse(r)
        BY <4>1, <4>2, <4>3, <4>4 DEF Capacity!Refuse, Capacity!Cardinality, Cardinality, Capacity!IsFiniteSet, IsFiniteSet
      <4>. QED BY <4>5 DEF Capacity!CapNext
    <3>6. CASE AcquireWorker(r) \/ SpawnJob(r) \/ JobStep(r) \/ Cancel(r)
      <4>1. state[r] # "idle" \/ job[r] # "none"
        BY <1>2, <3>6 DEF AcquireWorker, QueueIsWaiters, SpawnJob, JobStep,
           ReleaseWorker, ReleaseInflight, Deliver, Cancel
      <4>2. outcome[r] # "Busy"
        BY <1>2, <4>1
      <4>3. outcome'[r] # "Busy" /\ \A s \in Requests \ {r} : outcome'[s] = outcome[s]
        BY <1>2, <3>6, <4>2
           DEF AcquireWorker, SpawnJob, JobStep, ReleaseWorker, ReleaseInflight,
               Deliver, Cancel
      <4>4. Refused' = Refused
        BY <4>2, <4>3
      <4>5. inflight' >= inflight
        BY <1>2, <3>6 DEF AcquireWorker, SpawnJob, JobStep, ReleaseWorker,
           ReleaseInflight, Deliver, Cancel
      <4>6. Admitted' = Admitted \/ (r \in Admitted /\ Admitted' = Admitted \ {r})
        BY <3>1, <3>3, <4>5
      <4>. QED BY <4>4, <4>6 DEF Capacity!CapNext, Capacity!Leave
    <3>. QED BY <2>2, <3>4, <3>5, <3>6
  <2>. QED BY <1>2, <2>1, <2>2 DEF Next
<1>. QED BY <1>1, <1>2, ExecutorAlways, PTL
         DEF Spec, ImplementsCapacity, Capacity!CapSpec
==============================================================================
