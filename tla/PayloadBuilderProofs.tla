------------------------ MODULE PayloadBuilderProofs ------------------------
(***************************************************************************)
(* The code-witness meter's accounts, for any codes, lengths, limits and   *)
(* integer width, and build_payload on top of it, for any transactions,    *)
(* forced and pool lists, codes and limits: its resource limits, the gaps  *)
(* it leaves in no sender's chain, and the content of the block.           *)
(***************************************************************************)
EXTENDS PayloadBuilder, PartialSumsProofs, FiniteSetTheorems, TLAPS

(* The code-witness meter: what it has accepted and what is pending *)

\* Codes that the candidate had not loaded add their own length, and a part of
\* them never more than all of them.
LEMMA FreshFacts ==
  ASSUME NEW S \in SUBSET Codes, accepted \in SUBSET Codes, pending \in SUBSET Codes
  PROVE  /\ NewCodes(S) \in SUBSET Codes
         /\ CodeBytes[NewCodes(S)] \in Nat /\ FreshBytes(S) \in Nat
         /\ CodeBytes[pending \ accepted] \in Nat
         /\ CodeBytes[(pending \cup NewCodes(S)) \ accepted]
              = CodeBytes[pending \ accepted] + FreshBytes(S)
         /\ FreshBytes(S) <= CodeBytes[NewCodes(S)]
<1> DEFINE N == NewCodes(S)
<1>1. N \in SUBSET Codes /\ N \cap pending = {}
  BY DEF NewCodes
<1>2. /\ N \ accepted \in SUBSET Codes /\ N \cap accepted \in SUBSET Codes
      /\ (N \ accepted) \cap (N \cap accepted) = {}
      /\ (N \ accepted) \cup (N \cap accepted) = N
  BY <1>1
<1>3. /\ pending \ accepted \in SUBSET Codes
      /\ (pending \ accepted) \cap (N \ accepted) = {}
      /\ (pending \ accepted) \cup (N \ accepted) = (pending \cup N) \ accepted
  BY <1>1
<1> HIDE DEF N
<1>4. /\ CodeBytes[N] \in Nat /\ CodeBytes[N \ accepted] \in Nat
      /\ CodeBytes[N \cap accepted] \in Nat /\ CodeBytes[pending \ accepted] \in Nat
  BY <1>1, <1>2, <1>3, MeterAssumption
<1>5. CodeBytes[N] = CodeBytes[N \ accepted] + CodeBytes[N \cap accepted]
  BY <1>2, MeterAssumption
<1>6. CodeBytes[(pending \cup N) \ accepted]
        = CodeBytes[pending \ accepted] + CodeBytes[N \ accepted]
  BY <1>2, <1>3, MeterAssumption
<1>7. CodeBytes[N \ accepted] <= CodeBytes[N]
  BY <1>4, <1>5
<1> QED
  BY <1>1, <1>4, <1>6, <1>7 DEF N, FreshBytes

\* reserve and record keep the invariant, whatever else a hook does.
LEMMA ChargeKeepsInv ==
  ASSUME MeterInv, NEW n \in Nat, NEW S \in SUBSET Codes, Charge(n, S),
         UNCHANGED <<accepted, acceptedBytes, steps, acceptedReserve>>,
         initialized' \in {"no", "yes"}, halted' \in {"no", "yes"}
  PROVE  MeterInv'
<1> DEFINE bytes == Sat(Sat(pendingBytes + n) + FreshBytes(S))
           all == CodeBytes[NewCodes(S)]
<1>1. /\ accepted \in SUBSET Codes /\ pending \in SUBSET Codes
      /\ pendingBytes \in 0 .. U64Max /\ acceptedBytes \in 0 .. U64Max
      /\ txBytes \in 0 .. U64Max /\ steps \in 0 .. U64Max /\ exceeded \in Limits
      /\ pendingReserve \in Nat /\ acceptedReserve \in Nat /\ pendingBytes <= txBytes
  BY DEF MeterInv, MeterTypeOK
<1>2. /\ pending' = pending \cup NewCodes(S) /\ pendingBytes' = bytes
      /\ txBytes' = Sat(txBytes + n + all)
      /\ exceeded' = IF OverBudget(bytes) THEN Exceed("CodeBytes") ELSE exceeded
      /\ pendingReserve' = pendingReserve + n
  BY DEF Charge, ChargedTx
<1>3. /\ NewCodes(S) \in SUBSET Codes /\ all \in Nat /\ FreshBytes(S) \in Nat
      /\ CodeBytes[pending \ accepted] \in Nat
      /\ CodeBytes[(pending \cup NewCodes(S)) \ accepted]
           = CodeBytes[pending \ accepted] + FreshBytes(S)
      /\ FreshBytes(S) <= all
  BY <1>1, FreshFacts
<1>4. U64Max \in Nat /\ MaxCodeBytes \in 0 .. U64Max
  BY MeterAssumption
<1>5. /\ bytes = Sat(pendingBytes + n + FreshBytes(S)) /\ bytes \in 0 .. U64Max
      /\ pendingBytes <= bytes /\ bytes <= txBytes'
  BY <1>1, <1>2, <1>3, <1>4 DEF Sat
<1> HIDE DEF bytes, all
<1>6. MeterTypeOK'
  <2>1. txBytes' \in 0 .. U64Max
    BY <1>1, <1>2, <1>3, <1>4 DEF Sat
  <2>2. exceeded' \in Limits
    BY <1>1, <1>2 DEF Exceed, Limits
  <2> QED
    BY <1>1, <1>2, <1>3, <1>5, <2>1, <2>2 DEF MeterTypeOK
<1>7. AccountingExact'
  <2>1. pendingBytes = Sat(CodeBytes[pending \ accepted] + pendingReserve)
    BY DEF MeterInv, AccountingExact
  <2>2. bytes = Sat(CodeBytes[pending \ accepted] + FreshBytes(S)
                      + (pendingReserve + n))
    BY <1>1, <1>3, <1>4, <1>5, <2>1 DEF Sat
  <2>3. acceptedBytes' = Sat(CodeBytes[accepted'] + acceptedReserve')
    BY DEF MeterInv, AccountingExact
  <2>4. pendingBytes' = Sat(CodeBytes[(pending \ accepted)'] + pendingReserve')
    BY <1>2, <1>3, <2>2
  <2> QED
    BY <2>3, <2>4 DEF AccountingExact, Sat
<1>8. BudgetDecision'
  <2>1. OverBudget(pendingBytes) => OverBudget(bytes)
    BY <1>1, <1>4, <1>5 DEF OverBudget, Sat
  <2>2. OverBudget(pendingBytes)' <=> OverBudget(bytes)
    BY <1>2 DEF OverBudget, Sat
  <2>3. /\ exceeded' = "none" => ~OverBudget(bytes)
        /\ exceeded' = "CodeBytes" => OverBudget(bytes)
    BY <1>2, <2>1 DEF MeterInv, BudgetDecision, Exceed
  <2> QED
    BY <2>2, <2>3 DEF MeterInv, BudgetDecision
<1> QED
  BY <1>2, <1>5, <1>6, <1>7, <1>8 DEF MeterInv

LEMMA InitMeterInv == MeterInit => MeterInv
<1> SUFFICES ASSUME MeterInit PROVE MeterInv
  OBVIOUS
<1>1. MeterTypeOK
  BY MeterAssumption DEF MeterInit, MeterTypeOK, Limits
<1>2. AccountingExact
  <2>1. CodeBytes[{}] = 0 /\ {} \ {} = {}
    BY MeterAssumption
  <2> QED
    BY <2>1, MeterAssumption DEF MeterInit, AccountingExact, Sat
<1>3. BudgetDecision
  BY MeterAssumption DEF MeterInit, BudgetDecision, OverBudget, Sat
<1> QED
  BY <1>1, <1>2, <1>3 DEF MeterInv, MeterInit

\* begin_transaction and reject_transaction.
LEMMA ResetKeepsInv == MeterInv /\ ResetTransaction => MeterInv'
<1> SUFFICES ASSUME MeterInv, ResetTransaction PROVE MeterInv'
  OBVIOUS
<1>1. MeterTypeOK'
  BY MeterAssumption DEF MeterInv, ResetTransaction, MeterTypeOK, Limits
<1>2. AccountingExact'
  <2>1. CodeBytes[{}] = 0 /\ {} \ accepted = {}
    BY MeterAssumption
  <2>2. Sat(0 + 0) = 0
    BY MeterAssumption DEF Sat
  <2> QED
    BY <2>1, <2>2 DEF MeterInv, ResetTransaction, AccountingExact, Sat
<1>3. BudgetDecision'
  BY MeterAssumption
     DEF MeterInv, MeterTypeOK, ResetTransaction, BudgetDecision, OverBudget, Sat
<1> QED
  BY <1>1, <1>2, <1>3 DEF MeterInv, ResetTransaction

\* accept_transaction.
LEMMA AcceptKeepsInv == MeterInv /\ AcceptTransaction => MeterInv'
<1> SUFFICES ASSUME MeterInv, AcceptTransaction PROVE MeterInv'
  OBVIOUS
<1>1. /\ accepted \in SUBSET Codes /\ pending \in SUBSET Codes
      /\ pendingBytes \in 0 .. U64Max /\ acceptedBytes \in 0 .. U64Max
      /\ pendingReserve \in Nat /\ acceptedReserve \in Nat
  BY DEF MeterInv, MeterTypeOK
<1>2. U64Max \in Nat /\ MaxCodeBytes \in 0 .. U64Max /\ CodeBytes[{}] = 0
  BY MeterAssumption
<1>3. acceptedBytes' = Sat(acceptedBytes + pendingBytes) /\ acceptedBytes' \in 0 .. U64Max
  BY <1>1, <1>2 DEF AcceptTransaction, Sat
<1>4. MeterTypeOK'
  BY <1>1, <1>2, <1>3 DEF MeterInv, MeterTypeOK, AcceptTransaction
<1>5. AccountingExact'
  <2>1. /\ accepted \cap (pending \ accepted) = {}
        /\ accepted \cup (pending \ accepted) = accepted \cup pending
        /\ pending \ accepted \in SUBSET Codes
    BY <1>1
  <2>2. CodeBytes[accepted \cup pending]
          = CodeBytes[accepted] + CodeBytes[pending \ accepted]
    BY <1>1, <2>1, MeterAssumption
  <2>3. CodeBytes[accepted] \in Nat /\ CodeBytes[pending \ accepted] \in Nat
    BY <1>1, <2>1, MeterAssumption
  <2>4. Sat(acceptedBytes + pendingBytes)
          = Sat(CodeBytes[accepted \cup pending] + (acceptedReserve + pendingReserve))
    BY <1>1, <1>2, <2>2, <2>3 DEF MeterInv, AccountingExact, Sat
  <2>5. acceptedBytes' = Sat(CodeBytes[accepted'] + acceptedReserve')
    BY <1>3, <2>4 DEF AcceptTransaction
  <2>6. pendingBytes' = Sat(CodeBytes[(pending \ accepted)'] + pendingReserve')
    <3>1. pending' = {} /\ (pending \ accepted)' = {}
      BY DEF AcceptTransaction
    <3> QED
      BY <1>2, <3>1 DEF AcceptTransaction, Sat
  <2> QED
    BY <2>5, <2>6 DEF AccountingExact, Sat
<1>6. BudgetDecision'
  <2>1. exceeded = "none" /\ ~OverBudget(pendingBytes)
    BY DEF MeterInv, BudgetDecision, AcceptTransaction, AcceptRefused
  <2>2. acceptedBytes' <= MaxCodeBytes
    BY <1>1, <1>2, <1>3, <2>1 DEF OverBudget, Sat
  <2> QED
    BY <1>2, <1>3, <2>1, <2>2
       DEF AcceptTransaction, BudgetDecision, OverBudget, Sat
<1> QED
  BY <1>4, <1>5, <1>6 DEF MeterInv, MeterTypeOK, AcceptTransaction

\* step.
LEMMA StepKeepsInv == MeterInv /\ Step => MeterInv'
<1> SUFFICES ASSUME MeterInv, Step PROVE MeterInv'
  OBVIOUS
<1>1. MeterTypeOK'
  <2>1. steps' \in 0 .. U64Max
    BY MeterAssumption DEF MeterInv, MeterTypeOK, Step, Sat
  <2>2. exceeded' \in Limits /\ halted' \in {"no", "yes"}
    BY DEF MeterInv, MeterTypeOK, Step, Exceed, StopIfExceeded, Limits
  <2> QED
    BY <2>1, <2>2 DEF MeterInv, MeterTypeOK, Step
<1>2. AccountingExact'
  BY DEF MeterInv, AccountingExact, Step, Sat
<1>3. BudgetDecision'
  BY DEF MeterInv, BudgetDecision, Step, Exceed, OverBudget, Sat
<1> QED
  BY <1>1, <1>2, <1>3 DEF MeterInv, Step

LEMMA NextMeterInv == MeterInv /\ [MeterNext]_meter => MeterInv'
<1> SUFFICES ASSUME MeterInv, [MeterNext]_meter PROVE MeterInv'
  OBVIOUS
<1>1. ASSUME NEW k \in 0 .. MaxAuths, NEW S \in SUBSET Codes, EnterFrame(k, S)
      PROVE  MeterInv'
  <2> DEFINE n == IF initialized = "no" THEN AuthReserve * k ELSE 0
  <2>1. n \in Nat
    <3>1. AuthReserve \in Nat /\ k \in Nat
      BY MeterAssumption
    <3> QED
      BY <3>1
  <2>2. Charge(n, S) /\ UNCHANGED <<accepted, acceptedBytes, steps, acceptedReserve>>
    BY <1>1 DEF EnterFrame
  <2>3. initialized' \in {"no", "yes"} /\ halted' \in {"no", "yes"}
    BY <1>1 DEF EnterFrame, StopIfExceeded, MeterInv, MeterTypeOK
  <2> HIDE DEF n
  <2> QED
    BY <2>1, <2>2, <2>3, ChargeKeepsInv
<1>2. ASSUME NEW S \in SUBSET Codes, AccessCode(S) PROVE MeterInv'
  <2>1. Charge(0, S) /\ UNCHANGED <<accepted, acceptedBytes, steps, acceptedReserve>>
    BY <1>2 DEF AccessCode
  <2>2. initialized' \in {"no", "yes"} /\ halted' \in {"no", "yes"}
    BY <1>2 DEF AccessCode, StopIfExceeded, MeterInv, MeterTypeOK
  <2> QED
    BY <2>1, <2>2, ChargeKeepsInv
<1>3. CASE UNCHANGED meter
  BY <1>3 DEF meter, MeterInv, MeterTypeOK, AccountingExact, BudgetDecision,
              OverBudget, Sat
<1> QED
  BY <1>1, <1>2, <1>3, ResetKeepsInv, AcceptKeepsInv, StepKeepsInv
     DEF MeterNext, InspectorHook

\* The invariant holds in every behaviour of the meter.
LEMMA MeterInvariance == MeterSpec => []MeterInv
  BY InitMeterInv, NextMeterInv, PTL DEF MeterSpec

\* The meter keeps its types, no counter exceeds its width, and the counters are
\* the bytes of the unions they stand for, through every accepted and rejected
\* candidate (record, reserve, accept_transaction, reset_transaction).
THEOREM MeterAccounting == MeterSpec => [](MeterTypeOK /\ AccountingExact)
<1>1. MeterInv => MeterTypeOK /\ AccountingExact
  BY DEF MeterInv
<1> QED
  BY <1>1, MeterInvariance, PTL

\* The accepted union fits the budget, and CodeBytes is reported exactly for the
\* candidates that do not (accept_transaction, record).
THEOREM MeterDecides == MeterSpec => []BudgetDecision
<1>1. MeterInv => BudgetDecision
  BY DEF MeterInv
<1> QED
  BY <1>1, MeterInvariance, PTL

\* On a meter that has accepted nothing, as in the admission simulation, a
\* CodeBytes error reports more bytes than the limit.
THEOREM AdmissionErrorsTrue == MeterSpec => []AdmissionErrorTruthful
<1>1. MeterInv => AdmissionErrorTruthful
  BY MeterAssumption
     DEF MeterInv, MeterTypeOK, BudgetDecision, OverBudget, Sat, AdmissionErrorTruthful
<1> QED
  BY <1>1, MeterInvariance, PTL

-----------------------------------------------------------------------------
(* The builder.  Its part of the meter is MeterInv, which the operations of  *)
(* the meter keep; here the meter's accounts are tied to what the block has  *)
(* really loaded.                                                            *)

\* What the attributes of a transaction are.
LEMMA AttrFacts ==
  ASSUME NEW t \in Txs
  PROVE  /\ Attr[t].gas \in Nat \ {0} /\ Attr[t].auths \in Nat /\ Attr[t].da \in Nat
         /\ Attr[t].tip \in Nat /\ AuthReserve * Attr[t].auths \in Nat /\ t # NoTx
<1>1. Attr[t] \in [kind : {"l1", "l2", "blob"}, gas : Nat \ {0}, da : Nat, auths : Nat,
                   sender : Nat, tip : Nat, queue : Nat] /\ t # NoTx
  BY BuilderAssumption
<1>2. AuthReserve \in Nat
  BY MeterAssumption
<1>. QED BY <1>1, <1>2

\* Empty code aside, a union holds what its parts hold, and new codes are those
\* that are not empty and not pending.
LEMMA FilledFacts ==
  ASSUME NEW S \in SUBSET Codes, NEW T \in SUBSET Codes
  PROVE  /\ Filled(S \cup T) = Filled(S) \cup Filled(T)
         /\ Filled({}) = {} /\ NewCodes(S) = Filled(S) \ pending
         /\ CodeBytes[Filled(S)] = CodeBytes[S]
<1>1. CodeBytes[Filled(S)] = CodeBytes[S]
  BY EmptyCodeAssumption DEF Filled
<1>. QED BY <1>1 DEF Filled, NewCodes

-----------------------------------------------------------------------------
(* The meter's accounts and the block *)

\* begin_transaction and reject_transaction: the candidate is forgotten.
LEMMA ResetWitness ==
  ASSUME BuilderInv, ResetTransaction, UNCHANGED <<witness, reserves, synthetic>>,
         Executing' => used' = {}
  PROVE  MeterInv' /\ WitnessInv'
<1>1. MeterInv'
  BY ResetKeepsInv DEF BuilderInv
<1>2. /\ accepted' = Filled(witness') /\ acceptedReserve' = reserves'
      /\ halted' = "no" /\ synthetic' = {}
  BY DEF BuilderInv, WitnessInv, ResetTransaction, Filled
<1>3. ASSUME Executing'
      PROVE  pending' = Filled(used') /\ pendingReserve' = CandidateReserve'
  <2>1. Filled(used') = {}
    BY <1>3 DEF Filled
  <2>2. initialized' = "no"
    BY DEF ResetTransaction
  <2>3. CandidateReserve' = 0
    BY <2>2 DEF CandidateReserve
  <2>. QED BY <2>1, <2>3 DEF ResetTransaction
<1>4. WitnessInv'
  BY <1>2, <1>3 DEF WitnessInv, Filled
<1>. QED BY <1>1, <1>4

\* accept_transaction: the candidate's codes and reserve become the block's.
LEMMA AcceptWitness ==
  ASSUME BuilderInv, Executing, AcceptTransaction, witness' = witness \cup used,
         reserves' = reserves + CandidateReserve, synthetic' = synthetic, ~Executing'
  PROVE  MeterInv' /\ WitnessInv'
<1>1. MeterInv'
  BY AcceptKeepsInv DEF BuilderInv
<1>2. witness \in SUBSET Codes /\ used \in SUBSET Codes
  BY DEF BuilderInv, BuilderTypeOK
<1>3. accepted' = Filled(witness')
  <2>1. Filled(witness \cup used) = Filled(witness) \cup Filled(used)
    BY <1>2, FilledFacts
  <2>2. accepted' = Filled(witness \cup used)
    BY <2>1 DEF BuilderInv, WitnessInv, AcceptTransaction
  <2>. QED BY <2>2 DEF Filled
<1>4. acceptedReserve' = reserves'
  BY DEF BuilderInv, WitnessInv, AcceptTransaction
<1>5. halted' = "yes" => exceeded' # "none"
  BY DEF BuilderInv, WitnessInv, AcceptTransaction
<1>6. synthetic' = {}
  BY DEF BuilderInv, WitnessInv
<1>7. WitnessInv'
  BY <1>3, <1>4, <1>5, <1>6 DEF WitnessInv, Filled
<1>. QED BY <1>1, <1>7

\* A step that leaves the meter and its execution alone.
LEMMA MeterUntouched ==
  ASSUME BuilderInv, UNCHANGED <<meter, used, witness, reserves, synthetic>>,
         Executing' => Executing /\ cur' = cur
  PROVE  MeterInv' /\ WitnessInv'
<1>1. MeterInv'
  BY NextMeterInv DEF BuilderInv
<1>2. Executing' => CandidateReserve' = CandidateReserve
  BY DEF CandidateReserve, meter
<1>3. WitnessInv'
  BY <1>2 DEF BuilderInv, WitnessInv, Filled, meter
<1>. QED BY <1>1, <1>3

\* A hook of the inspector charges what the execution loads.
LEMMA HookInv ==
  ASSUME BuilderInv, Hook
  PROVE  BuilderInv'
<1> DEFINE auths == IF cur = NoTx THEN 0 ELSE Attr[cur].auths
<1>1. PICK S \in SUBSET Codes :
        /\ EnterFrame(auths, S) \/ AccessCode(S)
        /\ used' = used \cup S
  BY DEF Hook
<1>2. /\ Executing
      /\ UNCHANGED <<args, signals, progress, witness, reserves, skipped, stale, synthetic>>
  BY DEF Hook
<1>3. /\ cur' = cur /\ phase' = phase /\ CandidateReserve \in Nat /\ auths \in Nat
      /\ Executing'
  <2>1. cur \in Txs \/ cur = NoTx
    BY DEF BuilderInv, BuilderTypeOK
  <2>. QED BY <1>2, <2>1, AttrFacts DEF progress, CandidateReserve, Executing
<1>4. PICK n \in Nat :
        /\ Charge(n, S) /\ UNCHANGED <<accepted, acceptedBytes, steps, acceptedReserve>>
        /\ initialized' \in {"no", "yes"} /\ halted' \in {"no", "yes"}
        /\ halted' = "yes" => halted = "yes" \/ exceeded' # "none"
        /\ CandidateReserve' = CandidateReserve + n
  <2>1. initialized \in {"no", "yes"} /\ halted \in {"no", "yes"}
    BY DEF BuilderInv, MeterInv, MeterTypeOK
  <2>2. CASE EnterFrame(auths, S)
    <3> DEFINE k == IF initialized = "no" THEN AuthReserve * auths ELSE 0
    <3>1. AuthReserve \in Nat
      BY MeterAssumption
    <3>2. k \in Nat
      BY <1>3, <3>1
    <3>3. /\ Charge(k, S) /\ UNCHANGED <<accepted, acceptedBytes, steps, acceptedReserve>>
          /\ initialized' = "yes"
          /\ halted' \in {"no", "yes"} /\ (halted' = "yes" => halted = "yes" \/ exceeded' # "none")
      BY <2>1, <2>2 DEF EnterFrame, StopIfExceeded
    <3>4. CandidateReserve' = CandidateReserve + k
      BY <1>3, <2>1, <3>1, <3>3 DEF CandidateReserve
    <3>. QED BY <3>2, <3>3, <3>4
  <2>3. CASE AccessCode(S)
    <3>1. /\ Charge(0, S) /\ UNCHANGED <<accepted, acceptedBytes, steps, acceptedReserve>>
          /\ initialized' = initialized
          /\ halted' \in {"no", "yes"} /\ (halted' = "yes" => halted = "yes" \/ exceeded' # "none")
      BY <2>1, <2>3 DEF AccessCode, StopIfExceeded
    <3>2. CandidateReserve' = CandidateReserve + 0
      BY <1>3, <3>1 DEF CandidateReserve
    <3>. QED BY <2>1, <3>1, <3>2
  <2>. QED BY <1>1, <2>2, <2>3
<1>5. MeterInv'
  BY <1>4, ChargeKeepsInv DEF BuilderInv
<1>6. /\ pending' = pending \cup NewCodes(S) /\ pendingReserve' = pendingReserve + n
      /\ exceeded # "none" => exceeded' # "none"
  BY <1>4 DEF Charge, Exceed
<1>7. pending' = Filled(used')
  <2>1. used \in SUBSET Codes
    BY DEF BuilderInv, BuilderTypeOK
  <2>2. Filled(used \cup S) = Filled(used) \cup Filled(S) /\ NewCodes(S) = Filled(S) \ pending
    BY <2>1, FilledFacts
  <2>3. pending' = Filled(used \cup S)
    BY <1>2, <1>6, <2>2 DEF BuilderInv, WitnessInv
  <2>. QED BY <1>1, <2>3 DEF Filled
<1>8. WitnessInv'
  <2>1. accepted' = Filled(witness') /\ acceptedReserve' = reserves' /\ synthetic' = {}
    BY <1>2, <1>4 DEF BuilderInv, WitnessInv, Filled
  <2>2. pendingReserve' = CandidateReserve'
    BY <1>2, <1>4, <1>6 DEF BuilderInv, WitnessInv
  <2>3. halted' = "yes" => exceeded' # "none"
    BY <1>4, <1>6 DEF BuilderInv, WitnessInv
  <2>. QED BY <1>7, <2>1, <2>2, <2>3 DEF WitnessInv, Filled
<1>9. BuilderTypeOK' /\ GasFits'
  BY <1>1, <1>2 DEF BuilderInv, BuilderTypeOK, GasFits, ExecutorGasRule, args, progress
<1>. QED BY <1>5, <1>8, <1>9 DEF BuilderInv

-----------------------------------------------------------------------------
(* Steps of build_payload *)

LEMMA ReturnInv ==
  ASSUME BuilderInv, NEW r, Return(r)
  PROVE  BuilderInv'
<1>1. ~Executing'
  BY DEF Return, Executing
<1>2. MeterInv' /\ WitnessInv'
  BY <1>1, ResetWitness DEF Return
<1>3. BuilderTypeOK' /\ GasFits'
  BY DEF BuilderInv, Return, BuilderTypeOK, GasFits, ExecutorGasRule, args
<1>. QED BY <1>2, <1>3 DEF BuilderInv

\* A candidate that fits the builder's gas budget fits the executor's.
LEMMA BeginInv ==
  ASSUME BuilderInv, BeginExecution, NEW t \in Txs, cur' = t,
         info.gas + Attr[t].gas <= BlockGasLimit,
         phase' \in {"forcedExec", "poolExec"}, pool' \subseteq pool,
         UNCHANGED <<args, next, info, gasUsed, witness, reserves, synthetic>>
  PROVE  BuilderInv'
<1>1. MeterInv' /\ WitnessInv'
  BY ResetWitness DEF BeginExecution
<1>2. BuilderTypeOK' /\ GasFits'
  BY DEF BuilderInv, BuilderTypeOK, GasFits, ExecutorGasRule, BeginExecution, args
<1>. QED BY <1>1, <1>2 DEF BuilderInv

\* The executor counts at most the gas limit it has checked; the gate lets no
\* execution through that the inspector stopped.
LEMMA CommitInv ==
  ASSUME BuilderInv, phase \in {"forcedExec", "poolExec"}, Commit(cur),
         phase' \in {"forced", "pool"}, cur' = NoTx, next' \in {next, next + 1},
         UNCHANGED <<args, pool>>
  PROVE  BuilderInv'
<1>1. cur \in Txs
  BY DEF BuilderInv, BuilderTypeOK
<1>2. /\ Attr[cur].gas \in Nat \ {0} /\ Attr[cur].auths \in Nat /\ Attr[cur].da \in Nat
      /\ Attr[cur].tip \in Nat /\ AuthReserve * Attr[cur].auths \in Nat /\ cur # NoTx
  BY <1>1, AttrFacts
<1>3. Executing /\ ~Executing'
  BY DEF Executing
<1>4. exceeded = "none" /\ initialized = "yes" /\ halted = "no"
  BY DEF Commit, CommitGate, BuilderInv, WitnessInv, MeterInv, MeterTypeOK
<1>5. AcceptTransaction /\ synthetic' = synthetic
  BY <1>4 DEF Commit, AcceptRefused
<1>6. reserves' = reserves + CandidateReserve
  BY <1>2, <1>4 DEF Commit, CandidateReserve
<1>7. MeterInv' /\ WitnessInv'
  BY <1>3, <1>5, <1>6, AcceptWitness DEF Commit
<1>8. PICK g \in {1, Attr[cur].gas} :
        /\ gasUsed' = gasUsed + g
        /\ info' = [gas  |-> info.gas + g,
                    da   |-> info.da + Attr[cur].da,
                    fees |-> IF phase = "poolExec" THEN info.fees + Attr[cur].tip * g
                             ELSE info.fees]
  BY DEF Commit
<1>9. g \in Nat /\ g <= Attr[cur].gas /\ Attr[cur].tip * g \in Nat
  BY <1>2
<1>10. GasFits'
  <2>1. gasUsed + Attr[cur].gas <= BlockGasLimit /\ info.gas = gasUsed /\ gasUsed \in Nat
    BY DEF BuilderInv, BuilderTypeOK, GasFits, ExecutorGasRule
  <2>2. gasUsed' <= BlockGasLimit
    BY <1>2, <1>8, <1>9, <2>1, BuilderAssumption
  <2>3. info'.gas = gasUsed'
    BY <1>8, <2>1
  <2>. QED BY <2>2, <2>3 DEF GasFits
<1>11. info' \in [gas : Nat, da : Nat, fees : Nat] /\ gasUsed' \in Nat
  <2>1. info.gas \in Nat /\ info.da \in Nat /\ info.fees \in Nat /\ gasUsed \in Nat
    BY DEF BuilderInv, BuilderTypeOK
  <2>2. info.gas + g \in Nat /\ info.da + Attr[cur].da \in Nat
        /\ info.fees + Attr[cur].tip * g \in Nat
    BY <1>2, <1>9, <2>1
  <2>. QED BY <1>8, <1>9, <2>1, <2>2
<1>12. used' \subseteq Codes /\ witness' \subseteq Codes /\ reserves' \in Nat
  <2>1. used' = {} /\ witness' = witness \cup used
        /\ reserves' = reserves + AuthReserve * Attr[cur].auths
    BY DEF Commit
  <2>2. used \subseteq Codes /\ witness \subseteq Codes /\ reserves \in Nat
    BY DEF BuilderInv, BuilderTypeOK
  <2>. QED BY <1>2, <2>1, <2>2
<1>13. BuilderTypeOK'
  BY <1>11, <1>12 DEF BuilderInv, BuilderTypeOK, args
<1>. QED BY <1>7, <1>10, <1>13 DEF BuilderInv

\* accept_system_code_budget.
LEMMA SystemInv ==
  ASSUME BuilderInv, phase \in {"system", "final"}, NEW p \in {"decode", "done"}, NEW r,
         AcceptSystem(p, r)
  PROVE  BuilderInv'
<1>1. Executing /\ ~Executing'
  BY DEF Executing, AcceptSystem
<1>2. CandidateReserve = 0 /\ reserves \in Nat
  BY DEF BuilderInv, BuilderTypeOK, CandidateReserve
<1>3. MeterInv' /\ WitnessInv'
  BY <1>1, <1>2, AcceptWitness DEF AcceptSystem
<1>4. BuilderTypeOK' /\ GasFits'
  BY DEF BuilderInv, BuilderTypeOK, GasFits, ExecutorGasRule, AcceptSystem, args
<1>. QED BY <1>3, <1>4 DEF BuilderInv

\* A candidate that is rejected leaves nothing behind.
LEMMA RejectInv ==
  ASSUME BuilderInv, ResetTransaction, phase' \in {"forced", "pool"}, cur' = NoTx,
         next' \in {next, next + 1}, pool' \subseteq pool,
         UNCHANGED <<args, info, gasUsed, used, witness, reserves, synthetic>>
  PROVE  BuilderInv'
<1>1. ~Executing'
  BY DEF Executing
<1>2. MeterInv' /\ WitnessInv'
  BY <1>1, ResetWitness
<1>3. BuilderTypeOK' /\ GasFits'
  BY DEF BuilderInv, BuilderTypeOK, GasFits, ExecutorGasRule, args
<1>. QED BY <1>2, <1>3 DEF BuilderInv

\* The system phase of finalization begins.
LEMMA BeginFinalInv ==
  ASSUME BuilderInv, BeginExecution, phase' = "final", cur = NoTx,
         UNCHANGED <<args, pool, next, cur, info, gasUsed, witness, reserves, synthetic>>
  PROVE  BuilderInv'
<1>1. MeterInv' /\ WitnessInv'
  BY ResetWitness DEF BeginExecution
<1>2. BuilderTypeOK' /\ GasFits'
  BY DEF BuilderInv, BuilderTypeOK, GasFits, BeginExecution, args
<1>. QED BY <1>1, <1>2 DEF BuilderInv

\* A step between executions.
LEMMA BetweenInv ==
  ASSUME BuilderInv, UNCHANGED <<meter, used, witness, reserves, synthetic>>,
         cur' = cur, phase' = phase \/ (phase \in {"decode", "forced"} /\ phase' \in {"forced", "pool"}),
         pool' \subseteq pool, UNCHANGED <<args, next, info, gasUsed>>
  PROVE  BuilderInv'
<1>1. Executing' => Executing
  BY DEF Executing
<1>2. MeterInv' /\ WitnessInv'
  BY <1>1, MeterUntouched
<1>3. BuilderTypeOK' /\ GasFits'
  BY DEF BuilderInv, BuilderTypeOK, GasFits, ExecutorGasRule, args
<1>. QED BY <1>2, <1>3 DEF BuilderInv

LEMMA InitBuilderInv == BuilderInit => BuilderInv
<1> SUFFICES ASSUME BuilderInit PROVE BuilderInv
  OBVIOUS
<1>1. MeterInv
  BY InitMeterInv DEF BuilderInit
<1>2. BuilderTypeOK
  BY BuilderAssumption DEF BuilderInit, BuilderTypeOK
<1>3. WitnessInv
  BY DEF BuilderInit, MeterInit, WitnessInv, Filled, CandidateReserve
<1>4. GasFits
  BY BuilderAssumption DEF BuilderInit, GasFits
<1>. QED BY <1>1, <1>2, <1>3, <1>4 DEF BuilderInv

LEMMA NextBuilderInv == BuilderInv /\ [BuilderNext]_bvars => BuilderInv'
<1> SUFFICES ASSUME BuilderInv, [BuilderNext]_bvars PROVE BuilderInv'
  OBVIOUS
<1>0. /\ forced \in Seq(Txs) /\ offered \in Seq(Txs) /\ pool \subseteq DOMAIN offered
      /\ next \in Nat \ {0}
      /\ phase \in {"forced", "pool", "decode", "final"} => cur = NoTx
  BY DEF BuilderInv, BuilderTypeOK
<1>1. CASE Hook
  BY <1>1, HookInv
<1>2. CASE PreExecuted
  BY <1>2, SystemInv DEF PreExecuted
<1>3. CASE SystemOverBudget \/ Fails \/ RefuseForced \/ ForcedOverBudget \/ ReturnCancelled
  BY <1>3, ReturnInv
     DEF SystemOverBudget, Fails, RefuseForced, ForcedOverBudget, ReturnCancelled
<1>4. CASE DecodeForced
  <2>1. CASE Return("ForcedOverDa")
    BY <2>1, ReturnInv
  <2>2. CASE ~Return("ForcedOverDa")
    <3>1. /\ phase = "decode" /\ phase' = "forced"
          /\ UNCHANGED <<meter, args, pool, next, cur, info, gasUsed, history>>
      BY <1>4, <2>2 DEF DecodeForced
    <3>. QED BY <3>1, BetweenInv DEF history
  <2>. QED BY <2>1, <2>2
<1>5. CASE BeginForced
  <2>1. forced[next] \in Txs
    BY <1>0, <1>5 DEF BeginForced
  <2>. QED BY <1>5, <2>1, BeginInv DEF BeginForced, ForcedFits
<1>6. CASE CommitForced
  BY <1>6, CommitInv DEF CommitForced
<1>7. CASE SkipForced
  BY <1>7, RejectInv DEF SkipForced
<1>8. CASE EndForced
  <2>1. CASE noTxPool
    BY <1>0, <1>8, <2>1, BeginFinalInv DEF EndForced
  <2>2. CASE ~noTxPool
    <3>1. /\ phase = "forced" /\ phase' = "pool"
          /\ UNCHANGED <<meter, args, pool, next, cur, info, gasUsed, history>>
      BY <1>8, <2>2 DEF EndForced
    <3>. QED BY <3>1, BetweenInv DEF history
  <2>. QED BY <2>1, <2>2
<1>9. CASE DiscardPool
  <2>1. /\ pool' \subseteq pool
        /\ UNCHANGED <<meter, args, next, phase, cur, info, gasUsed, history>>
    BY <1>9 DEF DiscardPool, WithoutSender
  <2>. QED BY <2>1, BetweenInv DEF history
<1>10. CASE BeginPool
  <2>1. PICK i \in pool : ~Unusable(offered[i]) /\ cur' = offered[i] /\ pool' = pool \ {i}
    BY <1>10 DEF BeginPool
  <2>2. offered[i] \in Txs
    BY <1>0
  <2>3. info.gas + Attr[offered[i]].gas <= BlockGasLimit
    <3>1. info.gas \in Nat /\ Attr[offered[i]].gas \in Nat /\ BlockGasLimit \in Nat
      BY <2>2, AttrFacts, BuilderAssumption DEF BuilderInv, BuilderTypeOK
    <3>. QED BY <2>1, <3>1 DEF Unusable, OverLimits
  <2>4. BeginExecution /\ phase' = "poolExec"
        /\ UNCHANGED <<args, next, info, gasUsed, witness, reserves, synthetic>>
    BY <1>10 DEF BeginPool
  <2>. QED BY <2>1, <2>2, <2>3, <2>4, BeginInv
<1>11. CASE CommitPool
  BY <1>11, CommitInv DEF CommitPool
<1>12. CASE DropPool
  <2>1. pool' \subseteq pool
    BY <1>12 DEF DropPool, DroppedPool, WithoutSender
  <2>. QED BY <1>12, <2>1, RejectInv DEF DropPool
<1>13. CASE EndPool
  <2>1. CASE Return("Aborted")
    BY <2>1, ReturnInv
  <2>2. CASE ~Return("Aborted")
    BY <1>0, <1>13, <2>2, BeginFinalInv DEF EndPool
  <2>. QED BY <2>1, <2>2
<1>14. CASE Finalize
  BY <1>14, SystemInv DEF Finalize, FinalBudget
<1>15. CASE Cancel \/ TimeUp \/ UNCHANGED bvars
  <2>1. /\ UNCHANGED <<meter, args, history>>
        /\ UNCHANGED <<pool, next, phase, cur, info, gasUsed, block, outcome>>
    BY <1>15 DEF Cancel, TimeUp, bvars, progress
  <2>. QED BY <2>1, BetweenInv DEF history
<1>. QED
  BY <1>1, <1>2, <1>3, <1>4, <1>5, <1>6, <1>7, <1>8, <1>9, <1>10, <1>11, <1>12, <1>13,
     <1>14, <1>15 DEF BuilderNext, BuildStep

LEMMA BuilderInvariance == BuilderSpec => []BuilderInv
BY InitBuilderInv, NextBuilderInv, PTL DEF BuilderSpec

-----------------------------------------------------------------------------
(* Theorems *)

\* The attempt's state keeps its type, the meter's included.
THEOREM BuilderTypeCorrect == BuilderSpec => [](BuilderTypeOK /\ MeterTypeOK)
<1>1. BuilderInv => BuilderTypeOK /\ MeterTypeOK
  BY DEF BuilderInv, MeterInv
<1>. QED BY <1>1, BuilderInvariance, PTL

\* Whatever is forced, offered, skipped or rejected, and however the cancellation and
\* the clock interleave with the executions, the codes that a built block loads fit
\* max_code_witness_bytes with the authorization reserve, and no transaction that
\* the inspector stopped is committed (execute_with_code_budget).
THEOREM CodeBudgetKept == BuilderSpec => []BlockFitsCodeBudget
<1>1. BuilderInv => BlockFitsCodeBudget
  <2> SUFFICES ASSUME BuilderInv PROVE BlockFitsCodeBudget
    OBVIOUS
  <2>1. witness \in SUBSET Codes /\ reserves \in Nat /\ CodeBytes[witness] \in Nat
    BY MeterAssumption DEF BuilderInv, BuilderTypeOK
  <2>2. CodeBytes[accepted] = CodeBytes[witness] /\ acceptedReserve = reserves
    BY <2>1, FilledFacts DEF BuilderInv, WitnessInv
  <2>3. Sat(CodeBytes[witness] + reserves) <= MaxCodeBytes
    BY <2>2 DEF BuilderInv, MeterInv, AccountingExact, BudgetDecision
  <2>4. CodeBytes[witness] + reserves <= MaxCodeBytes
    <3>1. MaxCodeBytes \in 0 .. U64Max /\ U64Max \in Nat
      BY MeterAssumption
    <3>2. MaxCodeBytes < U64Max
      BY BuilderAssumption
    <3>. QED BY <2>1, <2>3, <3>1, <3>2 DEF Sat
  <2>. QED BY <2>4 DEF BlockFitsCodeBudget, BuilderInv, WitnessInv
<1>. QED BY <1>1, BuilderInvariance, PTL

\* The builder's gas count is the executor's, and no candidate it executes is one that
\* the executor's block-gas rule refuses (is_tx_over_limits, the forced-transaction
\* check, ScrollBlockExecutor::execute_transaction_without_commit).
THEOREM GasAlwaysFits == BuilderSpec => []GasFits
<1>1. BuilderInv => GasFits
  BY DEF BuilderInv
<1>. QED BY <1>1, BuilderInvariance, PTL

-----------------------------------------------------------------------------
(* Nonces *)

NonceInv == ChainInv /\ NoNonceGap

LEMMA PoolFacts ==
  ASSUME NonceInv, NEW i \in DOMAIN offered, NEW j \in DOMAIN offered
  PROVE  /\ offered[i] = offered[j] => i = j
         /\ i < j /\ SameSender(offered, i, j) => \A k \in DOMAIN forced : forced[k] # offered[j]
  BY PoolAssumption DEF NonceInv, ChainInv

\* What is settled stays so.
LEMMA SettledKept ==
  ASSUME NEW i, offered' = offered, InBlock \subseteq InBlock', stale \subseteq stale', Settled(i)
  PROVE  Settled(i)'
  BY DEF Settled

\* A step that changes neither the block nor the offer, apart from taking whole
\* sender chains from it, and starts no execution.
LEMMA ChainKept ==
  ASSUME NonceInv, UNCHANGED <<forced, offered, block, stale, next>>,
         \/ phase' = "done" \/ (phase' = phase /\ cur' = cur)
         \/ phase \notin {"poolExec", "done"} /\ phase' \notin {"forcedExec", "poolExec"},
         pool' \subseteq pool,
         \A i \in pool \ pool' : \A j \in pool' : ~SameSender(offered, i, j)
  PROVE  NonceInv'
<1>1. InBlock' = InBlock /\ \A i : Settled(i)' <=> Settled(i)
  BY DEF InBlock, Settled
<1>2. \A i, j : SameSender(offered, i, j)' <=> SameSender(offered, i, j)
  BY DEF SameSender
<1>3. NoNonceGap'
  BY <1>1, <1>2 DEF NonceInv, NoNonceGap
<1>4. ASSUME phase' # "done", NEW j \in pool', NEW i \in DOMAIN offered, i < j,
             SameSender(offered, i, j)
      PROVE  i \in pool' \/ Settled(i)' \/ (phase' = "poolExec" /\ cur' = offered[i])
  <2>1. i \in pool \/ Settled(i) \/ (phase = "poolExec" /\ cur = offered[i])
    BY <1>4 DEF NonceInv, ChainInv
  <2>2. i \in pool => i \in pool'
    BY <1>4
  <2>. QED BY <1>1, <1>4, <2>1, <2>2
<1>5. phase' = "poolExec" => \E k \in DOMAIN offered' :
        /\ cur' = offered'[k]
        /\ \A i \in DOMAIN offered' : i < k /\ SameSender(offered, i, k)' => Settled(i)'
  BY <1>1, <1>2 DEF NonceInv, ChainInv
<1>6. ChainInv'
  BY <1>2, <1>4, <1>5 DEF NonceInv, ChainInv, SameSender
<1>. QED BY <1>3, <1>6 DEF NonceInv

\* The end of an execution: a forced transaction is committed or skipped, a pool
\* transaction is committed, or its nonce is used, or its sender's chain goes.
LEMMA ExecutionEnds ==
  ASSUME BuilderInv, NonceInv, UNCHANGED <<forced, offered>>,
         phase \in {"forcedExec", "poolExec"}, phase' \in {"forced", "pool"},
         pool' \subseteq pool,
         \/ block' = Append(block, cur) /\ pool' = pool /\ stale' = stale
         \/ block' = block /\ phase = "forcedExec" /\ pool' = pool /\ stale' = stale
         \/ block' = block /\ pool' = pool /\ stale' = stale \cup {cur}
         \/ block' = block /\ stale' = stale /\ pool' = WithoutSender(pool, Attr[cur].sender)
  PROVE  NonceInv'
<1>1. cur \in Txs /\ block \in Seq(Txs) /\ pool \subseteq DOMAIN offered
  BY DEF BuilderInv, BuilderTypeOK, NonceInv, ChainInv
<1>2. block' \in Seq(Txs) /\ InBlock \subseteq InBlock' /\ InBlock' \subseteq InBlock \cup {cur}
      /\ (block' # block => cur \in InBlock') /\ stale \subseteq stale'
  BY <1>1 DEF InBlock
<1>3. \A i : Settled(i) => Settled(i)'
  BY <1>2, SettledKept
<1>4. \A i, j : SameSender(offered, i, j)' <=> SameSender(offered, i, j)
  BY DEF SameSender
<1>5. NoNonceGap'
  <2> SUFFICES ASSUME NEW i \in DOMAIN offered, NEW j \in DOMAIN offered, i < j,
                      SameSender(offered, i, j), offered[j] \in InBlock'
               PROVE  Settled(i)'
    BY <1>4 DEF NoNonceGap
  <2>1. CASE offered[j] \in InBlock
    BY <2>1, <1>3 DEF NonceInv, NoNonceGap
  <2>2. CASE offered[j] = cur
    <3>1. phase = "poolExec"
      BY <2>2, PoolFacts DEF NonceInv, ChainInv
    <3>2. PICK k \in DOMAIN offered :
            /\ cur = offered[k]
            /\ \A h \in DOMAIN offered : h < k /\ SameSender(offered, h, k) => Settled(h)
      BY <3>1 DEF NonceInv, ChainInv
    <3>3. k = j
      BY <2>2, <3>2, PoolFacts
    <3>. QED BY <1>3, <3>2, <3>3
  <2>. QED BY <1>2, <2>1, <2>2
<1>6. ASSUME NEW j \in pool', NEW i \in DOMAIN offered, i < j, SameSender(offered, i, j)
      PROVE  i \in pool' \/ Settled(i)'
  <2>1. i \in pool \/ Settled(i) \/ (phase = "poolExec" /\ cur = offered[i])
    BY <1>6 DEF NonceInv, ChainInv
  <2>2. CASE Settled(i)
    BY <1>3, <2>2
  <2>3. CASE i \in pool
    BY <1>6, <2>3 DEF WithoutSender, SameSender
  <2>4. CASE phase = "poolExec" /\ cur = offered[i]
    <3>1. CASE pool' = WithoutSender(pool, Attr[cur].sender)
      BY <1>6, <2>4, <3>1 DEF WithoutSender, SameSender
    <3>2. CASE block' = Append(block, cur)
      <4>1. cur \in InBlock'
        BY <1>1, <3>2 DEF InBlock
      <4>. QED BY <2>4, <4>1 DEF Settled
    <3>3. CASE stale' = stale \cup {cur}
      BY <2>4, <3>3 DEF Settled
    <3>. QED BY <2>4, <3>1, <3>2, <3>3
  <2>. QED BY <2>1, <2>2, <2>3, <2>4
<1>7. ChainInv'
  BY <1>2, <1>4, <1>6 DEF NonceInv, ChainInv, SameSender
<1>. QED BY <1>5, <1>7 DEF NonceInv

\* A pool transaction begins: it is the first that is left, so its sender's earlier
\* ones are settled.
LEMMA PoolBegins ==
  ASSUME BuilderInv, NonceInv, BeginPool
  PROVE  NonceInv'
<1>1. PICK k \in pool : IsNext(k) /\ cur' = offered[k] /\ pool' = pool \ {k}
  BY DEF BeginPool
<1>2. /\ phase = "pool" /\ phase' = "poolExec"
      /\ UNCHANGED <<forced, offered, next, block, stale>>
  BY DEF BeginPool, args
<1>3. /\ InBlock' = InBlock /\ \A i : Settled(i)' <=> Settled(i)
      /\ \A i, j : SameSender(offered, i, j)' <=> SameSender(offered, i, j)
  BY <1>2 DEF InBlock, Settled, SameSender
<1>4. k \in DOMAIN offered /\ DOMAIN offered \subseteq Nat
  BY DEF BuilderInv, BuilderTypeOK
<1>5. ASSUME NEW i \in DOMAIN offered, i < k, SameSender(offered, i, k) PROVE Settled(i)
  <2>1. i \notin pool
    BY <1>1, <1>4, <1>5 DEF IsNext
  <2>. QED BY <1>2, <1>5, <2>1 DEF NonceInv, ChainInv
<1>6. ASSUME NEW j \in pool', NEW i \in DOMAIN offered, i < j, SameSender(offered, i, j)
      PROVE  i \in pool' \/ Settled(i)' \/ cur' = offered[i]
  <2>1. i \in pool \/ Settled(i)
    BY <1>1, <1>2, <1>6 DEF NonceInv, ChainInv
  <2>. QED BY <1>1, <1>3, <2>1
<1>7. NoNonceGap'
  BY <1>2, <1>3 DEF NonceInv, NoNonceGap
<1>8. ChainInv'
  <2>1. \E m \in DOMAIN offered' :
          /\ cur' = offered'[m]
          /\ \A i \in DOMAIN offered' : i < m /\ SameSender(offered, i, m)' => Settled(i)'
    BY <1>1, <1>2, <1>3, <1>4, <1>5
  <2>. QED BY <1>2, <1>3, <1>6, <2>1 DEF NonceInv, ChainInv, SameSender
<1>. QED BY <1>7, <1>8 DEF NonceInv

LEMMA ForcedBegins ==
  ASSUME BuilderInv, NonceInv, BeginForced
  PROVE  NonceInv'
<1>1. /\ phase = "forced" /\ phase' = "forcedExec" /\ cur' = forced[next]
      /\ next <= Len(forced)
      /\ UNCHANGED <<forced, offered, next, block, stale, pool>>
  BY DEF BeginForced, args
<1>2. /\ InBlock' = InBlock /\ \A i : Settled(i)' <=> Settled(i)
      /\ \A i, j : SameSender(offered, i, j)' <=> SameSender(offered, i, j)
  BY <1>1 DEF InBlock, Settled, SameSender
<1>3. next \in DOMAIN forced
  BY <1>1 DEF BuilderInv, BuilderTypeOK
<1>4. NoNonceGap'
  BY <1>1, <1>2 DEF NonceInv, NoNonceGap
<1>5. ChainInv'
  BY <1>1, <1>2, <1>3 DEF NonceInv, ChainInv, SameSender
<1>. QED BY <1>4, <1>5 DEF NonceInv

LEMMA InitNonceInv == BuilderInit => NonceInv
<1> SUFFICES ASSUME BuilderInit PROVE NonceInv
  OBVIOUS
<1>1. InBlock = {}
  BY DEF BuilderInit, InBlock
<1>2. ChainInv
  BY DEF BuilderInit, ChainInv
<1>. QED BY <1>1, <1>2 DEF NonceInv, NoNonceGap

LEMMA NextNonceInv == BuilderInv /\ NonceInv /\ [BuilderNext]_bvars => NonceInv'
<1> SUFFICES ASSUME BuilderInv, NonceInv, [BuilderNext]_bvars PROVE NonceInv'
  OBVIOUS
<1>1. ASSUME NEW r, Return(r) PROVE NonceInv'
  BY <1>1, ChainKept DEF Return, args
<1>2. CASE Hook \/ Cancel \/ TimeUp \/ UNCHANGED bvars
  <2>1. UNCHANGED <<forced, offered, block, stale, next, phase, cur, pool>>
    BY <1>2 DEF Hook, Cancel, TimeUp, bvars, args, progress, history
  <2>. QED BY <2>1, ChainKept
<1>3. CASE PreExecuted \/ Finalize
  <2>1. /\ phase \in {"system", "final"} /\ phase' \in {"decode", "done"}
        /\ UNCHANGED <<forced, offered, block, stale, next, pool>>
    BY <1>3 DEF PreExecuted, Finalize, FinalBudget, AcceptSystem, args
  <2>. QED BY <2>1, ChainKept
<1>4. CASE SystemOverBudget \/ Fails \/ RefuseForced \/ ForcedOverBudget \/ ReturnCancelled
  BY <1>1, <1>4 DEF SystemOverBudget, Fails, RefuseForced, ForcedOverBudget, ReturnCancelled
<1>5. CASE DecodeForced
  <2>1. CASE ~Return("ForcedOverDa")
    <3>1. /\ phase = "decode" /\ phase' = "forced"
          /\ UNCHANGED <<forced, offered, block, stale, next, pool>>
      BY <1>5, <2>1 DEF DecodeForced, args, history
    <3>. QED BY <3>1, ChainKept
  <2>. QED BY <1>1, <2>1
<1>6. CASE EndForced
  <2>1. /\ phase = "forced" /\ phase' \in {"pool", "final"}
        /\ UNCHANGED <<forced, offered, block, stale, next, pool>>
    BY <1>6 DEF EndForced, args, history
  <2>. QED BY <2>1, ChainKept
<1>7. CASE EndPool
  <2>1. CASE ~Return("Aborted")
    <3>1. /\ phase = "pool" /\ phase' = "final"
          /\ UNCHANGED <<forced, offered, block, stale, next, pool>>
      BY <1>7, <2>1 DEF EndPool, args
    <3>. QED BY <3>1, ChainKept
  <2>. QED BY <1>1, <2>1
<1>8. CASE DiscardPool
  <2>1. PICK k \in pool :
          IsNext(k) /\ pool' = WithoutSender(pool \ {k}, Attr[offered[k]].sender)
    BY <1>8 DEF DiscardPool
  <2>2. UNCHANGED <<forced, offered, block, stale, next, phase, cur>>
    BY <1>8 DEF DiscardPool, args, history
  <2>3. pool' \subseteq pool /\ \A i \in pool \ pool' : \A j \in pool' : ~SameSender(offered, i, j)
    BY <2>1 DEF WithoutSender, SameSender
  <2>. QED BY <2>2, <2>3, ChainKept
<1>9. CASE CommitForced \/ CommitPool
  BY <1>9, ExecutionEnds DEF CommitForced, CommitPool, Commit, args
<1>10. CASE SkipForced
  BY <1>10, ExecutionEnds DEF SkipForced, args
<1>11. CASE DropPool
  <2>1. /\ phase = "poolExec" /\ phase' = "pool" /\ UNCHANGED <<forced, offered, block>>
        /\ \/ pool' = pool /\ stale' = stale \cup {cur}
           \/ pool' = WithoutSender(pool, Attr[cur].sender) /\ stale' = stale
    BY <1>11 DEF DropPool, DroppedPool, args
  <2>2. pool' \subseteq pool
    BY <2>1 DEF WithoutSender
  <2>. QED BY <2>1, <2>2, ExecutionEnds
<1>. QED
  BY <1>2, <1>3, <1>4, <1>5, <1>6, <1>7, <1>8, <1>9, <1>10, <1>11, PoolBegins, ForcedBegins
     DEF BuilderNext, BuildStep

\* A built block has no gap in a sender's chain of offered transactions, whatever is
\* invalid, over budget, over a limit or has its nonce used already (mark_invalid).
THEOREM NoncesAlwaysGapless == BuilderSpec => []NoNonceGap
<1>1. NonceInv => NoNonceGap
  BY DEF NonceInv
<1>2. BuilderSpec => [](BuilderInv /\ NonceInv)
  BY InitBuilderInv, NextBuilderInv, InitNonceInv, NextNonceInv, PTL DEF BuilderSpec
<1>. QED BY <1>1, <1>2, PTL

-----------------------------------------------------------------------------
(* The content of the block *)

\* One more transaction adds its own size.
LEMMA TotalAppended ==
  ASSUME NEW txs \in Seq(Txs), NEW t \in Txs
  PROVE  TotalDa(txs) \in Int /\ TotalDa(Append(txs, t)) = TotalDa(txs) + Attr[t].da
<1> DEFINE v == DaSizes(Append(txs, t))
           w == DaSizes(txs)
           n == Len(txs)
<1>1. n \in Nat /\ Len(Append(txs, t)) = n + 1 /\ Attr[t].da \in Int
  BY AttrFacts
<1>2. \A k \in 1 .. n : v[k] = w[k]
  BY DEF DaSizes
<1>3. \A k \in 1 .. n : w[k] \in Int
  <2> SUFFICES ASSUME NEW k \in 1 .. n
               PROVE  w[k] \in Int
    OBVIOUS
  <2>1. txs[k] \in Txs /\ w[k] = Attr[txs[k]].da
    BY DEF DaSizes
  <2> QED
    BY <2>1, AttrFacts
<1>4. v[n + 1] = Attr[t].da
  BY DEF DaSizes
<1> HIDE DEF v, w, n
<1>5. \A k \in 1 .. n : v[k] \in Int /\ w[k] = v[k]
  BY <1>2, <1>3
<1>6. v[n + 1] \in Int
  BY <1>1, <1>4
<1>7. SumTo(w, n) \in Int /\ SumTo(v, n + 1) = SumTo(w, n) + v[n + 1]
  BY <1>1, <1>5, <1>6, SumStep
<1> QED
  BY <1>1, <1>4, <1>7, Zenon DEF TotalDa, v, w, n

\* The forced transactions up to the next one add its size, and are no more
\* than all of them.
LEMMA ForcedTotals ==
  ASSUME forced \in Seq(Txs), NEW k \in 1 .. Len(forced)
  PROVE  /\ SumTo(DaSizes(forced), k - 1) \in Int /\ TotalDa(forced) \in Int
         /\ SumTo(DaSizes(forced), k) = SumTo(DaSizes(forced), k - 1) + Attr[forced[k]].da
         /\ SumTo(DaSizes(forced), k) <= TotalDa(forced)
<1> DEFINE w == DaSizes(forced)
           n == Len(forced)
<1>1. n \in Nat /\ k - 1 \in Nat /\ (k - 1) + 1 = k /\ k \in 0 .. n
  OBVIOUS
<1>2. ASSUME NEW i \in 1 .. n
      PROVE  w[i] \in Nat /\ w[i] = Attr[forced[i]].da
  <2>1. forced[i] \in Txs /\ w[i] = Attr[forced[i]].da
    BY DEF DaSizes
  <2> QED
    BY <2>1, AttrFacts
<1>3. TotalDa(forced) = SumTo(w, n)
  BY DEF TotalDa
<1> HIDE DEF w, n
<1>4. k \in 1 .. n
  BY DEF n
<1>5. w[k] \in Nat /\ w[k] = Attr[forced[k]].da
  BY <1>2, <1>4
<1>6. \A i \in 1 .. k - 1 : w[i] \in Int /\ w[i] = w[i]
  BY <1>1, <1>2
<1>7. w[(k - 1) + 1] \in Int
  BY <1>1, <1>5
<1>8. SumTo(w, k - 1) \in Int /\ SumTo(w, (k - 1) + 1) = SumTo(w, k - 1) + w[(k - 1) + 1]
  BY <1>1, <1>6, <1>7, SumStep, Zenon
<1>9. SumTo(w, k) = SumTo(w, k - 1) + Attr[forced[k]].da
  BY <1>1, <1>5, <1>8
<1>10. SumTo(w, k) <= SumTo(w, n)
  BY <1>1, <1>2, SumMonotone
<1>11. SumTo(w, n) \in Int
  <2>1. \A i \in 1 .. n : w[i] \in Int
    BY <1>2
  <2> QED
    BY <1>1, <2>1, SumInt
<1> QED
  BY <1>3, <1>8, <1>9, <1>10, <1>11 DEF w

\* What the steps of the content need of the attempt's types.
LEMMA ContentFacts ==
  ASSUME BuilderInv, NonceInv, ContentInv
  PROVE  /\ forced \in Seq(Txs) /\ block \in Seq(Txs) /\ Len(forced) \in Nat /\ Len(block) \in Nat
         /\ next \in Nat \ {0} /\ info.da \in Nat
         /\ skipped \subseteq 1 .. next - 1 /\ IsFiniteSet(skipped) /\ Cardinality(skipped) \in Nat
         /\ config.da \in Nat \cup {NoLimit}
<1>1. /\ forced \in Seq(Txs) /\ next \in Nat \ {0} /\ info.da \in Nat
  BY DEF BuilderInv, BuilderTypeOK
<1>2. block \in Seq(Txs)
  BY DEF NonceInv, ChainInv
<1>3. skipped \subseteq 1 .. next - 1
  BY DEF ContentInv, ForcedInv
<1>4. IsFiniteSet(1 .. next - 1)
  BY <1>1, FS_Interval
<1>5. IsFiniteSet(skipped) /\ Cardinality(skipped) \in Nat
  BY <1>3, <1>4, FS_Subset, FS_CardinalityType
<1>6. config.da \in Nat \cup {NoLimit}
  BY BuilderAssumption DEF ContentInv, DaInv
<1> QED
  BY <1>1, <1>2, <1>3, <1>5, <1>6

\* A step that changes neither the block nor what was forced.
LEMMA ContentKept ==
  ASSUME BuilderInv, NonceInv, ContentInv,
         UNCHANGED <<config, forced, noTxPool, block, next, skipped, info>>,
         \/ phase' = phase /\ cur' = cur /\ outcome' = outcome
         \/ phase' = "done" /\ (Built' => phase = "final")
         \/ outcome' = outcome /\ phase = "system" /\ phase' = "decode"
         \/ outcome' = outcome /\ phase = "pool" /\ phase' = "final"
         \/ outcome' = outcome /\ phase = "poolExec" /\ phase' = "pool"
         \/ outcome' = outcome /\ phase = "forced" /\ phase' = "forcedExec"
         \/ outcome' = outcome /\ phase = "decode" /\ phase' = "forced"
              /\ ~Above(TotalDa(forced), config.da)
         \/ /\ outcome' = outcome /\ phase = "forced" /\ next > Len(forced)
            /\ phase' \in {"pool", "final"} /\ (phase' = "pool" => ~noTxPool)
         \/ /\ outcome' = outcome /\ phase = "pool" /\ phase' = "poolExec"
            /\ Attr[cur'].kind = "l2" /\ ~Above(info.da + Attr[cur'].da, config.da)
  PROVE  ContentInv'
<1>1. \A k : PlaceOf(k)' = PlaceOf(k)
  BY DEF PlaceOf
<1>2. L1OrderValid(forced)' = L1OrderValid(forced) /\ L1OrderValid(block)' = L1OrderValid(block)
  BY DEF L1OrderValid
<1>3. OrderInv'
  BY <1>2 DEF ContentInv, OrderInv
<1>4. next \in Nat \ {0} /\ Len(forced) \in Nat
  BY ContentFacts
<1>5. ForcedInv'
  <2>1. Early' => Early
    BY DEF Early
  <2>2. Beyond' => next' = Len(forced') + 1
    <3>1. CASE Beyond
      BY <3>1 DEF ContentInv, ForcedInv
    <3>2. CASE phase = "forced" /\ next > Len(forced)
      BY <1>4, <3>2 DEF ContentInv, ForcedInv
    <3>3. CASE ~Beyond /\ ~(phase = "forced" /\ next > Len(forced))
      BY <3>3 DEF Beyond, Built
    <3> QED
      BY <3>1, <3>2, <3>3
  <2>3. /\ phase' \in {"pool", "poolExec"} => ~noTxPool'
        /\ phase' \in {"system", "decode"} => next' = 1
    BY DEF ContentInv, ForcedInv
  <2> QED
    BY <1>1, <2>1, <2>2, <2>3 DEF ContentInv, ForcedInv
<1>6. DaInv'
  <2>1. TotalDa(block)' = TotalDa(block) /\ TotalDa(forced)' = TotalDa(forced)
    BY DEF TotalDa, DaSizes
  <2>2. \A x : Above(x, config.da)' <=> Above(x, config.da)
    BY DEF Above
  <2>3. DaSizes(forced)' = DaSizes(forced)
    BY DEF DaSizes
  <2>4. phase = "decode" => info.da <= SumTo(DaSizes(forced), next - 1)
    <3> SUFFICES ASSUME phase = "decode"
                 PROVE  info.da <= SumTo(DaSizes(forced), next - 1)
      OBVIOUS
    <3>1. next - 1 = 0 /\ Len(block) = 0
      <4>1. next = 1 /\ skipped \subseteq 1 .. next - 1 /\ Len(block) = next - 1 - Cardinality(skipped)
        BY DEF ContentInv, ForcedInv, Early
      <4>2. skipped = {}
        BY <4>1
      <4>3. Cardinality(skipped) = 0
        BY <4>2, FS_EmptySet
      <4> QED
        BY <4>1, <4>3
    <3>2. TotalDa(block) = 0 /\ SumTo(DaSizes(forced), next - 1) = 0
      BY <3>1, SumZero DEF TotalDa
    <3> QED
      BY <3>2 DEF ContentInv, DaInv
  <2> QED
    BY <2>1, <2>2, <2>3, <2>4 DEF ContentInv, DaInv
<1> QED
  BY <1>3, <1>5, <1>6 DEF ContentInv

\* A transaction at the end of the block moves none of the others.
LEMMA BlockGrows ==
  ASSUME block \in Seq(Txs), NEW t \in Txs, block' = Append(block, t)
  PROVE  /\ Len(block') = Len(block) + 1 /\ block'[Len(block) + 1] = t
         /\ \A i \in DOMAIN block : i \in DOMAIN block' /\ block'[i] = block[i]
         /\ DOMAIN block' = 1 .. Len(block) + 1
  OBVIOUS

LEMMA ForcedCommitted ==
  ASSUME BuilderInv, NonceInv, ContentInv, CommitForced
  PROVE  ContentInv'
<1>1. /\ phase = "forcedExec" /\ phase' = "forced" /\ outcome = "none" /\ outcome' = outcome
      /\ next' = next + 1 /\ UNCHANGED <<config, forced, noTxPool, skipped>>
      /\ block' = Append(block, cur)
  BY DEF CommitForced, Commit, args
<1>2. next \in DOMAIN forced /\ cur = forced[next] /\ cur \in Txs
  BY <1>1 DEF NonceInv, ChainInv, BuilderInv, BuilderTypeOK
<1>3. /\ forced \in Seq(Txs) /\ block \in Seq(Txs) /\ Len(forced) \in Nat /\ Len(block) \in Nat
      /\ next \in Nat \ {0} /\ info.da \in Nat
      /\ skipped \subseteq 1 .. next - 1 /\ IsFiniteSet(skipped) /\ Cardinality(skipped) \in Nat
      /\ config.da \in Nat \cup {NoLimit}
  BY ContentFacts
<1>4. /\ Len(block') = Len(block) + 1 /\ block'[Len(block) + 1] = cur
      /\ \A i \in DOMAIN block : i \in DOMAIN block' /\ block'[i] = block[i]
      /\ DOMAIN block' = 1 .. Len(block) + 1
  BY <1>1, <1>2, <1>3, BlockGrows
<1>5. Len(block) = next - 1 - Cardinality(skipped)
  BY <1>1 DEF ContentInv, ForcedInv, Early
<1>6. next \in 1 .. Len(forced)
  BY <1>2, <1>3
<1>7. \A k : PlaceOf(k)' = PlaceOf(k)
  BY <1>1 DEF PlaceOf
<1>8. PlaceOf(next) = Len(block) + 1
  <2>1. \A k \in skipped : k \in 1 .. next
    BY <1>3
  <2>2. skipped \cap (1 .. next) = skipped
    BY <2>1, Zenon
  <2>3. PlaceOf(next) = next - Cardinality(skipped)
    BY <2>2 DEF PlaceOf
  <2>4. Cardinality(skipped) \in Nat /\ next \in Nat
    BY <1>3
  <2> QED
    BY <1>5, <2>3, <2>4
<1>9. ForcedInv'
  <2>1. ASSUME NEW k \in (1 .. next' - 1) \ skipped
        PROVE  PlaceOf(k) \in DOMAIN block' /\ block'[PlaceOf(k)] = forced[k]
    <3>1. CASE k = next
      <4>1. PlaceOf(k) = Len(block) + 1
        BY <1>8, <3>1
      <4>2. Len(block) + 1 \in DOMAIN block'
        BY <1>3, <1>4
      <4> QED
        BY <1>2, <1>4, <3>1, <4>1, <4>2
    <3>2. CASE k # next
      <4>1. k \in (1 .. next - 1) \ skipped
        BY <1>1, <1>3, <3>2
      <4>2. PlaceOf(k) \in DOMAIN block /\ block[PlaceOf(k)] = forced[k]
        BY <4>1 DEF ContentInv, ForcedInv
      <4> QED
        BY <1>4, <4>2
    <3> QED
      BY <3>1, <3>2
  <2>2. skipped' \subseteq 1 .. next' - 1 /\ next' - 1 <= Len(forced')
    BY <1>1, <1>3, <1>6
  <2>3. Len(block') = next' - 1 - Cardinality(skipped')
    BY <1>1, <1>3, <1>4, <1>5
  <2>4. ~Beyond'
    BY <1>1 DEF Beyond, Built
  <2> QED
    BY <1>1, <1>7, <2>1, <2>2, <2>3, <2>4 DEF ForcedInv
<1>10. OrderInv'
  <2> SUFFICES ASSUME L1OrderValid(forced), \A k \in skipped : Attr[forced[k]].kind # "l1"
               PROVE  L1OrderValid(block)'
    BY <1>1 DEF OrderInv, L1OrderValid
  <2>1. L1OrderValid(block)
    BY DEF ContentInv, OrderInv
  <2> SUFFICES ASSUME NEW i \in 2 .. Len(block'), Attr[block'[i]].kind = "l1"
               PROVE  /\ Attr[block'[i - 1]].kind = "l1"
                      /\ Attr[block'[i]].queue = Attr[block'[i - 1]].queue + 1
    BY DEF L1OrderValid
  <2>2. CASE i <= Len(block)
    <3>1. i \in DOMAIN block /\ i - 1 \in DOMAIN block /\ i \in 2 .. Len(block)
      BY <1>3, <2>2
    <3>2. block'[i] = block[i] /\ block'[i - 1] = block[i - 1]
      BY <1>4, <3>1
    <3> QED
      BY <2>1, <3>1, <3>2 DEF L1OrderValid
  <2>3. CASE ~(i <= Len(block))
    <3>1. i = Len(block) + 1 /\ i - 1 = Len(block) /\ Len(block) >= 1 /\ next \in 2 .. Len(forced)
          /\ next - 1 \in 1 .. next - 1 /\ Len(block) \in DOMAIN block
      BY <1>3, <1>4, <1>5, <1>6, <2>3, SMTT(30)
    <3>2. Attr[forced[next]].kind = "l1"
      BY <1>2, <1>4, <3>1
    <3>3. /\ Attr[forced[next - 1]].kind = "l1"
          /\ Attr[forced[next]].queue = Attr[forced[next - 1]].queue + 1
      BY <3>1, <3>2 DEF L1OrderValid
    <3>4. next - 1 \in (1 .. next - 1) \ skipped
      BY <3>1, <3>3
    <3>5. block[PlaceOf(next - 1)] = forced[next - 1]
      BY <3>4 DEF ContentInv, ForcedInv
    <3>6. PlaceOf(next - 1) = Len(block)
      <4>1. skipped \cap 1 .. next - 1 = skipped
        BY <1>3
      <4> QED
        BY <1>5, <4>1 DEF PlaceOf
    <3>7. block'[i - 1] = forced[next - 1] /\ block'[i] = forced[next]
      BY <1>2, <1>4, <3>1, <3>5, <3>6
    <3> QED
      BY <3>3, <3>7
  <2> QED
    BY <2>2, <2>3
<1>11. DaInv'
  <2>1. TotalDa(block) \in Int /\ TotalDa(block') = TotalDa(block) + Attr[cur].da
    BY <1>1, <1>2, <1>3, TotalAppended
  <2>2. info'.da = info.da + Attr[cur].da
    BY DEF CommitForced, Commit
  <2>3. /\ info.da = TotalDa(block) /\ ~Above(TotalDa(forced), config.da) /\ config \in Configs
        /\ info.da <= SumTo(DaSizes(forced), next - 1)
    BY <1>1 DEF ContentInv, DaInv
  <2>4. /\ SumTo(DaSizes(forced), next - 1) \in Int /\ TotalDa(forced) \in Int
        /\ SumTo(DaSizes(forced), next) = SumTo(DaSizes(forced), next - 1) + Attr[forced[next]].da
        /\ SumTo(DaSizes(forced), next) <= TotalDa(forced)
    BY <1>3, <1>6, ForcedTotals
  <2>5. Attr[cur].da \in Nat
    BY <1>2, AttrFacts
  <2>6. info'.da <= SumTo(DaSizes(forced), next) /\ info'.da \in Nat
    BY <1>2, <1>3, <2>2, <2>3, <2>4, <2>5, SMTT(30)
  <2>7. ~Above(info'.da, config.da)
    <3>1. info'.da <= TotalDa(forced) /\ SumTo(DaSizes(forced), next) \in Int
      BY <1>2, <2>4, <2>5, <2>6
    <3> QED
      BY <1>3, <2>3, <2>4, <2>6, <3>1 DEF Above
  <2>8. TotalDa(block)' = TotalDa(block') /\ TotalDa(forced)' = TotalDa(forced)
        /\ DaSizes(forced)' = DaSizes(forced) /\ next' - 1 = next
    BY <1>1, <1>3 DEF TotalDa, DaSizes
  <2>9. ~Above(TotalDa(forced), config.da)' /\ ~Above(info.da, config.da)'
    BY <1>1, <2>3, <2>7, <2>8 DEF Above
  <2> QED
    BY <1>1, <2>1, <2>2, <2>3, <2>6, <2>8, <2>9 DEF DaInv
<1> QED
  BY <1>9, <1>10, <1>11 DEF ContentInv

LEMMA ForcedSkipped ==
  ASSUME BuilderInv, NonceInv, ContentInv, SkipForced
  PROVE  ContentInv'
<1>1. /\ phase = "forcedExec" /\ phase' = "forced" /\ outcome = "none" /\ outcome' = outcome
      /\ next' = next + 1 /\ UNCHANGED <<config, forced, noTxPool, block, info>>
      /\ skipped' = skipped \cup {next}
  BY DEF SkipForced, args
<1>2. next \in DOMAIN forced
  BY <1>1 DEF NonceInv, ChainInv
<1>3. /\ forced \in Seq(Txs) /\ block \in Seq(Txs) /\ Len(forced) \in Nat /\ Len(block) \in Nat
      /\ next \in Nat \ {0} /\ info.da \in Nat
      /\ skipped \subseteq 1 .. next - 1 /\ IsFiniteSet(skipped) /\ Cardinality(skipped) \in Nat
      /\ config.da \in Nat \cup {NoLimit}
  BY ContentFacts
<1>4. Len(block) = next - 1 - Cardinality(skipped)
  BY <1>1 DEF ContentInv, ForcedInv, Early
<1>5. next \in 1 .. Len(forced) /\ next \notin skipped
  BY <1>2, <1>3
<1>6. Cardinality(skipped') = Cardinality(skipped) + 1
  BY <1>1, <1>3, <1>5, FS_AddElement
<1>7. ForcedInv'
  <2>1. ASSUME NEW k \in (1 .. next' - 1) \ skipped'
        PROVE  PlaceOf(k)' \in DOMAIN block /\ block[PlaceOf(k)'] = forced[k]
    <3>1. k \in (1 .. next - 1) \ skipped
      BY <1>1, <1>3
    <3>2. skipped' \cap 1 .. k = skipped \cap 1 .. k
      BY <1>1, <1>3, <3>1
    <3>3. PlaceOf(k)' = PlaceOf(k)
      BY <3>2 DEF PlaceOf
    <3>4. PlaceOf(k) \in DOMAIN block /\ block[PlaceOf(k)] = forced[k]
      BY <3>1 DEF ContentInv, ForcedInv
    <3> QED
      BY <3>3, <3>4
  <2>2. skipped' \subseteq 1 .. next' - 1 /\ next' - 1 <= Len(forced')
    BY <1>1, <1>3, <1>5
  <2>3. Len(block') = next' - 1 - Cardinality(skipped')
    BY <1>1, <1>3, <1>4, <1>6
  <2>4. ~Beyond'
    BY <1>1 DEF Beyond, Built
  <2> QED
    BY <1>1, <2>1, <2>2, <2>3, <2>4 DEF ForcedInv
<1>8. OrderInv'
  BY <1>1 DEF ContentInv, OrderInv, L1OrderValid
<1>9. DaInv'
  <2>1. /\ info.da = TotalDa(block) /\ ~Above(TotalDa(forced), config.da) /\ config \in Configs
        /\ info.da <= SumTo(DaSizes(forced), next - 1) /\ ~Above(info.da, config.da)
    BY <1>1 DEF ContentInv, DaInv
  <2>2. /\ SumTo(DaSizes(forced), next - 1) \in Int
        /\ SumTo(DaSizes(forced), next) = SumTo(DaSizes(forced), next - 1) + Attr[forced[next]].da
    BY <1>3, <1>5, ForcedTotals
  <2>3. Attr[forced[next]].da \in Nat
    BY <1>2, <1>3, AttrFacts
  <2>4. info.da <= SumTo(DaSizes(forced), next)
    BY <1>3, <2>1, <2>2, <2>3
  <2>5. TotalDa(block)' = TotalDa(block) /\ TotalDa(forced)' = TotalDa(forced)
        /\ DaSizes(forced)' = DaSizes(forced) /\ next' - 1 = next
    BY <1>1, <1>3 DEF TotalDa, DaSizes
  <2>6. ~Above(TotalDa(forced), config.da)' /\ ~Above(info.da, config.da)'
    BY <1>1, <2>1, <2>5 DEF Above
  <2> QED
    BY <1>1, <2>1, <2>4, <2>5, <2>6 DEF DaInv
<1> QED
  BY <1>7, <1>8, <1>9 DEF ContentInv

LEMMA PoolCommitted ==
  ASSUME BuilderInv, NonceInv, ContentInv, CommitPool
  PROVE  ContentInv'
<1>1. /\ phase = "poolExec" /\ phase' = "pool" /\ outcome = "none" /\ outcome' = outcome
      /\ next' = next /\ UNCHANGED <<config, forced, noTxPool, skipped>>
      /\ block' = Append(block, cur)
  BY DEF CommitPool, Commit, args
<1>2. cur \in Txs
  BY <1>1 DEF BuilderInv, BuilderTypeOK
<1>3. /\ block \in Seq(Txs) /\ Len(block) \in Nat /\ info.da \in Nat
      /\ config.da \in Nat \cup {NoLimit}
  BY ContentFacts
<1>4. /\ Len(block') = Len(block) + 1 /\ block'[Len(block) + 1] = cur
      /\ \A i \in DOMAIN block : i \in DOMAIN block' /\ block'[i] = block[i]
      /\ DOMAIN block' = 1 .. Len(block) + 1
  BY <1>1, <1>2, <1>3, BlockGrows
<1>5. ForcedInv'
  <2>1. \A k : PlaceOf(k)' = PlaceOf(k)
    BY <1>1 DEF PlaceOf
  <2>2. \A k \in (1 .. next - 1) \ skipped : PlaceOf(k) \in DOMAIN block' /\ block'[PlaceOf(k)] = forced[k]
    BY <1>4 DEF ContentInv, ForcedInv
  <2>3. ~noTxPool /\ next = Len(forced) + 1 /\ ~Early'
    BY <1>1 DEF ContentInv, ForcedInv, Beyond, Early
  <2> QED
    BY <1>1, <2>1, <2>2, <2>3 DEF ContentInv, ForcedInv
<1>6. OrderInv'
  <2> SUFFICES ASSUME L1OrderValid(forced), \A k \in skipped : Attr[forced[k]].kind # "l1"
               PROVE  L1OrderValid(block)'
    BY <1>1 DEF OrderInv, L1OrderValid
  <2>1. L1OrderValid(block) /\ Attr[cur].kind = "l2"
    BY <1>1 DEF ContentInv, OrderInv
  <2> SUFFICES ASSUME NEW i \in 2 .. Len(block'), Attr[block'[i]].kind = "l1"
               PROVE  /\ Attr[block'[i - 1]].kind = "l1"
                      /\ Attr[block'[i]].queue = Attr[block'[i - 1]].queue + 1
    BY DEF L1OrderValid
  <2>2. i # Len(block) + 1
    BY <1>4, <2>1
  <2>3. i \in DOMAIN block /\ i - 1 \in DOMAIN block /\ i \in 2 .. Len(block)
    BY <1>3, <1>4, <2>2
  <2>4. block'[i] = block[i] /\ block'[i - 1] = block[i - 1]
    BY <1>4, <2>3
  <2> QED
    BY <2>1, <2>3, <2>4 DEF L1OrderValid
<1>7. DaInv'
  <2>1. TotalDa(block) \in Int /\ TotalDa(block') = TotalDa(block) + Attr[cur].da
    BY <1>1, <1>2, <1>3, TotalAppended
  <2>2. info'.da = info.da + Attr[cur].da
    BY DEF CommitPool, Commit
  <2>3. info.da = TotalDa(block) /\ ~Above(info.da + Attr[cur].da, config.da) /\ config \in Configs
    BY <1>1 DEF ContentInv, DaInv
  <2>4. TotalDa(block)' = TotalDa(block')
    BY DEF TotalDa, DaSizes
  <2>5. ~Above(info.da, config.da)'
    BY <1>1, <2>2, <2>3 DEF Above
  <2> QED
    BY <1>1, <2>1, <2>2, <2>3, <2>4, <2>5 DEF DaInv
<1> QED
  BY <1>5, <1>6, <1>7 DEF ContentInv

LEMMA InitContentInv == BuilderInit => ContentInv
<1> SUFFICES ASSUME BuilderInit
             PROVE  ContentInv
  OBVIOUS
<1>1. /\ block = <<>> /\ skipped = {} /\ next = 1 /\ phase = "system" /\ outcome = "none"
      /\ info.da = 0 /\ config \in Configs /\ forced \in Seq(Txs)
  BY BuilderAssumption DEF BuilderInit
<1>2. Cardinality(skipped) = 0 /\ Len(forced) \in Nat /\ Len(block) = 0
  BY <1>1, FS_EmptySet
<1>3. ForcedInv
  BY <1>1, <1>2 DEF ForcedInv, Beyond, Built
<1>4. OrderInv
  BY <1>1, <1>2 DEF OrderInv, L1OrderValid
<1>5. TotalDa(block) = 0
  BY <1>2, SumZero DEF TotalDa
<1>6. config.da \in Nat \cup {NoLimit}
  BY <1>1, BuilderAssumption
<1>7. ~Above(0, config.da)
  BY <1>6 DEF Above
<1>8. DaInv
  BY <1>1, <1>5, <1>7 DEF DaInv
<1> QED
  BY <1>3, <1>4, <1>8 DEF ContentInv

LEMMA NextContentInv ==
  BuilderInv /\ NonceInv /\ ContentInv /\ [BuilderNext]_bvars => ContentInv'
<1> SUFFICES ASSUME BuilderInv, NonceInv, ContentInv, [BuilderNext]_bvars
             PROVE  ContentInv'
  OBVIOUS
<1>1. ASSUME NEW r, Return(r), r \notin {"Freeze", "Better"}
      PROVE  ContentInv'
  BY <1>1, ContentKept DEF Return, args, Built
<1>2. CASE Hook \/ Cancel \/ TimeUp \/ UNCHANGED bvars
  <2>1. UNCHANGED <<config, forced, noTxPool, block, next, skipped, info, phase, cur, outcome>>
    BY <1>2 DEF Hook, Cancel, TimeUp, bvars, args, progress, history
  <2> QED
    BY <2>1, ContentKept
<1>3. CASE PreExecuted
  <2>1. /\ phase = "system" /\ phase' = "decode" /\ outcome' = outcome
        /\ UNCHANGED <<config, forced, noTxPool, block, next, skipped, info>>
    BY <1>3 DEF PreExecuted, AcceptSystem, args
  <2> QED
    BY <2>1, ContentKept
<1>4. CASE Finalize
  <2>1. /\ phase = "final" /\ phase' = "done"
        /\ UNCHANGED <<config, forced, noTxPool, block, next, skipped, info>>
    BY <1>4 DEF Finalize, FinalBudget, AcceptSystem, args
  <2> QED
    BY <2>1, ContentKept
<1>5. CASE SystemOverBudget \/ Fails \/ RefuseForced \/ ForcedOverBudget \/ ReturnCancelled
  BY <1>1, <1>5 DEF SystemOverBudget, Fails, RefuseForced, ForcedOverBudget, ReturnCancelled
<1>6. CASE DecodeForced
  <2>1. CASE Above(TotalDa(forced), config.da)
    BY <1>1, <1>6, <2>1 DEF DecodeForced
  <2>2. CASE ~Above(TotalDa(forced), config.da)
    <3>1. /\ phase = "decode" /\ phase' = "forced" /\ outcome' = outcome
          /\ UNCHANGED <<config, forced, noTxPool, block, next, skipped, info>>
      BY <1>6, <2>2 DEF DecodeForced, args, history
    <3> QED
      BY <2>2, <3>1, ContentKept
  <2> QED
    BY <2>1, <2>2
<1>7. CASE BeginForced
  <2>1. /\ phase = "forced" /\ phase' = "forcedExec" /\ outcome' = outcome
        /\ UNCHANGED <<config, forced, noTxPool, block, next, skipped, info>>
    BY <1>7 DEF BeginForced, args
  <2> QED
    BY <2>1, ContentKept
<1>8. CASE EndForced
  <2>1. /\ phase = "forced" /\ next > Len(forced) /\ outcome' = outcome
        /\ phase' \in {"pool", "final"} /\ (phase' = "pool" => ~noTxPool)
        /\ UNCHANGED <<config, forced, noTxPool, block, next, skipped, info>>
    BY <1>8 DEF EndForced, args, history
  <2> QED
    BY <2>1, ContentKept
<1>9. CASE EndPool
  <2>1. CASE best = NoLimit \/ info.fees > best
    <3>1. /\ phase = "pool" /\ phase' = "final" /\ outcome' = outcome
          /\ UNCHANGED <<config, forced, noTxPool, block, next, skipped, info>>
      BY <1>9, <2>1 DEF EndPool, args
    <3> QED
      BY <3>1, ContentKept
  <2>2. CASE ~(best = NoLimit \/ info.fees > best)
    BY <1>1, <1>9, <2>2 DEF EndPool
  <2> QED
    BY <2>1, <2>2
<1>10. CASE DiscardPool
  <2>1. UNCHANGED <<config, forced, noTxPool, block, next, skipped, info, phase, cur, outcome>>
    BY <1>10 DEF DiscardPool, args, history
  <2> QED
    BY <2>1, ContentKept
<1>11. CASE BeginPool
  <2>1. PICK i \in pool : ~Unusable(offered[i]) /\ cur' = offered[i]
    BY <1>11 DEF BeginPool
  <2>2. Attr[cur'].kind = "l2" /\ ~Above(info.da + Attr[cur'].da, config.da)
    BY <2>1 DEF Unusable, OverLimits
  <2>3. /\ phase = "pool" /\ phase' = "poolExec" /\ outcome' = outcome
        /\ UNCHANGED <<config, forced, noTxPool, block, next, skipped, info>>
    BY <1>11 DEF BeginPool, args
  <2> QED
    BY <2>2, <2>3, ContentKept
<1>12. CASE DropPool
  <2>1. /\ phase = "poolExec" /\ phase' = "pool" /\ outcome' = outcome
        /\ UNCHANGED <<config, forced, noTxPool, block, next, skipped, info>>
    BY <1>12 DEF DropPool, args
  <2> QED
    BY <2>1, ContentKept
<1> QED
  BY <1>2, <1>3, <1>4, <1>5, <1>6, <1>7, <1>8, <1>9, <1>10, <1>11, <1>12, ForcedCommitted,
     ForcedSkipped, PoolCommitted DEF BuilderNext, BuildStep

LEMMA ContentInvariance == BuilderSpec => [](BuilderInv /\ NonceInv /\ ContentInv)
BY InitBuilderInv, NextBuilderInv, InitNonceInv, NextNonceInv, InitContentInv, NextContentInv, PTL
   DEF BuilderSpec

\* Every forced transaction that was not invalid is in a built block, before anything
\* of the pool and in its place; with no_tx_pool there is nothing else
\* (execute_sequencer_transactions).
THEOREM ForcedAlwaysKept == BuilderSpec => []ForcedKept
<1>1. BuilderInv /\ NonceInv /\ ContentInv => ForcedKept
  <2> SUFFICES ASSUME BuilderInv, NonceInv, ContentInv, Built
               PROVE  /\ \A k \in DOMAIN forced \ skipped :
                           PlaceOf(k) \in DOMAIN block /\ block[PlaceOf(k)] = forced[k]
                      /\ noTxPool => Len(block) = Len(forced) - Cardinality(skipped)
    BY DEF ForcedKept
  <2>1. forced \in Seq(Txs) /\ Len(forced) \in Nat
    BY ContentFacts
  <2>2. next = Len(forced) + 1
    BY DEF ContentInv, ForcedInv, Beyond
  <2>3. next - 1 = Len(forced) /\ DOMAIN forced = 1 .. next - 1
    BY <2>1, <2>2
  <2> QED
    BY <2>3 DEF ContentInv, ForcedInv
<1> QED
  BY <1>1, ContentInvariance, PTL

\* A block built from attributes whose L1 messages are in order passes
\* validate_l1_messages, if the EVM found none of them invalid.
THEOREM L1OrderKept == BuilderSpec => []BuiltL1Order
<1>1. ContentInv => BuiltL1Order
  BY DEF ContentInv, OrderInv, BuiltL1Order
<1> QED
  BY <1>1, ContentInvariance, PTL

\* The block stays in its gas limit and its encoded transactions in
\* max_da_block_size, for any limits, sizes and lists: what is committed adds up to
\* what was checked beforehand.
THEOREM LimitsKept == BuilderSpec => []BlockFitsLimits
<1>1. BuilderInv /\ ContentInv => BlockFitsLimits
  BY DEF BuilderInv, ContentInv, DaInv, BlockFitsLimits
<1> QED
  BY <1>1, ContentInvariance, PTL
=============================================================================
