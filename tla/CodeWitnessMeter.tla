-------------------------- MODULE CodeWitnessMeter --------------------------
(***************************************************************************)
(* The code-witness meter (dogeos-reth-evm/src/code_witness.rs): Meter,    *)
(* its shared CodeWitnessHandle and the hooks of CodeWitnessInspector.     *)
(*                                                                         *)
(* The meter charges the bytes of the distinct contract codes that the     *)
(* accepted transactions of a block load, plus a reserve per EIP-7702      *)
(* authorization, and tells its user to discard an execution that does not *)
(* fit.  Code is its hash; CodeBytes gives the total length of a set of    *)
(* codes.  A hook records every code it finds loaded in one go.            *)
(***************************************************************************)
EXTENDS Naturals

CONSTANTS
  Codes,         \* code hashes
  MaxAuths,      \* bound: authorizations of a transaction
  CodeBytes,     \* total original length of each set of codes
  MaxCodeBytes,  \* max_code_bytes
  MaxSteps,      \* max_steps
  AuthReserve,   \* bytes reserved per authorization (23)
  U64Max         \* largest u64

\* Total length is an additive measure: distinct codes are charged separately.
ASSUME MeterAssumption ==
  /\ CodeBytes \in [SUBSET Codes -> Nat]
  /\ CodeBytes[{}] = 0
  /\ \A S, T \in SUBSET Codes :
       S \cap T = {} => CodeBytes[S \cup T] = CodeBytes[S] + CodeBytes[T]
  /\ U64Max \in Nat /\ MaxCodeBytes \in 0 .. U64Max /\ MaxSteps \in 0 .. U64Max
  /\ AuthReserve \in Nat /\ MaxAuths \in Nat

\* Empty codes add nothing to it.
ASSUME EmptyCodeAssumption ==
  \A S \in SUBSET Codes : CodeBytes[{c \in S : CodeBytes[{c}] > 0}] = CodeBytes[S]

VARIABLES
  accepted,         \* codes of the accepted transactions
  pending,          \* codes of the candidate transaction
  acceptedBytes,
  pendingBytes,     \* what the candidate adds to acceptedBytes
  txBytes,          \* transaction_bytes
  steps,
  exceeded,         \* the limit that was hit first, or "none"
  initialized,      \* "yes" once the candidate's first frame was seen
  halted,           \* "yes" once the inspector has stopped the interpreter
  pendingReserve,   \* history: bytes reserved for the candidate's authorizations
  acceptedReserve   \* history: bytes reserved by accepted transactions

meter   == <<accepted, pending, acceptedBytes, pendingBytes, txBytes, steps,
             exceeded, initialized, halted, pendingReserve, acceptedReserve>>

\* saturating_add and saturating_mul.
Sat(n) == IF n > U64Max THEN U64Max ELSE n

Limits == {"none", "CodeBytes", "ExecutionSteps"}

-----------------------------------------------------------------------------
(* Meter::reserve and Meter::record *)

\* What a set of loaded codes adds to the candidate: empty code and code already
\* recorded add nothing; code that is already accepted adds no bytes to the block.
NewCodes(S) == {c \in S : CodeBytes[{c}] > 0} \ pending

FreshBytes_IgnoreAccepted(S) == CodeBytes[NewCodes(S)]
FreshBytes(S) == CodeBytes[NewCodes(S) \ accepted]

OverBudget_Inclusive(bytes) == Sat(acceptedBytes + bytes) > MaxCodeBytes + 1
OverBudget(bytes) == Sat(acceptedBytes + bytes) > MaxCodeBytes

\* exceeded keeps the first limit that was hit.
Exceed(limit) == IF exceeded = "none" THEN limit ELSE exceeded

ChargedTx(n, S) == Sat(txBytes + n + CodeBytes[NewCodes(S)])

\* reserve(n) followed by a record for each code of S.
Charge(n, S) ==
  LET bytes == Sat(Sat(pendingBytes + n) + FreshBytes(S))
  IN  /\ pending' = pending \cup NewCodes(S)
      /\ pendingBytes' = bytes
      /\ txBytes' = ChargedTx(n, S)
      /\ exceeded' = IF OverBudget(bytes) THEN Exceed("CodeBytes") ELSE exceeded
      /\ pendingReserve' = pendingReserve + n

\* Hooks that run inside the interpreter stop it; the others (call, call_end,
\* create, create_end) leave that to the next one that does.
StopIfExceeded ==
  halted' = IF exceeded' # "none" THEN "yes" ELSE halted

-----------------------------------------------------------------------------
(* The inspector's hooks during one execution *)

\* initialize_interp, call and create: the first of them in a transaction reserves
\* for its authorizations and charges what sender and authorization checks loaded.
EnterFrame(auths, S) ==
  /\ Charge(IF initialized = "no" THEN AuthReserve * auths ELSE 0, S)
  /\ initialized' = "yes"
  /\ StopIfExceeded \/ halted' = halted
  /\ UNCHANGED <<accepted, acceptedBytes, steps, acceptedReserve>>

\* step_end after a code access; call_end and create_end, which do not stop.
AccessCode(S) ==
  /\ Charge(0, S)
  /\ StopIfExceeded \/ halted' = halted
  /\ UNCHANGED <<accepted, acceptedBytes, steps, initialized, acceptedReserve>>

\* step: counts an opcode, or stops on an exhausted allowance.
Step ==
  /\ exceeded' = IF steps >= MaxSteps THEN Exceed("ExecutionSteps") ELSE exceeded
  /\ StopIfExceeded
  /\ steps' = IF exceeded' = "none" THEN Sat(steps + 1) ELSE steps
  /\ UNCHANGED <<accepted, pending, acceptedBytes, pendingBytes, txBytes,
                 initialized, pendingReserve, acceptedReserve>>

-----------------------------------------------------------------------------
(* CodeWitnessHandle *)

\* begin_transaction and reject_transaction.
ResetTransaction ==
  /\ pending' = {} /\ pendingBytes' = 0 /\ txBytes' = 0 /\ steps' = 0
  /\ exceeded' = "none" /\ initialized' = "no" /\ halted' = "no"
  /\ pendingReserve' = 0
  /\ UNCHANGED <<accepted, acceptedBytes, acceptedReserve>>

\* accept_transaction refuses (and changes nothing) when a limit was hit.
AcceptRefused == exceeded # "none"

AcceptTransaction ==
  /\ ~AcceptRefused
  /\ accepted' = accepted \cup pending
  /\ acceptedBytes' = Sat(acceptedBytes + pendingBytes)
  /\ pending' = {} /\ pendingBytes' = 0
  /\ acceptedReserve' = acceptedReserve + pendingReserve
  /\ pendingReserve' = 0
  /\ UNCHANGED <<txBytes, steps, exceeded, initialized, halted>>

MeterInit ==
  /\ accepted = {} /\ pending = {}
  /\ acceptedBytes = 0 /\ pendingBytes = 0 /\ txBytes = 0 /\ steps = 0
  /\ exceeded = "none" /\ initialized = "no" /\ halted = "no"
  /\ pendingReserve = 0 /\ acceptedReserve = 0

InspectorHook ==
  \/ \E n \in 0 .. MaxAuths, S \in SUBSET Codes : EnterFrame(n, S)
  \/ \E S \in SUBSET Codes : AccessCode(S)

\* The handle and the inspector are public: any order of calls.
MeterNext == InspectorHook \/ Step \/ ResetTransaction \/ AcceptTransaction

MeterSpec == MeterInit /\ [][MeterNext]_meter

-----------------------------------------------------------------------------
(* Properties *)

\* Types.
MeterTypeOK ==
  /\ accepted \in SUBSET Codes /\ pending \in SUBSET Codes
  /\ acceptedBytes \in 0 .. U64Max /\ pendingBytes \in 0 .. U64Max
  /\ txBytes \in 0 .. U64Max /\ steps \in 0 .. U64Max
  /\ exceeded \in Limits
  /\ initialized \in {"no", "yes"} /\ halted \in {"no", "yes"}
  /\ pendingReserve \in Nat /\ acceptedReserve \in Nat

\* The incremental counters always equal the bytes of the union they stand for,
\* each code charged once per block however often and in how many transactions it
\* is loaded, and a rejected candidate leaves no trace in them (record, reserve,
\* accept_transaction, reset_transaction).
AccountingExact ==
  /\ acceptedBytes = Sat(CodeBytes[accepted] + acceptedReserve)
  /\ pendingBytes = Sat(CodeBytes[pending \ accepted] + pendingReserve)

\* What was accepted fits the budget, and exceeded is raised exactly when the
\* candidate does not fit: no accepted union is over budget and no candidate
\* within it is refused for its code.
BudgetDecision ==
  /\ acceptedBytes <= MaxCodeBytes
  /\ exceeded = "none" => ~OverBudget(pendingBytes)
  /\ exceeded = "CodeBytes" => OverBudget(pendingBytes)

\* The admission simulation's error is true: a fresh meter (nothing accepted) that
\* reports CodeBytes has observed more than the limit ("{observed} bytes > {limit}
\* bytes" in CodeWitnessValidationError).
AdmissionErrorTruthful ==
  exceeded = "CodeBytes" /\ acceptedBytes = 0 => txBytes > MaxCodeBytes

\* The inductive invariant: what the block is charged for the candidate never
\* exceeds what is reported for it.
MeterInv ==
  /\ MeterTypeOK /\ AccountingExact /\ BudgetDecision
  /\ pendingBytes <= txBytes

=============================================================================
