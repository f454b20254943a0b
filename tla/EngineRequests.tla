--------------------------- MODULE EngineRequests ---------------------------
(***************************************************************************)
(* Payload requests of the Engine API: attributes and payload ids          *)
(* (dogeos-reth-engine/src/attributes.rs), the validator (validator.rs),   *)
(* the built payload's forms (built.rs, lib.rs) and the local miner's      *)
(* attributes (dogeos-reth-node/src/lib.rs).  Reth's payload service and   *)
(* the envelope types are external.  The builder itself is PayloadBuilder; *)
(* here it takes the forced transactions and some of the pool that         *)
(* TxSubmission fills.                                                     *)
(***************************************************************************)
EXTENDS TxSubmission, Sequences, SequencesExt

CONSTANTS
  Attributes,  \* what a consensus client asks for
  Requests,    \* forkchoice updates with attributes, each made once
  Versions,    \* the getPayload methods in use, of 1 .. 4
  GasLimit,    \* the builder's configured gas limit
  None,
  MaxBlocks    \* bound on imported blocks

\* Attributes are a record of those fields; the forced transactions and the
\* extra data are lists, of transactions and of bytes, and an absent one is
\* not an empty one.
ASSUME RequestAssumption ==
  /\ \A a \in Attributes :
       /\ a = [parent |-> a.parent, timestamp |-> a.timestamp, randao |-> a.randao,
               recipient |-> a.recipient, withdrawals |-> a.withdrawals,
               beaconRoot |-> a.beaconRoot, transactions |-> a.transactions,
               noTxPool |-> a.noTxPool, hint |-> a.hint, gasLimit |-> a.gasLimit]
       /\ a.timestamp \in Nat /\ a.noTxPool \in BOOLEAN
       /\ a.transactions # None => a.transactions \in Seq(ToSet(a.transactions))
       /\ a.hint.extraData # None => a.hint.extraData \in Seq(ToSet(a.hint.extraData))
  /\ Versions \subseteq 1 .. 4 /\ None # <<>>

VARIABLES
  head,     \* the head block
  request,  \* the requests
  jobs,     \* the payload service's jobs
  imported  \* history: the form of the last payload sent back, and the verdict

evars == <<head, request, jobs, imported>>
nvars == <<svars, evars>>

-----------------------------------------------------------------------------
(* Attributes and their id.  The hash input is bytes without tags or        *)
(* lengths.  A number or a hash of some width is so many bytes, big-endian, *)
(* in a base beyond every value: zeros, and last the value.  The digest,   *)
(* truncated to seven bytes and a version, stands for its input.           *)

Be(width, value) == [i \in 1 .. width |-> IF i = width THEN value ELSE 0]
BeAll(width, values) ==
  [i \in 1 .. width * Len(values) |-> IF i % width = 0 THEN values[i \div width] ELSE 0]
Optional(width, value) == IF value = None THEN <<>> ELSE Be(width, value)
TxList(a) == IF a.transactions = None THEN <<>> ELSE a.transactions

FirstBytes(a) ==
  Be(32, a.parent) \o Be(8, a.timestamp) \o Be(32, a.randao) \o Be(20, a.recipient)
  \o Optional(1, a.withdrawals) \o Optional(32, a.beaconRoot)
PoolBytes(a) ==
  IF a.noTxPool \/ TxList(a) # <<>>
  THEN Be(1, IF a.noTxPool THEN 1 ELSE 0) \o Be(8, Len(TxList(a))) \o BeAll(32, TxList(a))
  ELSE <<>>
HintBytes(hint) ==
  (IF hint.extraData = None THEN <<>> ELSE hint.extraData)
  \o Optional(32, hint.stateRoot) \o Optional(20, hint.coinbase)
  \o Optional(8, hint.nonce) \o Optional(32, hint.difficulty)

PayloadId_NoTransactions(a) == FirstBytes(a) \o HintBytes(a.hint) \o Optional(8, a.gasLimit)
PayloadId(a) ==
  FirstBytes(a) \o PoolBytes(a) \o HintBytes(a.hint) \o Optional(8, a.gasLimit)

\* What the builder reads of them; the hints it ignores.
Inputs(a) ==
  [parent |-> a.parent, timestamp |-> a.timestamp, randao |-> a.randao,
   recipient |-> a.recipient, forced |-> TxList(a), noTxPool |-> a.noTxPool,
   gas |-> IF a.gasLimit = None THEN GasLimit ELSE a.gasLimit]

\* The local miner: Reth's attributes, less the withdrawals of Shanghai.
NoHint == [extraData |-> None, stateRoot |-> None, coinbase |-> None,
           nonce |-> None, difficulty |-> None]
LocalAttributes ==
  [parent |-> head.number, timestamp |-> head.timestamp + 1, randao |-> 0,
   recipient |-> 0, withdrawals |-> None, beaconRoot |-> None,
   transactions |-> None, noTxPool |-> FALSE, hint |-> NoHint, gasLimit |-> None]

\* validate_dogeos_fields, for attributes and for payloads.
FieldsValid(withdrawals, beaconRoot) == beaconRoot = None /\ withdrawals = None

\* Blocks may share a timestamp.
AttributesValid(a) ==
  FieldsValid(a.withdrawals, a.beaconRoot) /\ a.timestamp >= head.timestamp

-----------------------------------------------------------------------------
(* Blocks and payloads.  An Engine payload carries the block's hash and     *)
(* every header field but the difficulty.                                  *)

\* The hash of a block stands for the block.
Fields(b) == [number |-> b.number, timestamp |-> b.timestamp, txs |-> b.txs,
              gas |-> b.gas, withdrawals |-> b.withdrawals]

\* The envelopes: the first two have no withdrawals field to fill; the later
\* ones have one, and a block without withdrawals gets an empty list.
PayloadOf(b, version) ==
  [fields |-> [Fields(b) EXCEPT !.withdrawals =
                 IF version > 2 /\ @ = None THEN <<>> ELSE @],
   hash |-> b]

\* convert_payload_to_block: the block with the difficulty put back, which
\* must have the hash that the payload names.
BlockFrom(fields, difficulty) ==
  [number |-> fields.number, timestamp |-> fields.timestamp, txs |-> fields.txs,
   gas |-> fields.gas, withdrawals |-> fields.withdrawals, difficulty |-> difficulty]
Converted_NoDifficulty(p) == BlockFrom(p.fields, 0)
Converted(p) == BlockFrom(p.fields, 1)
Converts(p) == Converted(p) = p.hash

\* assemble_block, over what the builder took.
BuiltBlock(in, picked) ==
  [number |-> in.parent + 1, timestamp |-> in.timestamp, txs |-> in.forced \o picked,
   gas |-> in.gas, withdrawals |-> None, difficulty |-> 1]

-----------------------------------------------------------------------------
(* Actions *)

NoRequest == [pc |-> "idle", got |-> None]
Genesis == [number |-> 0, timestamp |-> 0, txs |-> <<>>, gas |-> GasLimit,
            withdrawals |-> None, difficulty |-> 1]

EngineInit ==
  /\ head = Genesis /\ jobs = {} /\ imported = None
  /\ request = [r \in Requests |-> NoRequest]

\* forkchoiceUpdated with attributes.  A job with the id is kept as it is.
Ask(r, a, local) ==
  /\ request[r].pc = "idle" /\ handler # "unset"
  /\ IF AttributesValid(a)
     THEN /\ request' = [request EXCEPT ![r] =
               [pc |-> "asked", attributes |-> a, local |-> local, got |-> None]]
          /\ jobs' = IF \E j \in jobs : j.id = PayloadId(a) THEN jobs
                     ELSE jobs \cup {[id |-> PayloadId(a), inputs |-> Inputs(a), built |-> None]}
     ELSE /\ request' = [request EXCEPT ![r] =
               [pc |-> "refused", attributes |-> a, local |-> local, got |-> None]]
          /\ UNCHANGED jobs
  /\ UNCHANGED <<svars, head, imported>>

ForkchoiceUpdated(r) ==
  \E a \in Attributes : Ask(r, [a EXCEPT !.parent = head.number], FALSE)
LocalBuild(r) == Ask(r, LocalAttributes, TRUE)

\* A pass of the builder; while the job lives, a later one may replace it.
Pick(in) ==
  IF in.noTxPool THEN {<<>>}
  ELSE UNION {SetToSeqs(picked) : picked \in SUBSET pool}

Build(j) ==
  /\ j.inputs.noTxPool => j.built = None
  /\ \E picked \in Pick(j.inputs) :
       jobs' = (jobs \ {j}) \cup {[j EXCEPT !.built = BuiltBlock(j.inputs, picked)]}
  /\ UNCHANGED <<svars, head, request, imported>>

\* getPayload: the job ends with it.
GetPayload(r, version) ==
  /\ request[r].pc = "asked"
  /\ \E j \in jobs :
       /\ j.id = PayloadId(request[r].attributes) /\ j.built # None
       /\ request' = [request EXCEPT
            ![r].pc = "got",
            ![r].got = [inputs |-> j.inputs, version |-> version,
                        payload |-> PayloadOf(j.built, version)]]
       /\ jobs' = jobs \ {j}
  /\ UNCHANGED <<svars, head, imported>>

\* newPayload with what was fetched, and the forkchoice update that follows.
NewPayload(r) ==
  LET p == request[r].got.payload
      b == Converted(p)
      ok == FieldsValid(p.fields.withdrawals, None) /\ Converts(p)
      child == ok /\ b.number = head.number + 1 /\ b.timestamp >= head.timestamp
      txs == IF child THEN ToSet(b.txs) \cap Txs ELSE {}
  IN /\ request[r].pc = "got" /\ head.number < MaxBlocks
     /\ request' = [request EXCEPT ![r].pc = "done", ![r].got = None]
     /\ imported' = [version |-> request[r].got.version, ok |-> ok]
     /\ head' = IF child THEN b ELSE head
     /\ pool' = pool \ txs
     /\ mined' = mined \cup txs
     /\ left' = [tx \in Txs |-> IF tx \in txs \cap pool THEN left[tx] + 1 ELSE left[tx]]
     /\ UNCHANGED <<handler, sequencer, call, jobs>>

EngineNext ==
  \/ \E r \in Requests :
       \/ ForkchoiceUpdated(r) \/ LocalBuild(r) \/ NewPayload(r)
       \/ \E version \in Versions : GetPayload(r, version)
  \/ \E j \in jobs : Build(j)

NodeInit == SubmitInit /\ EngineInit
NodeNext == (SubmitNext /\ UNCHANGED evars) \/ EngineNext
NodeSpec ==
  /\ NodeInit /\ [][NodeNext]_nvars
  /\ \A c \in Callers : WF_nvars(Forward(c) /\ UNCHANGED evars)

-----------------------------------------------------------------------------
(* Properties *)

\* The payload a client fetches was built for a request that was made, and
\* from what the client itself asked for, also when other requests have
\* started jobs meanwhile: two requests share an id, and so a job, only if
\* they ask for the same block, unless their block data hints differ (an
\* untagged hint can read like the bytes of other fields).  Only attributes
\* of a consensus client are ever refused: the local miner's own are valid.
PayloadServesRequest ==
  \A r \in Requests :
    /\ request[r].got # None =>
         \E q \in Requests :
           /\ request[q].pc \notin {"idle", "refused"}
           /\ request[r].got.inputs = Inputs(request[q].attributes)
           /\ \/ request[r].got.inputs = Inputs(request[r].attributes)
              \/ request[q].attributes.hint # request[r].attributes.hint
    /\ request[r].pc = "refused" => ~request[r].local

\* The id is "over every DogeOS-specific input" (payload_id_scroll): a client
\* is never handed a payload built from anything but what it asked for.  It
\* does not hold: a block data hint goes into the hash without a tag or a
\* length, and so reads like a gas limit or the part about the pool.
PayloadIdTellsInputs ==
  \A r \in Requests :
    request[r].got # None => request[r].got.inputs = Inputs(request[r].attributes)

\* A payload that the node built is one it imports, with the hash it was
\* built with, although the Engine form drops the difficulty; through the
\* third and fourth envelope, whose withdrawals list DogeOS refuses, it is
\* not.
BuiltIsImported ==
  imported # None =>
    (imported.ok <=> imported.version <= 2)
=============================================================================
