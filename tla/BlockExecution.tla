--------------------------- MODULE BlockExecution ---------------------------
(***************************************************************************)
(* ScrollBlockExecutor (dogeos-reth-evm/src/block/mod.rs), the three ways  *)
(* a transaction becomes an EVM environment (tx/mod.rs, tx/compression.rs) *)
(* and the receipt builder (receipt.rs), with the three ways the block's   *)
(* own environment is made (config.rs) and the assembler (build.rs).       *)
(*                                                                         *)
(* One executor builds a block: it is offered transactions in any order,   *)
(* some are refused, some are executed and then discarded, the rest are    *)
(* committed.  A second executor imports the result from the same parent   *)
(* state by one of the three routes.  The fork transitions of the          *)
(* pre-execution step are the subject of ForkTransitions.                  *)
(*                                                                         *)
(* The EVM (external) refuses or executes; what an execution uses, whether *)
(* it succeeds and what it writes to the gas oracle belong to the          *)
(* transaction, so that an execution is a function of its inputs.          *)
(***************************************************************************)
EXTENDS Integers, Sequences, FiniteSets, PartialSums

CONSTANTS
  Txs,             \* transactions
  Attr,            \* what they carry and, for the EVM, what they do
  Senders,
  Others,          \* further accounts: fee vault, zero address, fee recipients
  Chains,          \* chain configurations with the attributes of the build
  ParentNumber,
  SpecIdAt(_, _),  \* spec_id_at_timestamp_and_number (ChainSpec!SpecId)
  Zero,            \* Address::ZERO, B256::ZERO
  Precision,       \* TX_L1_FEE_PRECISION_U256
  MaxRatio,        \* U256::MAX, the ratio of empty data
  L1Cost(_, _, _, _),  \* calculate_tx_l1_cost (external)
  ParentState,     \* accounts and gas-oracle value the block starts from
  None,            \* an Option that is None
  MaxOffers        \* bound: transactions offered to the builder

L1Type   == 126
BlobType == 3
IsL1(t)  == Attr[t].type = L1Type
Payload  == [len : Nat, zstd : Nat \ {0}]

ASSUME ExecutionAssumption ==
  /\ \A t \in Txs :
       /\ Attr[t].type \in {0, 1, 2, 4, L1Type}
       /\ Attr[t].sender \in Senders
       /\ Attr[t].gas \in Nat /\ Attr[t].used \in 1 .. Attr[t].gas
       /\ Attr[t].nonce \in Nat /\ Attr[t].price \in Nat
       /\ Attr[t].tip \in Nat \cup {None}
       /\ Attr[t].data \in Payload /\ Attr[t].rlp \in Payload
       /\ Attr[t].ok \in BOOLEAN /\ Attr[t].sets \in Nat \cup {None}
  /\ Precision \in Nat \ {0} /\ MaxOffers \in Nat /\ ParentNumber \in Nat

\* With or without a fee vault, the engine suggests any recipient.
ASSUME ChainAssumption ==
  \A c \in Chains :
    /\ c.timestamp \in Nat /\ c.gas_limit \in Nat /\ c.base_fee \in Nat
    /\ c.vault \in Others \cup {None} /\ Zero \in Others
    /\ c.suggested_fee_recipient \in Others

\* The block starts from a state of those accounts, no transaction of the
\* block is the recipient's own, and the L1 cost of a transaction is an
\* amount under every oracle value the block can set.
Accounts == Senders \cup Others
Oracles  == {ParentState.oracle} \cup ({Attr[t].sets : t \in Txs} \ {None})
ASSUME StateAssumption ==
  /\ Senders \cap Others = {}
  /\ ParentState \in [accounts : [Accounts -> [nonce : Nat, balance : Nat]], oracle : Nat]

VARIABLES
  chain,    \* configuration and build attributes, one of Chains
  header,   \* the assembled header, or None
  phase,    \* "build", "import", "imported" or "failed"
  offers,   \* transactions offered to the builder so far
  builder,  \* the building executor
  pending,  \* its executed, uncommitted result, or None
  block,    \* the transactions it committed
  importer, \* the importing executor
  route,    \* how the importer gets its environments
  infos,    \* compression infos handed to execute_block_with_compression_cache
  pos,      \* next transaction of the block to import
  error     \* why the import failed, or None

xvars == <<chain, header, phase, offers, builder, pending, block, importer, route, infos, pos, error>>

-----------------------------------------------------------------------------
(* Compression infos and transaction environments *)

CompressedSize(bytes) ==
  IF bytes.len = 0 THEN 0
  ELSE IF bytes.zstd > bytes.len THEN bytes.len ELSE bytes.zstd

CompressionRatio(bytes) ==
  IF bytes.len = 0 THEN MaxRatio
  ELSE IF CompressedSize(bytes) = bytes.len THEN Precision
  ELSE (bytes.len * Precision) \div CompressedSize(bytes)

\* The ratio is computed on the calldata, the size on the encoded transaction.
Info_OnCalldata(t) == [ratio |-> CompressionRatio(Attr[t].data),
                       size  |-> CompressedSize(Attr[t].data)]
Info(t) == [ratio |-> CompressionRatio(Attr[t].data),
            size  |-> CompressedSize(Attr[t].rlp)]

ASSUME CostAssumption ==
  \A t \in Txs, o \in Oracles : L1Cost(Attr[t].rlp, Info(t).ratio, Info(t).size, o) \in Nat

TxEnv(t, rlp, info) ==
  [type |-> Attr[t].type, caller |-> Attr[t].sender, gas |-> Attr[t].gas,
   price |-> IF IsL1(t) THEN 0 ELSE Attr[t].price,
   tip   |-> IF IsL1(t) THEN None ELSE Attr[t].tip,
   nonce |-> IF IsL1(t) THEN 0 ELSE Attr[t].nonce,
   rlp   |-> rlp, ratio |-> info.ratio, size |-> info.size]

NoInfo == [ratio |-> None, size |-> None]

FromRecoveredTx(t) ==
  IF IsL1(t) THEN TxEnv(t, None, NoInfo) ELSE TxEnv(t, Attr[t].rlp, Info(t))

FromEncodedTx(t, encoded) ==
  IF IsL1(t) THEN TxEnv(t, None, NoInfo)
  ELSE TxEnv(t, encoded, [ratio |-> CompressionRatio(Attr[t].data),
                          size  |-> CompressedSize(encoded)])

\* The cached route keeps the encoded bytes and the infos for every type.
FromTxWithCompressionInfo(t, info) == TxEnv(t, Attr[t].rlp, info)

-----------------------------------------------------------------------------
(* Block environments *)

Beneficiary(fallback) == IF chain.vault # None THEN chain.vault ELSE fallback

BlockEnv(number, beneficiary, timestamp, gas_limit, basefee, difficulty, prevrandao) ==
  [spec |-> SpecIdAt(timestamp, number), number |-> number, timestamp |-> timestamp,
   beneficiary |-> beneficiary, gas_limit |-> gas_limit, basefee |-> basefee,
   difficulty |-> difficulty, prevrandao |-> prevrandao]

NextEvmEnv ==
  BlockEnv(ParentNumber + 1, Beneficiary(chain.suggested_fee_recipient),
           chain.timestamp, chain.gas_limit, chain.base_fee, 1, Zero)

\* assemble_block: the beneficiary of the header is not the environment's.
Assembled(env) ==
  [number |-> env.number, timestamp |-> env.timestamp, beneficiary |-> Zero,
   gas_limit |-> env.gas_limit, base_fee_per_gas |-> env.basefee,
   difficulty |-> env.difficulty, mix_hash |-> Zero]
Assembles(env) == env.prevrandao = Zero /\ env.difficulty = 1

\* ExecutionPayload::from_block_unchecked (external).
PayloadOf(h) ==
  [block_number |-> h.number, timestamp |-> h.timestamp, fee_recipient |-> h.beneficiary,
   gas_limit |-> h.gas_limit, base_fee_per_gas |-> h.base_fee_per_gas]

EvmEnv(h) ==
  BlockEnv(h.number, Beneficiary(h.beneficiary), h.timestamp, h.gas_limit,
           h.base_fee_per_gas, h.difficulty, h.mix_hash)

EvmEnvForPayload(p) ==
  BlockEnv(p.block_number, Beneficiary(p.fee_recipient), p.timestamp, p.gas_limit,
           p.base_fee_per_gas, 1, Zero)

-----------------------------------------------------------------------------
(* The executor *)

NewExecutor(env) ==
  [env |-> env, disable_base_fee |-> FALSE, disable_nonce_check |-> FALSE, l1_block_info |-> None,
   db |-> ParentState, gas_used |-> 0, receipts |-> <<>>, hook |-> <<>>]

\* The block gas rule and the blob refusal, before the EVM is touched.
Admitted(x, t) ==
  /\ Attr[t].gas <= x.env.gas_limit - x.gas_used
  /\ Attr[t].type # BlobType

\* with_base_fee_check and with_nonce_check, set again for every transaction.
SetChecks_Sticky(x, t) ==
  IF IsL1(t) THEN [x EXCEPT !.disable_base_fee = TRUE, !.disable_nonce_check = TRUE]
  ELSE x
SetChecks(x, t) ==
  [x EXCEPT !.disable_base_fee = IsL1(t), !.disable_nonce_check = IsL1(t)]

EffectivePrice(x, env) ==
  IF env.tip = None \/ env.price < x.env.basefee + env.tip THEN env.price
  ELSE x.env.basefee + env.tip

L1CostIn(env, oracle) == L1Cost(env.rlp, env.ratio, env.size, oracle)

\* transact, first half: the checks of the EVM's handler.
EvmAccepts(x, env) ==
  LET acct == x.db.accounts[env.caller] IN
  /\ x.disable_base_fee \/ env.price >= x.env.basefee
  /\ x.disable_nonce_check \/ env.nonce = acct.nonce
  /\ env.type = L1Type
     \/ /\ env.rlp # None
        /\ acct.balance >= env.gas * env.price + L1CostIn(env, x.db.oracle)

\* transact, second half: what the caller pays goes to the beneficiary.  The handler loads the oracle's values into the
\* context for every transaction that pays an L1 fee.
Transacted(x, env) ==
  IF env.type = L1Type THEN x ELSE [x EXCEPT !.l1_block_info = x.db.oracle]

StateAfter(x, t, env) ==
  LET l1   == IF env.type = L1Type THEN 0 ELSE L1CostIn(env, x.db.oracle)
      paid == Attr[t].used * EffectivePrice(x, env) + l1
  IN [accounts |-> [x.db.accounts EXCEPT
                      ![env.caller] = [nonce |-> @.nonce + 1, balance |-> @.balance - paid],
                      ![x.env.beneficiary].balance = @ + paid],
      oracle   |-> IF Attr[t].ok /\ Attr[t].sets # None THEN Attr[t].sets
                   ELSE x.db.oracle]

\* EvmExt::l1_fee: the context's values, not the database's.
L1Fee(x, env) == L1CostIn(env, x.l1_block_info)

\* The fee the executor records: an L1 message has none, whatever its
\* environment carries.
RecordedFee_ReadLate(x, t, env) ==
  IF IsL1(t) THEN 0 ELSE L1CostIn(env, StateAfter(x, t, env).oracle)
RecordedFee(x, t, env) == IF IsL1(t) THEN 0 ELSE L1Fee(x, env)

\* execute_transaction_without_commit, for a transaction that is admitted
\* and accepted: the executor it leaves and the result it returns.
Executed(x, t, env) == Transacted(SetChecks(x, t), env)
Result(x, t, env) ==
  [type |-> Attr[t].type, used |-> Attr[t].used, ok |-> Attr[t].ok,
   state |-> StateAfter(x, t, env),
   l1_fee |-> RecordedFee(Executed(x, t, env), t, env)]

Refused(x, t, env) == ~Admitted(x, t) \/ ~EvmAccepts(SetChecks(x, t), env)
AfterRefusal(x, t) == IF Admitted(x, t) THEN SetChecks(x, t) ELSE x

BuildReceipt(r, cumulative) ==
  [type |-> r.type, ok |-> r.ok, cumulative_gas_used |-> cumulative,
   l1_fee |-> IF r.type = L1Type THEN None ELSE r.l1_fee]

CommitTransaction_HookLast(x, r) ==
  [x EXCEPT !.gas_used = @ + r.used,
            !.receipts = Append(@, BuildReceipt(r, x.gas_used + r.used)),
            !.hook = Append(@, [index |-> Len(x.receipts) + 1, state |-> r.state]),
            !.db = r.state]
CommitTransaction(x, r) ==
  [x EXCEPT !.hook = Append(@, [index |-> Len(x.receipts), state |-> r.state]),
            !.gas_used = @ + r.used,
            !.receipts = Append(@, BuildReceipt(r, x.gas_used + r.used)),
            !.db = r.state]

-----------------------------------------------------------------------------
(* Building *)

Init ==
  /\ phase = "build" /\ offers = 0 /\ chain \in Chains /\ header = None
  /\ builder = NewExecutor(NextEvmEnv) /\ importer = None
  /\ pending = None /\ block = <<>>
  /\ route = None /\ infos = <<>> /\ pos = 1 /\ error = None

Offer(t) ==
  /\ phase = "build" /\ pending = None /\ offers < MaxOffers
  /\ offers' = offers + 1
  /\ UNCHANGED <<chain, header, phase, block, importer, route, infos, pos, error>>

\* The transaction is refused; the build goes on with the executor as the
\* refusal leaves it.
BuildRefused(t) ==
  /\ Offer(t)
  /\ Refused(builder, t, FromRecoveredTx(t))
  /\ builder' = AfterRefusal(builder, t)
  /\ UNCHANGED pending

BuildExecuted(t) ==
  /\ Offer(t)
  /\ ~Refused(builder, t, FromRecoveredTx(t))
  /\ builder' = Executed(builder, t, FromRecoveredTx(t))
  /\ pending' = [tx |-> t, result |-> Result(builder, t, FromRecoveredTx(t))]

\* The result is not wanted (the payload builder's commit gate refuses it).
BuildDiscarded ==
  /\ pending # None
  /\ pending' = None
  /\ UNCHANGED <<chain, header, phase, offers, builder, block, importer, route, infos, pos, error>>

BuildCommitted ==
  /\ pending # None
  /\ builder' = CommitTransaction(builder, pending.result)
  /\ block' = Append(block, pending.tx)
  /\ pending' = None
  /\ UNCHANGED <<chain, header, phase, offers, importer, route, infos, pos, error>>

\* The block is assembled and handed to an importer, which takes its block
\* environment from the header or from a payload.  The compression infos of
\* the cached route come from a caller that computed them right but may not
\* have as many as there are transactions.
Seal ==
  /\ phase = "build" /\ pending = None /\ Assembles(builder.env)
  /\ phase' = "import"
  /\ header' = Assembled(builder.env)
  /\ \E env \in {EvmEnv(header'), EvmEnvForPayload(PayloadOf(header'))} :
       importer' = NewExecutor(env)
  /\ route' \in {"recovered", "encoded", "cached"}
  /\ \E n \in {Len(block) - 1, Len(block), Len(block) + 1} :
       /\ n >= 0 /\ (route' # "cached" => n = 0)
       /\ infos' = [i \in 1 .. n |-> IF i <= Len(block) THEN Info(block[i])
                                     ELSE [ratio |-> Precision, size |-> 1]]
  /\ UNCHANGED <<chain, offers, builder, pending, block, pos, error>>

-----------------------------------------------------------------------------
(* Importing: execute_block and execute_block_with_compression_cache *)

Env(t) ==
  CASE route = "recovered" -> FromRecoveredTx(t)
    [] route = "encoded"   -> FromEncodedTx(t, Attr[t].rlp)
    [] route = "cached"    -> FromTxWithCompressionInfo(t, infos[pos])

InfosMissing  == route = "cached" /\ pos > Len(infos)
InfosLeft     == route = "cached" /\ pos <= Len(infos)

Importing == phase = "import" /\ pos <= Len(block)
Fail(why) ==
  /\ phase' = "failed" /\ error' = why
  /\ UNCHANGED <<chain, header, offers, builder, pending, block, importer, route, infos, pos>>

FewerInfos == Importing /\ InfosMissing /\ Fail("fewer")

ImportTransaction ==
  /\ Importing /\ ~InfosMissing
  /\ LET t == block[pos]
         env == Env(t)
     IN IF Refused(importer, t, env) THEN Fail("refused")
        ELSE /\ importer' = CommitTransaction(Executed(importer, t, env),
                                              Result(importer, t, env))
             /\ pos' = pos + 1
             /\ UNCHANGED <<chain, header, phase, offers, builder, pending, block, route, infos, error>>

MoreInfos == phase = "import" /\ pos > Len(block) /\ InfosLeft /\ Fail("more")

Finish ==
  /\ phase = "import" /\ pos > Len(block) /\ ~InfosLeft
  /\ phase' = "imported"
  /\ UNCHANGED <<chain, header, offers, builder, pending, block, importer, route, infos, pos, error>>

Next ==
  \/ \E t \in Txs : BuildRefused(t) \/ BuildExecuted(t)
  \/ BuildDiscarded \/ BuildCommitted \/ Seal
  \/ FewerInfos \/ ImportTransaction \/ MoreInfos \/ Finish

ExecutionSpec == Init /\ [][Next]_xvars

-----------------------------------------------------------------------------
(* Properties *)

Executors == {builder, importer} \ {None}

\* Receipts, gas, state hook and database agree on what was committed: the
\* gas stays within the block's limit, so the subtraction
\* `gas_limit() - gas_used` of execute_transaction_without_commit never
\* underflows; the last receipt's cumulative gas is the block's gas; the hook
\* heard of exactly the committed transactions, numbered as their receipts
\* are, and what it heard last is the state of the database.
CommittedIsAccounted ==
  \A x \in Executors :
    /\ x.gas_used <= x.env.gas_limit
    /\ x.receipts # <<>> =>
         x.receipts[Len(x.receipts)].cumulative_gas_used = x.gas_used
    /\ Len(x.hook) = Len(x.receipts)
    /\ \A i \in 1 .. Len(x.hook) : x.hook[i].index = i - 1
    /\ x.db = IF x.hook = <<>> THEN ParentState ELSE x.hook[Len(x.hook)].state

\* No transaction other than an L1 message is ever committed with a fee below
\* the base fee or out of nonce order: the checks an L1 message switches off
\* are on again for what follows it, also when the L1 message or what came
\* after it was refused or discarded.
ChecksRestored ==
  \A i \in 1 .. Len(block) : ~IsL1(block[i]) =>
    LET t == block[i] s == Attr[t].sender
    IN /\ Attr[t].price >= builder.env.basefee
       /\ Attr[t].nonce = ParentState.accounts[s].nonce
            + Cardinality({j \in 1 .. i - 1 : Attr[block[j]].sender = s})

\* What a sender has lost is what the receipts of its transactions say: gas
\* times price plus the recorded L1 fee, nothing for L1 messages, also when a
\* transaction of the block changes the oracle the fees are computed from; all
\* of it, and nothing else, is the configured fee vault's, or without one the
\* suggested recipient's.
GasOf(i) == builder.receipts[i].cumulative_gas_used
              - IF i = 1 THEN 0 ELSE builder.receipts[i - 1].cumulative_gas_used
ChargeOf(i) ==
  IF IsL1(block[i]) THEN 0
  ELSE GasOf(i) * EffectivePrice(builder, FromRecoveredTx(block[i])) + builder.receipts[i].l1_fee
Charges == [i \in 1 .. Len(block) |-> ChargeOf(i)]
ChargesTo(s) == [i \in 1 .. Len(block) |-> IF Attr[block[i]].sender = s THEN ChargeOf(i) ELSE 0]
Gained(s) == builder.db.accounts[s].balance - ParentState.accounts[s].balance
FeesAreCharged ==
  /\ \A s \in Senders : Gained(s) = -SumTo(ChargesTo(s), Len(block))
  /\ \A s \in Others :
       Gained(s) = IF s = Beneficiary(chain.suggested_fee_recipient)
                   THEN SumTo(Charges, Len(block)) ELSE 0

\* An import reproduces the builder's receipts and gas by whichever route its
\* block environment (evm_env, evm_env_for_payload against next_evm_env) and its
\* transaction environments are made.  The two environments differ at most in the
\* recipient of the fees: without a fee vault the builder credits the suggested
\* recipient and the importer the zero address of the header.  The importer's
\* state is the builder's with all fees of the block moved to its own recipient;
\* when the recipients agree it is the builder's, update by update.  An import never refuses
\* a transaction, and fails exactly when the cached route is given a number of
\* compression infos other than the number of transactions.
MovedTo(c, from, to, sum) == (IF c = to THEN sum ELSE 0) - (IF c = from THEN sum ELSE 0)
Moved(s, from, to, sum) ==
  [accounts |-> [c \in Accounts |->
                   [nonce   |-> s.accounts[c].nonce,
                    balance |-> s.accounts[c].balance + MovedTo(c, from, to, sum)]],
   oracle   |-> s.oracle]
ImportAgrees ==
  /\ phase = "imported" =>
       /\ importer.receipts = builder.receipts /\ importer.gas_used = builder.gas_used
       /\ importer.env = [builder.env EXCEPT !.beneficiary = Beneficiary(Zero)]
       /\ importer.db = Moved(builder.db, builder.env.beneficiary, importer.env.beneficiary,
                              SumTo(Charges, Len(block)))
       /\ importer.env = builder.env => importer.hook = builder.hook /\ importer.db = builder.db
       /\ route = "cached" => Len(infos) = Len(block)
  /\ phase = "failed" => route = "cached" /\ Len(infos) # Len(block)
=============================================================================
