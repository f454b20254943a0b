------------------------ MODULE BlockExecutionProofs ------------------------
(***************************************************************************)
(* Theorems about BlockExecution for every set of transactions, accounts   *)
(* and chain configurations, every parent state and every L1 cost formula. *)
(*                                                                         *)
(* The argument: what the executor does with a transaction depends on the  *)
(* block environment, the database and the gas used, never on the EVM      *)
(* switches or the L1 values an earlier transaction left behind, nor on    *)
(* the route the transaction's environment took (EvmOutcome).  An executor *)
(* therefore carries its own history: entry i of its hook and receipts is  *)
(* the outcome of transaction i on entry i - 1 (Ran).  An importer differs *)
(* from the builder at most in the account that is paid: while its state   *)
(* is the builder's with the fees so far moved to its own recipient, it    *)
(* accepts the next transaction, writes the same receipt and keeps that    *)
(* relation (PostMoved).                                                   *)
(***************************************************************************)
EXTENDS BlockExecution, PartialSumsProofs, FiniteSetTheorems, TLAPS

-----------------------------------------------------------------------------
(* What a transaction does, as a function of block environment e, state s  *)
(* and gas used g.                                                         *)

States == [accounts : [Accounts -> [nonce : Nat, balance : Int]], oracle : Oracles]

Cost(t, s) == L1Cost(Attr[t].rlp, Info(t).ratio, Info(t).size, s.oracle)

PriceIn(e, t) ==
  IF Attr[t].tip = None \/ Attr[t].price < e.basefee + Attr[t].tip THEN Attr[t].price
  ELSE e.basefee + Attr[t].tip

Paid(e, s, t) == IF IsL1(t) THEN 0 ELSE Attr[t].used * PriceIn(e, t) + Cost(t, s)

Post(e, s, t) ==
  [accounts |-> [s.accounts EXCEPT
                   ![Attr[t].sender] = [nonce |-> @.nonce + 1, balance |-> @.balance - Paid(e, s, t)],
                   ![e.beneficiary].balance = @ + Paid(e, s, t)],
   oracle   |-> IF Attr[t].ok /\ Attr[t].sets # None THEN Attr[t].sets ELSE s.oracle]

Outcome(e, s, t) ==
  [type |-> Attr[t].type, used |-> Attr[t].used, ok |-> Attr[t].ok,
   state |-> Post(e, s, t), l1_fee |-> IF IsL1(t) THEN 0 ELSE Cost(t, s)]

Accepts(e, s, g, t) ==
  /\ Attr[t].gas <= e.gas_limit - g
  /\ ~IsL1(t) =>
       /\ Attr[t].price >= e.basefee
       /\ Attr[t].nonce = s.accounts[Attr[t].sender].nonce
       /\ Attr[t].rlp # None
       /\ s.accounts[Attr[t].sender].balance >= Attr[t].gas * Attr[t].price + Cost(t, s)

-----------------------------------------------------------------------------
(* The inductive invariant *)

Receipts == [type : {0, 1, 2, 4, L1Type}, ok : BOOLEAN, cumulative_gas_used : Nat,
             l1_fee : Nat \cup {None}]
Updates  == [index : Nat, state : States]

IsExecutor(x) ==
  x \in [env : {x.env}, disable_base_fee : BOOLEAN, disable_nonce_check : BOOLEAN,
         l1_block_info : Oracles \cup {None}, db : States, gas_used : Nat,
         receipts : Seq(Receipts), hook : Seq(Updates)]

StateAt(x, k) == IF k = 0 THEN ParentState ELSE x.hook[k].state
GasAt(x, k)   == IF k = 0 THEN 0 ELSE x.receipts[k].cumulative_gas_used

\* Executor x, of a block with environment e, has run the first n of txs.
Ran(x, e, txs, n) ==
  /\ IsExecutor(x) /\ x.env = e
  /\ Len(x.hook) = n /\ Len(x.receipts) = n
  /\ x.db = StateAt(x, n) /\ x.gas_used = GasAt(x, n)
  /\ \A i \in 1 .. n :
       /\ Accepts(e, StateAt(x, i - 1), GasAt(x, i - 1), txs[i])
       /\ x.hook[i] = [index |-> i - 1, state |-> Post(e, StateAt(x, i - 1), txs[i])]
       /\ x.receipts[i] = BuildReceipt(Outcome(e, StateAt(x, i - 1), txs[i]),
                                       GasAt(x, i - 1) + Attr[txs[i]].used)

BuildInv ==
  /\ chain \in Chains
  /\ block \in Seq(Txs)
  /\ Ran(builder, NextEvmEnv, block, Len(block))
  /\ pending # None =>
       /\ pending.tx \in Txs
       /\ Accepts(NextEvmEnv, builder.db, builder.gas_used, pending.tx)
       /\ pending.result = Outcome(NextEvmEnv, builder.db, pending.tx)

SentBefore(s, k) == {j \in 1 .. k : Attr[block[j]].sender = s}
NonceInv ==
  \A k \in 0 .. Len(block), s \in Senders :
    StateAt(builder, k).accounts[s].nonce
      = ParentState.accounts[s].nonce + Cardinality(SentBefore(s, k))

\* What a sender lost, and what the recipient won, is what was paid.
PaidAt(x, i) == Paid(NextEvmEnv, StateAt(x, i - 1), block[i])
PaidBy(s) == [i \in 1 .. Len(block) |-> IF Attr[block[i]].sender = s THEN PaidAt(builder, i) ELSE 0]
PaidByAll == [i \in 1 .. Len(block) |-> PaidAt(builder, i)]
FeesInv ==
  /\ \A s \in Senders : Gained(s) = -SumTo(PaidBy(s), Len(block))
  /\ \A s \in Others :
       Gained(s) = IF s = NextEvmEnv.beneficiary THEN SumTo(PaidByAll, Len(block)) ELSE 0

\* What the importer runs in, and its state after k transactions.
ImportEnv == [NextEvmEnv EXCEPT !.beneficiary = Beneficiary(Zero)]
MovedAt(k) == Moved(StateAt(builder, k), NextEvmEnv.beneficiary, ImportEnv.beneficiary,
                    SumTo(PaidByAll, k))

\* The importer has reproduced the builder's first pos - 1 entries.
ImportInv ==
  /\ phase \in {"build", "import", "imported", "failed"}
  /\ phase = "build" => importer = None /\ pos = 1
  /\ phase # "build" =>
       /\ pending = None
       /\ pos \in 1 .. Len(block) + 1
       /\ Ran(importer, ImportEnv, block, pos - 1)
       /\ \A i \in 1 .. pos - 1 : importer.receipts[i] = builder.receipts[i]
       /\ \A k \in 0 .. pos - 1 : StateAt(importer, k) = MovedAt(k)
       /\ route \in {"recovered", "encoded", "cached"}
       /\ Len(infos) \in Nat
       /\ route = "cached" =>
            /\ pos - 1 <= Len(infos)
            /\ \A i \in 1 .. Len(block) : i <= Len(infos) => infos[i] = Info(block[i])
  /\ phase = "imported" => pos = Len(block) + 1 /\ (route = "cached" => Len(infos) = Len(block))
  /\ phase = "failed" => route = "cached" /\ Len(infos) # Len(block)

Inv == BuildInv /\ NonceInv /\ FeesInv /\ ImportInv

-----------------------------------------------------------------------------
(* Transactions and their environments *)

IsBlockEnv(e) == e.gas_limit \in Nat /\ e.basefee \in Nat /\ e.beneficiary \in Others

\* The environments a transaction can reach the executor in.
EnvsOf(t) == {FromRecoveredTx(t), FromEncodedTx(t, Attr[t].rlp),
              FromTxWithCompressionInfo(t, Info(t))}

\* The routes differ only in what an L1 message carries and never uses.
LEMMA Routes ==
  ASSUME NEW t \in Txs, NEW env \in EnvsOf(t)
  PROVE  /\ env.type = Attr[t].type /\ env.caller = Attr[t].sender /\ env.gas = Attr[t].gas
         /\ IsL1(t) => env.price = 0 /\ env.tip = None
         /\ ~IsL1(t) => /\ env.price = Attr[t].price /\ env.tip = Attr[t].tip
                        /\ env.nonce = Attr[t].nonce /\ env.rlp = Attr[t].rlp
                        /\ env.ratio = Info(t).ratio /\ env.size = Info(t).size
  BY DEF EnvsOf, FromRecoveredTx, FromEncodedTx, FromTxWithCompressionInfo, TxEnv, Info

LEMMA Amounts ==
  ASSUME NEW t \in Txs, NEW e, IsBlockEnv(e), NEW s \in States
  PROVE  /\ Cost(t, s) \in Nat /\ PriceIn(e, t) \in Nat
         /\ Attr[t].used \in Nat /\ Attr[t].gas \in Nat /\ Attr[t].used <= Attr[t].gas
         /\ Paid(e, s, t) \in Nat
<1>1. Attr[t].used \in Nat /\ Attr[t].gas \in Nat /\ Attr[t].used <= Attr[t].gas
  BY ExecutionAssumption
<1>2. Cost(t, s) \in Nat
  <2>1. s.oracle \in Oracles
    BY DEF States
  <2> QED
    BY <2>1, CostAssumption, Zenon DEF Cost
<1>3. PriceIn(e, t) \in Nat
  BY ExecutionAssumption DEF PriceIn, IsBlockEnv
<1>4. Attr[t].used * PriceIn(e, t) \in Nat
  BY <1>1, <1>3
<1> QED
  BY <1>1, <1>2, <1>3, <1>4 DEF Paid

\* The accounts after a transaction: the sender's and the recipient's change.
LEMMA PostAccounts ==
  ASSUME NEW t \in Txs, NEW e, IsBlockEnv(e), NEW s \in States
  PROVE  /\ Post(e, s, t) \in States
         /\ \A a \in Accounts :
              /\ Post(e, s, t).accounts[a].nonce
                   = s.accounts[a].nonce + IF a = Attr[t].sender THEN 1 ELSE 0
              /\ Post(e, s, t).accounts[a].balance
                   = s.accounts[a].balance
                       + IF a = Attr[t].sender THEN -Paid(e, s, t)
                         ELSE IF a = e.beneficiary THEN Paid(e, s, t) ELSE 0
<1> DEFINE p == Paid(e, s, t)
           q == [s.accounts EXCEPT
                   ![Attr[t].sender] = [nonce |-> @.nonce + 1, balance |-> @.balance - p],
                   ![e.beneficiary].balance = @ + p]
<1>1. p \in Nat
  BY Amounts
<1>2. Attr[t].sender \in Senders /\ e.beneficiary \in Others
  BY ExecutionAssumption DEF IsBlockEnv
<1>3. Attr[t].sender # e.beneficiary /\ Attr[t].sender \in Accounts /\ e.beneficiary \in Accounts
  BY <1>2, StateAssumption DEF Accounts
<1>4. s.accounts \in [Accounts -> [nonce : Nat, balance : Int]]
  BY DEF States
<1> HIDE DEF p
<1>5. q \in [Accounts -> [nonce : Nat, balance : Int]]
  BY <1>1, <1>3, <1>4
<1>6. \A a \in Accounts :
        /\ q[a].nonce = s.accounts[a].nonce + IF a = Attr[t].sender THEN 1 ELSE 0
        /\ q[a].balance = s.accounts[a].balance
             + IF a = Attr[t].sender THEN -p ELSE IF a = e.beneficiary THEN p ELSE 0
  BY <1>1, <1>3, <1>4
<1>7. (IF Attr[t].ok /\ Attr[t].sets # None THEN Attr[t].sets ELSE s.oracle) \in Oracles
  BY DEF Oracles, States
<1>8. Post(e, s, t).accounts = q
  BY DEF Post, p
<1> HIDE DEF q
<1>9. Post(e, s, t) \in States
  <2>1. Post(e, s, t) = [accounts |-> q,
          oracle |-> IF Attr[t].ok /\ Attr[t].sets # None THEN Attr[t].sets ELSE s.oracle]
    BY Zenon DEF Post, q, p
  <2> QED
    BY <1>5, <1>7, <2>1 DEF States
<1> QED
  BY <1>6, <1>8, <1>9 DEF p

\* Fees moved between recipients: nothing else of the state changes.
LEMMA MovedAccounts ==
  ASSUME NEW s \in States, NEW a, NEW b, NEW n \in Int
  PROVE  /\ Moved(s, a, b, n) \in States
         /\ Moved(s, a, b, n).oracle = s.oracle
         /\ \A c \in Accounts :
              /\ MovedTo(c, a, b, n) \in Int
              /\ Moved(s, a, b, n).accounts[c].nonce = s.accounts[c].nonce
              /\ Moved(s, a, b, n).accounts[c].balance
                   = s.accounts[c].balance + MovedTo(c, a, b, n)
<1> DEFINE q == [c \in Accounts |-> [nonce   |-> s.accounts[c].nonce,
                                     balance |-> s.accounts[c].balance + MovedTo(c, a, b, n)]]
<1>1. s.accounts \in [Accounts -> [nonce : Nat, balance : Int]] /\ s.oracle \in Oracles
  BY DEF States
<1>2. \A c : MovedTo(c, a, b, n) \in Int
  BY DEF MovedTo
<1>3. Moved(s, a, b, n) = [accounts |-> q, oracle |-> s.oracle]
  BY DEF Moved
<1>4. /\ q \in [Accounts -> [nonce : Nat, balance : Int]]
      /\ \A c \in Accounts :
           /\ q[c].nonce = s.accounts[c].nonce
           /\ q[c].balance = s.accounts[c].balance + MovedTo(c, a, b, n)
  BY <1>1, <1>2
<1> HIDE DEF q
<1> QED
  BY <1>1, <1>2, <1>3, <1>4 DEF States

LEMMA SameState ==
  ASSUME NEW s \in States, NEW u \in States, s.oracle = u.oracle,
         \A c \in Accounts : /\ s.accounts[c].nonce = u.accounts[c].nonce
                             /\ s.accounts[c].balance = u.accounts[c].balance
  PROVE  s = u
<1>1. /\ s.accounts \in [Accounts -> [nonce : Nat, balance : Int]]
      /\ u.accounts \in [Accounts -> [nonce : Nat, balance : Int]]
      /\ s = [accounts |-> s.accounts, oracle |-> s.oracle]
      /\ u = [accounts |-> u.accounts, oracle |-> u.oracle]
  BY DEF States
<1>2. \A c \in Accounts : s.accounts[c] = u.accounts[c]
  BY <1>1
<1>3. s.accounts = u.accounts
  BY <1>1, <1>2
<1> QED
  BY <1>1, <1>3

LEMMA MovedNothing ==
  ASSUME NEW s \in States, NEW a \in Others, NEW b \in Others, NEW n \in Int,
         a = b \/ n = 0
  PROVE  Moved(s, a, b, n) = s
<1>1. \A c \in Accounts : s.accounts[c].balance \in Int
  BY DEF States
<1>2. \A c \in Accounts :
        /\ Moved(s, a, b, n).accounts[c].nonce = s.accounts[c].nonce
        /\ Moved(s, a, b, n).accounts[c].balance = s.accounts[c].balance
  <2>1. \A c : MovedTo(c, a, b, n) = 0
    BY DEF MovedTo
  <2> QED
    BY <1>1, <2>1, MovedAccounts
<1> QED
  BY <1>2, MovedAccounts, SameState

\* Environments that differ in the recipient only charge the same, accept the
\* same and record the same, on states that differ in what the recipients won.
LEMMA PostMoved ==
  ASSUME NEW t \in Txs, NEW e, IsBlockEnv(e), NEW f, IsBlockEnv(f),
         f.gas_limit = e.gas_limit, f.basefee = e.basefee,
         NEW s \in States, NEW n \in Int, NEW g, NEW u,
         u = Moved(s, e.beneficiary, f.beneficiary, n)
  PROVE  /\ Accepts(f, u, g, t) <=> Accepts(e, s, g, t)
         /\ Post(f, u, t) = Moved(Post(e, s, t), e.beneficiary, f.beneficiary,
                                  n + Paid(e, s, t))
         /\ \A c : BuildReceipt(Outcome(f, u, t), c) = BuildReceipt(Outcome(e, s, t), c)
<1> DEFINE p == Paid(e, s, t)
<1>1. /\ Attr[t].sender \in Senders /\ Attr[t].sender \in Accounts
      /\ e.beneficiary \in Others /\ f.beneficiary \in Others
      /\ Attr[t].sender # e.beneficiary /\ Attr[t].sender # f.beneficiary
  BY ExecutionAssumption, StateAssumption DEF IsBlockEnv, Accounts
<1> DEFINE m(c, k) == MovedTo(c, e.beneficiary, f.beneficiary, k)
<1>2. /\ u \in States /\ u.oracle = s.oracle
      /\ \A c \in Accounts :
           /\ u.accounts[c].nonce = s.accounts[c].nonce
           /\ u.accounts[c].balance = s.accounts[c].balance + m(c, n)
  BY MovedAccounts
<1>3. \A c \in Accounts : s.accounts[c].balance \in Int /\ s.accounts[c].nonce \in Nat
  BY DEF States
<1>4. Cost(t, u) = Cost(t, s) /\ PriceIn(f, t) = PriceIn(e, t)
  BY <1>2 DEF Cost, PriceIn
<1>5. Paid(f, u, t) = p /\ p \in Nat
  BY <1>4, Amounts DEF Paid
<1>6. /\ u.accounts[Attr[t].sender].nonce = s.accounts[Attr[t].sender].nonce
      /\ u.accounts[Attr[t].sender].balance = s.accounts[Attr[t].sender].balance
  <2>1. m(Attr[t].sender, n) = 0
    BY <1>1 DEF MovedTo
  <2> QED
    BY <1>1, <1>2, <1>3, <2>1
<1>7. Accepts(f, u, g, t) <=> Accepts(e, s, g, t)
  BY <1>4, <1>6 DEF Accepts
<1>8. \A c : BuildReceipt(Outcome(f, u, t), c) = BuildReceipt(Outcome(e, s, t), c)
  BY <1>4 DEF BuildReceipt, Outcome
<1> HIDE DEF p
<1> DEFINE v == Post(e, s, t)
           w == Moved(v, e.beneficiary, f.beneficiary, n + p)
           x == Post(f, u, t)
<1>9. /\ v \in States
      /\ \A c \in Accounts :
           /\ v.accounts[c].nonce = s.accounts[c].nonce + IF c = Attr[t].sender THEN 1 ELSE 0
           /\ v.accounts[c].balance = s.accounts[c].balance
                + IF c = Attr[t].sender THEN -p ELSE IF c = e.beneficiary THEN p ELSE 0
  BY PostAccounts DEF p
<1>10. /\ x \in States
       /\ \A c \in Accounts :
            /\ x.accounts[c].nonce = u.accounts[c].nonce + IF c = Attr[t].sender THEN 1 ELSE 0
            /\ x.accounts[c].balance = u.accounts[c].balance
                 + IF c = Attr[t].sender THEN -p ELSE IF c = f.beneficiary THEN p ELSE 0
  BY <1>2, <1>5, PostAccounts
<1>11. v.oracle = x.oracle
  BY <1>2 DEF Post
<1> HIDE DEF v, x
<1>12. /\ w \in States /\ w.oracle = v.oracle
       /\ \A c \in Accounts :
            /\ w.accounts[c].nonce = v.accounts[c].nonce
            /\ w.accounts[c].balance = v.accounts[c].balance + m(c, n + p)
  <2>1. n + p \in Int
    BY <1>5
  <2> QED
    BY <1>9, <2>1, MovedAccounts
<1> HIDE DEF w
<1>13. ASSUME NEW c \in Accounts
       PROVE  /\ x.accounts[c].nonce = w.accounts[c].nonce
              /\ x.accounts[c].balance = w.accounts[c].balance
  <2> DEFINE sb == s.accounts[c].balance
             ub == u.accounts[c].balance
             vb == v.accounts[c].balance
             wb == w.accounts[c].balance
             xb == x.accounts[c].balance
  <2>1. /\ sb \in Int
        /\ ub = sb + m(c, n)
        /\ vb = sb + IF c = Attr[t].sender THEN -p ELSE IF c = e.beneficiary THEN p ELSE 0
        /\ xb = ub + IF c = Attr[t].sender THEN -p ELSE IF c = f.beneficiary THEN p ELSE 0
        /\ wb = vb + m(c, n + p)
    BY <1>2, <1>3, <1>9, <1>10, <1>12
  <2>2. x.accounts[c].nonce = w.accounts[c].nonce
    BY <1>2, <1>9, <1>10, <1>12
  <2> HIDE DEF sb, ub, vb, wb, xb
  <2>3. xb = wb
    BY <1>1, <1>5, <2>1 DEF MovedTo
  <2> QED
    BY <2>2, <2>3 DEF wb, xb
<1>14. x = w
  BY <1>10, <1>11, <1>12, <1>13, SameState
<1> QED
  BY <1>7, <1>8, <1>14 DEF p, v, w, x

\* An executor refuses, executes and records by its block environment, its
\* database and its gas alone, whichever route made the environment.
LEMMA EvmOutcome ==
  ASSUME NEW x, IsExecutor(x), IsBlockEnv(x.env), NEW t \in Txs, NEW env \in EnvsOf(t)
  PROVE  /\ Refused(x, t, env) <=> ~Accepts(x.env, x.db, x.gas_used, t)
         /\ Result(x, t, env) = Outcome(x.env, x.db, t)
<1> DEFINE y == SetChecks(x, t)
<1>1. /\ y.env = x.env /\ y.db = x.db /\ y.disable_base_fee = IsL1(t)
      /\ y.disable_nonce_check = IsL1(t)
  BY DEF SetChecks, IsExecutor
<1>2. IsL1(t) <=> env.type = L1Type
  BY Routes DEF IsL1
<1>3. Admitted(x, t) <=> Attr[t].gas <= x.env.gas_limit - x.gas_used
  BY ExecutionAssumption DEF Admitted, BlobType, L1Type
<1>4. CASE IsL1(t)
  <2>1. EvmAccepts(y, env)
    <3> HIDE DEF y
    <3> QED
      BY <1>1, <1>2, <1>4 DEF EvmAccepts
  <2>2. EffectivePrice(x, env) = 0
    BY <1>4, Routes DEF EffectivePrice
  <2>3. Attr[t].used * EffectivePrice(x, env) + 0 = 0
    BY <2>2, Amounts, ExecutionAssumption, SMTT(30)
  <2>4. StateAfter(x, t, env) = Post(x.env, x.db, t)
    BY <1>2, <1>4, <2>3, Routes DEF StateAfter, Post, Paid
  <2>5. Result(x, t, env) = Outcome(x.env, x.db, t)
    BY <1>4, <2>4 DEF Result, Outcome, RecordedFee
  <2> QED
    BY <1>3, <1>4, <2>1, <2>5 DEF Refused, Accepts
<1>5. CASE ~IsL1(t)
  <2>1. \A o : L1CostIn(env, o) = L1Cost(Attr[t].rlp, Info(t).ratio, Info(t).size, o)
    BY <1>5, Routes DEF L1CostIn
  <2>2. EvmAccepts(y, env) <=>
          /\ Attr[t].price >= x.env.basefee
          /\ Attr[t].nonce = x.db.accounts[Attr[t].sender].nonce
          /\ Attr[t].rlp # None
          /\ x.db.accounts[Attr[t].sender].balance
               >= Attr[t].gas * Attr[t].price + Cost(t, x.db)
    <3> HIDE DEF y
    <3>1. env.type # L1Type
      BY <1>2, <1>5
    <3>2. EvmAccepts(y, env) <=>
            /\ env.price >= x.env.basefee
            /\ env.nonce = x.db.accounts[env.caller].nonce
            /\ env.rlp # None
            /\ x.db.accounts[env.caller].balance
                 >= env.gas * env.price + L1CostIn(env, x.db.oracle)
      BY <1>1, <1>5, <3>1 DEF EvmAccepts
    <3>3. L1CostIn(env, x.db.oracle) = Cost(t, x.db)
      BY <2>1 DEF Cost
    <3>4. /\ env.price = Attr[t].price /\ env.nonce = Attr[t].nonce
          /\ env.rlp = Attr[t].rlp /\ env.gas = Attr[t].gas /\ env.caller = Attr[t].sender
      BY <1>5, Routes
    <3> QED
      BY <3>2, <3>3, <3>4
  <2>3. Refused(x, t, env) <=> ~Accepts(x.env, x.db, x.gas_used, t)
    BY <1>3, <1>5, <2>2 DEF Refused, Accepts
  <2>4. EffectivePrice(x, env) = PriceIn(x.env, t)
    BY <1>5, Routes, SMTT(30) DEF EffectivePrice, PriceIn
  <2>5. StateAfter(x, t, env) = Post(x.env, x.db, t)
    <3>1. L1CostIn(env, x.db.oracle) = Cost(t, x.db)
      BY <2>1 DEF Cost
    <3> QED
      BY <1>2, <1>5, <2>4, <3>1, Routes DEF StateAfter, Post, Paid
  <2>6. Executed(x, t, env).l1_block_info = x.db.oracle
    BY <1>2, <1>5 DEF Executed, Transacted, SetChecks, IsExecutor
  <2>7. RecordedFee(Executed(x, t, env), t, env) = Cost(t, x.db)
    BY <1>5, <2>1, <2>6 DEF RecordedFee, L1Fee, Cost
  <2>8. Result(x, t, env) = Outcome(x.env, x.db, t)
    BY <1>5, <2>5, <2>7 DEF Result, Outcome
  <2> QED
    BY <2>3, <2>8
<1> QED
  BY <1>4, <1>5

SameData(y, x) ==
  /\ IsExecutor(y) /\ y.env = x.env /\ y.db = x.db /\ y.gas_used = x.gas_used
  /\ y.receipts = x.receipts /\ y.hook = x.hook

\* Executing and refusing leave everything but switches and L1 values alone.
LEMMA SwitchesOnly ==
  ASSUME NEW x, IsExecutor(x), NEW t \in Txs, NEW env,
         NEW y \in {Executed(x, t, env), AfterRefusal(x, t)}
  PROVE  SameData(y, x)
<1> DEFINE z == SetChecks(x, t)
<1>1. IsL1(t) \in BOOLEAN
  BY DEF IsL1
<1>2. /\ IsExecutor(z) /\ z.env = x.env /\ z.db = x.db /\ z.gas_used = x.gas_used
      /\ z.receipts = x.receipts /\ z.hook = x.hook
  <2> HIDE DEF States, Receipts, Updates, Oracles
  <2> QED
    BY <1>1 DEF SetChecks, IsExecutor
<1>3. CASE y = AfterRefusal(x, t)
  BY <1>2, <1>3 DEF AfterRefusal, SameData
<1>4. CASE y = Executed(x, t, env)
  <2> HIDE DEF z
  <2>1. z.db.oracle \in Oracles
    BY <1>2 DEF IsExecutor, States
  <2>2. y = z \/ y = [z EXCEPT !.l1_block_info = z.db.oracle]
    BY <1>4 DEF Executed, Transacted, z
  <2> QED
    BY <1>2, <2>1, <2>2 DEF IsExecutor, SameData
<1> QED
  BY <1>3, <1>4

\* Committing the outcome of one more transaction extends the history and
\* changes none of it.
Longer(new, old, n, t) == new[n + 1] = t /\ \A i \in 1 .. n : new[i] = old[i]
Grown(z, x, n) ==
  /\ \A k \in 1 .. n : z.hook[k] = x.hook[k] /\ z.receipts[k] = x.receipts[k]
  /\ \A k \in 0 .. n : StateAt(z, k) = StateAt(x, k) /\ GasAt(z, k) = GasAt(x, k)

LEMMA RunStep ==
  ASSUME NEW x, NEW e, NEW n \in Nat, NEW old, NEW new, NEW t \in Txs, NEW y,
         IsBlockEnv(e), Ran(x, e, old, n), Longer(new, old, n, t),
         Accepts(e, x.db, x.gas_used, t), SameData(y, x)
  PROVE  /\ Ran(CommitTransaction(y, Outcome(e, x.db, t)), e, new, n + 1)
         /\ Grown(CommitTransaction(y, Outcome(e, x.db, t)), x, n)
<1> DEFINE r == Outcome(e, x.db, t)
           u == [index |-> n, state |-> Post(e, x.db, t)]
           c == BuildReceipt(r, x.gas_used + Attr[t].used)
           z == CommitTransaction(y, r)
<1>0. /\ IsExecutor(y) /\ y.env = x.env /\ y.db = x.db /\ y.gas_used = x.gas_used
      /\ y.receipts = x.receipts /\ y.hook = x.hook
      /\ new[n + 1] = t /\ \A i \in 1 .. n : new[i] = old[i]
  BY DEF SameData, Longer
<1>1. x.db \in States /\ x.gas_used \in Nat /\ x.hook \in Seq(Updates) /\ x.receipts \in Seq(Receipts)
  BY DEF Ran, IsExecutor
<1>2. Len(x.hook) = n /\ Len(x.receipts) = n /\ x.db = StateAt(x, n) /\ x.gas_used = GasAt(x, n)
  BY DEF Ran
<1>3. u \in Updates
  BY <1>1, PostAccounts DEF Updates
<1>4. c \in Receipts /\ c.cumulative_gas_used = x.gas_used + Attr[t].used
  <2>1. Cost(t, x.db) \in Nat /\ Attr[t].used \in Nat
    BY <1>1, Amounts
  <2>2. Attr[t].type \in {0, 1, 2, 4, L1Type} /\ Attr[t].ok \in BOOLEAN
    BY ExecutionAssumption
  <2>3. c = [type |-> Attr[t].type, ok |-> Attr[t].ok,
             cumulative_gas_used |-> x.gas_used + Attr[t].used,
             l1_fee |-> IF Attr[t].type = L1Type THEN None
                        ELSE IF IsL1(t) THEN 0 ELSE Cost(t, x.db)]
    BY DEF BuildReceipt, Outcome
  <2> QED
    BY <1>1, <2>1, <2>2, <2>3 DEF Receipts
<1>5. r.used = Attr[t].used /\ r.state = Post(e, x.db, t)
  BY DEF Outcome
<1> HIDE DEF r, c, u, z
<1>6. /\ z.hook = Append(x.hook, u) /\ z.receipts = Append(x.receipts, c)
      /\ z.gas_used = x.gas_used + Attr[t].used /\ z.db = Post(e, x.db, t) /\ z.env = e
  <2>1. x.env = e
    BY DEF Ran
  <2> QED
    BY <1>0, <1>2, <1>5, <2>1 DEF CommitTransaction, IsExecutor, c, u, r, z
<1>7. IsExecutor(z)
  <2>1. Append(x.hook, u) \in Seq(Updates) /\ Append(x.receipts, c) \in Seq(Receipts)
    BY <1>1, <1>3, <1>4
  <2>2. x.gas_used + Attr[t].used \in Nat
    BY <1>1, ExecutionAssumption
  <2>3. z.env = y.env /\ Post(e, x.db, t) \in States
    BY <1>0, <1>1, <1>6, PostAccounts DEF Ran
  <2>4. z = [y EXCEPT !.hook = z.hook, !.gas_used = z.gas_used, !.receipts = z.receipts,
                      !.db = z.db]
    BY <1>0 DEF CommitTransaction, IsExecutor, z
  <2> QED
    BY <1>0, <1>6, <2>1, <2>2, <2>3, <2>4 DEF IsExecutor
<1>8. \A k \in 1 .. n : z.hook[k] = x.hook[k] /\ z.receipts[k] = x.receipts[k]
  BY <1>1, <1>2, <1>6
<1>9. \A k \in 0 .. n : StateAt(z, k) = StateAt(x, k) /\ GasAt(z, k) = GasAt(x, k)
  BY <1>8 DEF StateAt, GasAt
<1>10. /\ Len(z.hook) = n + 1 /\ Len(z.receipts) = n + 1
       /\ z.hook[n + 1] = u /\ z.receipts[n + 1] = c
  BY <1>1, <1>2, <1>6
<1>11. StateAt(z, n + 1) = Post(e, x.db, t) /\ GasAt(z, n + 1) = x.gas_used + Attr[t].used
  BY <1>4, <1>10 DEF StateAt, GasAt, u
<1>12. ASSUME NEW i \in 1 .. n + 1
       PROVE  /\ Accepts(e, StateAt(z, i - 1), GasAt(z, i - 1), new[i])
              /\ z.hook[i] = [index |-> i - 1, state |-> Post(e, StateAt(z, i - 1), new[i])]
              /\ z.receipts[i] = BuildReceipt(Outcome(e, StateAt(z, i - 1), new[i]),
                                              GasAt(z, i - 1) + Attr[new[i]].used)
  <2>1. CASE i = n + 1
    <3>1. StateAt(z, i - 1) = x.db /\ GasAt(z, i - 1) = x.gas_used /\ new[i] = t
      BY <1>0, <1>2, <1>9, <2>1
    <3> QED
      BY <1>10, <2>1, <3>1 DEF u, c, r
  <2>2. CASE i # n + 1
    <3>1. i \in 1 .. n /\ i - 1 \in 0 .. n
      BY <2>2
    <3>2. /\ StateAt(z, i - 1) = StateAt(x, i - 1) /\ GasAt(z, i - 1) = GasAt(x, i - 1)
          /\ new[i] = old[i] /\ z.hook[i] = x.hook[i] /\ z.receipts[i] = x.receipts[i]
      BY <1>0, <1>8, <1>9, <3>1
    <3>3. /\ Accepts(e, StateAt(x, i - 1), GasAt(x, i - 1), old[i])
          /\ x.hook[i] = [index |-> i - 1, state |-> Post(e, StateAt(x, i - 1), old[i])]
          /\ x.receipts[i] = BuildReceipt(Outcome(e, StateAt(x, i - 1), old[i]),
                                          GasAt(x, i - 1) + Attr[old[i]].used)
      BY <3>1 DEF Ran
    <3> QED
      BY <3>2, <3>3
  <2> QED
    BY <2>1, <2>2
<1>13. z.db = StateAt(z, n + 1) /\ z.gas_used = GasAt(z, n + 1)
  BY <1>6, <1>11
<1>14. Ran(z, e, new, n + 1)
  BY <1>6, <1>7, <1>10, <1>12, <1>13 DEF Ran
<1> QED
  BY <1>8, <1>9, <1>14 DEF Grown, z, r

\* A history depends on the executor's data, not on its switches.
LEMMA RanSwitches ==
  ASSUME NEW x, NEW e, NEW txs, NEW n \in Nat, Ran(x, e, txs, n),
         NEW y, SameData(y, x)
  PROVE  Ran(y, e, txs, n) /\ \A k : StateAt(y, k) = StateAt(x, k)
<1>1. \A k : StateAt(y, k) = StateAt(x, k) /\ GasAt(y, k) = GasAt(x, k)
  BY DEF StateAt, GasAt, SameData
<1> QED
  BY <1>1 DEF Ran, SameData

LEMMA FreshRan ==
  ASSUME NEW e, NEW txs
  PROVE  Ran(NewExecutor(e), e, txs, 0)
<1> DEFINE x == NewExecutor(e)
<1>1. ParentState \in States
  BY StateAssumption DEF States, Oracles
<1>2. x = [env |-> e, disable_base_fee |-> FALSE, disable_nonce_check |-> FALSE,
           l1_block_info |-> None, db |-> ParentState, gas_used |-> 0,
           receipts |-> <<>>, hook |-> <<>>]
  BY DEF NewExecutor
<1> HIDE DEF x
<1>3. IsExecutor(x)
  BY <1>1, <1>2 DEF IsExecutor
<1>4. Len(x.hook) = 0 /\ Len(x.receipts) = 0 /\ x.env = e /\ x.db = ParentState /\ x.gas_used = 0
  BY <1>2
<1>5. Ran(x, e, txs, 0)
  BY <1>3, <1>4 DEF Ran, StateAt, GasAt
<1> QED
  BY <1>5 DEF x

\* The environments of builder and importer are those of a block and differ at
\* most in the recipient; header and payload give the importer the same one.
LEMMA BlockEnvs ==
  ASSUME chain \in Chains
  PROVE  /\ IsBlockEnv(NextEvmEnv) /\ IsBlockEnv(ImportEnv)
         /\ ImportEnv.gas_limit = NextEvmEnv.gas_limit /\ ImportEnv.basefee = NextEvmEnv.basefee
         /\ EvmEnv(Assembled(NextEvmEnv)) = ImportEnv
         /\ EvmEnvForPayload(PayloadOf(Assembled(NextEvmEnv))) = ImportEnv
<1>1. Beneficiary(chain.suggested_fee_recipient) \in Others /\ Beneficiary(Zero) \in Others
  BY ChainAssumption DEF Beneficiary
<1>2. ImportEnv = BlockEnv(ParentNumber + 1, Beneficiary(Zero), chain.timestamp,
                           chain.gas_limit, chain.base_fee, 1, Zero)
  BY DEF ImportEnv, NextEvmEnv, BlockEnv
<1>3. /\ IsBlockEnv(NextEvmEnv) /\ IsBlockEnv(ImportEnv)
      /\ ImportEnv.gas_limit = NextEvmEnv.gas_limit /\ ImportEnv.basefee = NextEvmEnv.basefee
  <2>1. chain.gas_limit \in Nat /\ chain.base_fee \in Nat
    BY ChainAssumption
  <2>2. /\ NextEvmEnv.gas_limit = chain.gas_limit /\ NextEvmEnv.basefee = chain.base_fee
        /\ NextEvmEnv.beneficiary = Beneficiary(chain.suggested_fee_recipient)
    BY DEF NextEvmEnv, BlockEnv
  <2>3. /\ ImportEnv.gas_limit = chain.gas_limit /\ ImportEnv.basefee = chain.base_fee
        /\ ImportEnv.beneficiary = Beneficiary(Zero)
    BY <1>2 DEF BlockEnv
  <2> QED
    BY <1>1, <2>1, <2>2, <2>3 DEF IsBlockEnv
<1>4. /\ EvmEnv(Assembled(NextEvmEnv)) = ImportEnv
      /\ EvmEnvForPayload(PayloadOf(Assembled(NextEvmEnv))) = ImportEnv
  BY <1>2 DEF EvmEnv, EvmEnvForPayload, PayloadOf, Assembled, BlockEnv, NextEvmEnv
<1> QED
  BY <1>3, <1>4

-----------------------------------------------------------------------------
(* The invariant is inductive *)

LEMMA InitInv == Init => Inv
<1> SUFFICES ASSUME Init
             PROVE  Inv
  OBVIOUS
<1>1. /\ chain \in Chains /\ block = <<>> /\ builder = NewExecutor(NextEvmEnv) /\ pending = None
      /\ phase = "build" /\ importer = None /\ pos = 1
  BY DEF Init
<1>2. Len(block) = 0
  BY <1>1
<1>3. BuildInv
  BY <1>1, <1>2, FreshRan DEF BuildInv
<1>4. NonceInv
  <2>1. SUFFICES ASSUME NEW k \in 0 .. Len(block), NEW s \in Senders
                 PROVE  StateAt(builder, k).accounts[s].nonce
                          = ParentState.accounts[s].nonce + Cardinality(SentBefore(s, k))
    BY DEF NonceInv
  <2>2. SentBefore(s, k) = {} /\ k = 0
    BY <1>2 DEF SentBefore
  <2>3. Cardinality({}) = 0
    BY FS_EmptySet
  <2>4. ParentState.accounts[s].nonce \in Nat
    BY StateAssumption DEF Accounts
  <2> QED
    BY <2>2, <2>3, <2>4 DEF StateAt
<1>5. FeesInv
  <2>1. builder.db = ParentState
    BY <1>1 DEF NewExecutor
  <2>2. \A s \in Accounts : Gained(s) = 0
    BY <2>1, StateAssumption DEF Gained
  <2>3. \A w : SumTo(w, Len(block)) = 0
    BY <1>2, SumZero
  <2> QED
    BY <2>2, <2>3 DEF FeesInv, Accounts
<1>6. ImportInv
  BY <1>1 DEF ImportInv
<1> QED
  BY <1>3, <1>4, <1>5, <1>6 DEF Inv

\* Steps that leave the builder's data and the block alone keep what is said
\* of them.
LEMMA SameHistory ==
  ASSUME Inv, chain' = chain, block' = block, SameData(builder', builder)
  PROVE  /\ NextEvmEnv' = NextEvmEnv /\ ImportEnv' = ImportEnv
         /\ chain' \in Chains /\ block' \in Seq(Txs)
         /\ Ran(builder', NextEvmEnv, block', Len(block'))
         /\ \A k : MovedAt(k)' = MovedAt(k)
         /\ NonceInv' /\ FeesInv'
<1>1. NextEvmEnv' = NextEvmEnv /\ ImportEnv' = ImportEnv
  BY DEF NextEvmEnv, ImportEnv, BlockEnv, Beneficiary
<1>2. Ran(builder, NextEvmEnv, block, Len(block)) /\ block \in Seq(Txs) /\ Len(block) \in Nat
  BY DEF Inv, BuildInv
<1>3. Ran(builder', NextEvmEnv, block', Len(block')) /\ \A k : StateAt(builder', k) = StateAt(builder, k)
  BY <1>2, RanSwitches
<1>4. NonceInv'
  BY <1>3 DEF Inv, NonceInv, SentBefore
<1>5. PaidByAll' = PaidByAll
  BY <1>1, <1>3 DEF PaidByAll, PaidAt
<1>6. FeesInv'
  <2>1. \A s : PaidBy(s)' = PaidBy(s)
    BY <1>1, <1>3 DEF PaidBy, PaidAt
  <2>2. \A s : Gained(s)' = Gained(s)
    BY DEF Gained, SameData
  <2> QED
    BY <1>1, <1>5, <2>1, <2>2 DEF Inv, FeesInv
<1>7. \A k : MovedAt(k)' = MovedAt(k)
  BY <1>1, <1>3, <1>5 DEF MovedAt
<1> QED
  BY <1>1, <1>2, <1>3, <1>4, <1>6, <1>7 DEF Inv, BuildInv

LEMMA CommitNonces ==
  ASSUME Inv, BuildCommitted, NEW t, block' = Append(block, t), t \in Txs,
         IsBlockEnv(NextEvmEnv), builder.db \in States,
         \A k \in 0 .. Len(block) : StateAt(builder', k) = StateAt(builder, k),
         StateAt(builder', Len(block) + 1) = Post(NextEvmEnv, builder.db, t)
  PROVE  NonceInv'
<1>1. PICK n \in Nat : n = Len(block)
  BY DEF Inv, BuildInv
<1>a. block \in Seq(Txs)
  BY DEF Inv, BuildInv
<1>2. Len(block') = n + 1 /\ block'[n + 1] = t /\ \A i \in 1 .. n : block'[i] = block[i]
  BY <1>1, <1>a
<1>3. builder.db = StateAt(builder, n)
  BY <1>1 DEF Inv, BuildInv, Ran
<1>4. ASSUME NEW k \in 0 .. n + 1, NEW s \in Senders
      PROVE  StateAt(builder', k).accounts[s].nonce
               = ParentState.accounts[s].nonce + Cardinality(SentBefore(s, k)')
  <2>1. SentBefore(s, k)' = {j \in 1 .. k : Attr[block'[j]].sender = s}
    BY DEF SentBefore
  <2>2. CASE k # n + 1
    <3>1. k \in 0 .. n
      BY <1>1, <2>2
    <3>2. SentBefore(s, k)' = SentBefore(s, k)
      BY <1>2, <2>1, <3>1 DEF SentBefore
    <3> QED
      BY <1>1, <3>1, <3>2 DEF Inv, NonceInv
  <2>3. CASE k = n + 1
    <3> DEFINE A == SentBefore(s, n)
    <3>1. IsFiniteSet(A) /\ n + 1 \notin A
      <4>1. IsFiniteSet(1 .. n)
        BY <1>1, FS_Interval
      <4>2. A \subseteq 1 .. n
        BY DEF SentBefore
      <4> QED
        BY <1>1, <4>1, <4>2, FS_Subset
    <3>2. SentBefore(s, k)' = IF Attr[t].sender = s THEN A \cup {n + 1} ELSE A
      BY <1>1, <1>2, <2>1, <2>3 DEF SentBefore
    <3>3. Cardinality(A \cup {n + 1}) = Cardinality(A) + 1
      BY <3>1, FS_AddElement
    <3>4. Cardinality(A) \in Nat
      BY <3>1, FS_CardinalityType
    <3>5. builder.db.accounts[s].nonce = ParentState.accounts[s].nonce + Cardinality(A)
      BY <1>1, <1>3 DEF Inv, NonceInv
    <3>6. Post(NextEvmEnv, builder.db, t).accounts[s].nonce
            = builder.db.accounts[s].nonce + IF s = Attr[t].sender THEN 1 ELSE 0
      BY PostAccounts DEF Accounts
    <3>7. ParentState.accounts[s].nonce \in Nat
      BY StateAssumption DEF Accounts
    <3>8. StateAt(builder', k).accounts[s].nonce
            = builder.db.accounts[s].nonce + IF s = Attr[t].sender THEN 1 ELSE 0
      BY <1>1, <2>3, <3>6
    <3>9. Cardinality(SentBefore(s, k)')
            = Cardinality(A) + IF s = Attr[t].sender THEN 1 ELSE 0
      BY <3>2, <3>3, <3>4
    <3> HIDE DEF A
    <3> QED
      BY <3>4, <3>5, <3>7, <3>8, <3>9, SMTT(30)
  <2> QED
    BY <2>2, <2>3
<1> QED
  BY <1>2, <1>4 DEF NonceInv

LEMMA CommitFees ==
  ASSUME Inv, NEW t \in Txs, block' = Append(block, t), NextEvmEnv' = NextEvmEnv,
         IsBlockEnv(NextEvmEnv), builder.db \in States,
         builder'.db = Post(NextEvmEnv, builder.db, t),
         \A k \in 0 .. Len(block) : StateAt(builder', k) = StateAt(builder, k),
         \A k \in 0 .. Len(block) : StateAt(builder, k) \in States
  PROVE  FeesInv'
<1> DEFINE p == Paid(NextEvmEnv, builder.db, t)
<1>1. PICK n \in Nat : n = Len(block)
  BY DEF Inv, BuildInv
<1>a. block \in Seq(Txs)
  BY DEF Inv, BuildInv
<1>2. Len(block') = n + 1 /\ block'[n + 1] = t /\ \A i \in 1 .. n : block'[i] = block[i]
  BY <1>1, <1>a
<1>3. builder.db = StateAt(builder, n)
  BY <1>1 DEF Inv, BuildInv, Ran
<1>4. p \in Nat
  BY Amounts
<1>5. \A i \in 1 .. n : PaidAt(builder, i) \in Nat /\ PaidAt(builder, i)' = PaidAt(builder, i)
  <2> SUFFICES ASSUME NEW i \in 1 .. n
               PROVE  PaidAt(builder, i) \in Nat /\ PaidAt(builder, i)' = PaidAt(builder, i)
    OBVIOUS
  <2>1. i - 1 \in 0 .. n /\ block[i] \in Txs
    BY <1>1, <1>a
  <2>2. PaidAt(builder, i) \in Nat
    BY <1>1, <2>1, Amounts DEF PaidAt
  <2>3. StateAt(builder', i - 1) = StateAt(builder, i - 1) /\ block'[i] = block[i]
    BY <1>1, <1>2, <2>1
  <2> QED
    BY <2>2, <2>3 DEF PaidAt
<1>6. PaidAt(builder, n + 1)' = p
  <2>1. (n + 1) - 1 = n /\ n \in 0 .. n
    BY <1>1
  <2>2. StateAt(builder', n) = builder.db
    BY <1>1, <1>3, <2>1
  <2> QED
    BY <1>2, <2>1, <2>2 DEF PaidAt
<1>7. \A a \in Accounts : builder.db.accounts[a].balance \in Int /\ ParentState.accounts[a].balance \in Int
  BY StateAssumption DEF States
<1>8. \A a \in Accounts :
        Gained(a)' = Gained(a) + IF a = Attr[t].sender THEN -p
                                 ELSE IF a = NextEvmEnv.beneficiary THEN p ELSE 0
  <2> SUFFICES ASSUME NEW a \in Accounts
               PROVE  Gained(a)' = Gained(a) + IF a = Attr[t].sender THEN -p
                                 ELSE IF a = NextEvmEnv.beneficiary THEN p ELSE 0
    OBVIOUS
  <2>1. builder'.db.accounts[a].balance = builder.db.accounts[a].balance
          + IF a = Attr[t].sender THEN -p ELSE IF a = NextEvmEnv.beneficiary THEN p ELSE 0
    BY PostAccounts
  <2> HIDE DEF p
  <2> QED
    BY <1>4, <1>7, <2>1 DEF Gained
<1>9. Attr[t].sender \in Senders /\ Senders \cap Others = {} /\ NextEvmEnv.beneficiary \in Others
  BY ExecutionAssumption, StateAssumption DEF IsBlockEnv
<1> HIDE DEF p
<1>10. ASSUME NEW s \in Senders
       PROVE  Gained(s)' = -SumTo(PaidBy(s)', n + 1)
  <2> DEFINE w == PaidBy(s)
             v == PaidBy(s)'
  <2>1. v = [i \in 1 .. n + 1 |-> IF Attr[block'[i]].sender = s THEN PaidAt(builder, i)' ELSE 0]
    BY <1>2 DEF PaidBy
  <2>2. \A i \in 1 .. n : v[i] \in Int /\ w[i] = v[i]
    BY <1>1, <1>2, <1>5, <2>1 DEF PaidBy
  <2>3. v[n + 1] = IF Attr[t].sender = s THEN p ELSE 0
    BY <1>1, <1>2, <1>6, <2>1
  <2> HIDE DEF w, v
  <2>4. SumTo(w, n) \in Int /\ SumTo(v, n + 1) = SumTo(w, n) + v[n + 1]
    <3>1. v[n + 1] \in Int
      BY <1>4, <2>3
    <3> QED
      BY <1>1, <2>2, <3>1, SumStep
  <2>5. Gained(s) = -SumTo(w, n)
    BY <1>1 DEF Inv, FeesInv, w
  <2>6. Gained(s)' = Gained(s) + IF s = Attr[t].sender THEN -p ELSE 0
    BY <1>8, <1>9 DEF Accounts
  <2>7. Gained(s)' = -SumTo(v, n + 1)
    BY <1>4, <2>3, <2>4, <2>5, <2>6
  <2> QED
    BY <2>7 DEF v
<1>11. ASSUME NEW s \in Others
       PROVE  Gained(s)' = IF s = NextEvmEnv.beneficiary THEN SumTo(PaidByAll', n + 1) ELSE 0
  <2> DEFINE w == PaidByAll
             v == PaidByAll'
  <2>1. v = [i \in 1 .. n + 1 |-> PaidAt(builder, i)']
    BY <1>2 DEF PaidByAll
  <2>2. \A i \in 1 .. n : v[i] \in Int /\ w[i] = v[i]
    BY <1>1, <1>5, <2>1 DEF PaidByAll
  <2>3. v[n + 1] = p
    BY <1>1, <1>6, <2>1
  <2> HIDE DEF w, v
  <2>4. SumTo(w, n) \in Int /\ SumTo(v, n + 1) = SumTo(w, n) + v[n + 1]
    <3>1. v[n + 1] \in Int
      BY <1>4, <2>3
    <3> QED
      BY <1>1, <2>2, <3>1, SumStep
  <2>5. Gained(s) = IF s = NextEvmEnv.beneficiary THEN SumTo(w, n) ELSE 0
    BY <1>1 DEF Inv, FeesInv, w
  <2>6. Gained(s)' = Gained(s) + IF s = NextEvmEnv.beneficiary THEN p ELSE 0
    BY <1>8, <1>9 DEF Accounts
  <2>7. Gained(s)' = IF s = NextEvmEnv.beneficiary THEN SumTo(v, n + 1) ELSE 0
    BY <1>4, <2>3, <2>4, <2>5, <2>6
  <2> QED
    BY <2>7 DEF v
<1> QED
  BY <1>2, <1>10, <1>11 DEF FeesInv

LEMMA StatesOfRun ==
  ASSUME NEW x, NEW e, NEW txs, NEW n \in Nat, Ran(x, e, txs, n)
  PROVE  \A k \in 0 .. n : StateAt(x, k) \in States
<1>1. ParentState \in States
  BY StateAssumption DEF States, Oracles
<1>2. x.hook \in Seq(Updates) /\ Len(x.hook) = n
  BY DEF Ran, IsExecutor
<1>3. \A k \in 1 .. n : x.hook[k] \in Updates
  BY <1>2
<1> QED
  BY <1>1, <1>3 DEF StateAt, Updates

\* The environment the builder uses is one of those of a transaction, and so
\* is the importer's, on each route.
LEMMA RouteEnvs ==
  ASSUME NEW t
  PROVE  /\ FromRecoveredTx(t) \in EnvsOf(t)
         /\ FromEncodedTx(t, Attr[t].rlp) \in EnvsOf(t)
         /\ FromTxWithCompressionInfo(t, Info(t)) \in EnvsOf(t)
  BY DEF EnvsOf

LEMMA BuildStep ==
  ASSUME Inv, NEW t \in Txs, BuildRefused(t) \/ BuildExecuted(t)
  PROVE  Inv'
<1> DEFINE env == FromRecoveredTx(t)
<1>1. /\ IsExecutor(builder) /\ builder.env = NextEvmEnv /\ chain \in Chains
  BY DEF Inv, BuildInv, Ran
<1>2. IsBlockEnv(NextEvmEnv) /\ env \in EnvsOf(t)
  BY <1>1, BlockEnvs, RouteEnvs
<1> HIDE DEF env
<1>3. /\ phase = "build" /\ phase' = phase /\ chain' = chain /\ block' = block
      /\ importer' = importer /\ pos' = pos /\ route' = route /\ infos' = infos
  BY DEF BuildRefused, BuildExecuted, Offer
<1>4. builder' \in {Executed(builder, t, env), AfterRefusal(builder, t)}
  BY DEF BuildRefused, BuildExecuted, env
<1>5. SameData(builder', builder)
  BY <1>1, <1>4, SwitchesOnly
<1>6. /\ NextEvmEnv' = NextEvmEnv
      /\ chain' \in Chains /\ block' \in Seq(Txs)
      /\ Ran(builder', NextEvmEnv, block', Len(block'))
      /\ NonceInv' /\ FeesInv'
  BY <1>3, <1>5, SameHistory
<1>7. BuildInv'
  <2>1. CASE BuildRefused(t)
    <3>1. pending' = None
      BY <2>1 DEF BuildRefused, Offer
    <3> QED
      BY <1>6, <3>1 DEF BuildInv
  <2>2. CASE BuildExecuted(t)
    <3>1. pending' = [tx |-> t, result |-> Result(builder, t, env)] /\ ~Refused(builder, t, env)
      BY <2>2 DEF BuildExecuted, env
    <3>2. /\ Accepts(NextEvmEnv, builder.db, builder.gas_used, t)
          /\ Result(builder, t, env) = Outcome(NextEvmEnv, builder.db, t)
      BY <1>1, <1>2, <3>1, EvmOutcome
    <3>3. pending'.tx = t /\ pending'.result = Outcome(NextEvmEnv, builder.db, t)
      BY <3>1, <3>2
    <3> QED
      BY <1>5, <1>6, <3>2, <3>3 DEF BuildInv, SameData
  <2> QED
    BY <2>1, <2>2
<1>8. ImportInv'
  BY <1>3 DEF Inv, ImportInv
<1> QED
  BY <1>6, <1>7, <1>8 DEF Inv

LEMMA CommitStep == Inv /\ BuildCommitted => Inv'
<1> SUFFICES ASSUME Inv, BuildCommitted
             PROVE  Inv'
  OBVIOUS
<1>1. PICK n \in Nat : n = Len(block)
  BY DEF Inv, BuildInv
<1>2. PICK t \in Txs : /\ t = pending.tx
                      /\ Accepts(NextEvmEnv, builder.db, builder.gas_used, t)
                      /\ pending.result = Outcome(NextEvmEnv, builder.db, t)
  BY DEF Inv, BuildInv, BuildCommitted
<1>3. /\ block' = Append(block, t) /\ pending' = None /\ chain' = chain /\ phase' = phase
      /\ importer' = importer /\ pos' = pos
      /\ builder' = CommitTransaction(builder, Outcome(NextEvmEnv, builder.db, t))
  BY <1>2 DEF BuildCommitted
<1>4. /\ Ran(builder, NextEvmEnv, block, n) /\ chain \in Chains /\ block \in Seq(Txs)
      /\ IsExecutor(builder) /\ builder.db \in States /\ builder.db = StateAt(builder, n)
  BY <1>1 DEF Inv, BuildInv, Ran, IsExecutor
<1>5. IsBlockEnv(NextEvmEnv) /\ NextEvmEnv' = NextEvmEnv
  BY <1>3, <1>4, BlockEnvs DEF NextEvmEnv, BlockEnv, Beneficiary
<1>6. Len(block') = n + 1 /\ block'[n + 1] = t /\ block' \in Seq(Txs) /\ \A i \in 1 .. n : block'[i] = block[i]
  BY <1>1, <1>3, <1>4
<1>7. /\ Ran(builder', NextEvmEnv, block', n + 1)
      /\ \A k \in 0 .. n : StateAt(builder', k) = StateAt(builder, k)
      /\ StateAt(builder', n + 1) = Post(NextEvmEnv, builder.db, t)
  <2>1. Longer(block', block, n, t)
    BY <1>6 DEF Longer
  <2>2. SameData(builder, builder)
    BY <1>4 DEF SameData
  <2>3. Ran(builder', NextEvmEnv, block', n + 1) /\ Grown(builder', builder, n)
    BY <1>2, <1>3, <1>4, <1>5, <2>1, <2>2, RunStep
  <2>4. n + 1 \in 1 .. n + 1 /\ n \in 0 .. n /\ (n + 1) - 1 = n /\ n + 1 # 0
    OBVIOUS
  <2>5. builder'.hook[n + 1] = [index |-> n, state |-> Post(NextEvmEnv, builder.db, t)]
    BY <1>4, <1>6, <2>3, <2>4 DEF Ran, Grown
  <2> QED
    BY <2>3, <2>4, <2>5 DEF Grown, StateAt
<1>8. BuildInv'
  BY <1>3, <1>4, <1>5, <1>6, <1>7 DEF BuildInv
<1>9. builder'.db = Post(NextEvmEnv, builder.db, t)
  BY <1>7 DEF Ran
<1>10. NonceInv'
  BY <1>1, <1>3, <1>4, <1>5, <1>7, CommitNonces
<1>11. FeesInv'
  <2>1. \A k \in 0 .. n : StateAt(builder, k) \in States
    BY <1>4, StatesOfRun
  <2> QED
    BY <1>1, <1>3, <1>4, <1>5, <1>7, <1>9, <2>1, CommitFees
<1>12. ImportInv'
  <2>1. phase = "build"
    BY DEF Inv, ImportInv, BuildCommitted
  <2> QED
    BY <1>3, <2>1 DEF Inv, ImportInv
<1> QED
  BY <1>8, <1>10, <1>11, <1>12 DEF Inv

\* What the block's transactions paid are amounts, so their sums grow one by one.
LEMMA SumsOfPaid ==
  ASSUME Inv, NEW n \in 0 .. Len(block)
  PROVE  /\ SumTo(PaidByAll, n) \in Int
         /\ n < Len(block) => /\ SumTo(PaidByAll, n + 1) = SumTo(PaidByAll, n) + PaidAt(builder, n + 1)
                              /\ PaidAt(builder, n + 1) \in Nat
<1>1. /\ chain \in Chains /\ block \in Seq(Txs) /\ Len(block) \in Nat
      /\ Ran(builder, NextEvmEnv, block, Len(block))
  BY DEF Inv, BuildInv
<1>2. IsBlockEnv(NextEvmEnv)
  BY <1>1, BlockEnvs
<1>3. \A k \in 0 .. Len(block) : StateAt(builder, k) \in States
  BY <1>1, StatesOfRun
<1>4. \A i \in 1 .. Len(block) : PaidAt(builder, i) \in Nat
  <2> SUFFICES ASSUME NEW i \in 1 .. Len(block)
               PROVE  PaidAt(builder, i) \in Nat
    OBVIOUS
  <2>1. i - 1 \in 0 .. Len(block) /\ block[i] \in Txs
    BY <1>1
  <2> QED
    BY <1>2, <1>3, <2>1, Amounts DEF PaidAt
<1> DEFINE w == PaidByAll
<1>5. \A i \in 1 .. Len(block) : w[i] \in Int /\ w[i] = PaidAt(builder, i)
  BY <1>4 DEF PaidByAll
<1> HIDE DEF w
<1>6. SumTo(w, n) \in Int
  BY <1>1, <1>5, SumInt
<1>7. CASE n < Len(block)
  <2>1. n + 1 \in 1 .. Len(block) /\ n \in Nat /\ \A i \in 1 .. n : i \in 1 .. Len(block)
    BY <1>1, <1>7
  <2>2. SumTo(w, n + 1) = SumTo(w, n) + w[n + 1]
    BY <1>5, <2>1, SumStep
  <2> QED
    BY <1>4, <1>5, <1>6, <2>1, <2>2 DEF w
<1> QED
  BY <1>6, <1>7 DEF w

\* The importer starts with the builder's environment but for the recipient,
\* from either source, and with an empty history.
LEMMA SealStep == Inv /\ Seal => Inv'
<1> SUFFICES ASSUME Inv, Seal
             PROVE  Inv'
  OBVIOUS
<1>1. /\ phase = "build" /\ pending = None /\ phase' = "import" /\ chain' = chain
      /\ header' = Assembled(builder.env) /\ builder' = builder /\ pending' = pending
      /\ block' = block /\ pos' = pos /\ route' \in {"recovered", "encoded", "cached"}
  BY DEF Seal
<1>2. /\ chain \in Chains /\ builder.env = NextEvmEnv /\ IsExecutor(builder) /\ pos = 1
      /\ block \in Seq(Txs) /\ Len(block) \in Nat
  BY <1>1 DEF Inv, BuildInv, ImportInv, Ran
<1>3. /\ ImportEnv' = ImportEnv /\ NextEvmEnv' = NextEvmEnv /\ NonceInv' /\ FeesInv' /\ chain' \in Chains
      /\ block' \in Seq(Txs) /\ Ran(builder', NextEvmEnv, block', Len(block'))
      /\ \A k : MovedAt(k)' = MovedAt(k)
  BY <1>1, <1>2, SameHistory DEF SameData
<1>4. BuildInv'
  BY <1>1, <1>3 DEF BuildInv
<1>5. importer' = NewExecutor(ImportEnv)
  <2>1. /\ EvmEnv(header') = EvmEnv(Assembled(NextEvmEnv))
        /\ EvmEnvForPayload(PayloadOf(header'))
             = EvmEnvForPayload(PayloadOf(Assembled(NextEvmEnv)))
    BY <1>1, <1>2
  <2>2. importer' \in {NewExecutor(EvmEnv(header')), NewExecutor(EvmEnvForPayload(PayloadOf(header')))}
    BY DEF Seal
  <2> QED
    BY <1>2, <2>1, <2>2, BlockEnvs
<1>6. Ran(importer', ImportEnv, block', 0)
  BY <1>5, FreshRan
<1>7. MovedAt(0) = ParentState /\ StateAt(importer', 0) = ParentState
  <2>1. ParentState \in States
    BY StateAssumption DEF States, Oracles
  <2>2. NextEvmEnv.beneficiary \in Others /\ ImportEnv.beneficiary \in Others
    BY <1>2, BlockEnvs DEF IsBlockEnv
  <2>3. SumTo(PaidByAll, 0) = 0
    BY SumZero
  <2>4. Moved(ParentState, NextEvmEnv.beneficiary, ImportEnv.beneficiary, 0) = ParentState
    BY <2>1, <2>2, MovedNothing
  <2> QED
    BY <2>3, <2>4 DEF MovedAt, StateAt
<1>8. PICK m \in Nat : infos' = [i \in 1 .. m |-> IF i <= Len(block) THEN Info(block[i])
                                              ELSE [ratio |-> Precision, size |-> 1]]
  BY <1>2 DEF Seal
<1>9. Len(infos') = m
  BY <1>8
<1>10. \A i \in 1 .. Len(block') : i <= Len(infos') => infos'[i] = Info(block'[i])
  BY <1>1, <1>2, <1>8, <1>9
<1>11. /\ pos' - 1 = 0 /\ pos' \in 1 .. Len(block') + 1
       /\ \A i \in 1 .. pos' - 1 : importer'.receipts[i] = builder'.receipts[i]
       /\ \A k \in 0 .. pos' - 1 : StateAt(importer', k) = MovedAt(k)'
  <2>1. pos' - 1 = 0 /\ pos' \in 1 .. Len(block') + 1
    BY <1>1, <1>2
  <2>2. \A k \in 0 .. 0 : k = 0
    OBVIOUS
  <2>3. ~ \E i : i \in 1 .. 0
    OBVIOUS
  <2> QED
    BY <1>3, <1>7, <2>1, <2>2, <2>3
<1>12. ImportInv'
  BY <1>1, <1>3, <1>6, <1>9, <1>10, <1>11 DEF ImportInv
<1> QED
  BY <1>3, <1>4, <1>12 DEF Inv

\* The next transaction of the block is accepted as the builder accepted it, its
\* receipt is the builder's, and its fees go to the importer's own recipient.
LEMMA ImportStep == Inv /\ ImportTransaction => Inv'
<1> SUFFICES ASSUME Inv, ImportTransaction
             PROVE  Inv'
  OBVIOUS
<1> DEFINE t == block[pos]
           env == Env(t)
<1>1. /\ phase = "import" /\ pos \in 1 .. Len(block) /\ ~InfosMissing /\ pending = None
      /\ route \in {"recovered", "encoded", "cached"} /\ block \in Seq(Txs) /\ Len(block) \in Nat
      /\ chain \in Chains
  BY DEF ImportTransaction, Importing, Inv, ImportInv, BuildInv
<1>2. PICK n \in Nat : pos = n + 1
  BY <1>1
<1>3. /\ Ran(importer, ImportEnv, block, n) /\ Ran(builder, NextEvmEnv, block, Len(block))
      /\ t \in Txs /\ IsBlockEnv(NextEvmEnv) /\ IsBlockEnv(ImportEnv)
      /\ ImportEnv.gas_limit = NextEvmEnv.gas_limit /\ ImportEnv.basefee = NextEvmEnv.basefee
  BY <1>1, <1>2, BlockEnvs DEF Inv, ImportInv, BuildInv
<1>4. env \in EnvsOf(t)
  <2>1. CASE route = "cached"
    <3>1. infos[pos] = Info(t)
      BY <1>1, <2>1 DEF Inv, ImportInv, InfosMissing
    <3>2. Env(t) = FromTxWithCompressionInfo(t, Info(t))
      BY <2>1, <3>1 DEF Env
    <3> QED
      BY <3>2, RouteEnvs
  <2>2. CASE route # "cached"
    BY <1>1, <2>2, RouteEnvs DEF Env
  <2> QED
    BY <2>1, <2>2
<1> HIDE DEF env
<1>5. IsExecutor(importer) /\ importer.env = ImportEnv
  BY <1>3 DEF Ran
<1>6. /\ \A i \in 1 .. n : importer.receipts[i] = builder.receipts[i]
      /\ \A k \in 0 .. n : StateAt(importer, k) = MovedAt(k)
  BY <1>1, <1>2 DEF Inv, ImportInv
<1>7. importer.db = MovedAt(n) /\ importer.gas_used = GasAt(builder, n)
  <2>1. importer.db = StateAt(importer, n) /\ importer.gas_used = GasAt(importer, n)
    BY <1>3 DEF Ran
  <2>2. (n = 0 \/ n \in 1 .. n) /\ n \in 0 .. n
    OBVIOUS
  <2> QED
    BY <1>6, <2>1, <2>2 DEF GasAt
<1> DEFINE q == StateAt(builder, n)
           s == SumTo(PaidByAll, n)
<1>8. /\ Accepts(NextEvmEnv, q, importer.gas_used, t)
      /\ StateAt(builder, n + 1) = Post(NextEvmEnv, q, t)
      /\ builder.receipts[n + 1] = BuildReceipt(Outcome(NextEvmEnv, q, t),
                                              importer.gas_used + Attr[t].used)
  <2>1. pos - 1 = n /\ n + 1 # 0
    BY <1>2
  <2>2. /\ Accepts(NextEvmEnv, StateAt(builder, pos - 1), GasAt(builder, pos - 1), block[pos])
        /\ builder.hook[pos] = [index |-> pos - 1,
                                state |-> Post(NextEvmEnv, StateAt(builder, pos - 1), block[pos])]
        /\ builder.receipts[pos] = BuildReceipt(Outcome(NextEvmEnv, StateAt(builder, pos - 1), block[pos]),
                                                GasAt(builder, pos - 1) + Attr[block[pos]].used)
    BY <1>1, <1>3 DEF Ran
  <2>3. builder.hook[n + 1].state = Post(NextEvmEnv, q, t)
    BY <1>2, <2>1, <2>2
  <2> QED
    BY <1>2, <1>7, <2>1, <2>2, <2>3 DEF StateAt
<1>9. /\ q \in States /\ s \in Int
      /\ SumTo(PaidByAll, n + 1) = s + Paid(NextEvmEnv, q, t)
  <2>1. n \in 0 .. Len(block) /\ n < Len(block) /\ (n + 1) - 1 = n
    BY <1>1, <1>2
  <2>2. q \in States
    BY <1>1, <1>3, <2>1, StatesOfRun
  <2>3. PaidAt(builder, n + 1) = Paid(NextEvmEnv, q, t)
    BY <1>2, <2>1 DEF PaidAt
  <2> QED
    BY <2>1, <2>2, <2>3, SumsOfPaid
<1>10. importer.db = Moved(q, NextEvmEnv.beneficiary, ImportEnv.beneficiary, s)
  BY <1>7 DEF MovedAt
<1> HIDE DEF q, s
<1>11. /\ Accepts(ImportEnv, importer.db, importer.gas_used, t)
       /\ Post(ImportEnv, importer.db, t) = MovedAt(n + 1)
       /\ BuildReceipt(Outcome(ImportEnv, importer.db, t), importer.gas_used + Attr[t].used)
            = builder.receipts[n + 1]
  <2>1. /\ Accepts(ImportEnv, importer.db, importer.gas_used, t)
             <=> Accepts(NextEvmEnv, q, importer.gas_used, t)
        /\ Post(ImportEnv, importer.db, t)
             = Moved(Post(NextEvmEnv, q, t), NextEvmEnv.beneficiary, ImportEnv.beneficiary,
                     s + Paid(NextEvmEnv, q, t))
        /\ \A c : BuildReceipt(Outcome(ImportEnv, importer.db, t), c)
                    = BuildReceipt(Outcome(NextEvmEnv, q, t), c)
    BY <1>3, <1>9, <1>10, PostMoved
  <2> QED
    BY <1>8, <1>9, <2>1 DEF MovedAt
<1>12. ~Refused(importer, t, env) /\ Result(importer, t, env) = Outcome(ImportEnv, importer.db, t)
  BY <1>3, <1>4, <1>5, <1>11, EvmOutcome
<1> DEFINE y == Executed(importer, t, env)
<1>13. /\ importer' = CommitTransaction(y, Outcome(ImportEnv, importer.db, t))
       /\ pos' = pos + 1
       /\ UNCHANGED <<chain, header, phase, offers, builder, pending, block, route, infos, error>>
  BY <1>12 DEF ImportTransaction, env
<1>14. SameData(y, importer)
  BY <1>3, <1>5, SwitchesOnly
<1> HIDE DEF y
<1>15. /\ Ran(importer', ImportEnv, block, n + 1)
       /\ \A k \in 1 .. n : importer'.receipts[k] = importer.receipts[k]
       /\ \A k \in 0 .. n : /\ StateAt(importer', k) = StateAt(importer, k)
                            /\ GasAt(importer', k) = GasAt(importer, k)
  <2>1. Longer(block, block, n, t)
    BY <1>2 DEF Longer
  <2>2. Ran(importer', ImportEnv, block, n + 1) /\ Grown(importer', importer, n)
    BY <1>3, <1>11, <1>13, <1>14, <2>1, RunStep
  <2> QED
    BY <2>2 DEF Grown
<1>16. importer'.receipts[n + 1] = builder.receipts[n + 1] /\ StateAt(importer', n + 1) = MovedAt(n + 1)
  <2>1. n + 1 \in 1 .. n + 1 /\ (n + 1) - 1 = n /\ n \in 0 .. n /\ n + 1 # 0
    OBVIOUS
  <2>2. StateAt(importer', n) = importer.db /\ GasAt(importer', n) = importer.gas_used
    <3>1. importer.db = StateAt(importer, n) /\ importer.gas_used = GasAt(importer, n)
      BY <1>3 DEF Ran
    <3> QED
      BY <1>15, <2>1, <3>1
  <2>3. /\ importer'.hook[n + 1] = [index |-> n, state |-> Post(ImportEnv, importer.db, t)]
        /\ importer'.receipts[n + 1] = BuildReceipt(Outcome(ImportEnv, importer.db, t),
                                                   importer.gas_used + Attr[t].used)
    BY <1>2, <1>15, <2>1, <2>2, ZenonT(40) DEF Ran
  <2>4. StateAt(importer', n + 1) = Post(ImportEnv, importer.db, t)
    BY <2>1, <2>3 DEF StateAt
  <2> QED
    BY <1>11, <2>3, <2>4
<1>17. /\ \A i \in 1 .. n + 1 : importer'.receipts[i] = builder.receipts[i]
       /\ \A k \in 0 .. n + 1 : StateAt(importer', k) = MovedAt(k)
  <2>1. \A i \in 1 .. n + 1 : i = n + 1 \/ i \in 1 .. n
    OBVIOUS
  <2>2. \A k \in 0 .. n + 1 : k = n + 1 \/ k \in 0 .. n
    OBVIOUS
  <2> QED
    BY <1>6, <1>15, <1>16, <2>1, <2>2
<1>18. IsExecutor(builder)
  BY <1>3 DEF Ran
<1>19. /\ NextEvmEnv' = NextEvmEnv /\ ImportEnv' = ImportEnv /\ NonceInv' /\ FeesInv'
       /\ chain' \in Chains /\ \A k : MovedAt(k)' = MovedAt(k)
       /\ block' \in Seq(Txs) /\ Ran(builder', NextEvmEnv, block', Len(block'))
  BY <1>13, <1>18, SameHistory DEF SameData
<1>20. BuildInv'
  BY <1>1, <1>13, <1>19 DEF BuildInv
<1>21. ImportInv'
  <2>1. pos' - 1 = n + 1 /\ pos' \in 1 .. Len(block) + 1
    BY <1>1, <1>2, <1>13
  <2>2. route = "cached" => pos <= Len(infos) /\ \A i \in 1 .. Len(block) : i <= Len(infos) => infos[i] = Info(block[i])
    BY <1>1 DEF Inv, ImportInv, InfosMissing
  <2>3. Len(infos) \in Nat
    BY <1>1 DEF Inv, ImportInv
  <2> HIDE DEF t
  <2> QED
    BY <1>1, <1>2, <1>13, <1>15, <1>17, <1>19, <2>1, <2>2, <2>3 DEF ImportInv
<1> QED
  BY <1>19, <1>20, <1>21 DEF Inv

\* Steps that end the import, and stuttering.
LEMMA EndStep ==
  ASSUME Inv, BuildDiscarded \/ FewerInfos \/ MoreInfos \/ Finish \/ UNCHANGED xvars
  PROVE  Inv'
<1>1. /\ chain' = chain /\ builder' = builder /\ block' = block /\ importer' = importer
      /\ route' = route /\ infos' = infos /\ pos' = pos
      /\ pending' = None \/ pending' = pending
  BY DEF BuildDiscarded, FewerInfos, MoreInfos, Finish, Fail, xvars
<1>2. IsExecutor(builder) /\ Len(block) \in Nat
  BY DEF Inv, BuildInv, Ran
<1>3. /\ NextEvmEnv' = NextEvmEnv /\ ImportEnv' = ImportEnv /\ NonceInv' /\ FeesInv'
      /\ chain' \in Chains /\ \A k : MovedAt(k)' = MovedAt(k)
      /\ block' \in Seq(Txs) /\ Ran(builder', NextEvmEnv, block', Len(block'))
  BY <1>1, <1>2, SameHistory DEF SameData
<1>4. BuildInv'
  BY <1>1, <1>3 DEF Inv, BuildInv
<1>5. ImportInv'
  <2>1. CASE BuildDiscarded \/ UNCHANGED xvars
    <3>1. phase' = phase
      BY <2>1 DEF BuildDiscarded, xvars
    <3> QED
      BY <1>1, <1>3, <3>1 DEF Inv, ImportInv
  <2>2. CASE FewerInfos
    <3>1. /\ phase = "import" /\ phase' = "failed" /\ route = "cached"
          /\ pos <= Len(block) /\ pos > Len(infos)
      BY <2>2 DEF FewerInfos, Importing, InfosMissing, Fail
    <3>2. Len(infos) \in Nat /\ pos \in Nat
      BY <1>2, <3>1 DEF Inv, ImportInv
    <3>3. Len(infos) # Len(block)
      BY <1>2, <3>1, <3>2
    <3> QED
      BY <1>1, <1>3, <3>1, <3>3 DEF Inv, ImportInv
  <2>3. CASE MoreInfos
    <3>1. /\ phase = "import" /\ phase' = "failed" /\ route = "cached"
          /\ pos > Len(block) /\ pos <= Len(infos)
      BY <2>3 DEF MoreInfos, InfosLeft, Fail
    <3>2. Len(infos) \in Nat /\ pos \in Nat
      BY <1>2, <3>1 DEF Inv, ImportInv
    <3>3. Len(infos) # Len(block)
      BY <1>2, <3>1, <3>2
    <3> QED
      BY <1>1, <1>3, <3>1, <3>3 DEF Inv, ImportInv
  <2>4. CASE Finish
    <3>1. /\ phase = "import" /\ phase' = "imported" /\ pos > Len(block)
          /\ route = "cached" => pos > Len(infos)
      <4>1. phase = "import"
        BY <2>4 DEF Finish
      <4>2. Len(infos) \in Nat /\ pos \in Nat
        BY <1>2, <4>1 DEF Inv, ImportInv
      <4> QED
        BY <2>4, <4>2 DEF Finish, InfosLeft
    <3>2. /\ Len(infos) \in Nat /\ pos \in 1 .. Len(block) + 1
          /\ route = "cached" => pos - 1 <= Len(infos)
      BY <3>1 DEF Inv, ImportInv
    <3>3. pos = Len(block) + 1 /\ (route = "cached" => Len(infos) = Len(block))
      BY <1>2, <3>1, <3>2
    <3> QED
      BY <1>1, <1>3, <3>1, <3>3 DEF Inv, ImportInv
  <2> QED
    BY <2>1, <2>2, <2>3, <2>4
<1> QED
  BY <1>3, <1>4, <1>5 DEF Inv

LEMMA NextInv == Inv /\ [Next]_xvars => Inv'
  BY BuildStep, CommitStep, SealStep, ImportStep, EndStep DEF Next

\* Every reachable state of the execution has the invariant.
THEOREM ExecutionInv == ExecutionSpec => []Inv
  BY InitInv, NextInv, PTL DEF ExecutionSpec

-----------------------------------------------------------------------------
(* The properties *)

LEMMA RanIsAccounted ==
  ASSUME NEW x, NEW e, NEW txs \in Seq(Txs), NEW n \in 0 .. Len(txs), Ran(x, e, txs, n),
         IsBlockEnv(e)
  PROVE  /\ x.gas_used <= x.env.gas_limit
         /\ x.receipts # <<>> =>
              x.receipts[Len(x.receipts)].cumulative_gas_used = x.gas_used
         /\ Len(x.hook) = Len(x.receipts)
         /\ \A i \in 1 .. Len(x.hook) : x.hook[i].index = i - 1
         /\ x.db = IF x.hook = <<>> THEN ParentState ELSE x.hook[Len(x.hook)].state
<1>1. /\ x.env = e /\ Len(x.hook) = n /\ Len(x.receipts) = n /\ x.db = StateAt(x, n)
      /\ x.gas_used = GasAt(x, n) /\ x.receipts \in Seq(Receipts) /\ x.hook \in Seq(Updates)
      /\ n \in Nat
  BY DEF Ran, IsExecutor
<1>2. \A i \in 1 .. n : x.hook[i].index = i - 1
  <2>1. \A i \in 1 .. n :
          x.hook[i] = [index |-> i - 1, state |-> Post(e, StateAt(x, i - 1), txs[i])]
    BY Zenon DEF Ran
  <2> SUFFICES ASSUME NEW i \in 1 .. n
               PROVE  x.hook[i].index = i - 1
    OBVIOUS
  <2>2. x.hook[i] = [index |-> i - 1, state |-> Post(e, StateAt(x, i - 1), txs[i])]
    BY <2>1
  <2> QED
    BY <2>2
<1>3. (x.hook = <<>> <=> n = 0) /\ (x.receipts = <<>> <=> n = 0)
  BY <1>1
<1>4. x.gas_used <= e.gas_limit
  <2>1. CASE n = 0
    BY <1>1, <2>1 DEF GasAt, IsBlockEnv
  <2>2. CASE n # 0
    <3>1. n \in 1 .. n /\ txs[n] \in Txs
      BY <1>1, <2>2
    <3>2. /\ Attr[txs[n]].gas <= e.gas_limit - GasAt(x, n - 1)
          /\ x.receipts[n] = BuildReceipt(Outcome(e, StateAt(x, n - 1), txs[n]),
                                          GasAt(x, n - 1) + Attr[txs[n]].used)
      BY <3>1 DEF Ran, Accepts
    <3>3. x.gas_used = GasAt(x, n - 1) + Attr[txs[n]].used
      BY <1>1, <2>2, <3>2 DEF GasAt, BuildReceipt
    <3>4. GasAt(x, n - 1) \in Nat
      <4>1. \A k \in 1 .. n : x.receipts[k] \in Receipts
        BY <1>1
      <4>2. CASE n = 1
        BY <4>2 DEF GasAt
      <4>3. CASE n # 1
        <5>1. n - 1 \in 1 .. n /\ n - 1 # 0
          BY <1>1, <2>2, <4>3
        <5>2. x.receipts[n - 1].cumulative_gas_used \in Nat
          BY <4>1, <5>1 DEF Receipts
        <5> QED
          BY <5>1, <5>2 DEF GasAt
      <4> QED
        BY <4>2, <4>3
    <3>5. /\ Attr[txs[n]].gas \in Nat /\ Attr[txs[n]].used \in Nat
          /\ Attr[txs[n]].used <= Attr[txs[n]].gas
      BY <3>1, ExecutionAssumption
    <3> QED
      BY <3>2, <3>3, <3>4, <3>5 DEF IsBlockEnv
  <2> QED
    BY <2>1, <2>2
<1> QED
  BY <1>1, <1>2, <1>3, <1>4 DEF StateAt, GasAt

\* Receipts, gas, hook and database of both executors agree, and the gas of a
\* block stays within its limit (commit_transaction, finish).
THEOREM CommittedIsAccountedThm == ExecutionSpec => []CommittedIsAccounted
<1>1. Inv => CommittedIsAccounted
  <2> SUFFICES ASSUME Inv
               PROVE  CommittedIsAccounted
    OBVIOUS
  <2>1. /\ IsBlockEnv(NextEvmEnv) /\ IsBlockEnv(ImportEnv) /\ block \in Seq(Txs)
        /\ Len(block) \in Nat /\ Ran(builder, NextEvmEnv, block, Len(block))
    BY BlockEnvs DEF Inv, BuildInv
  <2>2. importer # None =>
          Ran(importer, ImportEnv, block, pos - 1) /\ pos - 1 \in 0 .. Len(block)
    BY <2>1 DEF Inv, ImportInv
  <2>3. \A x \in Executors : \E n \in 0 .. Len(block), e \in {NextEvmEnv, ImportEnv} :
          Ran(x, e, block, n)
    BY <2>1, <2>2 DEF Executors
  <2> QED
    BY <2>1, <2>3, RanIsAccounted DEF CommittedIsAccounted
<1> QED
  BY <1>1, ExecutionInv, PTL

\* Every committed transaction but an L1 message passed the base-fee and nonce
\* checks, whatever ran before it (execute_transaction_without_commit).
THEOREM ChecksRestoredThm == ExecutionSpec => []ChecksRestored
<1>1. Inv => ChecksRestored
  <2> SUFFICES ASSUME Inv, NEW i \in 1 .. Len(block), ~IsL1(block[i])
               PROVE  /\ Attr[block[i]].price >= builder.env.basefee
                      /\ Attr[block[i]].nonce = ParentState.accounts[Attr[block[i]].sender].nonce
                           + Cardinality({j \in 1 .. i - 1 :
                                            Attr[block[j]].sender = Attr[block[i]].sender})
    BY DEF ChecksRestored
  <2>1. block[i] \in Txs /\ i - 1 \in 0 .. Len(block)
    BY DEF Inv, BuildInv
  <2>2. builder.env = NextEvmEnv /\ Accepts(NextEvmEnv, StateAt(builder, i - 1), GasAt(builder, i - 1), block[i])
    BY DEF Inv, BuildInv, Ran
  <2>3. /\ Attr[block[i]].price >= builder.env.basefee
        /\ Attr[block[i]].nonce = StateAt(builder, i - 1).accounts[Attr[block[i]].sender].nonce
    BY <2>2 DEF Accepts
  <2>4. Attr[block[i]].sender \in Senders
    BY <2>1, ExecutionAssumption
  <2> QED
    BY <2>1, <2>3, <2>4 DEF Inv, NonceInv, SentBefore
<1> QED
  BY <1>1, ExecutionInv, PTL

\* What the receipts say of a transaction is what was paid for it.
LEMMA ChargesArePaid ==
  ASSUME Inv
  PROVE  Charges = PaidByAll /\ \A s : ChargesTo(s) = PaidBy(s)
<1>1. /\ Ran(builder, NextEvmEnv, block, Len(block)) /\ block \in Seq(Txs) /\ Len(block) \in Nat
      /\ IsBlockEnv(NextEvmEnv)
  BY BlockEnvs DEF Inv, BuildInv
<1>2. ASSUME NEW i \in 1 .. Len(block)
      PROVE  ChargeOf(i) = PaidAt(builder, i)
  <2>1. block[i] \in Txs /\ FromRecoveredTx(block[i]) \in EnvsOf(block[i])
    BY <1>1, RouteEnvs
  <2>2. CASE IsL1(block[i])
    BY <2>2 DEF ChargeOf, PaidAt, Paid
  <2>3. CASE ~IsL1(block[i])
    <3> DEFINE t == block[i]
               q == StateAt(builder, i - 1)
               g == GasAt(builder, i - 1)
    <3>1. builder.receipts[i] = BuildReceipt(Outcome(NextEvmEnv, q, t), g + Attr[t].used)
      BY <1>1 DEF Ran
    <3>2. builder.receipts[i].l1_fee = Cost(t, q)
      BY <2>3, <3>1 DEF BuildReceipt, Outcome, IsL1
    <3>3. builder.receipts[i].cumulative_gas_used = g + Attr[t].used
      BY <3>1 DEF BuildReceipt
    <3>4. g \in Nat /\ g = IF i = 1 THEN 0 ELSE builder.receipts[i - 1].cumulative_gas_used
      <4>1. \A k \in 1 .. Len(block) : builder.receipts[k] \in Receipts
        BY <1>1 DEF Ran, IsExecutor
      <4> QED
        BY <4>1 DEF GasAt, Receipts
    <3>5. GasOf(i) = Attr[t].used
      <4>1. Attr[t].used \in Nat
        BY <2>1, ExecutionAssumption
      <4> HIDE DEF g
      <4> QED
        BY <3>3, <3>4, <4>1 DEF GasOf
    <3>6. EffectivePrice(builder, FromRecoveredTx(t)) = PriceIn(NextEvmEnv, t)
      BY <1>1, <2>1, <2>3, Routes DEF EffectivePrice, PriceIn, Ran
    <3> QED
      BY <2>3, <3>2, <3>5, <3>6 DEF ChargeOf, PaidAt, Paid
  <2> QED
    BY <2>2, <2>3
<1> QED
  BY <1>2 DEF Charges, PaidByAll, ChargesTo, PaidBy

\* Balances move by what the receipts say, also when a transaction of the
\* block moves the gas oracle (l1_fee is read before the commit).
THEOREM FeesAreChargedThm == ExecutionSpec => []FeesAreCharged
<1>1. Inv => FeesAreCharged
  <2> SUFFICES ASSUME Inv
               PROVE  FeesAreCharged
    OBVIOUS
  <2>1. Charges = PaidByAll /\ \A s : ChargesTo(s) = PaidBy(s)
    BY ChargesArePaid
  <2>2. NextEvmEnv.beneficiary = Beneficiary(chain.suggested_fee_recipient)
    BY DEF NextEvmEnv, BlockEnv
  <2> QED
    BY <2>1, <2>2 DEF Inv, FeesInv, FeesAreCharged
<1> QED
  BY <1>1, ExecutionInv, PTL

\* An import by any route reproduces the build but for the recipient of the fees,
\* which a chain without a fee vault may leave to disagree, and fails only on a wrong
\* number of compression infos (execute_block_with_compression_cache).
THEOREM ImportAgreesThm == ExecutionSpec => []ImportAgrees
<1>1. Inv => ImportAgrees
  <2> SUFFICES ASSUME Inv
               PROVE  ImportAgrees
    OBVIOUS
  <2>1. ASSUME phase = "imported"
        PROVE  /\ importer.receipts = builder.receipts /\ importer.gas_used = builder.gas_used
               /\ importer.env = [builder.env EXCEPT !.beneficiary = Beneficiary(Zero)]
               /\ importer.db = Moved(builder.db, builder.env.beneficiary,
                                      importer.env.beneficiary, SumTo(Charges, Len(block)))
               /\ importer.env = builder.env =>
                    importer.hook = builder.hook /\ importer.db = builder.db
    <3>1. PICK n \in Nat : n = Len(block) /\ pos - 1 = n
      BY <2>1 DEF Inv, ImportInv, BuildInv
    <3>2. /\ Ran(builder, NextEvmEnv, block, n) /\ Ran(importer, ImportEnv, block, n)
          /\ \A i \in 1 .. n : importer.receipts[i] = builder.receipts[i]
          /\ \A k \in 0 .. n : StateAt(importer, k) = MovedAt(k)
          /\ chain \in Chains
      BY <2>1, <3>1 DEF Inv, ImportInv, BuildInv
    <3>3. /\ builder.hook \in Seq(Updates) /\ importer.hook \in Seq(Updates)
          /\ builder.receipts \in Seq(Receipts) /\ importer.receipts \in Seq(Receipts)
          /\ Len(builder.hook) = n /\ Len(importer.hook) = n
          /\ Len(builder.receipts) = n /\ Len(importer.receipts) = n
          /\ builder.env = NextEvmEnv /\ importer.env = ImportEnv
          /\ builder.db = StateAt(builder, n) /\ importer.db = StateAt(importer, n)
      BY <3>2 DEF Ran, IsExecutor
    <3>4. importer.receipts = builder.receipts
      BY <3>2, <3>3
    <3>5. importer.gas_used = builder.gas_used
      BY <3>2, <3>4 DEF Ran, GasAt
    <3>6. importer.db = Moved(builder.db, builder.env.beneficiary,
                              importer.env.beneficiary, SumTo(Charges, Len(block)))
      <4>1. n \in 0 .. n
        OBVIOUS
      <4> QED
        BY <3>1, <3>2, <3>3, <4>1, ChargesArePaid DEF MovedAt
    <3>7. ASSUME importer.env = builder.env
          PROVE  importer.hook = builder.hook /\ importer.db = builder.db
      <4>1. \A k \in 0 .. n : StateAt(importer, k) = StateAt(builder, k)
        <5> SUFFICES ASSUME NEW k \in 0 .. n
                     PROVE  StateAt(importer, k) = StateAt(builder, k)
          OBVIOUS
        <5>1. StateAt(builder, k) \in States /\ SumTo(PaidByAll, k) \in Int
          BY <3>1, <3>2, StatesOfRun, SumsOfPaid
        <5>2. NextEvmEnv.beneficiary \in Others /\ ImportEnv.beneficiary = NextEvmEnv.beneficiary
          BY <3>2, <3>3, <3>7, BlockEnvs DEF IsBlockEnv
        <5>3. StateAt(importer, k) = MovedAt(k)
          BY <3>2
        <5>4. Moved(StateAt(builder, k), NextEvmEnv.beneficiary, NextEvmEnv.beneficiary,
                    SumTo(PaidByAll, k)) = StateAt(builder, k)
          BY <5>1, <5>2, MovedNothing
        <5> QED
          BY <5>2, <5>3, <5>4 DEF MovedAt
      <4>2. importer.db = builder.db
        BY <3>3, <4>1
      <4>3. \A i \in 1 .. n : importer.hook[i] = builder.hook[i]
        <5> SUFFICES ASSUME NEW i \in 1 .. n
                     PROVE  importer.hook[i] = builder.hook[i]
          OBVIOUS
        <5>1. i \in 0 .. n /\ i # 0
          OBVIOUS
        <5>2. importer.hook[i].state = builder.hook[i].state
          BY <4>1, <5>1 DEF StateAt
        <5>3. importer.hook[i] = [index |-> i - 1, state |-> Post(ImportEnv, StateAt(importer, i - 1), block[i])]
          BY <3>2, Zenon DEF Ran
        <5>4. builder.hook[i] = [index |-> i - 1, state |-> Post(NextEvmEnv, StateAt(builder, i - 1), block[i])]
          BY <3>2, Zenon DEF Ran
        <5> QED
          BY <5>2, <5>3, <5>4
      <4> QED
        BY <3>3, <4>2, <4>3
    <3>8. importer.env = [builder.env EXCEPT !.beneficiary = Beneficiary(Zero)]
      BY <3>3 DEF ImportEnv
    <3> QED
      BY <3>4, <3>5, <3>6, <3>7, <3>8
  <2> QED
    BY <2>1 DEF Inv, ImportInv, ImportAgrees
<1> QED
  BY <1>1, ExecutionInv, PTL
=============================================================================
