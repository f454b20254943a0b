------------------------- MODULE NodeRequestsProofs -------------------------
(***************************************************************************)
(* Theorems about TxSubmission and EngineRequests for every set of         *)
(* transactions, callers, requests and attributes.                         *)
(*                                                                         *)
(* Submission: where a call stands determines what it may have been told;  *)
(* a transaction has been admitted once for every time it left the pool,   *)
(* and once more while it is in it.                                        *)
(*                                                                         *)
(* Payloads: a job, and what was fetched from it, was started by some      *)
(* request whose attributes have the job's id; SameIdSameInputs shows what *)
(* two attributes with one id have in common.                              *)
(***************************************************************************)
EXTENDS EngineRequests, FiniteSetTheorems, SequenceTheorems, TLAPS

-----------------------------------------------------------------------------
(* The invariant of the submissions *)

Answers == {"none", "hash", "refused", "sequencerError", "dropped"}
MadeCalls == [pc : {"local", "forward", "sent", "done"}, tx : Txs, admitted : BOOLEAN,
              sent : BOOLEAN, answer : Answers]

CallTold(c) ==
  LET k == call[c] IN
  /\ k.pc = "local" => ~k.admitted /\ ~k.sent /\ k.answer = "none"
  /\ k.pc \in {"forward", "sent"} =>
       /\ handler \in {"await", "spawn"} /\ k.admitted
       /\ k.answer = IF handler = "spawn" THEN "hash" ELSE "none"
       /\ k.sent <=> k.pc = "sent"
  /\ k.pc = "done" =>
       /\ k.answer # "none"
       /\ k.answer = "refused" => ~k.admitted /\ ~k.sent
       /\ k.answer = "hash" => k.admitted /\ (handler = "await" => k.tx \in sequencer)
       /\ k.answer = "sequencerError" => k.admitted /\ k.sent
       /\ k.sent => k.admitted

CallInv ==
  /\ handler \in {"unset", "local", "await", "spawn"}
  /\ call \in [Callers -> {NoCall} \cup MadeCalls]
  /\ \A c \in Callers : call[c] # NoCall => handler # "unset" /\ CallTold(c)

PoolInv ==
  /\ pool \subseteq Txs
  /\ left \in [Txs -> Nat]
  /\ \A tx \in Txs : Cardinality(Admissions(tx)) = left[tx] + IF tx \in pool THEN 1 ELSE 0
  /\ \A tx \in Txs : tx \in sequencer => Admissions(tx) # {}

SubmitInv == CallInv /\ PoolInv

-----------------------------------------------------------------------------
(* The invariant of the payload requests *)

IsAttributes(a) ==
  /\ a.timestamp \in Nat /\ a.noTxPool \in BOOLEAN
  /\ TxList(a) \in Seq(ToSet(TxList(a)))
  /\ a.hint.extraData # None => a.hint.extraData \in Seq(ToSet(a.hint.extraData))

IsBlock(b) ==
  /\ b = [number |-> b.number, timestamp |-> b.timestamp, txs |-> b.txs, gas |-> b.gas,
          withdrawals |-> None, difficulty |-> 1]
  /\ b.timestamp \in Nat

Live == {"asked", "got", "done"}
Asked(r) == request[r].pc \in Live

\* Some request started it.
StartedFor(id, inputs) ==
  \E q \in Requests : /\ Asked(q) /\ PayloadId(request[q].attributes) = id
                      /\ Inputs(request[q].attributes) = inputs

ARequest(r) ==
  request[r] = [pc |-> request[r].pc, attributes |-> request[r].attributes,
                local |-> request[r].local, got |-> request[r].got]

\* What was fetched was built for some request, and hashes to what was built.
Fetched(id, got) ==
  /\ StartedFor(id, got.inputs)
  /\ got.version \in Versions
  /\ IsBlock(got.payload.hash)
  /\ got.payload = PayloadOf(got.payload.hash, got.version)

MadeRequest(r) ==
  /\ ARequest(r)
  /\ request[r].pc \in Live \cup {"refused"}
  /\ IsAttributes(request[r].attributes)
  /\ Asked(r) => FieldsValid(request[r].attributes.withdrawals, request[r].attributes.beaconRoot)
  /\ request[r].pc = "refused" => ~request[r].local
  /\ request[r].pc # "got" => request[r].got = None
  /\ request[r].pc = "got" => Fetched(PayloadId(request[r].attributes), request[r].got)

RequestInv ==
  /\ request = [r \in Requests |-> request[r]]
  /\ \A r \in Requests : request[r] = NoRequest \/ MadeRequest(r)

JobInv ==
  \A j \in jobs :
    /\ j = [id |-> j.id, inputs |-> j.inputs, built |-> j.built]
    /\ StartedFor(j.id, j.inputs)
    /\ j.built # None => IsBlock(j.built)

HeadInv ==
  /\ head.timestamp \in Nat
  /\ imported # None => (imported.ok <=> imported.version <= 2)

EngineInv == RequestInv /\ JobInv /\ HeadInv

-----------------------------------------------------------------------------
(* Submission *)

LEMMA SubmitInitInv == SubmitInit => SubmitInv
<1> SUFFICES ASSUME SubmitInit
             PROVE  SubmitInv
  OBVIOUS
<1>1. CallInv
  BY DEF SubmitInit, CallInv
<1>2. \A tx \in Txs : Admissions(tx) = {}
  BY DEF SubmitInit, Admissions, NoCall
<1>3. PoolInv
  BY <1>2, FS_EmptySet DEF SubmitInit, PoolInv
<1> QED
  BY <1>1, <1>3 DEF SubmitInv

\* A step of call c to k, which leaves what was admitted alone.
LEMMA CallMoves ==
  ASSUME SubmitInv, NEW c \in Callers, NEW k \in MadeCalls, call' = [call EXCEPT ![c] = k],
         handler # "unset", handler' = handler,
         sequencer' = sequencer \/ (k.admitted /\ sequencer' = sequencer \cup {k.tx}),
         pool' = pool, left' = left, CallTold(c)',
         k.admitted <=> call[c].admitted, call[c].admitted => k.tx = call[c].tx
  PROVE  SubmitInv'
<1>1. call \in [Callers -> {NoCall} \cup MadeCalls] /\ call'[c] = k
  BY DEF SubmitInv, CallInv
<1>2. \A d \in Callers \ {c} : call'[d] = call[d]
  BY <1>1
<1>3. call' \in [Callers -> {NoCall} \cup MadeCalls]
  BY <1>1
<1>4. sequencer \subseteq sequencer'
  OBVIOUS
<1>5. \A d \in Callers : call'[d] # NoCall => CallTold(d)'
  <2> SUFFICES ASSUME NEW d \in Callers \ {c}, call'[d] # NoCall
               PROVE  CallTold(d)'
    OBVIOUS
  <2>1. CallTold(d) /\ call'[d] = call[d]
    BY <1>2 DEF SubmitInv, CallInv
  <2> QED
    BY <1>4, <2>1 DEF CallTold
<1>6. CallInv'
  BY <1>3, <1>5 DEF SubmitInv, CallInv
<1>7. \A tx : Admissions(tx)' = Admissions(tx)
  BY <1>1, <1>2 DEF Admissions
<1>8. \A tx \in Txs : tx \in sequencer' => Admissions(tx)' # {}
  <2>1. k.admitted => c \in Admissions(k.tx)'
    BY <1>1 DEF Admissions
  <2> QED
    BY <1>7, <2>1 DEF SubmitInv, PoolInv
<1>9. PoolInv'
  BY <1>7, <1>8 DEF SubmitInv, PoolInv
<1> QED
  BY <1>6, <1>9 DEF SubmitInv

\* The pool gives up the transactions gone, each of which left once.
LEMMA PoolShrinks ==
  ASSUME SubmitInv, NEW gone, gone \subseteq Txs, pool' = pool \ gone,
         left' = [tx \in Txs |-> IF tx \in gone \cap pool THEN left[tx] + 1 ELSE left[tx]],
         handler' = handler, call' = call, sequencer' = sequencer
  PROVE  SubmitInv'
<1>1. CallInv'
  BY DEF SubmitInv, CallInv, CallTold
<1>2. \A tx : Admissions(tx)' = Admissions(tx)
  BY DEF Admissions
<1>3. pool' \subseteq Txs /\ left' \in [Txs -> Nat]
  BY DEF SubmitInv, PoolInv
<1>4. ASSUME NEW tx \in Txs
      PROVE  Cardinality(Admissions(tx)') = left'[tx] + IF tx \in pool' THEN 1 ELSE 0
  <2>1. left[tx] \in Nat /\ Cardinality(Admissions(tx)) = left[tx] + IF tx \in pool THEN 1 ELSE 0
    BY DEF SubmitInv, PoolInv
  <2>2. left'[tx] = IF tx \in gone /\ tx \in pool THEN left[tx] + 1 ELSE left[tx]
    OBVIOUS
  <2>3. tx \in pool' <=> tx \in pool /\ tx \notin gone
    OBVIOUS
  <2>4. Admissions(tx)' = Admissions(tx)
    BY <1>2
  <2> QED
    BY <2>1, <2>2, <2>3, <2>4
<1>5. PoolInv'
  BY <1>2, <1>3, <1>4 DEF SubmitInv, PoolInv
<1> QED
  BY <1>1, <1>5 DEF SubmitInv

\* A step of call c to k with which the pool takes its transaction.
LEMMA CallAdmits ==
  ASSUME SubmitInv, NEW c \in Callers, NEW k \in MadeCalls, call' = [call EXCEPT ![c] = k],
         handler # "unset", ~call[c].admitted, k.admitted, NEW t \in Txs, k.tx = t,
         t \notin pool, pool' = pool \cup {t}, handler' = handler, left' = left,
         sequencer' = sequencer, CallTold(c)'
  PROVE  SubmitInv'
<1>1. call \in [Callers -> {NoCall} \cup MadeCalls]
  BY DEF SubmitInv, CallInv
<1>2. call' \in [Callers -> {NoCall} \cup MadeCalls] /\ call'[c] = k
  BY <1>1
<1>3. \A d \in Callers \ {c} : call'[d] = call[d]
  BY <1>1
<1>4. CallInv'
  <2>1. ASSUME NEW d \in Callers \ {c}, call'[d] # NoCall
        PROVE  CallTold(d)'
    <3>1. CallTold(d) /\ call'[d] = call[d]
      BY <1>3, <2>1 DEF SubmitInv, CallInv
    <3> QED
      BY <3>1 DEF CallTold
  <2>2. \A d \in Callers : call'[d] # NoCall => handler' # "unset" /\ CallTold(d)'
    BY <2>1
  <2> QED
    BY <1>2, <2>2 DEF SubmitInv, CallInv
<1>8. Admissions(t)' = Admissions(t) \cup {c} /\ c \notin Admissions(t)
  BY <1>2, <1>3 DEF Admissions
<1>9. \A tx : tx # t => Admissions(tx)' = Admissions(tx)
  BY <1>2, <1>3 DEF Admissions
<1>10. ASSUME NEW tx \in Txs
       PROVE  Cardinality(Admissions(tx)') = left'[tx] + IF tx \in pool' THEN 1 ELSE 0
  <2>1. CASE tx = t
    <3>1. IsFiniteSet(Admissions(t))
      BY CallersAssumption, FS_Subset DEF Admissions
    <3>2. Cardinality(Admissions(t)') = Cardinality(Admissions(t)) + 1
      BY <1>8, <3>1, FS_AddElement
    <3>3. Cardinality(Admissions(t)) = left[t] /\ left[t] \in Nat
      BY DEF SubmitInv, PoolInv
    <3> QED
      BY <2>1, <3>2, <3>3
  <2>2. CASE tx # t
    BY <1>9, <2>2 DEF SubmitInv, PoolInv
  <2> QED
    BY <2>1, <2>2
<1>11. PoolInv'
  <2>1. \A tx \in Txs : tx \in sequencer' => Admissions(tx)' # {}
    BY <1>8, <1>9 DEF SubmitInv, PoolInv
  <2>2. pool' \subseteq Txs /\ left' \in [Txs -> Nat]
    BY DEF SubmitInv, PoolInv
  <2> QED
    BY <1>10, <2>1, <2>2 DEF PoolInv
<1> QED
  BY <1>4, <1>11 DEF SubmitInv

\* Where a call stands that has been made.
LEMMA CallMade ==
  ASSUME SubmitInv, NEW c \in Callers, call[c].pc \in {"local", "forward", "sent"}
  PROVE  /\ call \in [Callers -> {NoCall} \cup MadeCalls]
         /\ call[c] \in MadeCalls /\ CallTold(c) /\ call[c].tx \in Txs
         /\ handler \in {"local", "await", "spawn"}
<1>1. call \in [Callers -> {NoCall} \cup MadeCalls]
  BY DEF SubmitInv, CallInv
<1>2. call[c] # NoCall
  BY DEF NoCall
<1> QED
  BY <1>1, <1>2 DEF SubmitInv, CallInv, MadeCalls

LEMMA AdmitStep ==
  ASSUME SubmitInv, NEW c \in Callers, LocalAdmit(c)
  PROVE  SubmitInv'
<1> DEFINE k == AfterAdmission(c)
<1>1. PICK t : t = call[c].tx
  OBVIOUS
<1>2. /\ call[c].pc = "local" /\ call' = [call EXCEPT ![c] = k] /\ pool' = pool \cup {t}
      /\ t \notin pool /\ handler' = handler /\ left' = left /\ sequencer' = sequencer
  BY <1>1 DEF LocalAdmit, PoolTakes
<1>3. /\ call[c] \in MadeCalls /\ ~call[c].admitted /\ ~call[c].sent /\ call[c].answer = "none"
      /\ handler \in {"local", "await", "spawn"} /\ t \in Txs
      /\ call \in [Callers -> {NoCall} \cup MadeCalls]
  BY <1>1, <1>2, CallMade DEF CallTold
<1>4. /\ k \in MadeCalls /\ k.admitted /\ k.tx = t /\ ~k.sent
      /\ k.pc = IF handler = "local" THEN "done" ELSE "forward"
      /\ k.answer = IF handler = "await" THEN "none" ELSE "hash"
  <2>1. CASE handler = "local"
    <3>1. k = [call[c] EXCEPT !.pc = "done", !.admitted = TRUE, !.answer = "hash"]
      BY <2>1 DEF AfterAdmission
    <3> QED
      BY <1>1, <1>3, <2>1, <3>1 DEF MadeCalls, Answers
  <2>2. CASE handler = "spawn"
    <3>1. k = [call[c] EXCEPT !.pc = "forward", !.admitted = TRUE, !.answer = "hash"]
      BY <2>2 DEF AfterAdmission
    <3> QED
      BY <1>1, <1>3, <2>2, <3>1 DEF MadeCalls, Answers
  <2>3. CASE handler = "await"
    <3>1. k = [call[c] EXCEPT !.pc = "forward", !.admitted = TRUE]
      BY <2>3 DEF AfterAdmission
    <3> QED
      BY <1>1, <1>3, <2>3, <3>1 DEF MadeCalls, Answers
  <2> QED
    BY <1>3, <2>1, <2>2, <2>3
<1> HIDE DEF k
<1>5. call'[c] = k
  BY <1>2, <1>3
<1>6. CallTold(c)'
  BY <1>2, <1>3, <1>4, <1>5 DEF CallTold
<1> QED
  BY <1>2, <1>3, <1>4, <1>6, CallAdmits

LEMMA DropStep ==
  ASSUME SubmitInv, NEW c \in Callers, DropCall(c)
  PROVE  SubmitInv'
<1>1. /\ call[c] \in MadeCalls /\ CallTold(c) /\ call[c].tx \in Txs
      /\ handler \in {"local", "await", "spawn"}
      /\ call \in [Callers -> {NoCall} \cup MadeCalls]
  BY CallMade DEF DropCall
<1>2. PICK taken \in BOOLEAN, accepted \in BOOLEAN :
        /\ taken => call[c].pc = "local" /\ PoolTakes(call[c].tx)
        /\ accepted => call[c].pc = "sent"
        /\ pool' = IF taken THEN pool \cup {call[c].tx} ELSE pool
        /\ sequencer' = IF accepted THEN sequencer \cup {call[c].tx} ELSE sequencer
        /\ call' = [call EXCEPT ![c].pc = "done", ![c].answer = "dropped",
                                ![c].admitted = IF taken THEN TRUE ELSE @]
  BY DEF DropCall
<1>3. /\ call[c].pc \in {"local", "forward", "sent"} /\ call[c].answer = "none"
      /\ handler' = handler /\ left' = left
  BY DEF DropCall
<1>4. CASE taken
  <2> DEFINE k == [call[c] EXCEPT !.pc = "done", !.answer = "dropped", !.admitted = TRUE]
  <2>1. call' = [call EXCEPT ![c] = k]
    BY <1>1, <1>2, <1>4
  <2>2. /\ k \in MadeCalls /\ k.pc = "done" /\ k.answer = "dropped" /\ k.admitted
        /\ k.tx = call[c].tx
    BY <1>1 DEF MadeCalls, Answers
  <2> HIDE DEF k
  <2>3. call'[c] = k
    BY <1>1, <2>1
  <2>4. CallTold(c)'
    BY <2>2, <2>3 DEF CallTold
  <2>5. /\ ~call[c].admitted /\ call[c].tx \notin pool
        /\ pool' = pool \cup {call[c].tx} /\ sequencer' = sequencer
    BY <1>1, <1>2, <1>4 DEF CallTold, PoolTakes
  <2> QED
    BY <1>1, <1>3, <2>1, <2>2, <2>4, <2>5, CallAdmits
<1>5. CASE ~taken
  <2> DEFINE k == [call[c] EXCEPT !.pc = "done", !.answer = "dropped"]
  <2>1. call' = [call EXCEPT ![c] = k]
    BY <1>1, <1>2, <1>5
  <2>2. /\ k \in MadeCalls /\ k.pc = "done" /\ k.answer = "dropped" /\ k.sent = call[c].sent
        /\ k.admitted = call[c].admitted /\ k.tx = call[c].tx
    BY <1>1 DEF MadeCalls, Answers
  <2> HIDE DEF k
  <2>3. call'[c] = k
    BY <1>1, <2>1
  <2>4. CallTold(c)'
    BY <1>1, <1>3, <2>2, <2>3 DEF CallTold
  <2>5. /\ pool' = pool
        /\ sequencer' = sequencer \/ (k.admitted /\ sequencer' = sequencer \cup {k.tx})
    BY <1>1, <1>2, <1>5, <2>2 DEF CallTold
  <2> QED
    BY <1>1, <1>3, <2>1, <2>2, <2>4, <2>5, CallMoves
<1> QED
  BY <1>4, <1>5

LEMMA SubmitStep ==
  ASSUME SubmitInv, SubmitNext
  PROVE  SubmitInv'
<1>1. CASE ExtendRpcModules
  <2>1. \A c \in Callers : call[c] = NoCall
    BY <1>1 DEF ExtendRpcModules, SubmitInv, CallInv
  <2>2. /\ handler' \in {"local", "await", "spawn"}
        /\ UNCHANGED <<pool, mined, left, sequencer, call>>
    BY <1>1 DEF ExtendRpcModules
  <2>3. CallInv'
    BY <2>1, <2>2 DEF SubmitInv, CallInv
  <2>4. \A tx : Admissions(tx)' = Admissions(tx)
    BY <2>2 DEF Admissions
  <2>5. PoolInv'
    BY <2>2, <2>4 DEF SubmitInv, PoolInv
  <2> QED
    BY <2>3, <2>5 DEF SubmitInv
<1>2. ASSUME NEW c \in Callers, NEW tx \in Txs, Submit(c, tx)
      PROVE  SubmitInv'
  <2> DEFINE k == [pc |-> "local", tx |-> tx, admitted |-> FALSE, sent |-> FALSE,
                   answer |-> "none"]
  <2>1. call[c] = NoCall
    BY <1>2 DEF Submit, SubmitInv, CallInv, MadeCalls
  <2>2. /\ handler # "unset" /\ call' = [call EXCEPT ![c] = k]
        /\ handler' = handler /\ sequencer' = sequencer /\ pool' = pool /\ left' = left
    BY <1>2 DEF Submit
  <2>3. call'[c] = k /\ k \in MadeCalls
    BY <2>2 DEF SubmitInv, CallInv, MadeCalls, Answers
  <2>4. CallTold(c)'
    BY <2>3 DEF CallTold
  <2>5. (k.admitted <=> call[c].admitted) /\ ~call[c].admitted
    BY <2>1 DEF NoCall
  <2> HIDE DEF k
  <2> QED
    BY <2>2, <2>3, <2>4, <2>5, CallMoves
<1>3. ASSUME NEW c \in Callers, LocalRefuse(c)
      PROVE  SubmitInv'
  <2> DEFINE k == [call[c] EXCEPT !.pc = "done", !.answer = "refused"]
  <2>1. /\ call[c] \in MadeCalls /\ CallTold(c) /\ handler # "unset" /\ call[c].pc = "local"
        /\ call \in [Callers -> {NoCall} \cup MadeCalls]
    <3>1. call[c].pc = "local" /\ call \in [Callers -> {NoCall} \cup MadeCalls]
      BY <1>3 DEF LocalRefuse, SubmitInv, CallInv
    <3>2. call[c] # NoCall
      BY <3>1 DEF NoCall
    <3> QED
      BY <3>1, <3>2 DEF SubmitInv, CallInv
  <2>2. /\ call' = [call EXCEPT ![c] = k]
        /\ handler' = handler /\ sequencer' = sequencer /\ pool' = pool /\ left' = left
    BY <1>3, <2>1 DEF LocalRefuse
  <2>3. /\ k \in MadeCalls /\ k.pc = "done" /\ k.answer = "refused" /\ k.sent = call[c].sent
        /\ k.admitted = call[c].admitted /\ k.tx = call[c].tx
    BY <2>1 DEF MadeCalls, Answers
  <2> HIDE DEF k
  <2>4. call'[c] = k
    BY <2>1, <2>2
  <2>5. CallTold(c)'
    BY <2>1, <2>3, <2>4 DEF CallTold
  <2> QED
    BY <2>1, <2>2, <2>3, <2>5, CallMoves
<1>4. ASSUME NEW c \in Callers, Forward(c)
      PROVE  SubmitInv'
  <2> DEFINE k == [call[c] EXCEPT !.pc = "sent", !.sent = TRUE]
  <2>1. /\ call[c] \in MadeCalls /\ CallTold(c) /\ handler # "unset" /\ call[c].pc = "forward"
        /\ call \in [Callers -> {NoCall} \cup MadeCalls]
    <3>1. call[c].pc = "forward" /\ call \in [Callers -> {NoCall} \cup MadeCalls]
      BY <1>4 DEF Forward, SubmitInv, CallInv
    <3>2. call[c] # NoCall
      BY <3>1 DEF NoCall
    <3> QED
      BY <3>1, <3>2 DEF SubmitInv, CallInv
  <2>2. /\ call' = [call EXCEPT ![c] = k]
        /\ handler' = handler /\ sequencer' = sequencer /\ pool' = pool /\ left' = left
    BY <1>4, <2>1 DEF Forward
  <2>3. /\ k \in MadeCalls /\ k.pc = "sent" /\ k.answer = call[c].answer /\ k.sent
        /\ k.admitted = call[c].admitted /\ k.tx = call[c].tx
    BY <2>1 DEF MadeCalls, Answers
  <2> HIDE DEF k
  <2>4. call'[c] = k
    BY <2>1, <2>2
  <2>5. CallTold(c)'
    BY <2>1, <2>2, <2>3, <2>4 DEF CallTold
  <2> QED
    BY <2>1, <2>2, <2>3, <2>5, CallMoves
<1>5. ASSUME NEW c \in Callers, NEW answer \in {"hash", "sequencerError"},
             call[c].pc = "sent", Settled(c, answer), handler' = handler, pool' = pool, left' = left,
             \/ sequencer' = sequencer \cup {call[c].tx}
             \/ sequencer' = sequencer /\ answer = "sequencerError"
      PROVE  SubmitInv'
  <2> DEFINE k == [call[c] EXCEPT !.pc = "done", !.answer = IF handler = "await" THEN answer ELSE @]
  <2>1. /\ call[c] \in MadeCalls /\ CallTold(c) /\ handler # "unset"
        /\ call \in [Callers -> {NoCall} \cup MadeCalls]
    <3>1. call \in [Callers -> {NoCall} \cup MadeCalls]
      BY DEF SubmitInv, CallInv
    <3>2. call[c] # NoCall
      BY <1>5 DEF NoCall
    <3> QED
      BY <3>1, <3>2 DEF SubmitInv, CallInv
  <2>2. call' = [call EXCEPT ![c] = k]
    BY <1>5, <2>1 DEF Settled
  <2>3. /\ k \in MadeCalls /\ k.pc = "done" /\ k.sent = call[c].sent
        /\ k.answer = IF handler = "await" THEN answer ELSE call[c].answer
        /\ k.admitted = call[c].admitted /\ k.tx = call[c].tx
    BY <1>5, <2>1 DEF MadeCalls, Answers
  <2> HIDE DEF k
  <2>4. call'[c] = k
    BY <2>1, <2>2
  <2>5. k.admitted
    BY <1>5, <2>1, <2>3 DEF CallTold
  <2>6. CallTold(c)'
    BY <1>5, <2>1, <2>2, <2>3, <2>4 DEF CallTold
  <2> QED
    BY <1>5, <2>1, <2>2, <2>3, <2>5, <2>6, CallMoves
<1>6. ASSUME NEW tx \in Txs, LeavePool(tx)
      PROVE  SubmitInv'
  <2>1. left \in [Txs -> Nat]
    BY DEF SubmitInv, PoolInv
  <2>2. /\ pool' = pool \ {tx} /\ handler' = handler /\ call' = call /\ sequencer' = sequencer
        /\ left' = [x \in Txs |-> IF x \in {tx} \cap pool THEN left[x] + 1 ELSE left[x]]
    BY <1>6, <2>1 DEF LeavePool
  <2>3. {tx} \subseteq Txs
    OBVIOUS
  <2> QED
    BY <2>2, <2>3, PoolShrinks
<1>7. ASSUME NEW c \in Callers, SequencerAccepts(c)
      PROVE  SubmitInv'
  BY <1>5, <1>7 DEF SequencerAccepts
<1>8. ASSUME NEW c \in Callers, SequencerFails(c)
      PROVE  SubmitInv'
  BY <1>5, <1>8 DEF SequencerFails
<1> QED
  BY <1>1, <1>2, <1>3, <1>4, <1>6, <1>7, <1>8, AdmitStep, DropStep DEF SubmitNext

-----------------------------------------------------------------------------
(* Payload ids.  The first fields of valid attributes are of fixed length;  *)
(* what the pool's part and the gas limit add to the length of the hints    *)
(* tells which of them is there and how many transactions are forced.       *)

ValuesOf(a) ==
  Nat \cup {a.parent, a.timestamp, a.randao, a.recipient, a.hint.stateRoot, a.hint.coinbase,
            a.hint.nonce, a.hint.difficulty, a.gasLimit}
  \cup ToSet(TxList(a)) \cup (IF a.hint.extraData = None THEN {} ELSE ToSet(a.hint.extraData))

LEMMA Joined ==
  ASSUME NEW V, NEW s \in Seq(V), NEW t \in Seq(V)
  PROVE  /\ s \o t \in Seq(V) /\ Len(s) \in Nat /\ Len(t) \in Nat
         /\ Len(s \o t) = Len(s) + Len(t)
         /\ \A i \in 1 .. Len(s) : (s \o t)[i] = s[i]
         /\ \A i \in 1 .. Len(t) : (s \o t)[Len(s) + i] = t[i]
  OBVIOUS

\* The widths of the fields.
LEMMA Widths == 1 \in Nat \ {0} /\ 8 \in Nat \ {0} /\ 20 \in Nat \ {0} /\ 32 \in Nat \ {0}
  OBVIOUS

LEMMA BeBytes ==
  ASSUME NEW V, Nat \subseteq V, NEW v \in V, NEW w \in Nat \ {0}
  PROVE  Be(w, v) \in Seq(V) /\ Len(Be(w, v)) = w /\ Be(w, v)[w] = v
<1>1. Be(w, v) = [i \in 1 .. w |-> IF i = w THEN v ELSE 0]
  BY DEF Be
<1>2. Be(w, v) \in [1 .. w -> V] /\ Be(w, v)[w] = v
  BY <1>1
<1> QED
  BY <1>2

LEMMA OptionalBytes ==
  ASSUME NEW V, Nat \subseteq V, NEW v \in V, NEW w \in Nat \ {0}
  PROVE  /\ Optional(w, v) \in Seq(V)
         /\ Len(Optional(w, v)) = IF v = None THEN 0 ELSE w
         /\ v # None => Optional(w, v)[w] = v
<1>1. CASE v = None
  BY <1>1 DEF Optional
<1>2. CASE v # None
  BY <1>2, BeBytes DEF Optional
<1> QED
  BY <1>1, <1>2

LEMMA BeAllBytes ==
  ASSUME NEW V, Nat \subseteq V, NEW txs \in Seq(V)
  PROVE  /\ BeAll(32, txs) \in Seq(V) /\ Len(BeAll(32, txs)) = 32 * Len(txs)
         /\ \A i \in 1 .. Len(txs) : BeAll(32, txs)[32 * i] = txs[i]
<1> DEFINE n == 32 * Len(txs)
           f == BeAll(32, txs)
<1>1. f = [i \in 1 .. n |-> IF i % 32 = 0 THEN txs[i \div 32] ELSE 0]
  BY DEF BeAll
<1>2. n \in Nat /\ Len(txs) \in Nat
  OBVIOUS
<1>3. ASSUME NEW i \in 1 .. n, i % 32 = 0
      PROVE  i \div 32 \in 1 .. Len(txs)
  BY <1>2, <1>3
<1>4. \A i \in 1 .. n : (IF i % 32 = 0 THEN txs[i \div 32] ELSE 0) \in V
  BY <1>3
<1>5. ASSUME NEW i \in 1 .. Len(txs)
      PROVE  32 * i \in 1 .. n /\ (32 * i) % 32 = 0 /\ (32 * i) \div 32 = i
  BY <1>2, <1>5
<1> HIDE DEF n, f
<1>6. f \in [1 .. n -> V]
  BY <1>1, <1>4
<1>7. \A i \in 1 .. Len(txs) : f[32 * i] = txs[i]
  BY <1>1, <1>5
<1>8. f \in Seq(V) /\ Len(f) = n
  BY <1>2, <1>6
<1> QED
  BY <1>7, <1>8 DEF f, n

\* The first fields: 92 bytes that show them.
FirstShape(z, a) ==
  Len(z) = 92 /\ z[32] = a.parent /\ z[40] = a.timestamp /\ z[72] = a.randao /\ z[92] = a.recipient

LEMMA FirstBytesShape ==
  ASSUME NEW a, FieldsValid(a.withdrawals, a.beaconRoot), NEW V, ValuesOf(a) \subseteq V
  PROVE  FirstBytes(a) \in Seq(V) /\ FirstShape(FirstBytes(a), a)
<1> DEFINE p == Be(32, a.parent)
           t == Be(8, a.timestamp)
           r == Be(32, a.randao)
           c == Be(20, a.recipient)
<1>1. Nat \subseteq V /\ a.parent \in V /\ a.timestamp \in V /\ a.randao \in V /\ a.recipient \in V
  BY DEF ValuesOf
<1>12. \A v \in V, w \in Nat \ {0} :
        Be(w, v) \in Seq(V) /\ Len(Be(w, v)) = w /\ Be(w, v)[w] = v
  BY <1>1, BeBytes
<1>13. \A s, u \in Seq(V) :
        /\ s \o u \in Seq(V) /\ Len(s \o u) = Len(s) + Len(u)
        /\ \A i \in 1 .. Len(s) : (s \o u)[i] = s[i]
        /\ \A i \in 1 .. Len(u) : (s \o u)[Len(s) + i] = u[i]
  BY Joined
<1>2. p \in Seq(V) /\ Len(p) = 32 /\ p[32] = a.parent
  BY <1>1, <1>12, Widths, Zenon
<1>3. t \in Seq(V) /\ Len(t) = 8 /\ t[8] = a.timestamp
  BY <1>1, <1>12, Widths, Zenon
<1>4. r \in Seq(V) /\ Len(r) = 32 /\ r[32] = a.randao
  BY <1>1, <1>12, Widths, Zenon
<1>5. c \in Seq(V) /\ Len(c) = 20 /\ c[20] = a.recipient
  BY <1>1, <1>12, Widths, Zenon
<1>6. Optional(1, a.withdrawals) = <<>> /\ Optional(32, a.beaconRoot) = <<>>
  BY DEF FieldsValid, Optional
<1>7. FirstBytes(a) = p \o t \o r \o c \o <<>> \o <<>>
  BY <1>6 DEF FirstBytes
<1> HIDE DEF p, t, r, c
<1> DEFINE pt == p \o t
           ptr == pt \o r
           z == ptr \o c
<1>8. pt \in Seq(V) /\ Len(pt) = 40 /\ pt[32] = a.parent /\ pt[40] = a.timestamp
  <2>1. /\ pt \in Seq(V) /\ Len(pt) = Len(p) + Len(t)
        /\ \A i \in 1 .. Len(p) : pt[i] = p[i]
        /\ \A i \in 1 .. Len(t) : pt[Len(p) + i] = t[i]
    BY <1>2, <1>3, <1>13, Zenon
  <2> HIDE DEF pt
  <2>2. 32 \in 1 .. Len(p) /\ 8 \in 1 .. Len(t) /\ 32 + 8 = 40
    BY <1>2, <1>3
  <2>3. pt[32] = p[32] /\ pt[32 + 8] = t[8]
    BY <1>2, <2>1, <2>2, Zenon
  <2> QED
    BY <1>2, <1>3, <2>1, <2>2, <2>3
<1> HIDE DEF pt
<1>9. /\ ptr \in Seq(V) /\ Len(ptr) = 72 /\ ptr[32] = a.parent /\ ptr[40] = a.timestamp
      /\ ptr[72] = a.randao
  <2>1. /\ ptr \in Seq(V) /\ Len(ptr) = Len(pt) + Len(r)
        /\ \A i \in 1 .. Len(pt) : ptr[i] = pt[i]
        /\ \A i \in 1 .. Len(r) : ptr[Len(pt) + i] = r[i]
    BY <1>4, <1>8, <1>13, Zenon
  <2> HIDE DEF ptr
  <2>2. 32 \in 1 .. Len(pt) /\ 40 \in 1 .. Len(pt) /\ 32 \in 1 .. Len(r) /\ 40 + 32 = 72
        /\ Len(pt) = 40
    BY <1>4, <1>8
  <2>3. ptr[32] = pt[32] /\ ptr[40] = pt[40]
    BY <2>1, <2>2, Zenon
  <2>4. ptr[40 + 32] = r[32]
    <3>1. ptr[Len(pt) + 32] = r[32]
      BY <2>1, <2>2, Zenon
    <3> QED
      BY <2>2, <3>1, Zenon
  <2> QED
    BY <1>4, <1>8, <2>1, <2>2, <2>3, <2>4
<1> HIDE DEF ptr
<1>10. z \in Seq(V) /\ FirstShape(z, a)
  <2>1. /\ z \in Seq(V) /\ Len(z) = Len(ptr) + Len(c)
        /\ \A i \in 1 .. Len(ptr) : z[i] = ptr[i]
        /\ \A i \in 1 .. Len(c) : z[Len(ptr) + i] = c[i]
    BY <1>5, <1>9, <1>13, Zenon
  <2> HIDE DEF z
  <2>2. /\ 32 \in 1 .. Len(ptr) /\ 40 \in 1 .. Len(ptr) /\ 72 \in 1 .. Len(ptr)
        /\ 20 \in 1 .. Len(c) /\ 72 + 20 = 92 /\ Len(ptr) = 72
    BY <1>5, <1>9
  <2>3. z[32] = ptr[32] /\ z[40] = ptr[40] /\ z[72] = ptr[72]
    BY <2>1, <2>2, Zenon
  <2>4. z[72 + 20] = c[20]
    <3>1. z[Len(ptr) + 20] = c[20]
      BY <2>1, <2>2, Zenon
    <3> QED
      BY <2>2, <3>1, Zenon
  <2> QED
    BY <1>5, <1>9, <2>1, <2>2, <2>3, <2>4 DEF FirstShape
<1> HIDE DEF z
<1>11. FirstBytes(a) = z
  <2>1. FirstBytes(a) = z \o <<>> \o <<>>
    BY <1>7, Zenon DEF z, ptr, pt
  <2> QED
    BY <1>10, <2>1
<1> QED
  BY <1>10, <1>11, Zenon

\* The pool's part, if there is one: the flag, the number of transactions and
\* the transactions.
NoPoolPart(a) == ~a.noTxPool /\ TxList(a) = <<>>
PoolShape(z, a) ==
  IF NoPoolPart(a) THEN Len(z) = 0
  ELSE /\ Len(z) = 9 + 32 * Len(TxList(a))
       /\ z[1] = IF a.noTxPool THEN 1 ELSE 0
       /\ \A i \in 1 .. Len(TxList(a)) : z[9 + 32 * i] = TxList(a)[i]

LEMMA PoolBytesShape ==
  ASSUME NEW a, IsAttributes(a), NEW V, ValuesOf(a) \subseteq V
  PROVE  PoolBytes(a) \in Seq(V) /\ PoolShape(PoolBytes(a), a)
<1>1. CASE NoPoolPart(a)
  BY <1>1 DEF NoPoolPart, PoolShape, PoolBytes
<1>2. CASE ~NoPoolPart(a)
  <2> DEFINE txs == TxList(a)
             flag == IF a.noTxPool THEN 1 ELSE 0
             f == Be(1, flag)
             l == Be(8, Len(txs))
             h == BeAll(32, txs)
             z == f \o l \o h
  <2>1. Nat \subseteq V /\ ToSet(txs) \subseteq V
    BY DEF ValuesOf
  <2>2. txs \in Seq(V) /\ Len(txs) \in Nat
    BY <2>1 DEF IsAttributes
  <2>3. PoolBytes(a) = z
    BY <1>2 DEF NoPoolPart, PoolBytes
  <2>4. flag \in V /\ Len(txs) \in V
    BY <2>1, <2>2
  <2>12. \A v \in V, w \in Nat \ {0} :
         Be(w, v) \in Seq(V) /\ Len(Be(w, v)) = w /\ Be(w, v)[w] = v
    BY <2>1, BeBytes
  <2>13. \A s, t \in Seq(V) :
         /\ s \o t \in Seq(V) /\ Len(s \o t) = Len(s) + Len(t)
         /\ \A i \in 1 .. Len(s) : (s \o t)[i] = s[i]
         /\ \A i \in 1 .. Len(t) : (s \o t)[Len(s) + i] = t[i]
    BY Joined
  <2> HIDE DEF txs, flag
  <2>5. f \in Seq(V) /\ Len(f) = 1 /\ f[1] = flag
    BY <2>4, <2>12, Widths, Zenon
  <2>6. l \in Seq(V) /\ Len(l) = 8
    BY <2>4, <2>12, Widths, Zenon
  <2>7. h \in Seq(V) /\ Len(h) = 32 * Len(txs) /\ \A i \in 1 .. Len(txs) : h[32 * i] = txs[i]
    BY <2>1, <2>2, BeAllBytes
  <2> HIDE DEF f, l, h
  <2> DEFINE fl == f \o l
  <2>10. fl \in Seq(V) /\ Len(fl) = 9 /\ fl[1] = flag
    <3>1. /\ fl \in Seq(V) /\ Len(fl) = Len(f) + Len(l)
          /\ \A i \in 1 .. Len(f) : fl[i] = f[i]
      BY <2>5, <2>6, <2>13, Zenon
    <3> HIDE DEF fl
    <3> QED
      BY <2>5, <2>6, <3>1
  <2>11. /\ z \in Seq(V) /\ Len(z) = Len(fl) + Len(h)
         /\ \A i \in 1 .. Len(fl) : z[i] = fl[i]
         /\ \A i \in 1 .. Len(h) : z[Len(fl) + i] = h[i]
    BY <2>7, <2>10, <2>13, Zenon
  <2> HIDE DEF z, fl
  <2>8. /\ z \in Seq(V) /\ Len(z) = 9 + 32 * Len(txs) /\ z[1] = flag
        /\ \A i \in 1 .. Len(h) : z[9 + i] = h[i]
    BY <2>7, <2>10, <2>11
  <2>9. ASSUME NEW i \in 1 .. Len(txs)
        PROVE  z[9 + 32 * i] = txs[i]
    <3>1. 32 * i \in 1 .. Len(h)
      BY <2>2, <2>7
    <3> QED
      BY <2>7, <2>8, <3>1
  <2> QED
    BY <1>2, <2>3, <2>8, <2>9 DEF PoolShape, txs, flag
<1> QED
  BY <1>1, <1>2

LEMMA HintBytesShape ==
  ASSUME NEW a, IsAttributes(a), NEW V, ValuesOf(a) \subseteq V
  PROVE  HintBytes(a.hint) \in Seq(V)
<1> DEFINE e == IF a.hint.extraData = None THEN <<>> ELSE a.hint.extraData
<1>1. /\ Nat \subseteq V /\ a.hint.stateRoot \in V /\ a.hint.coinbase \in V
      /\ a.hint.nonce \in V /\ a.hint.difficulty \in V
  BY DEF ValuesOf
<1>2. e \in Seq(V)
  <2>1. CASE a.hint.extraData = None
    BY <2>1
  <2>2. CASE a.hint.extraData # None
    <3>1. ToSet(a.hint.extraData) \subseteq V /\ a.hint.extraData \in Seq(ToSet(a.hint.extraData))
      BY <2>2 DEF ValuesOf, IsAttributes
    <3> QED
      BY <2>2, <3>1
  <2> QED
    BY <2>1, <2>2
<1>3. /\ Optional(32, a.hint.stateRoot) \in Seq(V) /\ Optional(20, a.hint.coinbase) \in Seq(V)
      /\ Optional(8, a.hint.nonce) \in Seq(V) /\ Optional(32, a.hint.difficulty) \in Seq(V)
  BY <1>1, OptionalBytes, Widths, Zenon
<1>4. HintBytes(a.hint) =
        e \o Optional(32, a.hint.stateRoot) \o Optional(20, a.hint.coinbase)
        \o Optional(8, a.hint.nonce) \o Optional(32, a.hint.difficulty)
  BY DEF HintBytes
<1>5. \A s, t \in Seq(V) : s \o t \in Seq(V)
  OBVIOUS
<1> HIDE DEF e
<1> DEFINE e1 == e \o Optional(32, a.hint.stateRoot)
           e2 == e1 \o Optional(20, a.hint.coinbase)
           e3 == e2 \o Optional(8, a.hint.nonce)
<1>6. e1 \in Seq(V)
  BY <1>2, <1>3, <1>5, Zenon
<1>7. e2 \in Seq(V)
  BY <1>3, <1>5, <1>6, Zenon
<1>8. e3 \in Seq(V)
  BY <1>3, <1>5, <1>7, Zenon
<1> QED
  BY <1>3, <1>4, <1>5, <1>8, Zenon

\* What an id shows, given how long the hints are.
IdShape(z, h, a) ==
  LET p == IF NoPoolPart(a) THEN 0 ELSE 9 + 32 * Len(TxList(a))
      g == IF a.gasLimit = None THEN 0 ELSE 8
  IN  /\ Len(z) = 92 + p + h + g
      /\ z[32] = a.parent /\ z[40] = a.timestamp /\ z[72] = a.randao /\ z[92] = a.recipient
      /\ ~NoPoolPart(a) =>
           /\ z[93] = IF a.noTxPool THEN 1 ELSE 0
           /\ \A i \in 1 .. Len(TxList(a)) : z[101 + 32 * i] = TxList(a)[i]
      /\ a.gasLimit # None => z[Len(z)] = a.gasLimit

LEMMA IdHasShape ==
  ASSUME NEW a, IsAttributes(a), FieldsValid(a.withdrawals, a.beaconRoot)
  PROVE  /\ Len(HintBytes(a.hint)) \in Nat
         /\ IdShape(PayloadId(a), Len(HintBytes(a.hint)), a)
<1> DEFINE V == ValuesOf(a)
           f == FirstBytes(a)
           p == PoolBytes(a)
           h == HintBytes(a.hint)
           g == Optional(8, a.gasLimit)
           fp == f \o p
           fph == fp \o h
           z == fph \o g
           n == Len(TxList(a))
<1>0. n \in Nat
  BY DEF IsAttributes
<1>1. f \in Seq(V) /\ FirstShape(f, a)
  BY FirstBytesShape
<1>2. p \in Seq(V) /\ PoolShape(p, a)
  BY PoolBytesShape
<1>3. h \in Seq(V)
  BY HintBytesShape
<1>4. /\ g \in Seq(V) /\ Len(g) = IF a.gasLimit = None THEN 0 ELSE 8
      /\ a.gasLimit # None => g[8] = a.gasLimit
  <2>1. Nat \subseteq V /\ a.gasLimit \in V
    BY DEF ValuesOf
  <2>2. \A v \in V, w \in Nat \ {0} :
         /\ Optional(w, v) \in Seq(V)
         /\ Len(Optional(w, v)) = IF v = None THEN 0 ELSE w
         /\ v # None => Optional(w, v)[w] = v
    BY <2>1, OptionalBytes
  <2> QED
    BY <2>1, <2>2, Widths, Zenon
<1>17. \A s, t \in Seq(V) :
        /\ s \o t \in Seq(V) /\ Len(s \o t) = Len(s) + Len(t)
        /\ \A i \in 1 .. Len(s) : (s \o t)[i] = s[i]
        /\ \A i \in 1 .. Len(t) : (s \o t)[Len(s) + i] = t[i]
  BY Joined
<1>5. PayloadId(a) = z
  BY DEF PayloadId
<1> HIDE DEF V, f, p, h, g, n
<1>6. /\ fp \in Seq(V) /\ Len(fp) = 92 + Len(p)
      /\ fp[32] = f[32] /\ fp[40] = f[40] /\ fp[72] = f[72] /\ fp[92] = f[92]
      /\ \A i \in 1 .. Len(p) : fp[92 + i] = p[i]
  <2>1. /\ fp \in Seq(V) /\ Len(fp) = Len(f) + Len(p)
        /\ \A i \in 1 .. Len(f) : fp[i] = f[i]
        /\ \A i \in 1 .. Len(p) : fp[Len(f) + i] = p[i]
    BY <1>1, <1>2, <1>17, Zenon
  <2> HIDE DEF fp
  <2>2. Len(f) = 92
    BY <1>1 DEF FirstShape
  <2>3. /\ 32 \in 1 .. Len(f) /\ 40 \in 1 .. Len(f) /\ 72 \in 1 .. Len(f)
        /\ 92 \in 1 .. Len(f)
    BY <2>2
  <2>4. fp[32] = f[32] /\ fp[40] = f[40] /\ fp[72] = f[72] /\ fp[92] = f[92]
    BY <2>1, <2>3, Zenon
  <2>5. \A i \in 1 .. Len(p) : fp[92 + i] = p[i]
    BY <2>1, <2>2, Zenon
  <2> QED
    BY <2>1, <2>2, <2>4, <2>5, Zenon
<1> HIDE DEF fp
<1>7. /\ fph \in Seq(V) /\ Len(fph) = Len(fp) + Len(h)
      /\ \A i \in 1 .. Len(fp) : fph[i] = fp[i]
  <2>1. fp \in Seq(V)
    BY <1>6, Zenon
  <2> QED
    BY <1>3, <2>1, <1>17, Zenon
<1> HIDE DEF fph
<1>8. /\ z \in Seq(V) /\ Len(z) = Len(fph) + Len(g)
      /\ \A i \in 1 .. Len(fph) : z[i] = fph[i]
      /\ \A i \in 1 .. Len(g) : z[Len(fph) + i] = g[i]
  BY <1>4, <1>7, <1>17, Zenon
<1> HIDE DEF z
<1>9. Len(p) \in Nat /\ Len(h) \in Nat /\ Len(g) \in Nat
  BY <1>2, <1>3, <1>4
<1>10. \A i \in 1 .. 92 + Len(p) : z[i] = fp[i]
  BY <1>6, <1>7, <1>8, <1>9
<1>11. z[32] = a.parent /\ z[40] = a.timestamp /\ z[72] = a.randao /\ z[92] = a.recipient
  BY <1>1, <1>6, <1>9, <1>10 DEF FirstShape
<1>12. Len(p) = IF NoPoolPart(a) THEN 0 ELSE 9 + 32 * n
  BY <1>2 DEF PoolShape, n
<1>13. ASSUME ~NoPoolPart(a)
       PROVE  /\ z[93] = IF a.noTxPool THEN 1 ELSE 0
              /\ \A i \in 1 .. n : z[101 + 32 * i] = TxList(a)[i]
  <2>1. /\ Len(p) = 9 + 32 * n /\ p[1] = IF a.noTxPool THEN 1 ELSE 0
        /\ \A i \in 1 .. n : p[9 + 32 * i] = TxList(a)[i]
    BY <1>2, <1>13 DEF PoolShape, n
  <2>2. \A i \in 1 .. Len(p) : z[92 + i] = p[i]
    BY <1>6, <1>9, <1>10
  <2>3. 1 \in 1 .. Len(p) /\ 92 + 1 = 93
    BY <1>0, <2>1
  <2>4. ASSUME NEW i \in 1 .. n
        PROVE  z[101 + 32 * i] = TxList(a)[i]
    <3>1. 9 + 32 * i \in 1 .. Len(p) /\ 92 + (9 + 32 * i) = 101 + 32 * i
      BY <1>0, <2>1
    <3> QED
      BY <2>1, <2>2, <3>1
  <2> QED
    BY <2>1, <2>2, <2>3, <2>4
<1>14. ASSUME a.gasLimit # None
       PROVE  z[Len(z)] = a.gasLimit
  BY <1>4, <1>8, <1>14
<1>15. Len(z) = 92 + Len(p) + Len(h) + Len(g)
  BY <1>6, <1>7, <1>8
<1>16. IdShape(z, Len(h), a)
  BY <1>4, <1>11, <1>12, <1>13, <1>14, <1>15 DEF IdShape, n
<1> QED
  BY <1>5, <1>9, <1>16 DEF h

\* The remainder modulo 32 of what follows the first fields, less the hints,
\* shows which of the pool's part and the gas limit are there.
LEMMA LengthsTell ==
  ASSUME NEW m \in Nat, NEW n \in Nat, NEW p \in Nat, NEW q \in Nat,
         NEW g \in {0, 8}, NEW e \in {0, 8},
         p = 0 \/ p = 9 + 32 * m, q = 0 \/ q = 9 + 32 * n, p + g = q + e
  PROVE  p = q /\ g = e
  OBVIOUS

\* Two valid attributes with one id ask for the same block, unless their
\* block data hints differ.
LEMMA SameIdSameInputs ==
  ASSUME NEW a, NEW b, IsAttributes(a), IsAttributes(b),
         FieldsValid(a.withdrawals, a.beaconRoot), FieldsValid(b.withdrawals, b.beaconRoot),
         PayloadId(a) = PayloadId(b), a.hint = b.hint
  PROVE  Inputs(a) = Inputs(b)
<1> DEFINE z == PayloadId(a)
           h == Len(HintBytes(a.hint))
           m == Len(TxList(a))
           n == Len(TxList(b))
           p == IF NoPoolPart(a) THEN 0 ELSE 9 + 32 * m
           q == IF NoPoolPart(b) THEN 0 ELSE 9 + 32 * n
           g == IF a.gasLimit = None THEN 0 ELSE 8
           e == IF b.gasLimit = None THEN 0 ELSE 8
<1>1. h \in Nat /\ IdShape(z, h, a)
  BY IdHasShape, Zenon
<1>2. IdShape(z, h, b)
  <2>1. IdShape(PayloadId(b), Len(HintBytes(b.hint)), b)
    BY IdHasShape, Zenon
  <2> QED
    BY <2>1, Zenon
<1>3. m \in Nat /\ n \in Nat
  BY DEF IsAttributes
<1> HIDE DEF z, h, m, n
<1>4. /\ Len(z) = 92 + p + h + g /\ Len(z) = 92 + q + h + e
  BY <1>1, <1>2 DEF IdShape, m, n
<1>5. p = q /\ g = e
  <2>1. /\ p \in Nat /\ q \in Nat /\ g \in {0, 8} /\ e \in {0, 8}
        /\ (p = 0 \/ p = 9 + 32 * m) /\ (q = 0 \/ q = 9 + 32 * n)
    BY <1>3
  <2> HIDE DEF p, q, g, e
  <2>2. p + g = q + e
    BY <1>1, <1>4, <2>1
  <2> QED
    BY <1>3, <2>1, <2>2, LengthsTell
<1>6. a.parent = b.parent /\ a.timestamp = b.timestamp /\ a.randao = b.randao
      /\ a.recipient = b.recipient
  BY <1>1, <1>2 DEF IdShape
<1>7. a.gasLimit = b.gasLimit
  <2>1. /\ a.gasLimit # None => z[Len(z)] = a.gasLimit
        /\ b.gasLimit # None => z[Len(z)] = b.gasLimit
    BY <1>1, <1>2, Zenon DEF IdShape
  <2>2. a.gasLimit = None <=> b.gasLimit = None
    BY <1>5
  <2> QED
    BY <2>1, <2>2, Zenon
<1>8. TxList(a) = TxList(b) /\ a.noTxPool = b.noTxPool
  <2>1. NoPoolPart(a) <=> NoPoolPart(b)
    BY <1>3, <1>5
  <2>2. CASE NoPoolPart(a)
    <3>1. ~a.noTxPool /\ ~b.noTxPool /\ TxList(a) = TxList(b)
      BY <2>1, <2>2 DEF NoPoolPart
    <3>2. a.noTxPool \in BOOLEAN /\ b.noTxPool \in BOOLEAN
      BY DEF IsAttributes
    <3> QED
      BY <3>1, <3>2, Zenon
  <2>3. CASE ~NoPoolPart(a)
    <3>1. m = n
      BY <1>3, <1>5, <2>1, <2>3
    <3>2. /\ z[93] = (IF a.noTxPool THEN 1 ELSE 0) /\ z[93] = (IF b.noTxPool THEN 1 ELSE 0)
          /\ \A i \in 1 .. m : TxList(a)[i] = TxList(b)[i]
      BY <1>1, <1>2, <2>1, <2>3, <3>1 DEF IdShape, m, n
    <3>3. a.noTxPool = b.noTxPool
      <4>1. a.noTxPool <=> b.noTxPool
        BY <3>2
      <4>2. a.noTxPool \in BOOLEAN /\ b.noTxPool \in BOOLEAN
        BY DEF IsAttributes
      <4> QED
        BY <4>1, <4>2, Zenon
    <3>4. TxList(a) = TxList(b)
      <4> DEFINE W == ToSet(TxList(a)) \cup ToSet(TxList(b))
      <4>1. TxList(a) \in Seq(W) /\ TxList(b) \in Seq(W)
        BY DEF IsAttributes
      <4> HIDE DEF W
      <4> QED
        BY <3>1, <3>2, <4>1 DEF m, n
    <3> QED
      BY <3>3, <3>4
  <2> QED
    BY <2>2, <2>3
<1> QED
  BY <1>6, <1>7, <1>8 DEF Inputs

-----------------------------------------------------------------------------
(* Requests *)

\* A request that moves keeps what the others, and the jobs, were started for.
LEMMA RequestMoves ==
  ASSUME RequestInv, NEW r \in Requests, NEW k, request' = [request EXCEPT ![r] = k],
         Asked(r) => k.pc \in Live /\ k.attributes = request[r].attributes
  PROVE  /\ request'[r] = k
         /\ \A id, inputs : StartedFor(id, inputs) => StartedFor(id, inputs)'
         /\ MadeRequest(r)' => RequestInv'
<1>1. request = [q \in Requests |-> request[q]]
  BY DEF RequestInv
<1>2. request'[r] = k /\ \A q \in Requests \ {r} : request'[q] = request[q]
  BY <1>1
<1>3. \A q \in Requests : Asked(q) => Asked(q)' /\ request'[q].attributes = request[q].attributes
  BY <1>2 DEF Asked
<1>4. ASSUME NEW id, NEW inputs, StartedFor(id, inputs)
      PROVE  StartedFor(id, inputs)'
  BY <1>3, <1>4, Zenon DEF StartedFor
<1>5. ASSUME MadeRequest(r)'
      PROVE  RequestInv'
  <2>1. request' = [q \in Requests |-> request'[q]]
    BY <1>1
  <2>2. ASSUME NEW q \in Requests \ {r}
        PROVE  request'[q] = NoRequest \/ MadeRequest(q)'
    <3>1. request'[q] = request[q]
      BY <1>2
    <3>2. CASE request[q] = NoRequest
      BY <3>1, <3>2
    <3>3. CASE MadeRequest(q)
      <4>1. ARequest(q)' /\ (Asked(q)' <=> Asked(q))
        BY <3>1, <3>3 DEF MadeRequest, ARequest, Asked
      <4>2. \A id, got : Fetched(id, got) => Fetched(id, got)'
        BY <1>4, Zenon DEF Fetched
      <4> QED
        BY <3>1, <3>3, <4>1, <4>2, Zenon DEF MadeRequest
    <3> QED
      BY <3>2, <3>3 DEF RequestInv
  <2> QED
    BY <1>5, <2>1, <2>2 DEF RequestInv
<1> QED
  BY <1>2, <1>4, <1>5

LEMMA EngineInitInv == EngineInit => EngineInv
<1> SUFFICES ASSUME EngineInit
             PROVE  EngineInv
  OBVIOUS
<1>1. RequestInv
  BY DEF EngineInit, RequestInv
<1>2. JobInv /\ HeadInv
  BY DEF EngineInit, JobInv, HeadInv, Genesis
<1> QED
  BY <1>1, <1>2 DEF EngineInv

LEMMA AskStep ==
  ASSUME EngineInv, NEW r \in Requests, NEW a, IsAttributes(a), NEW local \in BOOLEAN,
         local => AttributesValid(a), Ask(r, a, local)
  PROVE  EngineInv'
<1> DEFINE pc == IF AttributesValid(a) THEN "asked" ELSE "refused"
           k == [pc |-> pc, attributes |-> a, local |-> local, got |-> None]
<1>1. ~Asked(r)
  BY DEF Ask, Asked, Live
<1>2. request' = [request EXCEPT ![r] = k]
  BY DEF Ask
<1>3. k.pc = pc /\ k.attributes = a /\ k.local = local /\ k.got = None
      /\ k = [pc |-> k.pc, attributes |-> k.attributes, local |-> k.local, got |-> k.got]
  OBVIOUS
<1> HIDE DEF k
<1>4. /\ request'[r] = k
      /\ \A id, inputs : StartedFor(id, inputs) => StartedFor(id, inputs)'
      /\ MadeRequest(r)' => RequestInv'
  BY <1>1, <1>2, RequestMoves DEF EngineInv
<1>5. MadeRequest(r)'
  <2>1. ARequest(r)' /\ request'[r].pc = pc
    BY <1>3, <1>4 DEF ARequest
  <2>2. pc \in {"asked", "refused"} /\ (pc = "asked" <=> AttributesValid(a))
    OBVIOUS
  <2>3. Asked(r)' => FieldsValid(a.withdrawals, a.beaconRoot)
    BY <2>1, <2>2 DEF Asked, Live, AttributesValid
  <2> QED
    BY <1>3, <1>4, <2>1, <2>2, <2>3 DEF MadeRequest, Live
<1>6. JobInv'
  <2> SUFFICES ASSUME NEW j \in jobs'
               PROVE  /\ j = [id |-> j.id, inputs |-> j.inputs, built |-> j.built]
                      /\ StartedFor(j.id, j.inputs)'
                      /\ j.built # None => IsBlock(j.built)
    BY DEF JobInv
  <2>1. CASE j \in jobs
    BY <1>4, <2>1, Zenon DEF EngineInv, JobInv
  <2>2. CASE j \notin jobs
    <3>1. AttributesValid(a) /\ j = [id |-> PayloadId(a), inputs |-> Inputs(a), built |-> None]
      BY <2>2 DEF Ask
    <3>2. Asked(r)' /\ request'[r].attributes = a
      BY <1>3, <1>4, <3>1 DEF Asked, Live
    <3>3. StartedFor(PayloadId(a), Inputs(a))'
      BY <3>2, Zenon DEF StartedFor
    <3> QED
      BY <3>1, <3>3
  <2> QED
    BY <2>1, <2>2
<1>7. HeadInv'
  BY DEF EngineInv, HeadInv, Ask
<1> QED
  BY <1>4, <1>5, <1>6, <1>7 DEF EngineInv

LEMMA LocalIsValid ==
  ASSUME EngineInv
  PROVE  IsAttributes(LocalAttributes) /\ AttributesValid(LocalAttributes)
<1>1. head.timestamp \in Nat
  BY DEF EngineInv, HeadInv
<1>2. /\ LocalAttributes.timestamp = head.timestamp + 1 /\ LocalAttributes.noTxPool = FALSE
      /\ LocalAttributes.transactions = None /\ LocalAttributes.withdrawals = None
      /\ LocalAttributes.beaconRoot = None /\ LocalAttributes.hint.extraData = None
  BY DEF LocalAttributes, NoHint
<1>3. TxList(LocalAttributes) = <<>> /\ <<>> \in Seq(ToSet(<<>>))
  BY <1>2 DEF TxList
<1>4. IsAttributes(LocalAttributes)
  <2>1. TxList(LocalAttributes) \in Seq(ToSet(TxList(LocalAttributes)))
    <3>1. \A S : <<>> \in Seq(S)
      OBVIOUS
    <3>2. <<>> \in Seq(ToSet(TxList(LocalAttributes)))
      BY <3>1, Zenon
    <3> QED
      BY <1>3, <3>2
  <2>2. LocalAttributes.timestamp \in Nat
    BY <1>1, <1>2
  <2>3. LocalAttributes.noTxPool \in BOOLEAN
    BY <1>2, Zenon
  <2> QED
    BY <1>2, <2>1, <2>2, <2>3, Zenon DEF IsAttributes
<1>5. AttributesValid(LocalAttributes)
  BY <1>1, <1>2 DEF AttributesValid, FieldsValid
<1> QED
  BY <1>4, <1>5

LEMMA ClientAttributes ==
  ASSUME NEW a \in Attributes, NEW n
  PROVE  IsAttributes([a EXCEPT !.parent = n])
<1> DEFINE b == [a EXCEPT !.parent = n]
<1>1. /\ a = [parent |-> a.parent, timestamp |-> a.timestamp, randao |-> a.randao,
              recipient |-> a.recipient, withdrawals |-> a.withdrawals,
              beaconRoot |-> a.beaconRoot, transactions |-> a.transactions,
              noTxPool |-> a.noTxPool, hint |-> a.hint, gasLimit |-> a.gasLimit]
      /\ a.timestamp \in Nat /\ a.noTxPool \in BOOLEAN
      /\ a.transactions # None => a.transactions \in Seq(ToSet(a.transactions))
      /\ a.hint.extraData # None => a.hint.extraData \in Seq(ToSet(a.hint.extraData))
  BY RequestAssumption
<1>2. /\ b.timestamp = a.timestamp /\ b.noTxPool = a.noTxPool
      /\ b.transactions = a.transactions /\ b.hint = a.hint
  BY <1>1
<1>3. <<>> \in Seq(ToSet(<<>>))
  OBVIOUS
<1>4. TxList(b) \in Seq(ToSet(TxList(b)))
  BY <1>1, <1>2, <1>3 DEF TxList
<1> HIDE DEF b
<1>5. IsAttributes(b)
  BY <1>1, <1>2, <1>4 DEF IsAttributes
<1> QED
  BY <1>5 DEF b

LEMMA BuildStep ==
  ASSUME EngineInv, NEW j \in jobs, Build(j)
  PROVE  EngineInv'
<1>1. PICK picked \in Pick(j.inputs) :
        jobs' = (jobs \ {j}) \cup {[j EXCEPT !.built = BuiltBlock(j.inputs, picked)]}
  BY DEF Build
<1>2. request' = request /\ head' = head /\ imported' = imported
  BY DEF Build
<1> DEFINE b == BuiltBlock(j.inputs, picked)
           k == [j EXCEPT !.built = b]
<1>3. j = [id |-> j.id, inputs |-> j.inputs, built |-> j.built] /\ StartedFor(j.id, j.inputs)
  BY DEF EngineInv, JobInv
<1>4. j.inputs.timestamp \in Nat
  <2>1. PICK q \in Requests : Asked(q) /\ Inputs(request[q].attributes) = j.inputs
    BY <1>3, Zenon DEF StartedFor
  <2>2. MadeRequest(q)
    BY <2>1 DEF EngineInv, RequestInv, NoRequest, Asked, Live
  <2>3. request[q].attributes.timestamp \in Nat
    BY <2>2 DEF MadeRequest, IsAttributes
  <2> QED
    BY <2>1, <2>3 DEF Inputs
<1>5. IsBlock(b)
  BY <1>4 DEF IsBlock, BuiltBlock
<1> HIDE DEF b
<1>6. /\ k = [id |-> j.id, inputs |-> j.inputs, built |-> b]
      /\ k.id = j.id /\ k.inputs = j.inputs /\ k.built = b
  BY <1>3
<1> HIDE DEF k
<1>7. \A id, inputs : StartedFor(id, inputs)' <=> StartedFor(id, inputs)
  BY <1>2 DEF StartedFor, Asked
<1>8. JobInv'
  <2> SUFFICES ASSUME NEW i \in jobs'
               PROVE  /\ i = [id |-> i.id, inputs |-> i.inputs, built |-> i.built]
                      /\ StartedFor(i.id, i.inputs)'
                      /\ i.built # None => IsBlock(i.built)
    BY DEF JobInv
  <2>1. CASE i = k
    BY <1>3, <1>5, <1>6, <1>7, <2>1
  <2>2. CASE i \in jobs
    BY <1>7, <2>2, Zenon DEF EngineInv, JobInv
  <2> QED
    BY <1>1, <2>1, <2>2 DEF k, b
<1>9. RequestInv'
  <2>1. \A r \in Requests : ARequest(r)' = ARequest(r) /\ Asked(r)' = Asked(r)
    BY <1>2 DEF ARequest, Asked
  <2>2. \A id, got : Fetched(id, got)' <=> Fetched(id, got)
    BY <1>7, Zenon DEF Fetched
  <2> QED
    BY <1>2, <2>1, <2>2 DEF EngineInv, RequestInv, MadeRequest
<1>10. HeadInv'
  BY <1>2 DEF EngineInv, HeadInv
<1> QED
  BY <1>8, <1>9, <1>10 DEF EngineInv

LEMMA RequestRecord ==
  ASSUME NEW o, NEW pc, NEW got,
         o = [pc |-> o.pc, attributes |-> o.attributes, local |-> o.local, got |-> o.got]
  PROVE  [o EXCEPT !.pc = pc, !.got = got]
           = [pc |-> pc, attributes |-> o.attributes, local |-> o.local, got |-> got]
<1>1. [o EXCEPT !.pc = pc]
        = [pc |-> pc, attributes |-> o.attributes, local |-> o.local, got |-> o.got]
  <2>1. \A z : z = [pc |-> o.pc, attributes |-> o.attributes, local |-> o.local, got |-> o.got]
               => [z EXCEPT !.pc = pc]
                    = [pc |-> pc, attributes |-> o.attributes, local |-> o.local, got |-> o.got]
    OBVIOUS
  <2> QED
    BY <2>1
<1>2. [[o EXCEPT !.pc = pc] EXCEPT !.got = got]
        = [pc |-> pc, attributes |-> o.attributes, local |-> o.local, got |-> got]
  <2>1. \A z : z = [pc |-> pc, attributes |-> o.attributes, local |-> o.local, got |-> o.got]
               => [z EXCEPT !.got = got]
                    = [pc |-> pc, attributes |-> o.attributes, local |-> o.local, got |-> got]
    OBVIOUS
  <2> QED
    BY <1>1, <2>1
<1> QED
  BY <1>2

LEMMA GetPayloadStep ==
  ASSUME EngineInv, NEW r \in Requests, NEW version \in Versions, GetPayload(r, version)
  PROVE  EngineInv'
<1>1. PICK j \in jobs :
        /\ j.id = PayloadId(request[r].attributes) /\ j.built # None
        /\ request' = [request EXCEPT
             ![r].pc = "got",
             ![r].got = [inputs |-> j.inputs, version |-> version,
                         payload |-> PayloadOf(j.built, version)]]
        /\ jobs' = jobs \ {j}
  BY DEF GetPayload
<1>2. request[r].pc = "asked" /\ head' = head /\ imported' = imported
  BY DEF GetPayload
<1>3. MadeRequest(r)
  BY <1>2 DEF EngineInv, RequestInv, NoRequest
<1>4. StartedFor(j.id, j.inputs) /\ IsBlock(j.built)
  BY <1>1 DEF EngineInv, JobInv
<1> DEFINE g == [inputs |-> j.inputs, version |-> version, payload |-> PayloadOf(j.built, version)]
           k == [request[r] EXCEPT !.pc = "got", !.got = g]
<1>5. g.inputs = j.inputs /\ g.version = version /\ g.payload = PayloadOf(j.built, version)
  OBVIOUS
<1>6. PayloadOf(j.built, version).hash = j.built
  BY DEF PayloadOf
<1>7. request' = [request EXCEPT ![r] = k]
  BY <1>1 DEF EngineInv, RequestInv
<1> HIDE DEF g
<1>8. /\ k.pc = "got" /\ k.attributes = request[r].attributes /\ k.local = request[r].local
      /\ k.got = g
      /\ k = [pc |-> k.pc, attributes |-> k.attributes, local |-> k.local, got |-> k.got]
  <2> DEFINE o == request[r]
  <2>1. o = [pc |-> o.pc, attributes |-> o.attributes, local |-> o.local, got |-> o.got]
    BY <1>3 DEF MadeRequest, ARequest
  <2> HIDE DEF o
  <2>2. [o EXCEPT !.pc = "got", !.got = g]
          = [pc |-> "got", attributes |-> o.attributes, local |-> o.local, got |-> g]
    BY <2>1, RequestRecord
  <2>3. k = [pc |-> "got", attributes |-> o.attributes, local |-> o.local, got |-> g]
    BY <2>2 DEF o
  <2> HIDE DEF k
  <2> QED
    BY <2>3 DEF o
<1> HIDE DEF k
<1>9. /\ request'[r] = k
      /\ \A id, inputs : StartedFor(id, inputs) => StartedFor(id, inputs)'
      /\ MadeRequest(r)' => RequestInv'
  BY <1>7, <1>8, RequestMoves DEF EngineInv, Live
<1>10. MadeRequest(r)'
  <2>1. Fetched(j.id, g)'
    BY <1>4, <1>5, <1>6, <1>9 DEF Fetched
  <2>2. Asked(r) /\ Asked(r)' /\ ARequest(r)' /\ k.pc \in Live
    BY <1>2, <1>8, <1>9 DEF Asked, Live, ARequest
  <2> QED
    BY <1>1, <1>3, <1>8, <1>9, <2>1, <2>2 DEF MadeRequest
<1>11. JobInv'
  <2> SUFFICES ASSUME NEW i \in jobs'
               PROVE  /\ i = [id |-> i.id, inputs |-> i.inputs, built |-> i.built]
                      /\ StartedFor(i.id, i.inputs)'
                      /\ i.built # None => IsBlock(i.built)
    BY DEF JobInv
  <2>1. i \in jobs
    BY <1>1
  <2> QED
    BY <1>9, <2>1, Zenon DEF EngineInv, JobInv
<1>12. HeadInv'
  BY <1>2 DEF EngineInv, HeadInv
<1> QED
  BY <1>9, <1>10, <1>11, <1>12 DEF EngineInv

\* The envelopes without a withdrawals field, and only they, give back the
\* block that was put in.
LEMMA EnvelopeKeepsBlock ==
  ASSUME NEW b, IsBlock(b), NEW version \in Versions
  PROVE  LET p == PayloadOf(b, version) IN
         /\ (FieldsValid(p.fields.withdrawals, None) /\ Converts(p)) <=> version <= 2
         /\ Converted(p).timestamp \in Nat
<1> DEFINE p == PayloadOf(b, version)
           w == IF version > 2 THEN <<>> ELSE None
<1>1. b.withdrawals = None /\ b.difficulty = 1 /\ b.timestamp \in Nat
  BY DEF IsBlock
<1>2. p.fields = [number |-> b.number, timestamp |-> b.timestamp, txs |-> b.txs,
                  gas |-> b.gas, withdrawals |-> w]
  BY <1>1 DEF PayloadOf, Fields
<1>3. p.hash = b
  BY DEF PayloadOf
<1> HIDE DEF p
<1>4. Converted(p) = [number |-> b.number, timestamp |-> b.timestamp, txs |-> b.txs,
                      gas |-> b.gas, withdrawals |-> w, difficulty |-> 1]
  BY <1>2 DEF Converted, BlockFrom
<1>5. p.fields.withdrawals = w
  BY <1>2
<1>6. version \in Int /\ None # <<>>
  BY RequestAssumption
<1>7. w = None <=> version <= 2
  BY <1>6
<1>8. w = None => Converts(p)
  BY <1>3, <1>4 DEF Converts, IsBlock
<1>9. Converted(p).timestamp \in Nat
  BY <1>1, <1>4
<1> QED
  BY <1>5, <1>7, <1>8, <1>9 DEF FieldsValid, p

LEMMA NewPayloadStep ==
  ASSUME SubmitInv, EngineInv, NEW r \in Requests, NewPayload(r)
  PROVE  SubmitInv' /\ EngineInv'
<1> DEFINE p == request[r].got.payload
           b == Converted(p)
           ok == FieldsValid(p.fields.withdrawals, None) /\ Converts(p)
           child == ok /\ b.number = head.number + 1 /\ b.timestamp >= head.timestamp
           txs == IF child THEN ToSet(b.txs) \cap Txs ELSE {}
           version == request[r].got.version
           k == [request[r] EXCEPT !.pc = "done", !.got = None]
<1>1. /\ request[r].pc = "got"
      /\ request' = [request EXCEPT ![r].pc = "done", ![r].got = None]
      /\ imported' = [version |-> version, ok |-> ok]
      /\ head' = IF child THEN b ELSE head
      /\ pool' = pool \ txs
      /\ left' = [tx \in Txs |-> IF tx \in txs \cap pool THEN left[tx] + 1 ELSE left[tx]]
      /\ handler' = handler /\ sequencer' = sequencer /\ call' = call /\ jobs' = jobs
  BY Zenon DEF NewPayload
<1>2. SubmitInv'
  <2>1. txs \subseteq Txs
    OBVIOUS
  <2> HIDE DEF txs
  <2> QED
    BY <1>1, <2>1, PoolShrinks
<1>3. MadeRequest(r)
  BY <1>1 DEF EngineInv, RequestInv, NoRequest
<1>4. (ok <=> version <= 2) /\ b.timestamp \in Nat
  <2> DEFINE g == request[r].got
  <2>1. version \in Versions /\ IsBlock(p.hash) /\ p = PayloadOf(p.hash, version)
    BY <1>1, <1>3, Zenon DEF MadeRequest, Fetched
  <2>2. PICK h : h = p.hash
    OBVIOUS
  <2>3. IsBlock(h) /\ p = PayloadOf(h, version)
    BY <2>1, <2>2, Zenon
  <2> HIDE DEF p, version
  <2> QED
    BY <2>1, <2>3, EnvelopeKeepsBlock, Zenon
<1>5. HeadInv'
  <2>1. head.timestamp \in Nat
    BY DEF EngineInv, HeadInv
  <2>2. head'.timestamp \in Nat
    <3> HIDE DEF b, child
    <3> QED
      BY <1>1, <1>4, <2>1
  <2>3. imported'.ok = ok /\ imported'.version = version
    <3> HIDE DEF ok, version
    <3> QED
      BY <1>1
  <2> QED
    BY <1>4, <2>2, <2>3, Zenon DEF HeadInv
<1>6. request' = [request EXCEPT ![r] = k]
  BY <1>1 DEF EngineInv, RequestInv
<1>7. /\ k.pc = "done" /\ k.attributes = request[r].attributes /\ k.local = request[r].local
      /\ k.got = None
      /\ k = [pc |-> k.pc, attributes |-> k.attributes, local |-> k.local, got |-> k.got]
  <2> DEFINE o == request[r]
  <2>1. o = [pc |-> o.pc, attributes |-> o.attributes, local |-> o.local, got |-> o.got]
    BY <1>3 DEF MadeRequest, ARequest
  <2> HIDE DEF o
  <2>2. [o EXCEPT !.pc = "done", !.got = None]
          = [pc |-> "done", attributes |-> o.attributes, local |-> o.local, got |-> None]
    BY <2>1, RequestRecord
  <2>3. k = [pc |-> "done", attributes |-> o.attributes, local |-> o.local, got |-> None]
    BY <2>2 DEF o
  <2> HIDE DEF k
  <2> QED
    BY <2>3 DEF o
<1> HIDE DEF k
<1>8. /\ request'[r] = k
      /\ \A id, inputs : StartedFor(id, inputs) => StartedFor(id, inputs)'
      /\ MadeRequest(r)' => RequestInv'
  BY <1>6, <1>7, RequestMoves DEF EngineInv, Live
<1>9. MadeRequest(r)'
  <2>1. Asked(r) /\ Asked(r)' /\ ARequest(r)' /\ k.pc \in Live
    BY <1>1, <1>7, <1>8 DEF Asked, Live, ARequest
  <2> QED
    BY <1>3, <1>7, <1>8, <2>1 DEF MadeRequest
<1>10. JobInv'
  BY <1>1, <1>8, Zenon DEF EngineInv, JobInv
<1> QED
  BY <1>2, <1>5, <1>8, <1>9, <1>10 DEF EngineInv

-----------------------------------------------------------------------------
(* Theorems *)

NodeInv == SubmitInv /\ EngineInv

LEMMA NodeStep ==
  ASSUME NodeInv, [NodeNext]_nvars
  PROVE  NodeInv'
<1> USE DEF NodeInv
<1>1. ASSUME UNCHANGED evars
      PROVE  EngineInv'
  <2>1. head' = head /\ request' = request /\ jobs' = jobs /\ imported' = imported
    BY <1>1 DEF evars
  <2>2. \A id, inputs : StartedFor(id, inputs)' <=> StartedFor(id, inputs)
    BY <2>1 DEF StartedFor, Asked
  <2>3. \A id, got : Fetched(id, got)' <=> Fetched(id, got)
    BY <2>2, Zenon DEF Fetched
  <2>4. \A r \in Requests : MadeRequest(r) => MadeRequest(r)'
    BY <2>1, <2>3 DEF MadeRequest, ARequest, Asked
  <2>5. RequestInv'
    BY <2>1, <2>4 DEF EngineInv, RequestInv
  <2>6. JobInv' /\ HeadInv'
    BY <2>1, <2>2 DEF EngineInv, JobInv, HeadInv
  <2> QED
    BY <2>5, <2>6 DEF EngineInv
<1>2. ASSUME UNCHANGED svars
      PROVE  SubmitInv'
  BY <1>2 DEF svars, SubmitInv, CallInv, CallTold, PoolInv, Admissions
<1>3. CASE SubmitNext /\ UNCHANGED evars
  BY <1>1, <1>3, SubmitStep
<1>4. ASSUME NEW r \in Requests, ForkchoiceUpdated(r)
      PROVE  NodeInv'
  <2>1. PICK a \in Attributes : Ask(r, [a EXCEPT !.parent = head.number], FALSE)
    BY <1>4 DEF ForkchoiceUpdated
  <2>2. EngineInv'
    BY <2>1, ClientAttributes, AskStep
  <2>3. UNCHANGED svars
    BY <2>1 DEF Ask
  <2> QED
    BY <1>2, <2>2, <2>3
<1>5. ASSUME NEW r \in Requests, LocalBuild(r)
      PROVE  NodeInv'
  <2>1. Ask(r, LocalAttributes, TRUE)
    BY <1>5 DEF LocalBuild
  <2>2. EngineInv'
    BY <2>1, LocalIsValid, AskStep
  <2>3. UNCHANGED svars
    BY <2>1 DEF Ask
  <2> QED
    BY <1>2, <2>2, <2>3
<1>6. ASSUME NEW r \in Requests, NEW version \in Versions, GetPayload(r, version)
      PROVE  NodeInv'
  <2>1. EngineInv'
    BY <1>6, GetPayloadStep
  <2>2. UNCHANGED svars
    BY <1>6 DEF GetPayload
  <2> QED
    BY <1>2, <2>1, <2>2
<1>7. ASSUME NEW j \in jobs, Build(j)
      PROVE  NodeInv'
  <2>1. EngineInv'
    BY <1>7, BuildStep
  <2>2. UNCHANGED svars
    BY <1>7 DEF Build
  <2> QED
    BY <1>2, <2>1, <2>2
<1>8. CASE UNCHANGED nvars
  BY <1>1, <1>2, <1>8 DEF nvars
<1> QED
  BY <1>3, <1>4, <1>5, <1>6, <1>7, <1>8, NewPayloadStep DEF NodeNext, EngineNext

\* The invariant of the submissions and of the payload requests, which every
\* handler keeps.
THEOREM NodeInvariant == NodeSpec => []NodeInv
<1>1. NodeInit => NodeInv
  BY SubmitInitInv, EngineInitInv DEF NodeInit, NodeInv
<1>2. NodeInv /\ [NodeNext]_nvars => NodeInv'
  BY NodeStep
<1> QED
  BY <1>1, <1>2, PTL DEF NodeSpec

\* A caller of eth_sendRawTransaction is told what happened to its
\* transaction, whatever the sequencer answers and however the pool moves
\* meanwhile.
THEOREM AnswerIsTruthfulThm == NodeSpec => []AnswerIsTruthful
<1>1. NodeInv => AnswerIsTruthful
  BY DEF NodeInv, SubmitInv, CallInv, CallTold, PoolInv, AnswerIsTruthful, MadeCalls, NoCall, Answers
<1> QED
  BY <1>1, NodeInvariant, PTL

\* What getPayload returns was built for a request that was made, and for the
\* attributes the client itself asked with, whatever others ask for, unless
\* their block data hints differ from the client's.
THEOREM PayloadServesRequestThm == NodeSpec => []PayloadServesRequest
<1>1. NodeInv => PayloadServesRequest
  <2> SUFFICES ASSUME NodeInv, NEW r \in Requests
               PROVE  /\ request[r].got # None =>
                           \E q \in Requests :
                             /\ request[q].pc \notin {"idle", "refused"}
                             /\ request[r].got.inputs = Inputs(request[q].attributes)
                             /\ \/ request[r].got.inputs = Inputs(request[r].attributes)
                                \/ request[q].attributes.hint # request[r].attributes.hint
                      /\ request[r].pc = "refused" => ~request[r].local
    BY DEF PayloadServesRequest
  <2>1. request[r].pc = "refused" => ~request[r].local
    BY DEF NodeInv, EngineInv, RequestInv, MadeRequest, NoRequest
  <2>2. ASSUME request[r].got # None
        PROVE  \E q \in Requests :
                 /\ request[q].pc \notin {"idle", "refused"}
                 /\ request[r].got.inputs = Inputs(request[q].attributes)
                 /\ \/ request[r].got.inputs = Inputs(request[r].attributes)
                    \/ request[q].attributes.hint # request[r].attributes.hint
    <3>1. MadeRequest(r)
      BY <2>2 DEF NodeInv, EngineInv, RequestInv, NoRequest
    <3>2. request[r].pc = "got" /\ Asked(r)
      BY <2>2, <3>1 DEF MadeRequest, Asked, Live
    <3>3. PICK q \in Requests :
            /\ Asked(q) /\ PayloadId(request[q].attributes) = PayloadId(request[r].attributes)
            /\ Inputs(request[q].attributes) = request[r].got.inputs
      BY <3>1, <3>2, Zenon DEF MadeRequest, Fetched, StartedFor
    <3>4. MadeRequest(q) /\ request[q].pc \notin {"idle", "refused"}
      BY <3>3 DEF NodeInv, EngineInv, RequestInv, NoRequest, Asked, Live
    <3>5. \/ Inputs(request[q].attributes) = Inputs(request[r].attributes)
          \/ request[q].attributes.hint # request[r].attributes.hint
      BY <3>1, <3>2, <3>3, <3>4, SameIdSameInputs, Zenon DEF MadeRequest
    <3> QED
      BY <3>3, <3>4, <3>5, Zenon
  <2> QED
    BY <2>1, <2>2
<1> QED
  BY <1>1, NodeInvariant, PTL

\* newPayload accepts what the node built, with the hash it was built with,
\* through the envelopes that can carry it and through no other.
THEOREM BuiltIsImportedThm == NodeSpec => []BuiltIsImported
<1>1. NodeInv => BuiltIsImported
  BY DEF NodeInv, EngineInv, HeadInv, BuiltIsImported
<1> QED
  BY <1>1, NodeInvariant, PTL
=============================================================================
