------------------------------ MODULE RpcForms ------------------------------
(***************************************************************************)
(* The forms of ProtocolForms joined by those of the pool, of RPC requests *)
(* and of RPC responses: dogeos-reth-txpool/src/transaction.rs,            *)
(* dogeos-rpc-types and the converters of dogeos-reth-rpc.  Every form of  *)
(* a transaction answers the same questions (its nonce and its prices);    *)
(* the answers of a form are its view.                                     *)
(***************************************************************************)
EXTENDS ProtocolForms

CONSTANTS
  Bases,    \* base fees of blocks
  U128Max   \* the largest L1 fee a response can carry

OneFee == {0, 1}   \* the types with a gas price instead of two fees

ASSUME RpcAssumption ==
  /\ Bases \subseteq Nat /\ U128Max \in Nat /\ 3 \in Foreign
  /\ \A type \in ScrollTxType \ {L1} : \A body \in BodiesOf(type) :
       /\ body = [nonce |-> body.nonce, cap |-> body.cap, tip |-> body.tip,
                  rest |-> body.rest]
       /\ body.nonce \in Nat /\ body.cap \in Nat
       /\ IF type \in OneFee THEN body.tip = None ELSE body.tip \in Nat

-----------------------------------------------------------------------------
(* Views.  A base fee of None asks for the price of a pending transaction. *)

Lesser(a, b) == IF a < b THEN a ELSE b

\* alloy-consensus: the four Ethereum transactions.
EthereumView(type, body) ==
  [nonce |-> body.nonce, cap |-> body.cap, tip |-> body.tip,
   gasPrice |-> IF type \in OneFee THEN body.cap ELSE None]
EthereumEffective(type, body) ==
  [base \in Bases \cup {None} |->
     IF type \in OneFee \/ base = None THEN body.cap ELSE Lesser(body.cap, base + body.tip)]

L1MessageView == [nonce |-> 0, cap |-> 0, tip |-> None, gasPrice |-> None]
L1MessageEffective == [base \in Bases \cup {None} |-> 0]

EnvelopeView(o) == IF o.type = L1 THEN L1MessageView ELSE EthereumView(o.type, o.body)
EnvelopeEffective(o) ==
  IF o.type = L1 THEN L1MessageEffective ELSE EthereumEffective(o.type, o.body)
QueueIndex(o) == IF o.type = L1 THEN o.body.index ELSE None

TypedView(o) == IF o.type = L1 THEN L1MessageView ELSE EthereumView(o.type, o.body)
TypedEffective(o) ==
  IF o.type = L1 THEN L1MessageEffective ELSE EthereumEffective(o.type, o.body)

PooledView(o) == <<EthereumView(o.type, o.body), EthereumEffective(o.type, o.body)>>
PoolView(o)   == <<EnvelopeView(o), EnvelopeEffective(o)>>
RpcView(o)    == <<EnvelopeView(o), EnvelopeEffective(o)>>

ViewOf(o) ==
  CASE o.form = "envelope" -> <<EnvelopeView(o), EnvelopeEffective(o)>>
    [] o.form = "typed"    -> <<TypedView(o), TypedEffective(o)>>
    [] o.form = "pooled"   -> PooledView(o)
    [] o.form = "poolTx"   -> PoolView(o)
    [] o.form = "rpc"      -> RpcView(o)

\* recover_signer; a recovered address stands for what it is computed from.
SignatureHash(type, body) == <<type, body>>
Signer(type, body, sig) ==
  IF type = L1 THEN body.sender ELSE <<SignatureHash(type, body), sig>>
PooledSigner(o) == <<SignatureHash(o.type, o.body), o.sig>>

-----------------------------------------------------------------------------
(* The pool's wrapper *)

PoolTx(o, from, encoded) ==
  [form |-> "poolTx", type |-> o.type, body |-> o.body, sig |-> o.sig, hash |-> o.hash,
   from |-> from, encoded |-> encoded]

FromPooled == Is("pooled") /\ Become(PoolTx(obj, PooledSigner(obj), None))

\* The fee accounting asks for the bytes; the first answer is kept.
Encoded2718 ==
  /\ Is("poolTx")
  /\ Become(PoolTx(obj, obj.from,
                   IF obj.encoded = None THEN Encode2718(obj) ELSE obj.encoded))

\* To a block (the envelope) or to a peer (the pooled form).
IntoConsensus == Is("poolTx") /\ Become(Form(obj, "envelope"))
IntoPooled    == Is("poolTx") /\ Become(Form(obj, "pooled"))

-----------------------------------------------------------------------------
(* Requests *)

\* A request names all that is in a body, or nothing of it; which fields hold the
\* fees depends on the type of the transaction it is for.
Naming(for, body, type, from, auth, blob) ==
  [form |-> "request", type |-> type, from |-> from, auth |-> auth, blob |-> blob,
   nonce |-> body.nonce, rest |-> body.rest, tip |-> body.tip, access |-> for # 0,
   gasPrice |-> IF for \in OneFee THEN body.cap ELSE None,
   cap      |-> IF for \in OneFee THEN None ELSE body.cap]
NamingNothing(type, from, rest) ==
  [form |-> "request", type |-> type, from |-> from, auth |-> FALSE, blob |-> FALSE,
   nonce |-> None, rest |-> rest, tip |-> None, access |-> FALSE,
   gasPrice |-> None, cap |-> None]

\* A request has no queue index, no nonce and no fee for an L1 message.
RequestOf(type, body) ==
  IF type = L1 THEN NamingNothing(None, body.sender, body.rest)
  ELSE Naming(type, body, type, None, type = 4, FALSE)

IsBlobRequest_ByFields(r) == r.blob
IsBlobRequest(r) == r.type = 3 \/ r.blob

\* alloy-rpc-types-eth: preferred_type, missing_keys, build_consensus_tx.
Preferred(r) ==
  IF r.auth THEN 4 ELSE IF r.gasPrice = None THEN 2 ELSE IF r.access THEN 1 ELSE 0
Complete(r) ==
  /\ r.nonce # None
  /\ IF Preferred(r) \in OneFee THEN r.gasPrice # None ELSE r.cap # None /\ r.tip # None

BuildTyped(r) ==
  [form |-> "typed", type |-> Preferred(r),
   body |-> [nonce |-> r.nonce, tip |-> r.tip, rest |-> r.rest,
             cap |-> IF r.gasPrice = None THEN r.cap ELSE r.gasPrice]]

Buildable(r) == ~IsBlobRequest(r) /\ Complete(r)

IntoRequest ==
  \/ Is("envelope") /\ Become(RequestOf(obj.type, obj.body))
  \/ Is("typed") /\ Become(RequestOf(obj.type, obj.body))

\* prep_for_submission: the library types the request after its fields.
Retyped(r, type) ==
  [form |-> "request", type |-> type, from |-> r.from, auth |-> r.auth, blob |-> r.blob,
   nonce |-> r.nonce, rest |-> r.rest, tip |-> r.tip, access |-> r.access,
   gasPrice |-> r.gasPrice, cap |-> r.cap]

PrepForSubmission ==
  /\ Is("request")
  /\ Become(IF IsBlobRequest(obj) THEN obj ELSE Retyped(obj, Preferred(obj)))

\* The request's own setters, with which it names all that is in body.
Filled(r, type, body) == Naming(type, body, r.type, r.from, r.auth, r.blob)

\* The network's setters, on a request that lacks a nonce: from here it asks for a
\* transaction of its own, to be signed by its sender.
FillRequest ==
  /\ Is("request") /\ obj.nonce = None /\ ~IsBlobRequest(obj)
  /\ \E type \in {0, 1, 2} : \E body \in BodiesOf(type), sig \in Sigs :
       /\ obj' = Filled(obj, type, body)
       /\ origin' = Genuine(type, body, sig, 0, None)
  /\ read' = None /\ UNCHANGED <<wired, kept, fault>>

BuildRequest ==
  /\ Is("request")
  /\ IF Buildable(obj) THEN Become(BuildTyped(obj)) ELSE Refuse

SignRequest ==
  /\ Is("request") /\ Buildable(obj)
  /\ Become(IntoSigned(BuildTyped(obj), origin.sig))

\* A typed transaction and a signature are encoded without an envelope.
EncodeTyped ==
  /\ Is("typed")
  /\ \E form \in {"2718", "network"} :
       Become(Bytes(form, TypeFlag(obj.type), obj.body,
                    IF obj.type = L1 THEN NoSig ELSE origin.sig))

\* eth_simulateV1: a dummy signature; the result is not passed on.
SimulateRequest ==
  /\ Is("request") /\ Buildable(obj)
  /\ Become(Form(IntoSigned(BuildTyped(obj), ZeroSig), "simulated"))

-----------------------------------------------------------------------------
(* Responses *)

\* ScrollRpcTransaction::from_transaction; effective_tip_per_gas is the
\* library's and has no answer below the base fee.
EffectiveTip(o, base) ==
  LET v == EnvelopeView(o)
  IN IF v.cap < base THEN 0
     ELSE IF v.tip = None THEN v.cap - base ELSE Lesser(v.cap - base, v.tip)

RpcTransaction(o, from, base, price) ==
  [form |-> "rpc", type |-> o.type, body |-> o.body, sig |-> o.sig, hash |-> o.hash,
   from |-> from, base |-> base, price |-> price]

FromTransaction_CapOnly(o, base) ==
  RpcTransaction(o, Signer(o.type, o.body, o.sig), base, EnvelopeView(o).cap)
FromTransaction(o, base) ==
  RpcTransaction(o, Signer(o.type, o.body, o.sig), base,
                 IF o.type = L1 THEN 0
                 ELSE IF base = None THEN EnvelopeView(o).cap
                 ELSE EffectiveTip(o, base) + base)

\* The mapper asks for the receipt of a signed transaction, which may fail;
\* the L1 fee it finds is not part of the response.
BlocksWith(o) == {None} \cup {base \in Bases : o.type = L1 \/ base <= o.body.cap}

ShowTransaction ==
  /\ Is("envelope") \/ Is("poolTx")
  /\ \/ \E base \in IF obj.form = "poolTx" THEN {None} ELSE BlocksWith(obj) :
          Become(FromTransaction(obj, base))
     \/ obj.type # L1 /\ fault' = "provider" /\ UNCHANGED <<obj, origin, read, wired, kept>>

\* gasPrice is written only where the envelope writes none itself.
RpcJson(j, from, base, gasPrice) ==
  [form |-> "rpcJson", tag |-> j.tag, body |-> j.body, hash |-> j.hash, sig |-> j.sig,
   from |-> from, base |-> base, gasPrice |-> gasPrice]

WriteRpc ==
  /\ Is("rpc")
  /\ Become(RpcJson(ToJson(obj), obj.from, obj.base,
                    IF EnvelopeView(obj).gasPrice = None THEN obj.price
                    ELSE EnvelopeView(obj).gasPrice))

FromField(j) ==
  IF j.from # None THEN j.from ELSE IF JsonType(j) = L1 THEN j.body.sender ELSE None

ReadRpc ==
  /\ Is("rpcJson")
  /\ IF JsonType(obj) = None \/ FromField(obj) = None THEN Refuse
     ELSE LET tx == FromJson(obj)
          IN Become(RpcTransaction(tx, FromField(obj), obj.base,
                                   IF obj.gasPrice # None THEN obj.gasPrice
                                   ELSE EnvelopeView(tx).gasPrice))

FromRpc == Is("rpc") /\ Become(Form(obj, "envelope"))

\* ScrollReceiptBuilder; the price is the library's build_receipt.
ShowReceipt ==
  /\ Is("receipt")
  /\ \E base \in BlocksWith(obj) \ {None} :
       Become([form |-> "rpcReceipt", type |-> obj.type, body |-> obj.body,
               base |-> base, fee |-> Lesser(obj.fee, U128Max),
               price |-> EnvelopeEffective(obj)[base]])

\* The accessors of the two kinds of receipts.
ReceiptFields(r)    == <<r.type, r.body>>
RpcReceiptFields(r) == <<r.type, r.body>>

IntoConsensusReceipt ==
  Is("rpcReceipt") /\ Become(ReceiptEnvelope(obj.type, obj.body))

-----------------------------------------------------------------------------
(* Entry: JSON responses without a sender, and requests for a blob          *)
(* transaction, by type or by fields.                                      *)

ResponseEnters(tag, of) ==
  \E body \in BodiesOf(of) :
  LET type == JsonType(Outside("json", tag, body))
  IN \E sig \in SigsFor(type) : \E hash \in {HashOf(type, body, sig)} \cup Strange :
       Enters(RpcJson([tag |-> tag, body |-> body, hash |-> hash,
                       sig |-> IF type = L1 THEN ZeroSig ELSE sig],
                      None, None, IF type = 0 THEN body.cap ELSE None),
              Entering(type, body, sig, hash, 0, None))

RpcInit ==
  \/ FormsInit
  \/ /\ Fresh
     /\ \E tag \in EntryTags, of \in {0, 2, L1} : ResponseEnters(tag, of)
  \/ /\ Fresh
     /\ \E body \in BodiesOf(2), byType \in BOOLEAN :
          Enters(Naming(2, body, IF byType THEN 3 ELSE None, None, FALSE, ~byType),
                 Genuine(2, body, NoSig, 0, 3))

RpcNext ==
  \/ FormsNext
  \/ FromPooled \/ Encoded2718 \/ IntoConsensus \/ IntoPooled
  \/ IntoRequest \/ PrepForSubmission \/ FillRequest
  \/ BuildRequest \/ SignRequest \/ SimulateRequest \/ EncodeTyped
  \/ ShowTransaction \/ WriteRpc \/ ReadRpc \/ FromRpc
  \/ ShowReceipt \/ IntoConsensusReceipt

RpcSpec == RpcInit /\ [][RpcNext]_fvars

-----------------------------------------------------------------------------
(* Properties *)

Unknown == origin.tag \in Foreign \/ origin.type \notin ScrollTxType
Carried == InMemory \cup {"poolTx", "rpc", "simulated"}

\* No chain of conversions changes what a transaction is: its type, fields,
\* signature, sender and answers are those it entered with, although
\* JSON is read under a tag or, failing that, as legacy, a request rebuilds the
\* transaction from optional fields, and each form answers through match arms
\* of its own.  Its hash is the one it entered with, which may be wrong where
\* JSON brought it, until it passes a form that has none (bytes, the compact
\* form, an unsigned one, bincode but for an L1 message), and from then on the
\* hash of what it is, although signing computes it from a signature an L1
\* message does not have: a wrong hash never comes back and is never mixed
\* with the right one.  A receipt keeps its type and fields, and its L1 fee
\* until a consensus encoding of it is decoded, when the fee reads as zero.
IdentityKept ==
  /\ obj.form \in Carried \cup {"typed"} => obj.type = origin.type /\ obj.body = origin.body
  /\ obj.form \in {"receipt", "receiptEnvelope"} =>
       ReceiptFields(obj) = <<origin.type, origin.body>>
  /\ obj.form = "rpcReceipt" => RpcReceiptFields(obj) = <<origin.type, origin.body>>
  /\ obj.form \in Carried \ {"simulated"} =>
       /\ obj.sig = origin.sig
       /\ QueueIndex(obj) = IF origin.type = L1 THEN origin.body.index ELSE None
       /\ Hash(obj) =
            IF kept THEN origin.hash ELSE HashOf(origin.type, origin.body, origin.sig)
  /\ obj.form \in {"poolTx", "rpc"} => obj.from = Signer(origin.type, origin.body, origin.sig)
  /\ obj.form \in InMemory \cup {"typed", "poolTx", "rpc"} =>
       ViewOf(obj) =
         IF origin.type = L1 THEN <<L1MessageView, L1MessageEffective>>
         ELSE <<EthereumView(origin.type, origin.body),
                EthereumEffective(origin.type, origin.body)>>
  /\ obj.form = "receipt" => obj.fee = IF wired THEN 0 ELSE origin.fee

\* Everything written can be read: no compact reader panics, and a decoder
\* or a builder refuses only a tagged legacy object, another chain's type
\* (blob requests included, which never become a transaction), JSON that holds
\* neither the fields of its tag's type nor those of legacy, an L1 message
\* that was to be pooled or rebuilt from a request, or a response without a
\* sender.  No lookup can fail an L1 message.  What was decoded encodes to
\* the bytes it was decoded from ("encoding returns the precise byte-array
\* that was decoded", receipt/envelope.rs), the tagged legacy ScrollReceipt
\* excepted, and so do the bytes the pool caches.
WrittenIsReadable ==
  /\ fault # "panic"
  /\ fault = "refused" =>
       \/ Unknown \/ origin.tag = 0 \/ origin.type = L1
       \/ obj.form = "rpcJson" /\ obj.from = None
  /\ fault = "provider" => origin.type # L1
  /\ Unknown => obj.form \notin Carried \cup {"typed"}
  /\ obj.form \in {"pooled", "poolTx", "simulated"} => obj.type # L1
  /\ obj.form = "poolTx" => obj.encoded \in {None, Encode2718(obj)}
  /\ read # None /\ obj.form \in Carried \ {"simulated"} =>
       read \in {Encode2718(obj), NetworkEncode(obj)}
  /\ read # None /\ read.tag # 0 /\ obj.form \in {"receipt", "receiptEnvelope"} =>
       read = ReceiptBytes(read.form, obj)

\* revm: what a transaction pays per unit of gas in a block of that base fee.
PricePaid(base) ==
  IF origin.type = L1 THEN 0
  ELSE IF base = None \/ origin.type \in OneFee THEN origin.body.cap
  ELSE Lesser(origin.body.cap, base + origin.body.tip)

\* The price a response shows, also after a client has written and read it
\* as JSON, is the one paid in the block (the cap while pending, nothing for
\* an L1 message, for which an older node's response may show none), although
\* the transaction computes it from a tip, its JSON form drops it for two of
\* the types, and the receipt asks the transaction itself.  The L1 fee shown
\* is the stored one, as far as the response can carry it.
PriceShownIsPaid ==
  /\ obj.form = "rpc" =>
       \/ obj.price = PricePaid(obj.base)
       \/ origin.type = L1 /\ obj.price = None
  /\ obj.form = "rpcReceipt" =>
       /\ obj.price = PricePaid(obj.base)
       /\ obj.fee = IF wired THEN 0 ELSE Lesser(origin.fee, U128Max)

\* The inductive invariant: the shape of the object in each of its forms, in terms of
\* what entered the system.  An object of another chain's type keeps the form it came
\* in, and so does a tagged legacy transaction.
Ours ==
  /\ origin.type \in ScrollTxType /\ origin.body \in BodiesOf(origin.type)
  /\ origin.tag \notin Foreign
OursSigned == Ours /\ origin.sig \in SigsFor(origin.type)
Wire(form) == Bytes(form, TypeFlag(origin.type), origin.body, origin.sig)
OriginHash == HashOf(origin.type, origin.body, origin.sig)
ShownSig == IF origin.type = L1 THEN ZeroSig ELSE origin.sig
OriginSigner == Signer(origin.type, origin.body, origin.sig)
FeeKept == IF wired THEN 0 ELSE origin.fee

SignedForms == {"envelope", "pooled", "poolTx", "rpc"}
TypedForms == {"typed", "typedCompact", "typedJson"}
TxForms ==
  SignedForms \cup TypedForms \cup
  {"2718", "network", "compact", "json", "bincode", "request", "simulated", "rpcJson"}
ReceiptWire == {"receipt2718", "receiptBloom", "envelope2718"}
ReceiptForms ==
  ReceiptWire \cup {"receipt", "receiptEnvelope", "receiptCompact", "rpcReceipt"}

SignedShape(o) ==
  o.form \in SignedForms =>
    /\ OursSigned
    /\ o.type = origin.type /\ o.body = origin.body /\ o.sig = origin.sig
    /\ o.form \in {"pooled", "poolTx"} => origin.type # L1
    /\ o.form = "poolTx" => o.from = OriginSigner /\ o.encoded \in {None, Wire("2718")}
    /\ o.form = "rpc" =>
         /\ o.from = OriginSigner
         /\ (o.price = PricePaid(o.base) \/ (origin.type = L1 /\ o.price = None))

WireShape(o) ==
  o.form \in {"2718", "network"} =>
    /\ o = Bytes(o.form, o.tag, origin.body, origin.sig)
    /\ \/ OursSigned /\ o.tag = TypeFlag(origin.type)
       \/ o.tag = origin.tag /\ o.tag \in Foreign \cup {0}

JsonShape(o) ==
  /\ JsonType(o) = origin.type /\ o.body = origin.body
  /\ origin.type # None => OursSigned

StoredShape(o) ==
  /\ o.form = "compact" =>
       /\ OursSigned /\ o.body = origin.body /\ o.sig = ShownSig
       /\ o.id = CompactIdentifier(origin.type) /\ o.ext = CompactExtension(origin.type)
  /\ o.form \in {"json", "rpcJson"} =>
       /\ JsonShape(o)
       /\ origin.type # None => o.sig = ShownSig
  /\ o.form = "rpcJson" =>
       /\ o.from \in {None, OriginSigner}
       /\ \/ o.gasPrice = None /\ (origin.type = L1 \/ o.from = None)
          \/ o.gasPrice = PricePaid(o.base)
  /\ o.form = "bincode" =>
       /\ OursSigned /\ o.variant = origin.type /\ o.body = origin.body
       /\ o.sig = origin.sig /\ (origin.type # L1 => o.hash = None)

TypedShape(o) ==
  /\ o.form \in TypedForms \ {"typedJson"} => OursSigned /\ o.body = origin.body
  /\ o.form = "typed" => o.type = origin.type
  /\ o.form = "typedCompact" =>
       o.id = CompactIdentifier(origin.type) /\ o.ext = CompactExtension(origin.type)
  /\ o.form = "typedJson" => JsonShape(o)
  /\ o.form = "simulated" =>
       /\ OursSigned /\ o.type = origin.type /\ o.body = origin.body /\ origin.type # L1

\* A request for a blob transaction stays one; one for an L1 message names nothing;
\* any other names the whole transaction.
Names(o, type, body) ==
  o = Naming(type, body, o.type, o.from, type = 4, FALSE)
RequestShape(o) ==
  o.form = "request" =>
    \/ origin.tag \in Foreign /\ IsBlobRequest(o)
    \/ /\ OursSigned /\ origin.type = L1
       /\ o = NamingNothing(o.type, o.from, o.rest) /\ ~IsBlobRequest(o)
    \/ /\ OursSigned /\ origin.type # L1 /\ ~IsBlobRequest(o)
       /\ Names(o, origin.type, origin.body)

ReceiptShape(o) ==
  /\ o.form \in ReceiptForms =>
       /\ o.body = origin.body /\ origin.fee \in Nat /\ (origin.type = L1 => origin.fee = 0)
       /\ (o.form \notin ReceiptWire => Ours)
  /\ o.form \in ReceiptWire =>
       /\ o = [form |-> o.form, tag |-> o.tag, body |-> o.body]
       /\ \/ Ours /\ o.tag = TypeFlag(origin.type)
          \/ Ours /\ o.tag = 0 /\ origin.tag = 0 /\ origin.type = 0
          \/ o.tag = origin.tag /\ o.tag \in Foreign
  /\ o.form \in {"receipt", "receiptEnvelope", "rpcReceipt"} => o.type = origin.type
  /\ o.form = "receipt" => o.fee = FeeKept
  /\ o.form = "receiptCompact" =>
       /\ o.id = CompactIdentifier(origin.type) /\ o.ext = CompactExtension(origin.type)
       /\ o.fee = IF FeeKept = 0 THEN None ELSE FeeKept
  /\ o.form = "rpcReceipt" =>
       o.price = PricePaid(o.base) /\ o.fee = Lesser(FeeKept, U128Max)

Shape(o) ==
  /\ o.form \in TxForms \cup ReceiptForms
  /\ SignedShape(o) /\ WireShape(o) /\ StoredShape(o)
  /\ TypedShape(o) /\ RequestShape(o) /\ ReceiptShape(o)

ReadInv ==
  /\ obj.form \in TxForms => read \in {None, Wire("2718"), Wire("network")}
  /\ obj.form \in ReceiptForms =>
       \/ read = None
       \/ read.tag = 0
       \/ read = [form |-> read.form, tag |-> TypeFlag(origin.type), body |-> origin.body]

FaultInv ==
  /\ fault \in {"none", "refused", "provider"}
  /\ fault = "refused" =>
       \/ Unknown \/ origin.tag = 0 \/ origin.type = L1
       \/ obj.form = "rpcJson" /\ obj.from = None
  /\ fault = "provider" => origin.type # L1

FormsInv == Shape(obj) /\ ReadInv /\ FaultInv

\* The hash, apart: where a form has one it is the one kept, or is computed when asked
\* for; where a form has none, the computed one is the one kept.
KeptHash == IF kept THEN origin.hash ELSE OriginHash
HashInv ==
  /\ origin.hash = OriginHash \/ origin.hash # None
  /\ obj.form \in TxForms /\ HasHash(obj) =>
       obj.hash = KeptHash \/ (obj.hash = None /\ KeptHash = OriginHash)
  /\ obj.form \in TxForms /\ ~HasHash(obj) => KeptHash = OriginHash
=============================================================================
