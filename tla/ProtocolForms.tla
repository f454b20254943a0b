--------------------------- MODULE ProtocolForms ---------------------------
(***************************************************************************)
(* The forms a transaction and a receipt take between the network, memory, *)
(* the database and JSON: dogeos-protocol-types/src/transaction and        *)
(* .../receipt, and ScrollReceipt of dogeos-reth-primitives/src/receipt.rs. *)
(*                                                                         *)
(* One object is followed through any chain of conversions.  Field layouts *)
(* belong to the RLP, serde and compact libraries (external) and are left  *)
(* out; the type tag, the signature, the carried hash and the L1 fee,      *)
(* which this code adds, drops and recomputes, are kept.  A Keccak hash is *)
(* the tuple of what is hashed.                                            *)
(***************************************************************************)
EXTENDS Integers

CONSTANTS
  BodiesOf(_), \* the fields of the transactions of a type; those of a receipt
              \* are told apart by the transaction it is of
  Sigs,     \* signatures
  Fees,     \* L1 fees of receipts
  Foreign,  \* type bytes of other chains
  Strange,  \* hashes of something else
  NoSig,    \* an L1 message has no signature field
  ZeroSig,  \* the placeholder stored and shown for it
  None,     \* no tag, no fee, or a hash that is computed when asked for
  Panic     \* what reading an unknown identifier ends in

L1 == 126
ScrollTxType == {0, 1, 2, 4, L1}

ASSUME FormsAssumption ==
  /\ Fees \subseteq Nat /\ Foreign \cap ScrollTxType = {} /\ Foreign \subseteq 0 .. 127
  /\ {NoSig, ZeroSig} \cap Sigs = {} /\ NoSig # ZeroSig
  /\ {None, Panic} \cap Nat = {} /\ None # Panic /\ None \notin Strange

VARIABLES
  obj,     \* the object in its present form
  origin,  \* what it was when it entered the system: as read, and the tag of its bytes
  read,    \* history: the bytes it was last decoded from, or None
  wired,   \* history: whether a consensus encoding of a receipt was decoded
  kept,    \* history: whether every form so far has carried the hash
  fault    \* "none", "refused" (an error) or "panic"

fvars == <<obj, origin, read, wired, kept, fault>>

-----------------------------------------------------------------------------
(* Types and tags *)

TypeFlag(type) == IF type = 0 THEN None ELSE type
TypeOfTag(tag) == IF tag = None THEN 0 ELSE tag

\* Two bits of the type are an identifier; the extended flag moves the type
\* to a byte of its own.
CompactIdentifier(type) == IF type \in {0, 1, 2} THEN type ELSE 3
CompactExtension(type)  == IF type \in {0, 1, 2} THEN None ELSE type
FromCompactIdentifier(id, ext) ==
  IF id \in {0, 1, 2} THEN id
  ELSE IF id = 3 /\ ext \in {4, L1} THEN ext
  ELSE Panic

HashOf(type, body, sig) == <<type, body, IF type = L1 THEN NoSig ELSE sig>>
Hash(o) == IF o.hash = None THEN HashOf(o.type, o.body, o.sig) ELSE o.hash

-----------------------------------------------------------------------------
(* Forms *)

Signed(form, type, body, sig, hash) ==
  [form |-> form, type |-> type, body |-> body, sig |-> sig, hash |-> hash]
Form(o, form) == Signed(form, o.type, o.body, o.sig, o.hash)
Bytes(form, tag, body, sig) ==
  [form |-> form, tag |-> tag, body |-> body, sig |-> sig]

InMemory == {"envelope", "pooled"}

\* encode_2718 and network_encode, the same for both enums: the network form
\* of a typed transaction is a string, that of a legacy one a bare list.
Encode2718(o) == Bytes("2718", TypeFlag(o.type), o.body, o.sig)
NetworkEncode(o) == Bytes("network", TypeFlag(o.type), o.body, o.sig)

\* typed_decode refuses a tagged legacy transaction and an unknown type;
\* the pooled enum also refuses L1 messages.
EnvelopeTags == {None, 1, 2, 4, L1}
PooledTags == {None, 1, 2, 4}
Tags(form) == IF form = "pooled" THEN PooledTags ELSE EnvelopeTags

Decoded(form, b) ==
  LET type == TypeOfTag(b.tag)
  IN Signed(form, type, b.body, b.sig, HashOf(type, b.body, b.sig))

\* ToTxCompact and Envelope::signature; FromTxCompact.
ToCompact(o) ==
  [form |-> "compact", id |-> CompactIdentifier(o.type), ext |-> CompactExtension(o.type),
   body |-> o.body, sig |-> IF o.type = L1 THEN ZeroSig ELSE o.sig]
FromCompact(c) ==
  LET type == FromCompactIdentifier(c.id, c.ext)
  IN Signed("envelope", type, c.body, IF type = L1 THEN NoSig ELSE c.sig, None)

\* TaggedTxEnvelope: always written with its tag.  MaybeTaggedTxEnvelope tries
\* the tagged reading and, whatever the tag of what that refuses, a legacy one.
\* The hash is believed.
JsonType(j) ==
  IF j.tag \in ScrollTxType /\ j.body \in BodiesOf(j.tag) THEN j.tag
  ELSE IF j.body \in BodiesOf(0) THEN 0
  ELSE None
ToJson(o) ==
  [form |-> "json", tag |-> o.type, body |-> o.body, hash |-> Hash(o),
   sig |-> IF o.type = L1 THEN ZeroSig ELSE o.sig]
FromJson(j) ==
  Signed("envelope", JsonType(j), j.body,
         IF JsonType(j) = L1 THEN NoSig ELSE j.sig, j.hash)

\* The bincode representation keeps the hash of L1 messages only.
ToBincode(o) ==
  [form |-> "bincode", variant |-> o.type, body |-> o.body, sig |-> o.sig,
   hash |-> IF o.type = L1 THEN Hash(o) ELSE None]
FromBincode(b) == Signed("envelope", b.variant, b.body, b.sig, b.hash)

\* strip_signature; into_signed and From<Signed<ScrollTypedTransaction>>.
\* The signer keeps the signature it took off.
ToTyped(o) == [form |-> "typed", type |-> o.type, body |-> o.body]
IntoSigned_HashAsSigned(t, sig) ==
  Signed("envelope", t.type, t.body, IF t.type = L1 THEN NoSig ELSE sig,
         <<t.type, t.body, sig>>)
IntoSigned(t, sig) ==
  Signed("envelope", t.type, t.body, IF t.type = L1 THEN NoSig ELSE sig,
         HashOf(t.type, t.body, sig))

\* Compact and JSON forms of the unsigned transaction.
TypedToCompact(t) ==
  [form |-> "typedCompact", id |-> CompactIdentifier(t.type),
   ext |-> CompactExtension(t.type), body |-> t.body]
TypedFromCompact(c) ==
  [form |-> "typed", type |-> FromCompactIdentifier(c.id, c.ext), body |-> c.body]
TypedToJson(t)   == [form |-> "typedJson", tag |-> t.type, body |-> t.body]
TypedFromJson(j) == [form |-> "typed", type |-> JsonType(j), body |-> j.body]

(* Receipts.  ScrollReceipt has an L1 fee in every variant but L1Message.   *)
(* The consensus encodings leave the fee out; ScrollReceiptEnvelope never  *)
(* had one.                                                                *)

Receipt(type, body, fee) ==
  [form |-> "receipt", type |-> type, body |-> body, fee |-> IF type = L1 THEN 0 ELSE fee]
ReceiptEnvelope(type, body) == [form |-> "receiptEnvelope", type |-> type, body |-> body]

ReceiptBytes(form, r) == [form |-> form, tag |-> TypeFlag(r.type), body |-> r.body]

\* Without a bloom, typed_decode takes any ScrollTxType, a tagged legacy
\* receipt too.  With a bloom the tag is read as an RLP integer, in which a
\* zero byte is not canonical.  The RPC envelope refuses tagged legacy.
ReceiptTags(form) ==
  IF form = "receipt2718" THEN {None} \cup ScrollTxType
  ELSE {None} \cup (ScrollTxType \ {0})

\* The fields that are encoded do not include the fee; decoding defaults it.
FeeOnTheWire == 0

DecodedReceipt(b) ==
  IF b.form = "envelope2718" THEN ReceiptEnvelope(TypeOfTag(b.tag), b.body)
  ELSE Receipt(TypeOfTag(b.tag), b.body, FeeOnTheWire)

\* CompactScrollReceipt: a fee of zero is stored as none.
ReceiptToCompact(r) ==
  [form |-> "receiptCompact", id |-> CompactIdentifier(r.type),
   ext |-> CompactExtension(r.type), body |-> r.body,
   fee |-> IF r.fee = 0 THEN None ELSE r.fee]
ReceiptFromCompact(c) ==
  Receipt(FromCompactIdentifier(c.id, c.ext), c.body, IF c.fee = None THEN 0 ELSE c.fee)

-----------------------------------------------------------------------------
(* Entry: transactions signed or derived here, bytes and JSON from outside, *)
(* receipts of an execution, receipt bytes from a peer.                    *)

SigsFor(type) == IF type = L1 THEN {NoSig} ELSE Sigs

Entering(type, body, sig, hash, fee, tag) ==
  [type |-> type, body |-> body, sig |-> sig, hash |-> hash, fee |-> fee, tag |-> tag]
Genuine(type, body, sig, fee, tag) ==
  Entering(type, body, sig, HashOf(type, body, sig), fee, tag)
Enters(o, from) == obj = o /\ origin = from

Fresh == read = None /\ wired = FALSE /\ kept = TRUE /\ fault = "none"

EntryTags == {None} \cup ScrollTxType \cup Foreign
Outside(form, tag, body) == [form |-> form, tag |-> tag, body |-> body]

\* Any tag over the fields of any type, with any hash.
JsonEnters(tag, of) ==
  \E body \in BodiesOf(of) :
  LET type == JsonType(Outside("json", tag, body))
  IN \E sig \in SigsFor(type) :
       \/ \E hash \in {HashOf(type, body, sig)} \cup Strange :
            Enters([form |-> "json", tag |-> tag, body |-> body, hash |-> hash,
                    sig |-> IF type = L1 THEN ZeroSig ELSE sig],
                   Entering(type, body, sig, hash, 0, None))
       \/ Enters(Outside("typedJson", tag, body), Genuine(type, body, sig, 0, None))

BytesEnter(tag) ==
  LET type == TypeOfTag(tag)
  IN \E body \in BodiesOf(type) :
       \/ \E sig \in SigsFor(type), form \in {"2718", "network"} :
            Enters(Bytes(form, tag, body, sig), Genuine(type, body, sig, 0, tag))
       \/ \E form \in {"receipt2718", "receiptBloom", "envelope2718"} :
            Enters(Outside(form, tag, body), Genuine(type, body, NoSig, 0, tag))

MadeHere(type) ==
  \E body \in BodiesOf(type) :
    \/ \E sig \in SigsFor(type) :
         Enters(Signed("envelope", type, body, sig, HashOf(type, body, sig)),
                Genuine(type, body, sig, 0, None))
    \/ \E fee \in Fees :
         /\ type = L1 => fee = 0
         /\ Enters(Receipt(type, body, fee), Genuine(type, body, NoSig, fee, None))

FormsInit ==
  /\ Fresh
  /\ \/ \E type \in ScrollTxType : MadeHere(type)
     \/ \E tag \in EntryTags : BytesEnter(tag)
     \/ \E tag \in EntryTags, of \in ScrollTxType : JsonEnters(tag, of)

-----------------------------------------------------------------------------
(* Conversions *)

\* The forms with a hash of their own, those of the pool and of responses included.
HashForms == InMemory \cup {"json", "poolTx", "rpc", "rpcJson"}
HasHash(o) == o.form \in HashForms \/ (o.form = "bincode" /\ o.variant = L1)

Is(form) == fault = "none" /\ obj.form = form
Become(o) ==
  /\ obj' = o /\ kept' = (kept /\ HasHash(o))
  /\ UNCHANGED <<origin, read, wired, fault>>
Refuse == fault' = "refused" /\ UNCHANGED <<obj, origin, read, wired, kept>>

\* A compact reader: the library cannot return an error, so it panics.
Load(o) ==
  IF FromCompactIdentifier(obj.id, obj.ext) = Panic
  THEN fault' = "panic" /\ UNCHANGED <<obj, origin, read, wired, kept>>
  ELSE Become(o)

TryIntoPooled ==
  /\ Is("envelope")
  /\ IF obj.type = L1 THEN Refuse ELSE Become(Form(obj, "pooled"))

IntoScrollEnvelope == Is("pooled") /\ Become(Form(obj, "envelope"))

Encode ==
  /\ \E form \in InMemory : Is(form)
  /\ \E b \in {Encode2718(obj), NetworkEncode(obj)} : Become(b)

Decode ==
  /\ \E form \in {"2718", "network"} : Is(form)
  /\ \E form \in InMemory :
       IF obj.tag \notin Tags(form) THEN Refuse
       ELSE /\ obj' = Decoded(form, obj) /\ read' = obj
            /\ UNCHANGED <<origin, wired, kept, fault>>

Store      == Is("envelope") /\ Become(ToCompact(obj))
LoadStored == Is("compact") /\ Load(FromCompact(obj))

WriteJson == Is("envelope") /\ Become(ToJson(obj))
ReadJson  ==
  /\ Is("json")
  /\ IF JsonType(obj) = None THEN Refuse ELSE Become(FromJson(obj))

WriteBincode == Is("envelope") /\ Become(ToBincode(obj))
ReadBincode  == Is("bincode") /\ Become(FromBincode(obj))

StripSignature == Is("envelope") /\ Become(ToTyped(obj))
SignAgain ==
  /\ Is("typed")
  /\ Become(IntoSigned(obj, IF obj.type = L1 THEN ZeroSig ELSE origin.sig))

StoreTyped == Is("typed") /\ Become(TypedToCompact(obj))
LoadTyped  == Is("typedCompact") /\ Load(TypedFromCompact(obj))
WriteTypedJson == Is("typed") /\ Become(TypedToJson(obj))
ReadTypedJson  ==
  /\ Is("typedJson")
  /\ IF JsonType(obj) = None THEN Refuse ELSE Become(TypedFromJson(obj))

EncodeReceipt ==
  \/ /\ Is("receipt")
     /\ \E form \in {"receipt2718", "receiptBloom"} : Become(ReceiptBytes(form, obj))
  \/ Is("receiptEnvelope") /\ Become(ReceiptBytes("envelope2718", obj))

DecodeReceipt ==
  /\ \E form \in {"receipt2718", "receiptBloom", "envelope2718"} : Is(form)
  /\ IF obj.tag \notin ReceiptTags(obj.form) THEN Refuse
     ELSE /\ obj' = DecodedReceipt(obj) /\ read' = obj /\ wired' = TRUE
          /\ UNCHANGED <<origin, kept, fault>>

\* ScrollReceiptEnvelope::from_parts, for a response.
IntoReceiptEnvelope ==
  Is("receipt") /\ Become(ReceiptEnvelope(obj.type, obj.body))

StoreReceipt == Is("receipt") /\ Become(ReceiptToCompact(obj))
LoadReceipt  == Is("receiptCompact") /\ Load(ReceiptFromCompact(obj))

FormsNext ==
  \/ TryIntoPooled \/ IntoScrollEnvelope \/ Encode \/ Decode
  \/ Store \/ LoadStored \/ WriteJson \/ ReadJson \/ WriteBincode \/ ReadBincode
  \/ StripSignature \/ SignAgain
  \/ StoreTyped \/ LoadTyped \/ WriteTypedJson \/ ReadTypedJson
  \/ EncodeReceipt \/ DecodeReceipt \/ IntoReceiptEnvelope
  \/ StoreReceipt \/ LoadReceipt

=============================================================================
