--------------------------- MODULE RpcFormsProofs ---------------------------
(***************************************************************************)
(* Proofs about RpcForms.  Every conversion is a function of the object's  *)
(* present form, so the invariant says for each form what the object looks *)
(* like in terms of its origin, and there is one step per conversion.      *)
(***************************************************************************)
EXTENDS RpcForms, TLAPS

-----------------------------------------------------------------------------
(* One kind of form at a time: the shapes of the other kinds say nothing. *)

LEMMA SignedIsShaped ==
  ASSUME NEW o, o.form \in SignedForms, SignedShape(o)
  PROVE  Shape(o) /\ o.form \in TxForms
<1>1. o.form \in TxForms /\ o.form \notin ReceiptForms
  BY DEF SignedForms, TxForms, ReceiptForms, ReceiptWire
<1>2. WireShape(o) /\ StoredShape(o) /\ TypedShape(o) /\ RequestShape(o)
  BY DEF SignedForms, WireShape, StoredShape, TypedShape, TypedForms, RequestShape
<1>3. ReceiptShape(o)
  BY <1>1 DEF ReceiptShape, ReceiptForms
<1> QED
  BY <1>1, <1>2, <1>3 DEF Shape

LEMMA WireIsShaped ==
  ASSUME NEW o, o.form \in {"2718", "network"}, WireShape(o)
  PROVE  Shape(o) /\ o.form \in TxForms
<1>1. o.form \in TxForms /\ o.form \notin ReceiptForms
  BY DEF TxForms, ReceiptForms, ReceiptWire
<1>2. SignedShape(o) /\ StoredShape(o) /\ TypedShape(o) /\ RequestShape(o)
  BY DEF SignedForms, SignedShape, StoredShape, TypedShape, TypedForms, RequestShape
<1>3. ReceiptShape(o)
  BY <1>1 DEF ReceiptShape, ReceiptForms
<1> QED
  BY <1>1, <1>2, <1>3 DEF Shape

LEMMA StoredIsShaped ==
  ASSUME NEW o, o.form \in {"compact", "json", "rpcJson", "bincode"}, StoredShape(o)
  PROVE  Shape(o) /\ o.form \in TxForms
<1>1. o.form \in TxForms /\ o.form \notin ReceiptForms
  BY DEF TxForms, ReceiptForms, ReceiptWire
<1>2. SignedShape(o) /\ WireShape(o) /\ TypedShape(o) /\ RequestShape(o)
  BY DEF SignedForms, SignedShape, WireShape, TypedShape, TypedForms, RequestShape
<1>3. ReceiptShape(o)
  BY <1>1 DEF ReceiptShape, ReceiptForms
<1> QED
  BY <1>1, <1>2, <1>3 DEF Shape

LEMMA TypedIsShaped ==
  ASSUME NEW o, o.form \in TypedForms \cup {"simulated"}, TypedShape(o)
  PROVE  Shape(o) /\ o.form \in TxForms
<1>1. o.form \in TxForms /\ o.form \notin ReceiptForms
  BY DEF TxForms, ReceiptForms, ReceiptWire, TypedForms
<1>2. SignedShape(o) /\ WireShape(o) /\ StoredShape(o) /\ RequestShape(o)
  BY DEF SignedForms, SignedShape, WireShape, StoredShape, TypedForms, RequestShape
<1>3. ReceiptShape(o)
  BY <1>1 DEF ReceiptShape, ReceiptForms
<1> QED
  BY <1>1, <1>2, <1>3 DEF Shape

LEMMA RequestIsShaped ==
  ASSUME NEW o, o.form = "request", RequestShape(o)
  PROVE  Shape(o) /\ o.form \in TxForms
<1>1. o.form \in TxForms /\ o.form \notin ReceiptForms
  BY DEF TxForms, ReceiptForms, ReceiptWire
<1>2. SignedShape(o) /\ WireShape(o) /\ StoredShape(o) /\ TypedShape(o)
  BY DEF SignedForms, SignedShape, WireShape, StoredShape, TypedShape, TypedForms
<1>3. ReceiptShape(o)
  BY <1>1 DEF ReceiptShape, ReceiptForms
<1> QED
  BY <1>1, <1>2, <1>3 DEF Shape

LEMMA ReceiptIsShaped ==
  ASSUME NEW o, o.form \in ReceiptForms, ReceiptShape(o)
  PROVE  Shape(o)
<1>1. o.form \notin TxForms
  BY DEF TxForms, SignedForms, TypedForms, ReceiptForms, ReceiptWire
<1>2. SignedShape(o) /\ WireShape(o) /\ StoredShape(o) /\ TypedShape(o) /\ RequestShape(o)
  BY <1>1 DEF TxForms, SignedForms, SignedShape, WireShape, StoredShape, TypedShape,
              TypedForms, RequestShape
<1> QED
  BY <1>2 DEF Shape

\* The shape of an object depends on nothing but its origin and, for a fee, on wired.
LEMMA ShapeKept ==
  ASSUME Shape(obj'), UNCHANGED <<origin, wired>>
  PROVE  Shape(obj)'
<1>1. PICK o : o = obj'
  OBVIOUS
<1>2. SignedShape(o) => SignedShape(obj)'
  BY <1>1 DEF SignedShape, OursSigned, Ours, OriginSigner, Wire, PricePaid
<1>3. WireShape(o) => WireShape(obj)'
  BY <1>1 DEF WireShape, OursSigned, Ours
<1>4. StoredShape(o) => StoredShape(obj)'
  BY <1>1 DEF StoredShape, JsonShape, OursSigned, Ours, OriginSigner, ShownSig, PricePaid
<1>5. TypedShape(o) => TypedShape(obj)'
  BY <1>1 DEF TypedShape, JsonShape, OursSigned, Ours
<1>6. RequestShape(o) => RequestShape(obj)'
  BY <1>1 DEF RequestShape, OursSigned, Ours, IsBlobRequest, Names
<1>7. ReceiptShape(o) => ReceiptShape(obj)'
  BY <1>1 DEF ReceiptShape, Ours, FeeKept, PricePaid
<1> QED
  BY <1>1, <1>2, <1>3, <1>4, <1>5, <1>6, <1>7 DEF Shape

LEMMA Changed ==
  ASSUME FormsInv, fault = "none", UNCHANGED <<origin, read, wired, fault>>, Shape(obj'),
         \/ obj.form \in TxForms /\ obj'.form \in TxForms
         \/ obj.form \in ReceiptForms /\ obj'.form \in ReceiptForms
  PROVE  FormsInv'
<1>1. Shape(obj)'
  BY ShapeKept
<1>2. TxForms \cap ReceiptForms = {}
  BY DEF TxForms, SignedForms, TypedForms, ReceiptForms, ReceiptWire
<1>3. ReadInv'
  BY <1>2 DEF FormsInv, ReadInv, Wire
<1>4. FaultInv'
  BY DEF FaultInv
<1> QED
  BY <1>1, <1>3, <1>4 DEF FormsInv

LEMMA Faulted ==
  ASSUME FormsInv, UNCHANGED <<obj, origin, read, wired>>, FaultInv'
  PROVE  FormsInv'
<1>1. Shape(obj)'
  BY ShapeKept DEF FormsInv
<1>2. ReadInv'
  BY DEF FormsInv, ReadInv, Wire
<1> QED
  BY <1>1, <1>2 DEF FormsInv

LEMMA Refusal ==
  ASSUME FormsInv, Refuse,
         \/ Unknown \/ origin.tag = 0
         \/ origin.type = L1
         \/ obj.form = "rpcJson" /\ obj.from = None
  PROVE  FormsInv'
BY Faulted DEF Refuse, FaultInv, Unknown

-----------------------------------------------------------------------------
(* What the parts of an object are in each form. *)

LEMMA SignedFacts ==
  ASSUME FormsInv, obj.form \in SignedForms
  PROVE  /\ obj.form \in TxForms /\ OursSigned
         /\ obj.type = origin.type /\ obj.body = origin.body /\ obj.sig = origin.sig
BY DEF FormsInv, Shape, SignedShape, TxForms

LEMMA Distinct ==
  /\ None \notin Nat /\ Panic \notin Nat /\ None # Panic /\ None \notin Foreign
  /\ \A type \in ScrollTxType : type \notin Foreign /\ type \in Nat
  /\ 3 \in Foreign
<1>1. None \notin Nat /\ Panic \notin Nat /\ None # Panic
  BY FormsAssumption, Zenon
<1>2. \A x \in Foreign : x \in Nat
  BY FormsAssumption
<1>3. \A type \in ScrollTxType : type \notin Foreign
  BY FormsAssumption, Zenon
<1>4. \A type \in ScrollTxType : type \in Nat
  BY DEF ScrollTxType, L1
<1> QED
  BY <1>1, <1>2, <1>3, <1>4, RpcAssumption

LEMMA TypeFacts ==
  ASSUME Ours
  PROVE  /\ TypeFlag(origin.type) \in EnvelopeTags
         /\ TypeOfTag(TypeFlag(origin.type)) = origin.type
         /\ origin.type # L1 => TypeFlag(origin.type) \in PooledTags
         /\ FromCompactIdentifier(CompactIdentifier(origin.type), CompactExtension(origin.type))
              = origin.type
         /\ origin.type # Panic /\ origin.type # None
         /\ ~Unknown
BY Distinct DEF Ours, Unknown, TypeFlag, TypeOfTag, EnvelopeTags, PooledTags,
   FromCompactIdentifier, CompactIdentifier, CompactExtension, ScrollTxType, L1

LEMMA SigFacts ==
  ASSUME OursSigned
  PROVE  /\ Ours /\ (origin.type = L1 => origin.sig = NoSig)
         /\ (IF origin.type = L1 THEN NoSig ELSE ShownSig) = origin.sig
BY DEF OursSigned, SigsFor, ShownSig

\* What is written with its tag is read under it.
LEMMA JsonOfOurs ==
  ASSUME Ours, NEW j, j.tag = origin.type, j.body = origin.body
  PROVE  JsonType(j) = origin.type
BY DEF Ours, JsonType

LEMMA JsonTypes ==
  ASSUME NEW j, JsonType(j) # None
  PROVE  JsonType(j) \in ScrollTxType /\ j.body \in BodiesOf(JsonType(j))
BY DEF JsonType, ScrollTxType

-----------------------------------------------------------------------------
(* The conversions of ProtocolForms *)

LEMMA PooledForms ==
  ASSUME FormsInv, TryIntoPooled \/ IntoScrollEnvelope \/ IntoConsensus \/ IntoPooled \/ FromRpc
  PROVE  FormsInv'
<1>1. obj.form \in SignedForms /\ fault = "none"
  BY DEF TryIntoPooled, IntoScrollEnvelope, IntoConsensus, IntoPooled, FromRpc, Is, SignedForms
<1>2. CASE TryIntoPooled /\ obj.type = L1
  BY <1>1, <1>2, SignedFacts, Refusal DEF TryIntoPooled
<1>3. CASE ~(TryIntoPooled /\ obj.type = L1)
  <2>1. PICK form \in {"envelope", "pooled"} :
          Become(Form(obj, form)) /\ (form = "pooled" => origin.type # L1)
    <3>1. obj.form = "poolTx" => origin.type # L1
      BY DEF FormsInv, Shape, SignedShape, SignedForms
    <3> QED
      BY <1>1, <1>3, <3>1, SignedFacts
      DEF TryIntoPooled, IntoScrollEnvelope, IntoConsensus, IntoPooled, FromRpc, Is
  <2>2. obj' = Form(obj, form) /\ UNCHANGED <<origin, read, wired, fault>>
    BY <2>1 DEF Become
  <2>3. obj'.form \in SignedForms /\ SignedShape(obj')
    BY <1>1, <2>1, <2>2, SignedFacts DEF SignedShape, Form, Signed, SignedForms
  <2> QED
    BY <1>1, <2>2, <2>3, SignedFacts, SignedIsShaped, Changed
<1> QED
  BY <1>2, <1>3

LEMMA EncodeStep ==
  ASSUME FormsInv, Encode
  PROVE  FormsInv'
<1>1. obj.form \in SignedForms /\ fault = "none"
  BY DEF Encode, Is, SignedForms, InMemory
<1>2. PICK form \in {"2718", "network"} :
        obj' = Bytes(form, TypeFlag(obj.type), obj.body, obj.sig)
  BY DEF Encode, Become, Encode2718, NetworkEncode
<1>3. UNCHANGED <<origin, read, wired, fault>>
  BY DEF Encode, Become
<1>4. obj'.form \in {"2718", "network"} /\ WireShape(obj')
  BY <1>1, <1>2, SignedFacts DEF WireShape, Bytes
<1> QED
  BY <1>1, <1>3, <1>4, SignedFacts, WireIsShaped, Changed

LEMMA DecodeStep ==
  ASSUME FormsInv, Decode
  PROVE  FormsInv'
<1>1. obj.form \in {"2718", "network"} /\ fault = "none"
  BY DEF Decode, Is
<1>2. /\ obj = Bytes(obj.form, obj.tag, origin.body, origin.sig)
      /\ \/ OursSigned /\ obj.tag = TypeFlag(origin.type)
         \/ obj.tag = origin.tag /\ obj.tag \in Foreign \cup {0}
  BY <1>1 DEF FormsInv, Shape, WireShape
<1>3. PICK form \in {"envelope", "pooled"} :
        IF obj.tag \notin Tags(form) THEN Refuse
        ELSE /\ obj' = Decoded(form, obj) /\ read' = obj
             /\ UNCHANGED <<origin, wired, kept, fault>>
  BY DEF Decode, InMemory
<1>4. CASE obj.tag \notin Tags(form)
  <2>1. Unknown \/ origin.tag = 0 \/ origin.type = L1
    <3>1. CASE OursSigned /\ obj.tag = TypeFlag(origin.type)
      BY <1>4, <3>1, TypeFacts DEF OursSigned, Tags
    <3>2. CASE obj.tag = origin.tag /\ obj.tag \in Foreign \cup {0}
      BY <3>2 DEF Unknown
    <3> QED
      BY <1>2, <3>1, <3>2
  <2> QED
    BY <1>3, <1>4, <2>1, Refusal
<1>5. CASE obj.tag \in Tags(form)
  <2>1. OursSigned /\ obj.tag = TypeFlag(origin.type)
    <3>1. obj.tag \notin Foreign \cup {0}
      BY <1>5, Distinct DEF Tags, EnvelopeTags, PooledTags, ScrollTxType, L1
    <3> QED
      BY <1>2, <3>1
  <2>2. form = "pooled" => origin.type # L1
    BY <1>5, <2>1, FormsAssumption DEF Tags, PooledTags, TypeFlag, L1
  <2>3. obj' = Signed(form, origin.type, origin.body, origin.sig, OriginHash)
    <3>1. obj.body = origin.body /\ obj.sig = origin.sig
      BY <1>2 DEF Bytes
    <3>2. TypeOfTag(obj.tag) = origin.type
      BY <2>1, TypeFacts DEF OursSigned
    <3> QED
      BY <1>3, <1>5, <3>1, <3>2 DEF Decoded, OriginHash
  <2>4. obj'.form \in SignedForms /\ SignedShape(obj')
    BY <2>1, <2>2, <2>3 DEF SignedShape, Signed, SignedForms
  <2>5. Shape(obj') /\ obj'.form \in TxForms
    BY <2>4, SignedIsShaped
  <2>6. UNCHANGED <<origin, wired, fault>> /\ read' = obj
    BY <1>3, <1>5
  <2>7. Shape(obj)'
    BY <2>5, <2>6, ShapeKept
  <2>8. read' \in {Wire("2718"), Wire("network")}
    BY <1>1, <1>2, <2>1, <2>6 DEF Wire
  <2>9. ReadInv'
    BY <2>5, <2>6, <2>8 DEF ReadInv, Wire, TxForms, ReceiptForms, ReceiptWire, SignedForms, TypedForms
  <2>10. FaultInv'
    BY <1>1, <2>6 DEF FaultInv
  <2> QED
    BY <2>7, <2>9, <2>10 DEF FormsInv
<1> QED
  BY <1>4, <1>5

\* A compact reader finds the type that was stored, so none of them panics.
LEMMA Loads ==
  ASSUME NEW o, Load(o), Ours,
         obj.id = CompactIdentifier(origin.type), obj.ext = CompactExtension(origin.type)
  PROVE  obj' = o /\ UNCHANGED <<origin, read, wired, fault>>
BY TypeFacts DEF Load, Become

LEMMA StoreSteps ==
  ASSUME FormsInv, Store \/ WriteJson \/ WriteBincode
  PROVE  FormsInv'
<1>1. obj.form \in SignedForms /\ fault = "none"
  BY DEF Store, WriteJson, WriteBincode, Is, SignedForms
<1>2. UNCHANGED <<origin, read, wired, fault>>
  BY DEF Store, WriteJson, WriteBincode, Become
<1>3. obj'.form \in {"compact", "json", "bincode"} /\ StoredShape(obj')
  <2>1. CASE Store
    BY <1>1, <2>1, SignedFacts DEF Store, Become, ToCompact, StoredShape, ShownSig
  <2>2. CASE WriteJson
    <3>1. obj' = ToJson(obj)
      BY <2>2 DEF WriteJson, Become
    <3>2. /\ obj'.form = "json" /\ obj'.tag = origin.type /\ obj'.body = origin.body
          /\ obj'.sig = ShownSig
      BY <1>1, <3>1, SignedFacts DEF ToJson, ShownSig
    <3>3. JsonType(obj') = origin.type
      BY <1>1, <3>2, SignedFacts, JsonOfOurs DEF OursSigned
    <3> QED
      BY <1>1, <3>2, <3>3, SignedFacts DEF StoredShape, JsonShape
  <2>3. CASE WriteBincode
    BY <1>1, <2>3, SignedFacts DEF WriteBincode, Become, ToBincode, StoredShape
  <2> QED
    BY <2>1, <2>2, <2>3
<1> QED
  BY <1>1, <1>2, <1>3, SignedFacts, StoredIsShaped, Changed

LEMMA LoadSteps ==
  ASSUME FormsInv, LoadStored \/ ReadJson \/ ReadBincode
  PROVE  FormsInv'
<1>1. obj.form \in {"compact", "json", "bincode"} /\ fault = "none"
  BY DEF LoadStored, ReadJson, ReadBincode, Is
<1>2. StoredShape(obj) /\ obj.form \in TxForms
  BY <1>1 DEF FormsInv, Shape, TxForms
<1>3. CASE ReadJson /\ JsonType(obj) = None
  <2>1. origin.type = None
    BY <1>2, <1>3 DEF StoredShape, JsonShape, ReadJson, Is
  <2>2. Unknown
    BY <2>1, Distinct DEF Unknown
  <2> QED
    BY <1>3, <2>2, Refusal DEF ReadJson
<1>4. CASE ~(ReadJson /\ JsonType(obj) = None)
  <2>1. OursSigned /\ obj.body = origin.body
    BY <1>1, <1>2, <1>4 DEF StoredShape, JsonShape, LoadStored, ReadJson, ReadBincode, Is
  <2>2. PICK hash :
          /\ obj' = Signed("envelope", origin.type, origin.body, origin.sig, hash)
          /\ UNCHANGED <<origin, read, wired, fault>>
    <3>1. CASE LoadStored
      <4>1. /\ obj.sig = ShownSig
            /\ obj.id = CompactIdentifier(origin.type) /\ obj.ext = CompactExtension(origin.type)
        BY <1>2, <3>1 DEF StoredShape, LoadStored, Is
      <4>2. Load(FromCompact(obj))
        BY <3>1 DEF LoadStored
      <4>3. /\ obj' = FromCompact(obj) /\ UNCHANGED <<origin, read, wired, fault>>
            /\ FromCompactIdentifier(obj.id, obj.ext) = origin.type
        BY <2>1, <4>1, <4>2, TypeFacts DEF OursSigned, Load, Become
      <4> QED
        BY <2>1, <4>1, <4>3, SigFacts DEF FromCompact
    <3>2. CASE ReadJson
      <4>1. JsonType(obj) = origin.type /\ obj.sig = ShownSig
        BY <1>2, <1>4, <3>2 DEF StoredShape, JsonShape, ReadJson, Is
      <4>2. obj' = FromJson(obj) /\ UNCHANGED <<origin, read, wired, fault>>
        BY <1>4, <3>2 DEF ReadJson, Become
      <4> QED
        BY <2>1, <4>1, <4>2, SigFacts DEF FromJson
    <3>3. CASE ReadBincode
      BY <1>2, <2>1, <3>3 DEF ReadBincode, Is, Become, FromBincode, StoredShape
    <3> QED
      BY <3>1, <3>2, <3>3
  <2>3. obj'.form \in SignedForms /\ SignedShape(obj')
    BY <2>1, <2>2 DEF SignedShape, Signed, SignedForms
  <2> QED
    BY <1>1, <1>2, <2>2, <2>3, SignedIsShaped, Changed
<1> QED
  BY <1>3, <1>4

LEMMA TypedFacts ==
  ASSUME FormsInv, obj.form \in TypedForms
  PROVE  /\ obj.form \in TxForms /\ obj.body = origin.body
         /\ obj.form # "typedJson" \/ JsonType(obj) # None => OursSigned
         /\ obj.form = "typed" => obj.type = origin.type
         /\ obj.form = "typedCompact" =>
              /\ obj.id = CompactIdentifier(origin.type)
              /\ obj.ext = CompactExtension(origin.type)
         /\ obj.form = "typedJson" => JsonType(obj) = origin.type
BY DEF FormsInv, Shape, TypedShape, JsonShape, TypedForms, TxForms

LEMMA TypedSteps ==
  ASSUME FormsInv,
         \/ StripSignature \/ StoreTyped \/ LoadTyped \/ WriteTypedJson
         \/ ReadTypedJson /\ JsonType(obj) # None
  PROVE  FormsInv'
<1>1. (obj.form = "envelope" \/ obj.form \in TypedForms) /\ fault = "none"
  BY DEF StripSignature, StoreTyped, LoadTyped, WriteTypedJson, ReadTypedJson, Is, TypedForms
<1>2. obj.form \in TxForms /\ OursSigned /\ obj.body = origin.body
  BY <1>1, SignedFacts, TypedFacts
  DEF SignedForms, StripSignature, StoreTyped, LoadTyped, WriteTypedJson, ReadTypedJson, Is
<1>3. obj'.form \in TypedForms /\ TypedShape(obj') /\ UNCHANGED <<origin, read, wired, fault>>
  <2>1. CASE StripSignature
    <3>1. obj.type = origin.type
      BY <2>1, SignedFacts DEF StripSignature, Is, SignedForms
    <3> QED
      BY <1>2, <2>1, <3>1 DEF StripSignature, Become, ToTyped, TypedShape, TypedForms
  <2>2. CASE StoreTyped
    <3>1. obj.type = origin.type
      BY <2>2, TypedFacts DEF StoreTyped, Is, TypedForms
    <3> QED
      BY <1>2, <2>2, <3>1 DEF StoreTyped, Become, TypedToCompact, TypedShape, TypedForms
  <2>3. CASE LoadTyped
    <3>1. /\ obj.id = CompactIdentifier(origin.type) /\ obj.ext = CompactExtension(origin.type)
      BY <2>3, TypedFacts DEF LoadTyped, Is, TypedForms
    <3>2. /\ obj' = TypedFromCompact(obj) /\ UNCHANGED <<origin, read, wired, fault>>
          /\ FromCompactIdentifier(obj.id, obj.ext) = origin.type
      BY <1>2, <2>3, <3>1, TypeFacts DEF OursSigned, LoadTyped, Load, Become
    <3> QED
      BY <1>2, <3>2 DEF TypedFromCompact, TypedShape, TypedForms
  <2>4. CASE WriteTypedJson
    <3>1. obj.type = origin.type
      BY <2>4, TypedFacts DEF WriteTypedJson, Is, TypedForms
    <3>2. obj' = TypedToJson(obj) /\ UNCHANGED <<origin, read, wired, fault>>
      BY <2>4 DEF WriteTypedJson, Become
    <3>3. obj'.form = "typedJson" /\ obj'.tag = origin.type /\ obj'.body = origin.body
      BY <1>2, <3>1, <3>2 DEF TypedToJson
    <3>4. JsonType(obj') = origin.type
      BY <1>2, <3>3, JsonOfOurs DEF OursSigned
    <3> QED
      BY <1>2, <3>2, <3>3, <3>4 DEF TypedShape, JsonShape, TypedForms
  <2>5. CASE ReadTypedJson /\ JsonType(obj) # None
    <3>1. JsonType(obj) = origin.type
      BY <2>5, TypedFacts DEF ReadTypedJson, Is, TypedForms
    <3> QED
      BY <1>2, <2>5, <3>1 DEF ReadTypedJson, Become, TypedFromJson, TypedShape, TypedForms
  <2> QED
    BY <2>1, <2>2, <2>3, <2>4, <2>5
<1> QED
  BY <1>1, <1>2, <1>3, TypedIsShaped, Changed

LEMMA TypedJsonRefused ==
  ASSUME FormsInv, ReadTypedJson, JsonType(obj) = None
  PROVE  FormsInv'
<1>1. origin.type = None
  BY TypedFacts DEF ReadTypedJson, Is, TypedForms
<1>2. Unknown
  BY <1>1, Distinct DEF Unknown
<1> QED
  BY <1>2, Refusal DEF ReadTypedJson

LEMMA SignStep ==
  ASSUME FormsInv, SignAgain
  PROVE  FormsInv'
<1>1. obj.form = "typed" /\ fault = "none"
  BY DEF SignAgain, Is
<1>2. obj.form \in TxForms /\ OursSigned /\ obj.body = origin.body /\ obj.type = origin.type
  BY <1>1, TypedFacts DEF TypedForms
<1>3. obj' = Signed("envelope", origin.type, origin.body, origin.sig, OriginHash)
  BY <1>2, SigFacts DEF SignAgain, Become, IntoSigned, OriginHash, HashOf
<1>4. obj'.form \in SignedForms /\ SignedShape(obj')
  BY <1>2, <1>3 DEF SignedShape, Signed, SignedForms
<1> QED
  BY <1>1, <1>2, <1>4, SignedIsShaped, Changed DEF SignAgain, Become

-----------------------------------------------------------------------------
(* Receipts *)

LEMMA ReceiptFacts ==
  ASSUME FormsInv, obj.form \in {"receipt", "receiptEnvelope", "rpcReceipt"}
  PROVE  /\ obj.form \in ReceiptForms /\ Ours
         /\ obj.type = origin.type /\ obj.body = origin.body
         /\ origin.fee \in Nat /\ (origin.type = L1 => origin.fee = 0)
         /\ obj.form = "receipt" => obj.fee = FeeKept
BY DEF FormsInv, Shape, ReceiptShape, ReceiptForms, ReceiptWire

LEMMA EncodeReceiptStep ==
  ASSUME FormsInv, EncodeReceipt
  PROVE  FormsInv'
<1>1. obj.form \in {"receipt", "receiptEnvelope"} /\ fault = "none"
  BY DEF EncodeReceipt, Is
<1>2. PICK form \in ReceiptWire : obj' = ReceiptBytes(form, obj)
  BY DEF EncodeReceipt, Become, ReceiptWire
<1>3. UNCHANGED <<origin, read, wired, fault>>
  BY DEF EncodeReceipt, Become
<1>4. obj'.form \in ReceiptForms /\ ReceiptShape(obj')
  <2>1. obj' = [form |-> form, tag |-> TypeFlag(origin.type), body |-> origin.body]
    BY <1>1, <1>2, ReceiptFacts DEF ReceiptBytes
  <2> QED
    BY <1>1, <2>1, ReceiptFacts DEF ReceiptShape, ReceiptForms, ReceiptWire
<1> QED
  BY <1>1, <1>3, <1>4, ReceiptFacts, ReceiptIsShaped, Changed

LEMMA DecodeReceiptStep ==
  ASSUME FormsInv, DecodeReceipt
  PROVE  FormsInv'
<1>1. obj.form \in ReceiptWire /\ fault = "none"
  BY DEF DecodeReceipt, Is, ReceiptWire
<1>2. /\ obj = [form |-> obj.form, tag |-> obj.tag, body |-> obj.body]
      /\ obj.body = origin.body /\ origin.fee \in Nat /\ (origin.type = L1 => origin.fee = 0)
      /\ \/ Ours /\ obj.tag = TypeFlag(origin.type)
         \/ Ours /\ obj.tag = 0 /\ origin.tag = 0 /\ origin.type = 0
         \/ obj.tag = origin.tag /\ obj.tag \in Foreign
  BY <1>1 DEF FormsInv, Shape, ReceiptShape, ReceiptForms
<1>3. CASE obj.tag \notin ReceiptTags(obj.form)
  <2>1. Unknown \/ origin.tag = 0
    <3>1. CASE Ours /\ obj.tag = TypeFlag(origin.type)
      BY <1>3, <3>1 DEF Ours, TypeFlag, ReceiptTags
    <3> QED
      BY <1>2, <3>1 DEF Unknown
  <2> QED
    BY <1>3, <2>1, Refusal DEF DecodeReceipt
<1>4. CASE obj.tag \in ReceiptTags(obj.form)
  <2>1. obj.tag \notin Foreign
    BY <1>4, Distinct DEF ReceiptTags
  <2>2. Ours /\ TypeOfTag(obj.tag) = origin.type /\ (obj.tag = TypeFlag(origin.type) \/ obj.tag = 0)
    BY <1>2, <2>1, TypeFacts, Distinct DEF TypeOfTag
  <2>3. obj' = DecodedReceipt(obj) /\ read' = obj /\ wired' = TRUE /\ UNCHANGED <<origin, fault>>
    BY <1>4 DEF DecodeReceipt
  <2>4. PICK o : o = obj'
    OBVIOUS
  <2>5. \/ o = [form |-> "receiptEnvelope", type |-> origin.type, body |-> origin.body]
        \/ o = [form |-> "receipt", type |-> origin.type, body |-> origin.body, fee |-> 0]
    BY <1>2, <2>2, <2>3, <2>4 DEF DecodedReceipt, ReceiptEnvelope, Receipt, FeeOnTheWire
  <2>6. obj'.form \in ReceiptForms \ ReceiptWire
    BY <2>4, <2>5 DEF ReceiptForms, ReceiptWire
  <2>7. Ours' /\ FeeKept' = 0
    BY <2>2, <2>3 DEF Ours, FeeKept
  <2>8. ReceiptShape(obj)'
    BY <1>2, <2>3, <2>4, <2>5, <2>6, <2>7 DEF ReceiptShape, ReceiptForms, ReceiptWire
  <2>9. Shape(obj)'
    <3>1. obj'.form \notin TxForms
      BY <2>6 DEF TxForms, SignedForms, TypedForms, ReceiptForms, ReceiptWire
    <3>2. /\ SignedShape(obj)' /\ WireShape(obj)' /\ StoredShape(obj)' /\ TypedShape(obj)'
          /\ RequestShape(obj)'
      BY <3>1 DEF TxForms, SignedForms, SignedShape, WireShape, StoredShape, TypedShape,
                  TypedForms, RequestShape
    <3> QED
      BY <2>6, <2>8, <3>2 DEF Shape
  <2>10. ReadInv'
    BY <1>2, <2>2, <2>3, <2>6
    DEF ReadInv, TxForms, SignedForms, TypedForms, ReceiptForms, ReceiptWire
  <2>11. FaultInv'
    BY <1>1, <2>3 DEF FaultInv
  <2> QED
    BY <2>9, <2>10, <2>11 DEF FormsInv
<1> QED
  BY <1>3, <1>4

LEMMA ReceiptSteps ==
  ASSUME FormsInv, IntoReceiptEnvelope \/ StoreReceipt \/ IntoConsensusReceipt \/ ShowReceipt
  PROVE  FormsInv'
<1>1. obj.form \in {"receipt", "rpcReceipt"} /\ fault = "none"
  BY DEF IntoReceiptEnvelope, StoreReceipt, IntoConsensusReceipt, ShowReceipt, Is
<1>2. obj'.form \in ReceiptForms /\ ReceiptShape(obj') /\ UNCHANGED <<origin, read, wired, fault>>
  <2>1. CASE IntoReceiptEnvelope \/ IntoConsensusReceipt
    <3>1. /\ obj' = [form |-> "receiptEnvelope", type |-> origin.type, body |-> origin.body]
          /\ UNCHANGED <<origin, read, wired, fault>>
      BY <1>1, <2>1, ReceiptFacts
      DEF IntoReceiptEnvelope, IntoConsensusReceipt, Become, ReceiptEnvelope
    <3> QED
      BY <1>1, <3>1, ReceiptFacts DEF ReceiptShape, ReceiptForms, ReceiptWire
  <2>2. CASE StoreReceipt
    <3>1. /\ obj' = [form |-> "receiptCompact", id |-> CompactIdentifier(origin.type),
                     ext |-> CompactExtension(origin.type), body |-> origin.body,
                     fee |-> IF FeeKept = 0 THEN None ELSE FeeKept]
          /\ UNCHANGED <<origin, read, wired, fault>>
      BY <1>1, <2>2, ReceiptFacts DEF StoreReceipt, Is, Become, ReceiptToCompact
    <3> QED
      BY <1>1, <3>1, ReceiptFacts DEF ReceiptShape, ReceiptForms, ReceiptWire
  <2>3. CASE ShowReceipt
    <3>1. PICK base \in Bases :
            /\ obj' = [form |-> "rpcReceipt", type |-> origin.type, body |-> origin.body,
                       base |-> base, fee |-> Lesser(FeeKept, U128Max),
                       price |-> EnvelopeEffective(obj)[base]]
            /\ UNCHANGED <<origin, read, wired, fault>>
      BY <1>1, <2>3, ReceiptFacts DEF ShowReceipt, Is, Become, BlocksWith
    <3>2. EnvelopeEffective(obj)[base] = PricePaid(base)
      BY <1>1, ReceiptFacts
      DEF EnvelopeEffective, L1MessageEffective, EthereumEffective, PricePaid
    <3> QED
      BY <1>1, <3>1, <3>2, ReceiptFacts DEF ReceiptShape, ReceiptForms, ReceiptWire
  <2> QED
    BY <2>1, <2>2, <2>3
<1> QED
  BY <1>1, <1>2, ReceiptFacts, ReceiptIsShaped, Changed

LEMMA LoadReceiptStep ==
  ASSUME FormsInv, LoadReceipt
  PROVE  FormsInv'
<1>1. obj.form = "receiptCompact" /\ fault = "none"
  BY DEF LoadReceipt, Is
<1>2. /\ obj.form \in ReceiptForms /\ Ours /\ obj.body = origin.body
      /\ origin.fee \in Nat /\ (origin.type = L1 => origin.fee = 0)
      /\ obj.id = CompactIdentifier(origin.type) /\ obj.ext = CompactExtension(origin.type)
      /\ obj.fee = IF FeeKept = 0 THEN None ELSE FeeKept
  BY <1>1 DEF FormsInv, Shape, ReceiptShape, ReceiptForms, ReceiptWire
<1>3. /\ obj' = ReceiptFromCompact(obj) /\ UNCHANGED <<origin, read, wired, fault>>
      /\ FromCompactIdentifier(obj.id, obj.ext) = origin.type
  BY <1>2, TypeFacts DEF LoadReceipt, Load, Become
<1>4. FeeKept \in Nat /\ (origin.type = L1 => FeeKept = 0)
  BY <1>2 DEF FeeKept
<1>5. obj' = [form |-> "receipt", type |-> origin.type, body |-> origin.body, fee |-> FeeKept]
  BY <1>2, <1>3, <1>4, Distinct DEF ReceiptFromCompact, Receipt
<1>6. obj'.form \in ReceiptForms /\ ReceiptShape(obj')
  BY <1>2, <1>5 DEF ReceiptShape, ReceiptForms, ReceiptWire
<1> QED
  BY <1>1, <1>2, <1>3, <1>6, ReceiptIsShaped, Changed

-----------------------------------------------------------------------------
(* The pool's wrapper *)

LEMMA PoolSteps ==
  ASSUME FormsInv, FromPooled \/ Encoded2718
  PROVE  FormsInv'
<1>1. obj.form \in {"pooled", "poolTx"} /\ obj.form \in SignedForms /\ fault = "none"
  BY DEF FromPooled, Encoded2718, Is, SignedForms
<1>2. origin.type # L1
  BY <1>1 DEF FormsInv, Shape, SignedShape
<1>3. PICK encoded \in {None, Wire("2718")} : obj' = PoolTx(obj, OriginSigner, encoded)
  <2>1. CASE FromPooled
    <3>1. PooledSigner(obj) = OriginSigner
      BY <1>1, <1>2, SignedFacts DEF PooledSigner, OriginSigner, Signer
    <3> QED
      BY <2>1, <3>1 DEF FromPooled, Become
  <2>2. CASE Encoded2718
    <3>1. obj.from = OriginSigner /\ obj.encoded \in {None, Wire("2718")}
      BY <1>1, <2>2 DEF FormsInv, Shape, SignedShape, Encoded2718, Is
    <3>2. Encode2718(obj) = Wire("2718")
      BY <1>1, SignedFacts DEF Encode2718, Wire
    <3> QED
      BY <2>2, <3>1, <3>2 DEF Encoded2718, Become
  <2> QED
    BY <2>1, <2>2
<1>4. UNCHANGED <<origin, read, wired, fault>>
  BY DEF FromPooled, Encoded2718, Become
<1>5. obj'.form \in SignedForms /\ SignedShape(obj')
  BY <1>1, <1>2, <1>3, SignedFacts DEF SignedShape, PoolTx, SignedForms
<1> QED
  BY <1>1, <1>4, <1>5, SignedFacts, SignedIsShaped, Changed

-----------------------------------------------------------------------------
(* Requests *)

\* What the library builds from a request that names a transaction is that transaction.
LEMMA NamedIsBuilt ==
  ASSUME NEW type \in ScrollTxType \ {L1}, NEW body \in BodiesOf(type), NEW r,
         Names(r, type, body), r.type # 3
  PROVE  /\ Preferred(r) = type /\ Complete(r) /\ ~IsBlobRequest(r)
         /\ BuildTyped(r) = [form |-> "typed", type |-> type, body |-> body]
<1>1. /\ body = [nonce |-> body.nonce, cap |-> body.cap, tip |-> body.tip, rest |-> body.rest]
      /\ body.nonce \in Nat /\ body.cap \in Nat
      /\ IF type \in OneFee THEN body.tip = None ELSE body.tip \in Nat
  BY RpcAssumption
<1>2. body.nonce # None /\ body.cap # None /\ (type \notin OneFee => body.tip # None)
  BY <1>1, Distinct
<1>3. type \in {0, 1, 2, 4}
  BY DEF ScrollTxType
<1>4. /\ r.nonce = body.nonce /\ r.rest = body.rest /\ r.tip = body.tip
      /\ r.gasPrice = (IF type \in OneFee THEN body.cap ELSE None)
      /\ r.cap = (IF type \in OneFee THEN None ELSE body.cap)
      /\ r.blob = FALSE /\ r.access = (type # 0) /\ r.auth = (type = 4)
  BY DEF Names, Naming
<1>5. Preferred(r) = type
  BY <1>2, <1>3, <1>4 DEF Preferred, OneFee
<1>6. Complete(r)
  BY <1>2, <1>4, <1>5 DEF Complete
<1>7. ~IsBlobRequest(r)
  BY <1>4 DEF IsBlobRequest
<1>8. (IF r.gasPrice = None THEN r.cap ELSE r.gasPrice) = body.cap
  BY <1>2, <1>4
<1>9. BuildTyped(r) = [form |-> "typed", type |-> type, body |-> body]
  BY <1>1, <1>4, <1>5, <1>8 DEF BuildTyped
<1> QED
  BY <1>5, <1>6, <1>7, <1>9

\* A request that can be built names its origin.
LEMMA RequestFacts ==
  ASSUME FormsInv, obj.form = "request"
  PROVE  /\ obj.form \in TxForms
         /\ IF Buildable(obj)
            THEN /\ OursSigned /\ origin.type # L1
                 /\ BuildTyped(obj) = [form |-> "typed", type |-> origin.type, body |-> origin.body]
            ELSE Unknown \/ origin.type = L1
<1>1. RequestShape(obj) /\ obj.form \in TxForms
  BY DEF FormsInv, Shape, TxForms
<1>2. CASE origin.tag \in Foreign /\ IsBlobRequest(obj)
  BY <1>1, <1>2 DEF Buildable, Unknown
<1>3. CASE origin.type = L1 /\ obj = NamingNothing(obj.type, obj.from, obj.rest)
  <2>1. obj.nonce = None
    BY <1>3 DEF NamingNothing
  <2> QED
    BY <1>1, <1>3, <2>1 DEF Buildable, Complete
<1>4. CASE /\ OursSigned /\ origin.type # L1 /\ ~IsBlobRequest(obj)
           /\ Names(obj, origin.type, origin.body)
  <2>1. obj.type # 3
    BY <1>4 DEF IsBlobRequest
  <2>2. origin.type \in ScrollTxType \ {L1} /\ origin.body \in BodiesOf(origin.type)
    BY <1>4 DEF OursSigned, Ours
  <2> QED
    BY <1>1, <1>4, <2>1, <2>2, NamedIsBuilt DEF Buildable
<1> QED
  BY <1>1, <1>2, <1>3, <1>4 DEF RequestShape

LEMMA RequestTyped ==
  ASSUME NEW r, NEW type
  PROVE  /\ Retyped(r, type).form = "request" /\ Retyped(r, type).type = type
         /\ Retyped(r, type).from = r.from /\ Retyped(r, type).rest = r.rest
         /\ Retyped(r, type).blob = r.blob
         /\ r = NamingNothing(r.type, r.from, r.rest) =>
              Retyped(r, type) = NamingNothing(type, r.from, r.rest) /\ r.blob = FALSE
         /\ \A for, body : Names(r, for, body) =>
              Names(Retyped(r, type), for, body) /\ r.blob = FALSE
<1>1. /\ Retyped(r, type).form = "request" /\ Retyped(r, type).type = type
      /\ Retyped(r, type).from = r.from /\ Retyped(r, type).rest = r.rest
      /\ Retyped(r, type).blob = r.blob
  BY DEF Retyped
<1>2. ASSUME r = NamingNothing(r.type, r.from, r.rest)
      PROVE  Retyped(r, type) = NamingNothing(type, r.from, r.rest) /\ r.blob = FALSE
  <2>1. /\ r.auth = FALSE /\ r.blob = FALSE /\ r.nonce = None /\ r.tip = None
        /\ r.access = FALSE /\ r.gasPrice = None /\ r.cap = None
    BY <1>2 DEF NamingNothing
  <2> QED
    BY <2>1, Zenon DEF Retyped, NamingNothing
<1>3. ASSUME NEW for, NEW body, Names(r, for, body)
      PROVE  Names(Retyped(r, type), for, body) /\ r.blob = FALSE
  <2>1. /\ r.auth = (for = 4) /\ r.blob = FALSE /\ r.nonce = body.nonce /\ r.rest = body.rest
        /\ r.tip = body.tip /\ r.access = (for # 0)
        /\ r.gasPrice = (IF for \in OneFee THEN body.cap ELSE None)
        /\ r.cap = (IF for \in OneFee THEN None ELSE body.cap)
    BY <1>3 DEF Names, Naming
  <2>2. Retyped(r, type) = Naming(for, body, type, r.from, for = 4, FALSE)
    BY <2>1, Zenon DEF Retyped, Naming
  <2> QED
    BY <1>1, <2>1, <2>2, Zenon DEF Names
<1> QED
  BY <1>1, <1>2, <1>3

LEMMA IntoRequestStep ==
  ASSUME FormsInv, IntoRequest
  PROVE  FormsInv'
<1>1. obj.form \in {"envelope", "typed"} /\ fault = "none"
  BY DEF IntoRequest, Is
<1>2. OursSigned /\ obj.type = origin.type /\ obj.body = origin.body /\ obj.form \in TxForms
  BY <1>1, SignedFacts, TypedFacts DEF SignedForms, TypedForms
<1>3. obj' = RequestOf(origin.type, origin.body) /\ UNCHANGED <<origin, read, wired, fault>>
  BY <1>2 DEF IntoRequest, Become
<1>4. obj'.form = "request" /\ RequestShape(obj')
  <2>1. CASE origin.type = L1
    BY <1>2, <1>3, <2>1, Distinct DEF RequestOf, NamingNothing, RequestShape, IsBlobRequest
  <2>2. CASE origin.type # L1
    <3>1. obj' = Naming(origin.type, origin.body, origin.type, None, origin.type = 4, FALSE)
      BY <1>3, <2>2 DEF RequestOf
    <3>2. obj'.type = origin.type /\ obj'.from = None /\ obj'.blob = FALSE /\ obj'.form = "request"
      BY <3>1 DEF Naming
    <3>3. origin.type # 3
      BY <1>2, Distinct DEF OursSigned, Ours
    <3>4. ~IsBlobRequest(obj')
      BY <3>2, <3>3 DEF IsBlobRequest
    <3> QED
      BY <1>2, <2>2, <3>1, <3>2, <3>4 DEF RequestShape, Names
  <2> QED
    BY <2>1, <2>2
<1> QED
  BY <1>1, <1>2, <1>3, <1>4, RequestIsShaped, Changed

LEMMA PrepStep ==
  ASSUME FormsInv, PrepForSubmission
  PROVE  FormsInv'
<1>1. obj.form = "request" /\ fault = "none" /\ UNCHANGED <<origin, read, wired, fault>>
  BY DEF PrepForSubmission, Is, Become
<1>2. RequestShape(obj) /\ obj.form \in TxForms
  BY <1>1 DEF FormsInv, Shape, TxForms
<1>3. obj'.form = "request" /\ RequestShape(obj')
  <2>1. CASE IsBlobRequest(obj)
    BY <1>1, <1>2, <2>1 DEF PrepForSubmission, Become
  <2>2. CASE ~IsBlobRequest(obj)
    <3>1. obj' = Retyped(obj, Preferred(obj)) /\ Preferred(obj) # 3
      BY <2>2 DEF PrepForSubmission, Become, Preferred
    <3>2. /\ obj'.form = "request" /\ obj'.type = Preferred(obj) /\ obj'.from = obj.from
          /\ obj'.rest = obj.rest /\ obj'.blob = obj.blob
      BY <3>1 DEF Retyped
    <3>3. CASE OursSigned /\ origin.type = L1 /\ obj = NamingNothing(obj.type, obj.from, obj.rest)
      <4>1. /\ Retyped(obj, Preferred(obj)) = NamingNothing(Preferred(obj), obj.from, obj.rest)
            /\ obj.blob = FALSE
        BY <3>3, RequestTyped, Zenon
      <4>2. obj' = NamingNothing(obj'.type, obj'.from, obj'.rest) /\ obj'.blob = FALSE
        BY <3>1, <3>2, <4>1
      <4> QED
        BY <3>1, <3>2, <3>3, <4>2 DEF RequestShape, IsBlobRequest
    <3>4. CASE OursSigned /\ origin.type # L1 /\ Names(obj, origin.type, origin.body)
      <4>1. Names(obj', origin.type, origin.body) /\ obj'.blob = FALSE
        BY <3>1, <3>2, <3>4, RequestTyped
      <4> QED
        BY <3>1, <3>2, <3>4, <4>1 DEF RequestShape, IsBlobRequest
    <3> QED
      BY <1>1, <1>2, <2>2, <3>3, <3>4 DEF RequestShape
  <2> QED
    BY <2>1, <2>2
<1> QED
  BY <1>1, <1>2, <1>3, RequestIsShaped, Changed

LEMMA FillStep ==
  ASSUME FormsInv, FillRequest
  PROVE  FormsInv'
<1>1. /\ obj.form = "request" /\ fault = "none" /\ obj.nonce = None /\ ~IsBlobRequest(obj)
      /\ read' = None /\ UNCHANGED <<wired, fault>>
  BY DEF FillRequest, Is
<1>2. PICK type \in {0, 1, 2} : \E body \in BodiesOf(type), sig \in Sigs :
        /\ obj' = Filled(obj, type, body)
        /\ origin' = Genuine(type, body, sig, 0, None)
  BY DEF FillRequest
<1>3. PICK body \in BodiesOf(type), sig \in Sigs :
        /\ obj' = Filled(obj, type, body)
        /\ origin' = Genuine(type, body, sig, 0, None)
  BY <1>2
<1>4. RequestShape(obj)
  BY DEF FormsInv, Shape
<1>5. obj = NamingNothing(obj.type, obj.from, obj.rest)
  <2>1. SUFFICES ASSUME OursSigned, origin.type # L1, Names(obj, origin.type, origin.body)
                 PROVE  FALSE
    BY <1>1, <1>4 DEF RequestShape
  <2>2. origin.body.nonce \in Nat
    BY <2>1, RpcAssumption DEF OursSigned, Ours
  <2>3. obj.nonce = origin.body.nonce
    BY <2>1 DEF Names, Naming
  <2> QED
    BY <1>1, <2>2, <2>3, Distinct
<1>6. obj.auth = FALSE /\ obj.blob = FALSE /\ obj.type # 3
  <2>1. obj.auth = FALSE /\ obj.blob = FALSE
    BY <1>5 DEF NamingNothing
  <2> QED
    BY <1>1, <2>1 DEF IsBlobRequest
<1>7. obj' = Naming(type, body, obj.type, obj.from, FALSE, FALSE)
  BY <1>3, <1>6 DEF Filled
<1>8. obj'.type = obj.type /\ obj'.from = obj.from /\ obj'.blob = FALSE /\ obj'.form = "request"
  BY <1>7 DEF Naming
<1>9. (type = 4) = FALSE
  OBVIOUS
<1>10. origin'.type = type /\ origin'.body = body /\ origin'.sig = sig /\ origin'.tag = None
  BY <1>3 DEF Genuine, Entering
<1>11. OursSigned'
  BY <1>10, Distinct DEF OursSigned, Ours, SigsFor, ScrollTxType, L1
<1>12. Names(obj, origin.type, origin.body)'
  BY <1>7, <1>8, <1>9, <1>10 DEF Names
<1>13. ~IsBlobRequest(obj)'
  BY <1>6, <1>8 DEF IsBlobRequest
<1>14. origin'.type # L1
  BY <1>10 DEF L1
<1>15. RequestShape(obj)'
  BY <1>11, <1>12, <1>13, <1>14 DEF RequestShape
<1>16. obj'.form \in TxForms /\ obj'.form \notin ReceiptForms
  BY <1>8 DEF TxForms, ReceiptForms, ReceiptWire
<1>17. Shape(obj)'
  <2>1. SignedShape(obj)' /\ WireShape(obj)' /\ StoredShape(obj)' /\ TypedShape(obj)'
    BY <1>8 DEF SignedForms, SignedShape, WireShape, StoredShape, TypedShape, TypedForms
  <2>2. ReceiptShape(obj)'
    BY <1>16 DEF ReceiptShape, ReceiptForms
  <2> QED
    BY <1>15, <1>16, <2>1, <2>2 DEF Shape
<1>18. ReadInv' /\ FaultInv'
  BY <1>1 DEF ReadInv, FaultInv
<1> QED
  BY <1>17, <1>18 DEF FormsInv

LEMMA BuildSteps ==
  ASSUME FormsInv, BuildRequest \/ SignRequest \/ SimulateRequest
  PROVE  FormsInv'
<1>1. obj.form = "request" /\ fault = "none"
  BY DEF BuildRequest, SignRequest, SimulateRequest, Is
<1>2. CASE ~Buildable(obj)
  BY <1>1, <1>2, RequestFacts, Refusal DEF BuildRequest, SignRequest, SimulateRequest
<1>3. CASE Buildable(obj)
  <2>1. /\ OursSigned /\ origin.type # L1 /\ obj.form \in TxForms
        /\ BuildTyped(obj) = [form |-> "typed", type |-> origin.type, body |-> origin.body]
    BY <1>1, <1>3, RequestFacts
  <2>2. UNCHANGED <<origin, read, wired, fault>>
    BY <1>3 DEF BuildRequest, SignRequest, SimulateRequest, Become
  <2>3. CASE BuildRequest
    <3>1. obj'.form \in TypedForms /\ TypedShape(obj')
      BY <1>3, <2>1, <2>3 DEF BuildRequest, Become, TypedShape, TypedForms
    <3> QED
      BY <1>1, <2>1, <2>2, <3>1, TypedIsShaped, Changed
  <2>4. CASE SignRequest
    <3>1. obj' = Signed("envelope", origin.type, origin.body, origin.sig, OriginHash)
      BY <2>1, <2>4 DEF SignRequest, Become, IntoSigned, OriginHash
    <3>2. obj'.form \in SignedForms /\ SignedShape(obj')
      BY <2>1, <3>1 DEF SignedShape, Signed, SignedForms
    <3> QED
      BY <1>1, <2>1, <2>2, <3>2, SignedIsShaped, Changed
  <2>5. CASE SimulateRequest
    <3>1. obj'.form = "simulated" /\ TypedShape(obj')
      BY <2>1, <2>5 DEF SimulateRequest, Become, IntoSigned, Form, Signed, TypedShape, TypedForms
    <3> QED
      BY <1>1, <2>1, <2>2, <3>1, TypedIsShaped, Changed
  <2> QED
    BY <2>3, <2>4, <2>5
<1> QED
  BY <1>2, <1>3

LEMMA EncodeTypedStep ==
  ASSUME FormsInv, EncodeTyped
  PROVE  FormsInv'
<1>1. obj.form = "typed" /\ obj.form \in TypedForms /\ fault = "none"
  BY DEF EncodeTyped, Is, TypedForms
<1>2. /\ obj.form \in TxForms /\ OursSigned /\ obj.body = origin.body /\ obj.type = origin.type
  BY <1>1, TypedFacts
<1>3. PICK form \in {"2718", "network"} :
        /\ obj' = Bytes(form, TypeFlag(origin.type), origin.body, origin.sig)
        /\ UNCHANGED <<origin, read, wired, fault>>
  BY <1>2, SigFacts DEF EncodeTyped, Become
<1>4. obj'.form \in {"2718", "network"} /\ WireShape(obj')
  BY <1>2, <1>3 DEF WireShape, Bytes
<1> QED
  BY <1>1, <1>2, <1>3, <1>4, WireIsShaped, Changed

-----------------------------------------------------------------------------
(* Responses *)

\* The tip the response is computed from gives the price that is paid, in every block
\* that can contain the transaction.
LEMMA TipGivesPrice ==
  ASSUME Ours, origin.type # L1, NEW o, o.type = origin.type, o.body = origin.body,
         NEW base \in Bases, base <= origin.body.cap
  PROVE  EffectiveTip(o, base) + base = PricePaid(base)
<1>1. base \in Nat /\ base # None
  BY RpcAssumption, Distinct
<1>2. origin.body.cap \in Nat
      /\ (IF origin.type \in OneFee THEN origin.body.tip = None ELSE origin.body.tip \in Nat)
  BY RpcAssumption DEF Ours
<1>3. EnvelopeView(o).cap = origin.body.cap /\ EnvelopeView(o).tip = origin.body.tip
  BY DEF EnvelopeView, EthereumView
<1>4. CASE origin.type \in OneFee
  <2>1. EffectiveTip(o, base) = origin.body.cap - base
    BY <1>1, <1>2, <1>3, <1>4 DEF EffectiveTip
  <2>2. PricePaid(base) = origin.body.cap
    BY <1>4 DEF PricePaid
  <2> QED
    BY <1>1, <1>2, <2>1, <2>2
<1>5. CASE origin.type \notin OneFee
  <2>1. origin.body.tip \in Nat /\ origin.body.tip # None
    BY <1>2, <1>5, Distinct
  <2>2. EffectiveTip(o, base) = Lesser(origin.body.cap - base, origin.body.tip)
    BY <1>1, <1>2, <1>3, <2>1 DEF EffectiveTip
  <2>3. PricePaid(base) = Lesser(origin.body.cap, base + origin.body.tip)
    BY <1>1, <1>5 DEF PricePaid
  <2>4. \A c, b, t \in Nat : Lesser(c - b, t) + b = Lesser(c, b + t)
    BY DEF Lesser
  <2>5. Lesser(origin.body.cap - base, origin.body.tip) + base
          = Lesser(origin.body.cap, base + origin.body.tip)
    BY <1>1, <1>2, <2>1, <2>4
  <2> QED
    BY <2>2, <2>3, <2>5
<1> QED
  BY <1>4, <1>5

LEMMA ShowStep ==
  ASSUME FormsInv, ShowTransaction
  PROVE  FormsInv'
<1>1. obj.form \in SignedForms /\ fault = "none"
  BY DEF ShowTransaction, Is, SignedForms
<1>2. CASE obj.type # L1 /\ fault' = "provider" /\ UNCHANGED <<obj, origin, read, wired, kept>>
  BY <1>1, <1>2, SignedFacts, Faulted DEF FaultInv
<1>3. CASE \E base \in BlocksWith(obj) : Become(FromTransaction(obj, base))
  <2>1. PICK base \in BlocksWith(obj) : Become(FromTransaction(obj, base))
    BY <1>3
  <2>2. PICK price : price = IF obj.type = L1 THEN 0
                             ELSE IF base = None THEN EnvelopeView(obj).cap
                             ELSE EffectiveTip(obj, base) + base
    OBVIOUS
  <2>3. price = PricePaid(base)
    <3>1. CASE origin.type = L1
      BY <1>1, <2>2, <3>1, SignedFacts DEF PricePaid
    <3>2. CASE origin.type # L1 /\ base = None
      BY <1>1, <2>2, <3>2, SignedFacts DEF PricePaid, EnvelopeView, EthereumView
    <3>3. CASE origin.type # L1 /\ base # None
      <4>1. base \in Bases /\ base <= origin.body.cap
        BY <1>1, <2>1, <3>3, SignedFacts DEF BlocksWith
      <4>2. Ours
        BY <1>1, SignedFacts DEF OursSigned
      <4>3. EffectiveTip(obj, base) + base = PricePaid(base)
        BY <1>1, <3>3, <4>1, <4>2, SignedFacts, TipGivesPrice
      <4> QED
        BY <1>1, <2>2, <3>3, <4>3, SignedFacts
    <3> QED
      BY <3>1, <3>2, <3>3
  <2>4. /\ obj' = RpcTransaction(obj, OriginSigner, base, price)
        /\ UNCHANGED <<origin, read, wired, fault>>
    BY <1>1, <2>1, <2>2, SignedFacts DEF Become, FromTransaction, OriginSigner
  <2>5. obj'.form \in SignedForms /\ SignedShape(obj')
    BY <1>1, <2>3, <2>4, SignedFacts DEF SignedShape, RpcTransaction, SignedForms
  <2> QED
    BY <1>1, <2>4, <2>5, SignedFacts, SignedIsShaped, Changed
<1> QED
  <2>1. None \in BlocksWith(obj)
    BY DEF BlocksWith
  <2> QED
    BY <1>2, <1>3, <2>1 DEF ShowTransaction

\* A price that is shown as a gas price is the one that is paid.
LEMMA ViewIsPaid ==
  ASSUME NEW o, o.type = origin.type, o.body = origin.body, NEW base,
         EnvelopeView(o).gasPrice # None
  PROVE  EnvelopeView(o).gasPrice = PricePaid(base)
BY DEF EnvelopeView, EthereumView, L1MessageView, PricePaid

LEMMA WriteRpcStep ==
  ASSUME FormsInv, WriteRpc
  PROVE  FormsInv'
<1>1. obj.form = "rpc" /\ obj.form \in SignedForms /\ fault = "none"
  BY DEF WriteRpc, Is, SignedForms
<1>2. /\ obj.from = OriginSigner
      /\ (obj.price = PricePaid(obj.base) \/ (origin.type = L1 /\ obj.price = None))
  BY <1>1 DEF FormsInv, Shape, SignedShape
<1>3. PICK gasPrice : gasPrice = IF EnvelopeView(obj).gasPrice = None THEN obj.price
                                 ELSE EnvelopeView(obj).gasPrice
  OBVIOUS
<1>4. gasPrice = PricePaid(obj.base) \/ (origin.type = L1 /\ gasPrice = None)
  BY <1>1, <1>2, <1>3, SignedFacts, ViewIsPaid
<1>5. /\ obj' = RpcJson(ToJson(obj), obj.from, obj.base, gasPrice)
      /\ UNCHANGED <<origin, read, wired, fault>>
  BY <1>3 DEF WriteRpc, Become
<1>6. /\ obj'.form = "rpcJson" /\ obj'.tag = origin.type /\ obj'.body = origin.body
      /\ obj'.sig = ShownSig /\ obj'.from = OriginSigner
      /\ obj'.base = obj.base /\ obj'.gasPrice = gasPrice
  BY <1>1, <1>2, <1>5, SignedFacts DEF RpcJson, ToJson, ShownSig
<1>7. OursSigned /\ JsonType(obj') = origin.type
  BY <1>1, <1>6, SignedFacts, JsonOfOurs DEF OursSigned
<1>8. StoredShape(obj')
  BY <1>4, <1>6, <1>7 DEF StoredShape, JsonShape
<1> QED
  BY <1>1, <1>5, <1>6, <1>8, SignedFacts, StoredIsShaped, Changed

LEMMA ReadRpcStep ==
  ASSUME FormsInv, ReadRpc
  PROVE  FormsInv'
<1>1. obj.form = "rpcJson" /\ obj.form \in TxForms /\ fault = "none"
  BY DEF ReadRpc, Is, TxForms
<1>2. /\ JsonType(obj) = origin.type /\ obj.body = origin.body
      /\ origin.type # None => OursSigned /\ obj.sig = ShownSig
      /\ obj.from \in {None, OriginSigner}
      /\ \/ obj.gasPrice = PricePaid(obj.base)
         \/ obj.gasPrice = None /\ (origin.type = L1 \/ obj.from = None)
  BY <1>1 DEF FormsInv, Shape, StoredShape, JsonShape
<1>3. CASE JsonType(obj) = None \/ FromField(obj) = None
  <2>1. Unknown \/ obj.from = None
    BY <1>2, <1>3, Distinct DEF FromField, Unknown
  <2> QED
    BY <1>1, <1>3, <2>1, Refusal DEF ReadRpc
<1>4. CASE JsonType(obj) # None /\ FromField(obj) # None
  <2>0. OursSigned /\ obj.sig = ShownSig
    BY <1>2, <1>4
  <2>1. FromField(obj) = OriginSigner /\ (obj.from # None \/ origin.type = L1)
    BY <1>2, <1>4 DEF FromField, OriginSigner, Signer
  <2>2. PICK tx : tx = FromJson(obj)
    OBVIOUS
  <2>3. /\ tx.type = origin.type /\ tx.body = origin.body /\ tx.sig = origin.sig
    BY <1>2, <2>0, <2>2, SigFacts DEF FromJson, Signed
  <2>4. PICK price : price = IF obj.gasPrice # None THEN obj.gasPrice
                             ELSE EnvelopeView(tx).gasPrice
    OBVIOUS
  <2>5. price = PricePaid(obj.base) \/ (origin.type = L1 /\ price = None)
    <3>1. CASE obj.gasPrice # None
      BY <1>2, <2>4, <3>1
    <3>2. CASE obj.gasPrice = None /\ origin.type = L1
      BY <2>3, <2>4, <3>2 DEF EnvelopeView, L1MessageView
    <3>3. CASE obj.gasPrice = None /\ origin.type # L1
      <4>1. PricePaid(obj.base) = None
        BY <1>2, <2>1, <3>3
      <4>2. EnvelopeView(tx).gasPrice = None \/ EnvelopeView(tx).gasPrice = PricePaid(obj.base)
        BY <2>3, ViewIsPaid
      <4> QED
        BY <2>4, <3>3, <4>1, <4>2
    <3> QED
      BY <3>1, <3>2, <3>3
  <2>6. /\ obj' = RpcTransaction(tx, OriginSigner, obj.base, price)
        /\ UNCHANGED <<origin, read, wired, fault>>
    BY <1>4, <2>1, <2>2, <2>4 DEF ReadRpc, Become
  <2>7. obj'.form \in SignedForms /\ SignedShape(obj')
    BY <2>0, <2>3, <2>5, <2>6 DEF SignedShape, RpcTransaction, SignedForms
  <2> QED
    BY <1>1, <2>6, <2>7, SignedIsShaped, Changed
<1> QED
  BY <1>3, <1>4

-----------------------------------------------------------------------------
(* The invariant *)

LEMMA InitFormsInv == RpcInit => FormsInv
<1> SUFFICES ASSUME RpcInit PROVE FormsInv
  OBVIOUS
<1>1. Fresh
  BY DEF RpcInit, FormsInit
<1>2. ReadInv /\ FaultInv
  BY <1>1 DEF Fresh, ReadInv, FaultInv
<1>3. ASSUME NEW type \in ScrollTxType, MadeHere(type)
      PROVE  FormsInv
  <2>1. PICK body \in BodiesOf(type) :
          \/ \E sig \in SigsFor(type) :
               Enters(Signed("envelope", type, body, sig, HashOf(type, body, sig)),
                      Genuine(type, body, sig, 0, None))
          \/ \E fee \in Fees :
               /\ type = L1 => fee = 0
               /\ Enters(Receipt(type, body, fee), Genuine(type, body, NoSig, fee, None))
    BY <1>3 DEF MadeHere
  <2>2. CASE \E sig \in SigsFor(type) :
               Enters(Signed("envelope", type, body, sig, HashOf(type, body, sig)),
                      Genuine(type, body, sig, 0, None))
    <3>1. PICK sig \in SigsFor(type) :
            /\ obj = Signed("envelope", type, body, sig, HashOf(type, body, sig))
            /\ origin = Genuine(type, body, sig, 0, None)
      BY <2>2 DEF Enters
    <3>2. obj.form \in SignedForms /\ SignedShape(obj)
      BY <2>1, <3>1, Distinct
      DEF Genuine, Entering, Signed, SignedShape, SignedForms, OursSigned, Ours
    <3> QED
      BY <1>2, <3>2, SignedIsShaped DEF FormsInv
  <2>3. CASE \E fee \in Fees :
               /\ type = L1 => fee = 0
               /\ Enters(Receipt(type, body, fee), Genuine(type, body, NoSig, fee, None))
    <3>1. PICK fee \in Fees :
            /\ type = L1 => fee = 0
            /\ obj = [form |-> "receipt", type |-> type, body |-> body,
                      fee |-> IF type = L1 THEN 0 ELSE fee]
            /\ origin = Genuine(type, body, NoSig, fee, None)
      BY <2>3 DEF Enters, Receipt
    <3>2. fee \in Nat
      BY FormsAssumption
    <3>3. /\ origin.type = type /\ origin.body = body /\ origin.fee = fee
          /\ origin.tag = None /\ FeeKept = fee
      BY <1>1, <3>1 DEF Genuine, Entering, FeeKept, Fresh
    <3>4. Ours
      BY <2>1, <3>3, Distinct DEF Ours
    <3>5. obj.form \in ReceiptForms /\ ReceiptShape(obj)
      BY <3>1, <3>2, <3>3, <3>4 DEF ReceiptShape, ReceiptForms, ReceiptWire
    <3> QED
      BY <1>2, <3>5, ReceiptIsShaped DEF FormsInv
  <2> QED
    BY <2>1, <2>2, <2>3
<1>4. ASSUME NEW tag \in EntryTags, BytesEnter(tag)
      PROVE  FormsInv
  <2>1. PICK type : type = TypeOfTag(tag)
    OBVIOUS
  <2>2. PICK body \in BodiesOf(type) :
          \/ \E sig \in SigsFor(type), form \in {"2718", "network"} :
               Enters(Bytes(form, tag, body, sig), Genuine(type, body, sig, 0, tag))
          \/ \E form \in {"receipt2718", "receiptBloom", "envelope2718"} :
               Enters(Outside(form, tag, body), Genuine(type, body, NoSig, 0, tag))
    BY <1>4, <2>1 DEF BytesEnter
  <2>3. tag \notin Foreign =>
          type \in ScrollTxType /\ (tag = TypeFlag(type) \/ (tag = 0 /\ type = 0))
    BY <1>4, <2>1, Distinct DEF EntryTags, TypeOfTag, TypeFlag, ScrollTxType
  <2>4. CASE \E sig \in SigsFor(type), form \in {"2718", "network"} :
               Enters(Bytes(form, tag, body, sig), Genuine(type, body, sig, 0, tag))
    <3>1. PICK sig \in SigsFor(type), form \in {"2718", "network"} :
            obj = Bytes(form, tag, body, sig) /\ origin = Genuine(type, body, sig, 0, tag)
      BY <2>4 DEF Enters
    <3>2. /\ origin.type = type /\ origin.body = body /\ origin.sig = sig /\ origin.tag = tag
          /\ obj.tag = tag /\ obj.form = form
      BY <3>1 DEF Genuine, Entering, Bytes
    <3>3. \/ OursSigned /\ obj.tag = TypeFlag(origin.type)
          \/ obj.tag = origin.tag /\ obj.tag \in Foreign \cup {0}
      BY <2>2, <2>3, <3>1, <3>2 DEF OursSigned, Ours
    <3>4. obj.form \in {"2718", "network"} /\ obj = Bytes(obj.form, obj.tag, origin.body, origin.sig)
      BY <3>1, <3>2
    <3> QED
      BY <1>2, <3>3, <3>4, WireIsShaped DEF FormsInv, WireShape
  <2>5. CASE \E form \in {"receipt2718", "receiptBloom", "envelope2718"} :
               Enters(Outside(form, tag, body), Genuine(type, body, NoSig, 0, tag))
    <3>1. PICK form \in ReceiptWire :
            /\ obj = [form |-> form, tag |-> tag, body |-> body]
            /\ origin = Genuine(type, body, NoSig, 0, tag)
      BY <2>5 DEF Enters, Outside, ReceiptWire
    <3>2. origin.type = type /\ origin.body = body /\ origin.fee = 0 /\ origin.tag = tag
      BY <3>1 DEF Genuine, Entering
    <3>3. \/ Ours /\ obj.tag = TypeFlag(origin.type)
          \/ Ours /\ obj.tag = 0 /\ origin.tag = 0 /\ origin.type = 0
          \/ obj.tag = origin.tag /\ obj.tag \in Foreign
      BY <2>2, <2>3, <3>1, <3>2 DEF Ours
    <3>4. obj.form \in ReceiptForms /\ ReceiptShape(obj)
      BY <3>1, <3>2, <3>3 DEF ReceiptShape, ReceiptForms, ReceiptWire
    <3> QED
      BY <1>2, <3>4, ReceiptIsShaped DEF FormsInv
  <2> QED
    BY <2>2, <2>4, <2>5
\* Whatever its tag, JSON from outside is of the type it is read as.
<1>5. ASSUME NEW tag, NEW body, NEW sig \in SigsFor(JsonType(Outside("json", tag, body))),
             obj.tag = tag, obj.body = body,
             origin.type = JsonType(Outside("json", tag, body)), origin.body = body,
             origin.sig = sig, origin.tag = None
      PROVE  JsonShape(obj)
  <2>1. JsonType(obj) = origin.type
    BY <1>5 DEF JsonType, Outside
  <2>2. origin.type # None => OursSigned
    BY <1>5, <2>1, JsonTypes, Distinct DEF OursSigned, Ours
  <2> QED
    BY <1>5, <2>1, <2>2 DEF JsonShape
<1>6. ASSUME NEW tag, NEW of, JsonEnters(tag, of)
      PROVE  FormsInv
  <2>1. PICK body, type :
          /\ type = JsonType(Outside("json", tag, body))
          /\ \E sig \in SigsFor(type) :
               \/ \E hash \in {HashOf(type, body, sig)} \cup Strange :
                    Enters([form |-> "json", tag |-> tag, body |-> body, hash |-> hash,
                            sig |-> IF type = L1 THEN ZeroSig ELSE sig],
                           Entering(type, body, sig, hash, 0, None))
               \/ Enters(Outside("typedJson", tag, body), Genuine(type, body, sig, 0, None))
    BY <1>6 DEF JsonEnters
  <2>2. PICK sig \in SigsFor(type) :
          \/ \E hash \in {HashOf(type, body, sig)} \cup Strange :
               Enters([form |-> "json", tag |-> tag, body |-> body, hash |-> hash,
                       sig |-> IF type = L1 THEN ZeroSig ELSE sig],
                      Entering(type, body, sig, hash, 0, None))
          \/ Enters(Outside("typedJson", tag, body), Genuine(type, body, sig, 0, None))
    BY <2>1
  <2>3. CASE \E hash \in {HashOf(type, body, sig)} \cup Strange :
               Enters([form |-> "json", tag |-> tag, body |-> body, hash |-> hash,
                       sig |-> IF type = L1 THEN ZeroSig ELSE sig],
                      Entering(type, body, sig, hash, 0, None))
    <3>1. /\ obj.form = "json" /\ obj.tag = tag /\ obj.body = body
          /\ obj.sig = (IF type = L1 THEN ZeroSig ELSE sig)
          /\ origin.type = type /\ origin.body = body /\ origin.sig = sig /\ origin.tag = None
      BY <2>3 DEF Enters, Entering
    <3>2. JsonShape(obj)
      BY <1>5, <2>1, <2>2, <3>1
    <3>3. StoredShape(obj)
      BY <3>1, <3>2 DEF StoredShape, ShownSig
    <3> QED
      BY <1>2, <3>1, <3>3, StoredIsShaped DEF FormsInv
  <2>4. CASE Enters(Outside("typedJson", tag, body), Genuine(type, body, sig, 0, None))
    <3>1. /\ obj.form = "typedJson" /\ obj.tag = tag /\ obj.body = body
          /\ origin.type = type /\ origin.body = body /\ origin.sig = sig /\ origin.tag = None
      BY <2>4 DEF Enters, Outside, Genuine, Entering
    <3>2. JsonShape(obj)
      BY <1>5, <2>1, <2>2, <3>1
    <3>3. TypedShape(obj) /\ obj.form \in TypedForms
      BY <3>1, <3>2 DEF TypedShape, TypedForms
    <3> QED
      BY <1>2, <3>3, TypedIsShaped DEF FormsInv
  <2> QED
    BY <2>2, <2>3, <2>4
<1>7. ASSUME NEW tag, NEW of, ResponseEnters(tag, of)
      PROVE  FormsInv
  <2>1. PICK body, type :
          /\ type = JsonType(Outside("json", tag, body))
          /\ \E sig \in SigsFor(type) : \E hash \in {HashOf(type, body, sig)} \cup Strange :
               Enters(RpcJson([tag |-> tag, body |-> body, hash |-> hash,
                               sig |-> IF type = L1 THEN ZeroSig ELSE sig],
                              None, None, IF type = 0 THEN body.cap ELSE None),
                      Entering(type, body, sig, hash, 0, None))
    BY <1>7 DEF ResponseEnters
  <2>2. PICK sig \in SigsFor(type) :
          /\ obj.form = "rpcJson" /\ obj.tag = tag /\ obj.body = body
          /\ obj.sig = (IF type = L1 THEN ZeroSig ELSE sig)
          /\ obj.from = None /\ obj.base = None
          /\ obj.gasPrice = (IF type = 0 THEN body.cap ELSE None)
          /\ origin.type = type /\ origin.body = body /\ origin.sig = sig /\ origin.tag = None
    BY <2>1 DEF Enters, Entering, RpcJson
  <2>3. JsonShape(obj)
    BY <1>5, <2>1, <2>2
  <2>4. type = 0 => PricePaid(None) = body.cap
    BY <2>2 DEF PricePaid, L1
  <2>5. StoredShape(obj)
    BY <2>2, <2>3, <2>4 DEF StoredShape, ShownSig
  <2> QED
    BY <1>2, <2>2, <2>5, StoredIsShaped DEF FormsInv
<1>8. CASE \E body \in BodiesOf(2), byType \in BOOLEAN :
             Enters(Naming(2, body, IF byType THEN 3 ELSE None, None, FALSE, ~byType),
                    Genuine(2, body, NoSig, 0, 3))
  <2>1. PICK body \in BodiesOf(2), byType \in BOOLEAN :
          /\ obj = Naming(2, body, IF byType THEN 3 ELSE None, None, FALSE, ~byType)
          /\ origin = Genuine(2, body, NoSig, 0, 3)
    BY <1>8 DEF Enters
  <2>2. obj.form = "request" /\ (obj.type = 3 \/ obj.blob = TRUE) /\ origin.tag = 3
    BY <2>1 DEF Naming, Genuine, Entering
  <2>3. RequestShape(obj)
    BY <2>2, Distinct DEF RequestShape, IsBlobRequest
  <2> QED
    BY <1>2, <2>2, <2>3, RequestIsShaped DEF FormsInv
<1> QED
  BY <1>3, <1>4, <1>6, <1>7, <1>8 DEF RpcInit, FormsInit

LEMMA NextFormsInv == FormsInv /\ [RpcNext]_fvars => FormsInv'
<1> SUFFICES ASSUME FormsInv, [RpcNext]_fvars PROVE FormsInv'
  OBVIOUS
<1>1. CASE UNCHANGED fvars
  BY <1>1, Faulted DEF fvars, FormsInv, FaultInv, Unknown
<1>2. CASE FormsNext
  BY <1>2, PooledForms, EncodeStep, DecodeStep, StoreSteps, LoadSteps, TypedSteps,
     TypedJsonRefused, SignStep,
     EncodeReceiptStep, DecodeReceiptStep, ReceiptSteps, LoadReceiptStep DEF FormsNext
<1>3. CASE RpcNext /\ ~FormsNext
  BY <1>3, PooledForms, PoolSteps, IntoRequestStep, PrepStep, FillStep, BuildSteps,
     EncodeTypedStep, ShowStep, WriteRpcStep, ReadRpcStep, ReceiptSteps DEF RpcNext
<1> QED
  BY <1>1, <1>2, <1>3

LEMMA FormsInvariance == RpcSpec => []FormsInv
BY InitFormsInv, NextFormsInv, PTL DEF RpcSpec

-----------------------------------------------------------------------------
(* The hash: carried on, dropped with a form that has none, or computed. *)

LEMMA HashCarried ==
  ASSUME HashInv, obj.form \in TxForms, HasHash(obj), HasHash(obj'), UNCHANGED origin,
         kept' = (kept /\ HasHash(obj')), obj'.hash \in {obj.hash, KeptHash}
  PROVE  HashInv'
<1>1. (IF kept' THEN origin.hash ELSE OriginHash) = KeptHash
  BY Zenon DEF KeptHash
<1>2. KeptHash' = KeptHash /\ OriginHash' = OriginHash
  BY <1>1 DEF KeptHash, OriginHash
<1> QED
  BY <1>2 DEF HashInv

LEMMA HashDropped ==
  ASSUME HashInv, ~HasHash(obj'), UNCHANGED origin, kept' = (kept /\ HasHash(obj'))
  PROVE  HashInv'
<1>1. KeptHash' = OriginHash' /\ OriginHash' = OriginHash
  BY DEF KeptHash, OriginHash
<1> QED
  BY <1>1 DEF HashInv, HasHash

LEMMA HashComputed ==
  ASSUME HashInv, obj.form \in TxForms, ~HasHash(obj), UNCHANGED origin,
         kept' = kept \/ kept' = (kept /\ HasHash(obj')), HasHash(obj'),
         obj'.hash \in {None, OriginHash}
  PROVE  HashInv'
<1>1. (IF kept' THEN origin.hash ELSE OriginHash) = KeptHash
  <2>1. CASE kept' = kept
    BY <2>1 DEF KeptHash
  <2>2. CASE kept' = (kept /\ HasHash(obj'))
    BY <2>2, Zenon DEF KeptHash
  <2> QED
    BY <2>1, <2>2
<1>2. KeptHash' = OriginHash /\ OriginHash' = OriginHash
  BY <1>1 DEF KeptHash, OriginHash, HashInv
<1> QED
  BY <1>2 DEF HashInv

LEMMA HashStays ==
  ASSUME HashInv, UNCHANGED <<obj, origin, kept>>
  PROVE  HashInv'
BY DEF HashInv, HasHash, KeptHash, OriginHash

\* Asked for its hash, an object with one gives the one kept.
LEMMA HashShown ==
  ASSUME FormsInv, HashInv, obj.form \in SignedForms
  PROVE  /\ obj.form \in TxForms /\ HasHash(obj) /\ Hash(obj) = KeptHash
<1>1. obj.form \in TxForms /\ HasHash(obj)
  BY DEF TxForms, SignedForms, HasHash, HashForms, InMemory
<1>2. HashOf(obj.type, obj.body, obj.sig) = OriginHash
  BY SignedFacts DEF OriginHash
<1>3. KeptHash = None => KeptHash = OriginHash
  BY DEF HashInv, KeptHash
<1> QED
  BY <1>1, <1>2, <1>3 DEF HashInv, Hash

LEMMA HashCarriedSteps ==
  ASSUME FormsInv, HashInv,
         \/ TryIntoPooled \/ IntoScrollEnvelope \/ FromPooled \/ Encoded2718
         \/ IntoConsensus \/ IntoPooled \/ ShowTransaction \/ FromRpc
  PROVE  HashInv'
<1>1. obj.form \in SignedForms
  BY DEF TryIntoPooled, IntoScrollEnvelope, FromPooled, Encoded2718, IntoConsensus,
         IntoPooled, ShowTransaction, FromRpc, Is, SignedForms
<1>2. CASE UNCHANGED <<obj, origin, kept>>
  BY <1>2, HashStays
<1>3. CASE \E o : Become(o) /\ o.hash = obj.hash /\ HasHash(o)
  <2>1. PICK o : Become(o) /\ o.hash = obj.hash /\ HasHash(o)
    BY <1>3
  <2>2. obj' = o /\ UNCHANGED origin /\ kept' = (kept /\ HasHash(obj'))
    BY <2>1 DEF Become
  <2> QED
    BY <1>1, <2>1, <2>2, HashShown, HashCarried
<1>4. \A o : \A form \in InMemory : Form(o, form).hash = o.hash /\ HasHash(Form(o, form))
  BY DEF Form, Signed, HasHash, HashForms
<1>5. \A o, from, encoded :
        PoolTx(o, from, encoded).hash = o.hash /\ HasHash(PoolTx(o, from, encoded))
  BY DEF PoolTx, HasHash, HashForms
<1>6. \A o, base : FromTransaction(o, base).hash = o.hash /\ HasHash(FromTransaction(o, base))
  BY DEF FromTransaction, RpcTransaction, HasHash, HashForms
<1>7. "envelope" \in InMemory /\ "pooled" \in InMemory
  BY DEF InMemory
<1>8. CASE TryIntoPooled \/ IntoScrollEnvelope \/ IntoConsensus \/ IntoPooled \/ FromRpc
  BY <1>2, <1>3, <1>4, <1>7, <1>8
  DEF TryIntoPooled, IntoScrollEnvelope, IntoConsensus, IntoPooled, FromRpc, Refuse
<1>9. CASE FromPooled \/ Encoded2718
  BY <1>3, <1>5, <1>9 DEF FromPooled, Encoded2718
<1>10. CASE ShowTransaction
  BY <1>2, <1>3, <1>6, <1>10 DEF ShowTransaction
<1> QED
  BY <1>8, <1>9, <1>10

LEMMA HashWrittenSteps ==
  ASSUME FormsInv, HashInv, WriteJson \/ WriteRpc \/ WriteBincode
  PROVE  HashInv'
<1>1. obj.form \in SignedForms
  BY DEF WriteJson, WriteRpc, WriteBincode, Is, SignedForms
<1>2. UNCHANGED origin /\ kept' = (kept /\ HasHash(obj'))
  BY DEF WriteJson, WriteRpc, WriteBincode, Become
<1>3. CASE WriteJson \/ WriteRpc
  <2>1. obj'.hash = Hash(obj) /\ HasHash(obj')
    BY <1>3 DEF WriteJson, WriteRpc, Become, RpcJson, ToJson, HasHash, HashForms
  <2> QED
    BY <1>1, <1>2, <2>1, HashShown, HashCarried
<1>4. CASE WriteBincode
  <2>1. obj' = ToBincode(obj)
    BY <1>4 DEF WriteBincode, Become
  <2>2. CASE obj.type = L1
    <3>1. obj'.hash = Hash(obj) /\ HasHash(obj')
      BY <2>1, <2>2 DEF ToBincode, HasHash
    <3> QED
      BY <1>1, <1>2, <3>1, HashShown, HashCarried
  <2>3. CASE obj.type # L1
    <3>1. ~HasHash(obj')
      BY <2>1, <2>3 DEF ToBincode, HasHash, HashForms, InMemory
    <3> QED
      BY <1>2, <3>1, HashDropped
  <2> QED
    BY <2>2, <2>3
<1> QED
  BY <1>3, <1>4

LEMMA HashReadSteps ==
  ASSUME FormsInv, HashInv, ReadJson \/ ReadRpc \/ ReadBincode
  PROVE  HashInv'
<1>1. obj.form \in {"json", "rpcJson", "bincode"} /\ obj.form \in TxForms
  BY DEF ReadJson, ReadRpc, ReadBincode, Is, TxForms
<1>2. CASE UNCHANGED <<obj, origin, kept>>
  BY <1>2, HashStays
<1>3. CASE ~UNCHANGED <<obj, origin, kept>>
  <2>1. /\ UNCHANGED origin /\ kept' = (kept /\ HasHash(obj'))
        /\ obj'.hash = obj.hash /\ HasHash(obj')
    <3>1. CASE ReadJson
      BY <1>3, <3>1
      DEF ReadJson, Refuse, Become, FromJson, Signed, HasHash, HashForms, InMemory
    <3>2. CASE ReadRpc
      BY <1>3, <3>2
      DEF ReadRpc, Refuse, Become, FromJson, Signed, RpcTransaction, HasHash, HashForms
    <3>3. CASE ReadBincode
      BY <3>3 DEF ReadBincode, Become, FromBincode, Signed, HasHash, HashForms, InMemory
    <3> QED
      BY <3>1, <3>2, <3>3
  <2>2. CASE HasHash(obj)
    BY <1>1, <2>1, <2>2, HashCarried
  <2>3. CASE ~HasHash(obj)
    <3>1. obj.form = "bincode" /\ obj.variant # L1
      BY <1>1, <2>3 DEF HasHash, HashForms
    <3>2. obj.hash = None
      BY <3>1 DEF FormsInv, Shape, StoredShape
    <3> QED
      BY <1>1, <2>1, <2>3, <3>2, HashComputed
  <2> QED
    BY <2>2, <2>3
<1> QED
  BY <1>2, <1>3

LEMMA HashDroppedSteps ==
  ASSUME HashInv,
         \/ Encode \/ Store \/ StripSignature \/ StoreTyped \/ LoadTyped \/ WriteTypedJson
         \/ ReadTypedJson \/ IntoRequest \/ PrepForSubmission \/ BuildRequest
         \/ SimulateRequest \/ EncodeTyped
  PROVE  HashInv'
<1>1. CASE UNCHANGED <<obj, origin, kept>>
  BY <1>1, HashStays
<1>2. CASE \E o : Become(o) /\ ~HasHash(o)
  BY <1>2, HashDropped DEF Become
<1> DEFINE Bare(o) ==
      o.form \in {"2718", "network", "compact", "typed", "typedCompact", "typedJson",
                  "request", "simulated"}
<1>3. \A o : Bare(o) => ~HasHash(o)
  BY DEF HasHash, HashForms, InMemory
<1>4. CASE Encode \/ EncodeTyped
  <2>1. \A tag, body, sig :
          Bare(Bytes("2718", tag, body, sig)) /\ Bare(Bytes("network", tag, body, sig))
    BY DEF Bytes
  <2> HIDE DEF Bare
  <2> QED
    BY <1>2, <1>3, <1>4, <2>1 DEF Encode, EncodeTyped, Encode2718, NetworkEncode
<1>5. CASE Store \/ StripSignature \/ StoreTyped \/ WriteTypedJson
  <2>1. \A o : Bare(ToCompact(o)) /\ Bare(ToTyped(o)) /\ Bare(TypedToCompact(o)) /\ Bare(TypedToJson(o))
    BY DEF ToCompact, ToTyped, TypedToCompact, TypedToJson
  <2> HIDE DEF Bare
  <2> QED
    BY <1>2, <1>3, <1>5, <2>1 DEF Store, StripSignature, StoreTyped, WriteTypedJson
<1>6. CASE LoadTyped \/ ReadTypedJson
  <2>1. \A o : Bare(TypedFromCompact(o)) /\ Bare(TypedFromJson(o))
    BY DEF TypedFromCompact, TypedFromJson
  <2> HIDE DEF Bare
  <2> QED
    BY <1>1, <1>2, <1>3, <1>6, <2>1 DEF LoadTyped, ReadTypedJson, Load, Refuse
<1>7. CASE IntoRequest \/ PrepForSubmission
  <2>1. \A type, body : Bare(RequestOf(type, body))
    BY DEF RequestOf, Naming, NamingNothing
  <2>2. \A o, type : Bare(Retyped(o, type))
    BY DEF Retyped
  <2>3. PrepForSubmission => Bare(obj)
    BY DEF PrepForSubmission, Is
  <2> HIDE DEF Bare
  <2> QED
    BY <1>2, <1>3, <1>7, <2>1, <2>2, <2>3 DEF IntoRequest, PrepForSubmission
<1>8. CASE BuildRequest \/ SimulateRequest
  <2>1. \A o : Bare(BuildTyped(o)) /\ Bare(Form(o, "simulated"))
    BY DEF BuildTyped, Form, Signed
  <2> HIDE DEF Bare
  <2> QED
    BY <1>1, <1>2, <1>3, <1>8, <2>1 DEF BuildRequest, SimulateRequest, Refuse
<1> QED
  BY <1>4, <1>5, <1>6, <1>7, <1>8

LEMMA HashReceiptSteps ==
  ASSUME FormsInv, FormsInv', HashInv,
         \/ EncodeReceipt \/ DecodeReceipt \/ IntoReceiptEnvelope \/ StoreReceipt
         \/ LoadReceipt \/ ShowReceipt \/ IntoConsensusReceipt
  PROVE  HashInv'
<1>1. obj'.form \in ReceiptForms /\ UNCHANGED origin
  <2> DEFINE Of(o) == o.form \in ReceiptForms
  <2>1. \A type, body, fee : Of(Receipt(type, body, fee)) /\ Of(ReceiptEnvelope(type, body))
    BY DEF Receipt, ReceiptEnvelope, ReceiptForms
  <2>2. \A o : Of(ReceiptToCompact(o)) /\ Of(ReceiptFromCompact(o)) /\ Of(DecodedReceipt(o))
    BY <2>1 DEF ReceiptToCompact, ReceiptFromCompact, DecodedReceipt, ReceiptForms
  <2>3. \A o : \A form \in ReceiptWire : Of(ReceiptBytes(form, o))
    BY DEF ReceiptBytes, ReceiptForms
  <2>4. DecodeReceipt \/ LoadReceipt => Of(obj)
    BY DEF DecodeReceipt, LoadReceipt, Is, ReceiptForms, ReceiptWire
  <2>5. CASE EncodeReceipt
    BY <2>3, <2>5 DEF EncodeReceipt, Become, ReceiptWire
  <2>6. CASE DecodeReceipt \/ LoadReceipt
    BY <2>2, <2>4, <2>6 DEF DecodeReceipt, LoadReceipt, Load, Become, Refuse
  <2>7. CASE IntoReceiptEnvelope \/ StoreReceipt \/ IntoConsensusReceipt
    BY <2>1, <2>2, <2>7 DEF IntoReceiptEnvelope, StoreReceipt, IntoConsensusReceipt, Become
  <2>8. CASE ShowReceipt
    BY <2>8 DEF ShowReceipt, Become, ReceiptForms
  <2> QED
    BY <2>5, <2>6, <2>7, <2>8
<1>2. obj'.form \notin TxForms
  BY <1>1 DEF TxForms, SignedForms, TypedForms, ReceiptForms, ReceiptWire
<1>3. OriginHash' = OriginHash
  BY <1>1 DEF OriginHash
<1> QED
  BY <1>1, <1>2, <1>3 DEF HashInv

LEMMA HashComputedSteps ==
  ASSUME FormsInv, FormsInv', HashInv, Decode \/ LoadStored \/ SignAgain \/ SignRequest
  PROVE  HashInv'
<1>1. obj.form \in TxForms /\ ~HasHash(obj)
  BY DEF Decode, LoadStored, SignAgain, SignRequest, Is, TxForms, SignedForms, TypedForms,
         HasHash, HashForms, InMemory
<1>2. CASE UNCHANGED <<obj, origin, kept>>
  BY <1>2, HashStays
<1>3. CASE ~UNCHANGED <<obj, origin, kept>>
  <2>1. PICK form, type, body, sig, hash :
          /\ form \in InMemory
          /\ obj' = Signed(form, type, body, sig, hash)
          /\ hash \in {None, HashOf(type, body, sig)}
          /\ UNCHANGED origin
          /\ kept' = kept \/ kept' = (kept /\ HasHash(obj'))
    <3>1. "envelope" \in InMemory
      BY DEF InMemory
    <3>2. CASE Decode
      BY <1>3, <3>2 DEF Decode, Refuse, Decoded
    <3>3. CASE LoadStored
      BY <1>3, <3>1, <3>3 DEF LoadStored, Load, Become, FromCompact
    <3>4. \A t, sig : \E sig2 :
            IntoSigned(t, sig)
              = Signed("envelope", t.type, t.body, sig2, HashOf(t.type, t.body, sig2))
      BY DEF IntoSigned, HashOf
    <3>5. CASE SignAgain \/ SignRequest
      BY <3>1, <3>4, <3>5 DEF SignAgain, SignRequest, Become
    <3> QED
      BY <3>2, <3>3, <3>5
  <2>2. /\ obj'.form \in SignedForms /\ HasHash(obj')
        /\ obj'.type = type /\ obj'.body = body /\ obj'.sig = sig /\ obj'.hash = hash
    BY <2>1 DEF Signed, SignedForms, HasHash, HashForms, InMemory
  <2>3. type = origin.type /\ body = origin.body /\ sig = origin.sig
    BY <2>1, <2>2 DEF FormsInv, Shape, SignedShape
  <2>4. obj'.hash \in {None, OriginHash}
    BY <2>1, <2>2, <2>3 DEF OriginHash
  <2> QED
    BY <1>1, <2>1, <2>2, <2>4, HashComputed
<1> QED
  BY <1>2, <1>3

LEMMA HashFillStep ==
  ASSUME FormsInv, FillRequest
  PROVE  HashInv'
<1>1. PICK type, body, sig, r :
        /\ origin' = Genuine(type, body, sig, 0, None)
        /\ obj' = Filled(obj, type, body)
  BY DEF FillRequest
<1>2. origin'.hash = OriginHash'
  BY <1>1 DEF Genuine, Entering, OriginHash
<1>3. ~HasHash(obj')
  BY <1>1 DEF Filled, Naming, HasHash, HashForms, InMemory
<1>4. KeptHash' = OriginHash'
  BY <1>2 DEF KeptHash
<1> QED
  BY <1>2, <1>3, <1>4 DEF HashInv, HasHash

LEMMA InitHashInv == RpcInit => HashInv
<1> SUFFICES ASSUME RpcInit PROVE HashInv
  OBVIOUS
<1>1. kept = TRUE /\ KeptHash = origin.hash
  BY DEF RpcInit, FormsInit, Fresh, KeptHash
<1>2. CASE origin.hash = OriginHash /\ (HasHash(obj) => obj.hash = origin.hash)
  BY <1>1, <1>2 DEF HashInv
<1>3. CASE origin.hash # None /\ HasHash(obj) /\ obj.hash = origin.hash
  BY <1>1, <1>3 DEF HashInv
<1>4. \A type, body, sig, fee, tag : origin = Genuine(type, body, sig, fee, tag) =>
        origin.hash = OriginHash /\ origin.hash = HashOf(type, body, sig)
  BY DEF Genuine, Entering, OriginHash
<1>5. ASSUME NEW type \in ScrollTxType, MadeHere(type)
      PROVE  HashInv
  <2>1. origin.hash = OriginHash /\ (HasHash(obj) => obj.hash = origin.hash)
    BY <1>4, <1>5
    DEF MadeHere, Enters, Signed, Receipt, HasHash, HashForms, InMemory
  <2> QED
    BY <1>2, <2>1
<1>6. ASSUME NEW tag \in EntryTags, BytesEnter(tag)
      PROVE  HashInv
  <2>1. origin.hash = OriginHash /\ ~HasHash(obj)
    BY <1>4, <1>6 DEF BytesEnter, Enters, Bytes, Outside, HasHash, HashForms, InMemory
  <2> QED
    BY <1>2, <2>1
\* JSON from outside: its hash is the right one or another, and is believed.
<1>7. ASSUME NEW type, NEW body, NEW sig,
             NEW hash \in {HashOf(type, body, sig)} \cup Strange, HasHash(obj),
             origin = Entering(type, body, sig, hash, 0, None), obj.hash = hash
      PROVE  HashInv
  <2>1. CASE hash = HashOf(type, body, sig)
    BY <1>2, <1>4, <1>7, <2>1 DEF Genuine, Entering
  <2>2. CASE hash \in Strange
    <3>1. hash # None
      BY <2>2, FormsAssumption
    <3> QED
      BY <1>3, <1>7, <3>1 DEF Entering
  <2> QED
    BY <2>1, <2>2
<1>8. ASSUME NEW tag, NEW of, JsonEnters(tag, of)
      PROVE  HashInv
  <2>1. PICK body, type, sig :
          \/ \E hash \in {HashOf(type, body, sig)} \cup Strange :
               Enters([form |-> "json", tag |-> tag, body |-> body, hash |-> hash,
                       sig |-> IF type = L1 THEN ZeroSig ELSE sig],
                      Entering(type, body, sig, hash, 0, None))
          \/ Enters(Outside("typedJson", tag, body), Genuine(type, body, sig, 0, None))
    BY <1>8 DEF JsonEnters
  <2>2. CASE Enters(Outside("typedJson", tag, body), Genuine(type, body, sig, 0, None))
    BY <1>2, <1>4, <2>2 DEF Enters, Outside, HasHash, HashForms, InMemory
  <2>3. CASE \E hash \in {HashOf(type, body, sig)} \cup Strange :
               Enters([form |-> "json", tag |-> tag, body |-> body, hash |-> hash,
                       sig |-> IF type = L1 THEN ZeroSig ELSE sig],
                      Entering(type, body, sig, hash, 0, None))
    BY <1>7, <2>3 DEF Enters, HasHash, HashForms
  <2> QED
    BY <2>1, <2>2, <2>3
<1>9. ASSUME NEW tag, NEW of, ResponseEnters(tag, of)
      PROVE  HashInv
  <2>1. PICK body, type, sig : \E hash \in {HashOf(type, body, sig)} \cup Strange :
          Enters(RpcJson([tag |-> tag, body |-> body, hash |-> hash,
                          sig |-> IF type = L1 THEN ZeroSig ELSE sig],
                         None, None, IF type = 0 THEN body.cap ELSE None),
                 Entering(type, body, sig, hash, 0, None))
    BY <1>9 DEF ResponseEnters
  <2> QED
    BY <1>7, <2>1 DEF Enters, RpcJson, HasHash, HashForms
<1>10. CASE \E body \in BodiesOf(2), byType \in BOOLEAN :
             Enters(Naming(2, body, IF byType THEN 3 ELSE None, None, FALSE, ~byType),
                    Genuine(2, body, NoSig, 0, 3))
  BY <1>2, <1>4, <1>10 DEF Enters, Naming, HasHash, HashForms, InMemory
<1> QED
  BY <1>5, <1>6, <1>8, <1>9, <1>10 DEF RpcInit, FormsInit

LEMMA NextHashInv == FormsInv /\ FormsInv' /\ HashInv /\ [RpcNext]_fvars => HashInv'
<1> SUFFICES ASSUME FormsInv, FormsInv', HashInv, [RpcNext]_fvars PROVE HashInv'
  OBVIOUS
<1>1. CASE UNCHANGED fvars
  BY <1>1, HashStays DEF fvars
<1>2. CASE RpcNext
  BY <1>2, HashCarriedSteps, HashWrittenSteps, HashReadSteps, HashDroppedSteps,
     HashReceiptSteps, HashComputedSteps, HashFillStep DEF RpcNext, FormsNext
<1> QED
  BY <1>1, <1>2

LEMMA HashInvariance == RpcSpec => []HashInv
BY InitHashInv, NextHashInv, FormsInvariance, PTL DEF RpcSpec

-----------------------------------------------------------------------------
(* The properties *)

\* No chain of conversions, through memory, the wire, the database, JSON, the pool, a
\* request or a response, changes the type, fields, signature, sender or answers of a
\* transaction, or the type and fields of a receipt; its hash is the one it entered with,
\* right or wrong, until it passes a form without one, and then the computed one; and the
\* L1 fee of a receipt is kept until a consensus encoding of it is decoded.
THEOREM IdentityAlwaysKept == RpcSpec => []IdentityKept
<1>1. FormsInv /\ HashInv => IdentityKept
  <2> SUFFICES ASSUME FormsInv, HashInv PROVE IdentityKept
    OBVIOUS
  <2>1. obj.form \in Carried \cup {"typed"} => obj.type = origin.type /\ obj.body = origin.body
    BY SignedFacts, TypedFacts
    DEF Carried, InMemory, SignedForms, TypedForms, FormsInv, Shape, TypedShape
  <2>2. /\ obj.form \in {"receipt", "receiptEnvelope"} =>
             ReceiptFields(obj) = <<origin.type, origin.body>>
        /\ obj.form = "rpcReceipt" => RpcReceiptFields(obj) = <<origin.type, origin.body>>
        /\ obj.form = "receipt" => obj.fee = IF wired THEN 0 ELSE origin.fee
    BY ReceiptFacts DEF ReceiptFields, RpcReceiptFields, FeeKept
  <2>3. obj.form \in Carried \ {"simulated"} =>
          /\ obj.sig = origin.sig
          /\ QueueIndex(obj) = IF origin.type = L1 THEN origin.body.index ELSE None
          /\ Hash(obj) =
               IF kept THEN origin.hash ELSE HashOf(origin.type, origin.body, origin.sig)
    BY SignedFacts, HashShown
    DEF Carried, InMemory, SignedForms, QueueIndex, KeptHash, OriginHash
  <2>4. obj.form \in {"poolTx", "rpc"} => obj.from = Signer(origin.type, origin.body, origin.sig)
    BY DEF FormsInv, Shape, SignedShape, SignedForms, OriginSigner
  <2>5. obj.form \in InMemory \cup {"typed", "poolTx", "rpc"} =>
          ViewOf(obj) =
            IF origin.type = L1 THEN <<L1MessageView, L1MessageEffective>>
            ELSE <<EthereumView(origin.type, origin.body),
                   EthereumEffective(origin.type, origin.body)>>
    <3> SUFFICES ASSUME obj.form \in InMemory \cup {"typed", "poolTx", "rpc"}
                 PROVE  ViewOf(obj) =
                          IF origin.type = L1 THEN <<L1MessageView, L1MessageEffective>>
                          ELSE <<EthereumView(origin.type, origin.body),
                                 EthereumEffective(origin.type, origin.body)>>
      OBVIOUS
    <3>1. obj.type = origin.type /\ obj.body = origin.body
      BY <2>1 DEF Carried
    <3>2. obj.form = "pooled" => origin.type # L1
      BY DEF FormsInv, Shape, SignedShape, SignedForms
    <3>3. CASE obj.form = "envelope"
      BY <3>1, <3>3 DEF ViewOf, EnvelopeView, EnvelopeEffective
    <3>4. CASE obj.form = "typed"
      BY <3>1, <3>4 DEF ViewOf, TypedView, TypedEffective
    <3>5. CASE obj.form = "pooled"
      BY <3>1, <3>2, <3>5 DEF ViewOf, PooledView
    <3>6. CASE obj.form = "poolTx"
      BY <3>1, <3>6 DEF ViewOf, PoolView, EnvelopeView, EnvelopeEffective
    <3>7. CASE obj.form = "rpc"
      BY <3>1, <3>7 DEF ViewOf, RpcView, EnvelopeView, EnvelopeEffective
    <3> QED
      BY <3>3, <3>4, <3>5, <3>6, <3>7 DEF InMemory
  <2> QED
    BY <2>1, <2>2, <2>3, <2>4, <2>5 DEF IdentityKept
<1> QED
  BY <1>1, FormsInvariance, HashInvariance, PTL

\* No compact reader panics, a decoder or a builder refuses only what the enums have no
\* place for, and what was decoded encodes to the bytes it was decoded from.
THEOREM WrittenAlwaysReadable == RpcSpec => []WrittenIsReadable
<1>1. FormsInv => WrittenIsReadable
  <2> SUFFICES ASSUME FormsInv PROVE WrittenIsReadable
    OBVIOUS
  <2>1. /\ fault # "panic"
        /\ fault = "refused" =>
             \/ Unknown \/ origin.tag = 0 \/ origin.type = L1
             \/ obj.form = "rpcJson" /\ obj.from = None
        /\ fault = "provider" => origin.type # L1
    BY DEF FormsInv, FaultInv
  <2>2. Unknown => obj.form \notin Carried \cup {"typed"}
    BY SignedFacts, TypedFacts
    DEF Unknown, Carried, InMemory, SignedForms, TypedForms, FormsInv, Shape, TypedShape, OursSigned, Ours
  <2>3. obj.form \in {"pooled", "poolTx", "simulated"} => obj.type # L1
    BY SignedFacts DEF FormsInv, Shape, SignedShape, TypedShape, SignedForms
  <2>4. obj.form = "poolTx" => obj.encoded \in {None, Encode2718(obj)}
    <3>1. obj.form = "poolTx" => obj.encoded \in {None, Wire("2718")}
      BY DEF FormsInv, Shape, SignedShape, SignedForms
    <3> QED
      BY <3>1, SignedFacts DEF SignedForms, Wire, Encode2718
  <2>5. ASSUME read # None, obj.form \in Carried \ {"simulated"}
        PROVE  read \in {Encode2718(obj), NetworkEncode(obj)}
    <3>1. obj.form \in SignedForms
      BY <2>5 DEF Carried, InMemory, SignedForms
    <3>2. read \in {Wire("2718"), Wire("network")}
      BY <2>5, <3>1, SignedFacts DEF FormsInv, ReadInv
    <3> QED
      BY <3>1, <3>2, SignedFacts DEF Wire, Encode2718, NetworkEncode
  <2>6. ASSUME read # None, read.tag # 0, obj.form \in {"receipt", "receiptEnvelope"}
        PROVE  read = ReceiptBytes(read.form, obj)
    BY <2>6, ReceiptFacts DEF FormsInv, ReadInv, ReceiptBytes
  <2> QED
    BY <2>1, <2>2, <2>3, <2>4, <2>5, <2>6 DEF WrittenIsReadable
<1> QED
  BY <1>1, FormsInvariance, PTL

\* The price a response or a receipt shows, however often it was written and read as
\* JSON, is the one paid in the block, and the L1 fee shown is the stored one as far as
\* the response can carry it.
THEOREM ShownPriceIsPaid == RpcSpec => []PriceShownIsPaid
<1>1. FormsInv => PriceShownIsPaid
  <2> SUFFICES ASSUME FormsInv PROVE PriceShownIsPaid
    OBVIOUS
  <2>1. obj.form = "rpc" =>
          \/ obj.price = PricePaid(obj.base)
          \/ origin.type = L1 /\ obj.price = None
    BY DEF FormsInv, Shape, SignedShape, SignedForms
  <2>2. obj.form = "rpcReceipt" =>
          obj.price = PricePaid(obj.base) /\ obj.fee = Lesser(FeeKept, U128Max)
    BY DEF FormsInv, Shape, ReceiptShape
  <2>3. Lesser(FeeKept, U128Max) = IF wired THEN 0 ELSE Lesser(origin.fee, U128Max)
    BY RpcAssumption DEF FeeKept, Lesser
  <2> QED
    BY <2>1, <2>2, <2>3 DEF PriceShownIsPaid
<1> QED
  BY <1>1, FormsInvariance, PTL
=============================================================================
