------------------------------ MODULE ChainSpec ------------------------------
(***************************************************************************)
(* How a genesis document becomes a chain specification, and what the      *)
(* specification decides: which rules apply to a block and which peers to  *)
(* connect to.  dogeos-chainspec/src/lib.rs and genesis.rs, the schedules  *)
(* of dogeos-hardforks/src/lib.rs, dogeos-reth-evm/src/spec.rs.            *)
(*                                                                         *)
(* JSON values are kept as far as the readers tell them apart.  A genesis  *)
(* hash is the tuple of what the header hashes; the allocation is a name.  *)
(* reth's fork filter (EIP-2124) is external: the checksum of a fork hash  *)
(* is the genesis hash with the set of activations that it has absorbed.   *)
(***************************************************************************)
EXTENDS Integers, Sequences

LOCAL INSTANCE SequencesExt

CONSTANTS
  U64Max,  \* largest u64
  None     \* an Option that is None, or an error

DogeosHardfork == {"Feynman", "Galileo", "GalileoV2", "Tsuki", "TsukiV2"}
EthereumBlockForks ==
  {"Frontier", "Homestead", "Tangerine", "SpuriousDragon", "Byzantium",
   "Constantinople", "Petersburg", "Istanbul", "Berlin", "London"}

-----------------------------------------------------------------------------
(* Fork conditions *)

Block(n)     == [at |-> "block", value |-> n]
Timestamp(t) == [at |-> "time", value |-> t]
Never        == [at |-> "never", value |-> 0]

ActiveAtTimestamp(c, t) == c.at = "time" /\ t >= c.value
ActiveAt(c, t, number) ==
  ActiveAtTimestamp(c, t) \/ (c.at = "block" /\ number >= c.value)

-----------------------------------------------------------------------------
(* Reading a document *)

Absent == [json |-> "absent"]
Null   == [json |-> "null"]
Number(n) == [json |-> "number", value |-> n]
Text(hex, digits) == [json |-> "string", hex |-> hex, digits |-> digits]
Other  == [json |-> "other"]

\* u64::from_str_radix: at least one digit, all of the radix, no overflow.
FromStrRadix(digits, radix) ==
  LET value == FoldLeft(LAMBDA acc, d : acc * radix + d, 0, digits)
  IN  IF digits = <<>> \/ (\E i \in DOMAIN digits : digits[i] >= radix) \/ value > U64Max
      THEN None ELSE value

\* deserialize_u64_flexible: a number or a decimal or 0x-prefixed string.
ReadU64(v) ==
  CASE v.json = "number" -> IF v.value \in 0 .. U64Max THEN v.value ELSE None
    [] v.json = "string" -> FromStrRadix(v.digits, IF v.hex THEN 16 ELSE 10)
    [] OTHER -> None

\* deserialize_optional_u64_flexible: the value, Never without one; `ok` unless an error.
ReadTime(v) ==
  IF v.json \in {"absent", "null"} THEN [ok |-> TRUE, condition |-> Never]
  ELSE [ok |-> ReadU64(v) # None,
        condition |-> IF ReadU64(v) = None THEN Never ELSE Timestamp(ReadU64(v))]

\* activation_schedule of the hard-fork fields.
ActivationSchedule(doc) == [f \in DogeosHardfork |-> ReadTime(doc.times[f]).condition]

\* validate: TsukiV2 is scheduled with Tsuki and not before it.
ScheduleValid_Unordered(s) == (s["Tsuki"] = Never) <=> (s["TsukiV2"] = Never)
ScheduleValid(s) ==
  /\ (s["Tsuki"] = Never) <=> (s["TsukiV2"] = Never)
  /\ s["Tsuki"] # Never => s["TsukiV2"].value >= s["Tsuki"].value

\* try_from of DogeosHardforkInfo: the retired key is refused whatever it holds.
HardforkInfoAccepted(doc) ==
  /\ ~doc.retiredKey
  /\ \A f \in DogeosHardfork : ReadTime(doc.times[f]).ok
  /\ ScheduleValid(ActivationSchedule(doc))

\* try_from of ScrollChainConfig: required, without unknown fields; four metadata
\* fields of older documents are read and dropped.
ScrollConfigAccepted(scroll) ==
  /\ scroll # None
  /\ scroll.unknownFields = {}
  /\ ReadU64(scroll.l1ChainId) # None
  /\ ReadU64(scroll.numL1MessagesPerBlock) # None
ScrollChainConfig(scroll) ==
  [vault |-> scroll.feeVaultAddress, l1ChainId |-> ReadU64(scroll.l1ChainId),
   messages |-> ReadU64(scroll.numL1MessagesPerBlock)]

\* from_custom_genesis and make_genesis_header return; otherwise the node panics at
\* startup.
GenesisAccepted(doc) ==
  /\ ScrollConfigAccepted(doc.scroll)
  /\ HardforkInfoAccepted(doc)
  /\ doc.baseFee <= U64Max

-----------------------------------------------------------------------------
(* Specifications *)

\* make_genesis_header: no fork field enters the hash.
GenesisHash(doc) == <<doc.alloc, doc.timestamp, doc.baseFee>>

\* feynman_hardforks.
FeynmanHardforks(schedule) ==
  [f \in EthereumBlockForks \cup {"Shanghai"} \cup DogeosHardfork |->
     IF f \in DogeosHardfork THEN schedule[f]
     ELSE IF f = "Shanghai" THEN Timestamp(0) ELSE Block(0)]

\* build_spec_with_hardforks.
BuildSpecWithHardforks(doc, config, forks, chain) ==
  [genesisHash |-> GenesisHash(doc), genesisTime |-> doc.timestamp, config |-> config,
   chain |-> IF chain = None THEN doc.chainId ELSE chain, forks |-> forks]
BuildSpec(doc, config, schedule, chain) ==
  BuildSpecWithHardforks(doc, config, FeynmanHardforks(schedule), chain)

FromCustomGenesis(doc) ==
  BuildSpec(doc, ScrollChainConfig(doc.scroll), ActivationSchedule(doc), None)

\* The configurations of the built-in networks: always with the fee vault.
BuiltInConfig(chain) == [vault |-> "FeeVault", l1ChainId |-> chain, messages |-> 10]

\* DOGEOS_DEV: the document's fork times and configuration are not read.
DevSchedule == [f \in DogeosHardfork |-> Timestamp(0)]
DevSpec(doc, chain) == BuildSpec(doc, BuiltInConfig(chain), DevSchedule, chain)

\* DogeosChainSpecBuilder: chain and forks of a built-in specification, another
\* document, and forks that with_fork replaces one by one, unchecked.
BuilderSpec(base, doc, config, changed) ==
  BuildSpecWithHardforks(doc, config,
    [f \in DOMAIN base.forks |-> IF f \in DOMAIN changed THEN changed[f] ELSE base.forks[f]],
    base.chain)

\* dogeos_fork_activation.
Activation(spec, f) == spec.forks[f]

-----------------------------------------------------------------------------
(* Rules of a block *)

\* spec_id_at_timestamp_and_number, in the order of the ids.
SpecId(spec, t, number) ==
  LET active(f) == ActiveAt(Activation(spec, f), t, number)
  IN  IF active("TsukiV2") THEN 3 ELSE IF active("Tsuki") THEN 2
      ELSE IF active("GalileoV2") \/ active("Galileo") THEN 1 ELSE 0

\* BaseFeeParamsKind::Variable: the last entry whose fork is active, else the first.
FeynmanFeeParams == [denominator |-> 8, elasticity |-> 2]
TsukiFeeParams   == [denominator |-> 48, elasticity |-> 10]
BaseFeeParamsAt(spec, t) ==
  IF ActiveAtTimestamp(Activation(spec, "TsukiV2"), t) THEN TsukiFeeParams
  ELSE FeynmanFeeParams

-----------------------------------------------------------------------------
(* Peers *)

\* fork_filter_keys: block keys (all zero, which the filter drops) and the
\* timestamps after both Tsuki and genesis.
ForkFilterKeys_BlocksOnly(spec) == {}
ForkFilterKeys(spec) ==
  LET tsuki == Activation(spec, "Tsuki")
  IN  {c.value : c \in {spec.forks[f] : f \in {g \in DOMAIN spec.forks :
         /\ spec.forks[g].at = "time" /\ tsuki.at = "time"
         /\ spec.forks[g].value > tsuki.value
         /\ spec.forks[g].value > spec.genesisTime}}}

ForkHash(spec, keys) == <<spec.genesisHash, keys>>
Passed(keys, head) == {k \in keys : k <= head}
NextKey(keys, head) ==
  LET later == {k \in keys : k > head}
  IN  IF later = {} THEN 0 ELSE CHOOSE k \in later : \A m \in later : k <= m

\* ForkFilter::current.
Current(spec, keys, head) ==
  [hash |-> ForkHash(spec, Passed(keys, head)), next |-> NextKey(keys, head)]

\* fork_id: what the filter itself announces.
ForkId(spec, head) == Current(spec, ForkFilterKeys(spec), head)
LatestForkId(spec) == ForkId(spec, U64Max)

\* ForkFilter::validate, over the node's own keys and head.
PeerAccepted(spec, head, remote) ==
  LET keys == ForkFilterKeys(spec)
      hashAt(k) == ForkHash(spec, Passed(keys, k))
  IN  IF remote.hash = hashAt(head) THEN remote.next = 0 \/ head < remote.next
      ELSE \/ \E k \in {0} \cup Passed(keys, head) :
                remote.hash = hashAt(k) /\ NextKey(keys, k) = remote.next
           \/ \E k \in keys \ Passed(keys, head) : remote.hash = hashAt(k)
=============================================================================
