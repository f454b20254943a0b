--------------------------- MODULE ForkTransitions ---------------------------
(***************************************************************************)
(* What ScrollBlockExecutor does to a block's state outside the EVM:       *)
(* apply_pre_execution_changes with the Feynman, GalileoV2 and Tsuki       *)
(* transitions, the EIP-2935 system call, and the state hook through which *)
(* a state-root task follows the block (dogeos-reth-evm/src/block/mod.rs,  *)
(* transitions/, system_caller.rs).                                        *)
(*                                                                         *)
(* The chain's forks, and the peers it connects to, are those of its       *)
(* ChainSpec.  The executor knows the block's timestamp and not its        *)
(* parent's, so every block tries every active transition.  Bytecode is    *)
(* represented by its origin; the two penalty slots by one value, which    *)
(* the oracle's owner (external) may set in any block.  A block that fails *)
(* is discarded with its state; a reorganization returns to an ancestor's. *)
(***************************************************************************)
EXTENDS ChainSpec

CONSTANTS
  Networks,    \* how a chain is specified, with its genesis state
  Penalties,   \* values the owner sets
  InitialPenalty,
  NoSetting,   \* the owner has set nothing yet
  MaxTime,     \* bound: timestamps
  MaxBlocks    \* bound: length of the chain, genesis included

Forks == {"Feynman", "GalileoV2", "Tsuki"}
Nothing == "nothing"   \* no code

States == [code : {"curie", "feynman", "galileo", "own"}, isFeynman : BOOLEAN,
           isGalileo : BOOLEAN, penalty : Penalties \cup {InitialPenalty, 0},
           token : {Nothing, "tsuki", "own"}, tokenNonce : {0, 1},
           history : 0 .. MaxBlocks]

\* The three ways to a specification; only a genesis document can be refused.
SpecOf(n) ==
  CASE n.via = "genesis" -> FromCustomGenesis(n.doc)
    [] n.via = "dev"     -> DevSpec(n.doc, n.chain)
    [] n.via = "builder" ->
         BuilderSpec(DevSpec(n.doc, n.chain), n.doc, BuiltInConfig(n.chain), n.changed)
Starts(n) == n.via = "genesis" => GenesisAccepted(n.doc)

\* Feynman, the baseline of every supported network, is active from genesis: the
\* readers do not check it.  A genesis carries the flag of a fork only with code
\* that implements it.
ASSUME TransitionAssumption ==
  /\ InitialPenalty \in Nat \ {0} /\ Penalties \subseteq Nat
  /\ U64Max \in Nat /\ MaxTime \in 0 .. U64Max /\ MaxBlocks \in Nat \ {0}
  /\ \A n \in Networks :
       /\ n.genesis \in States
       /\ Starts(n) =>
            ActiveAtTimestamp(Activation(SpecOf(n), "Feynman"), SpecOf(n).genesisTime)
       /\ n.genesis.isGalileo => n.genesis.isFeynman /\ n.genesis.code \in {"galileo", "own"}
       /\ n.genesis.isFeynman => n.genesis.code # "curie"
       /\ n.genesis.token = Nothing => n.genesis.tokenNonce = 0

\* Fork conditions and timestamps are u64s, and what activates by block number does
\* so at genesis.
ASSUME TimeAssumption ==
  \A n \in Networks : Starts(n) =>
    /\ SpecOf(n).genesisTime \in Nat
    /\ \A f \in DogeosHardfork : Activation(SpecOf(n), f).value \in Nat
    /\ \A f \in DOMAIN SpecOf(n).forks :
         /\ Activation(SpecOf(n), f).value \in Nat
         /\ Activation(SpecOf(n), f).at = "block" => Activation(SpecOf(n), f).value = 0

VARIABLES
  network,   \* the chain's specification, how it was made, and its genesis state
  chain,     \* the canonical chain: per block its time, its post-state, the forks
             \* whose transition changed it, and the owner's last setting
  pc,        \* next step of the executor, or "idle"
  time,      \* timestamp of the block being executed
  state,     \* its state so far
  fired,     \* the transitions that changed it so far
  setting,   \* history: what the owner last set on this chain, or NoSetting
  hook,      \* is a state hook installed?
  followed   \* the state its consumer has derived from the updates

tvars == <<network, chain, pc, time, state, fired, setting, hook, followed>>

Tip == chain[Len(chain)]
Active(f, t) == ActiveAtTimestamp(Activation(network.spec, f), t)

-----------------------------------------------------------------------------
(* The transitions: the new state, or the old one when nothing is to be done *)

\* apply_feynman_hard_fork: a no-op once the flag is set.
Feynman_ResetsPenalty(s) ==
  [s EXCEPT !.code = IF s.isFeynman THEN @ ELSE "feynman", !.penalty = InitialPenalty,
            !.isFeynman = TRUE]
Feynman(s) ==
  IF s.isFeynman THEN s
  ELSE [s EXCEPT !.code = "feynman", !.penalty = InitialPenalty, !.isFeynman = TRUE]

\* apply_galileo_v2_hard_fork.
GalileoV2_CodeOnly(s) == IF s.isGalileo THEN s ELSE [s EXCEPT !.code = "galileo"]
GalileoV2(s) ==
  IF s.isGalileo THEN s ELSE [s EXCEPT !.code = "galileo", !.isGalileo = TRUE]

\* apply_tsuki_hard_fork: only into an empty account.
TokenEmpty(s) == s.tokenNonce = 0 /\ s.token = Nothing
Tsuki(s) ==
  IF TokenEmpty(s) THEN [s EXCEPT !.token = "tsuki", !.tokenNonce = 1] ELSE s

Transition(f, s) ==
  CASE f = "Feynman" -> Feynman(s)
    [] f = "GalileoV2" -> GalileoV2(s)
    [] f = "Tsuki" -> Tsuki(s)

NextPc(f) ==
  CASE f = "Feynman" -> "GalileoV2"
    [] f = "GalileoV2" -> "Tsuki"
    [] f = "Tsuki" -> "history"

\* commit_account_update and on_pre_block_state: an update that changes the state is
\* committed, and the hook is given what it changed and nothing else.
Follow_Forgotten(s) == followed
Follow(s) ==
  IF hook THEN [k \in DOMAIN state |-> IF s[k] # state[k] THEN s[k] ELSE followed[k]]
  ELSE followed

-----------------------------------------------------------------------------
(* The block executor *)

BeginBlock ==
  /\ pc = "idle" /\ Len(chain) < MaxBlocks
  /\ time' \in Tip.time .. MaxTime
  /\ pc' = "Feynman"
  /\ state' = Tip.state /\ followed' = Tip.state
  /\ fired' = {} /\ setting' = Tip.setting
  /\ hook' \in BOOLEAN
  /\ UNCHANGED <<network, chain>>

\* apply_pre_execution_changes, one fork after the other.
PreBlock(f) ==
  /\ pc = f
  /\ LET s == IF Active(f, time) THEN Transition(f, state) ELSE state
     IN  /\ state' = s
         /\ followed' = Follow(s)
         /\ fired' = IF s = state THEN fired ELSE fired \cup {f}
  /\ pc' = NextPc(f)
  /\ UNCHANGED <<network, chain, time, setting, hook>>

\* apply_blockhashes_contract_call: the parent's hash, through the hook.
BlockHashes ==
  /\ pc = "history"
  /\ state' = IF Active("Feynman", time) THEN [state EXCEPT !.history = Len(chain)]
              ELSE state
  /\ followed' = Follow(state')
  /\ pc' = "txs"
  /\ UNCHANGED <<network, chain, time, fired, setting, hook>>

\* commit_transaction of the one kind of transaction that matters here.
OwnerSetsPenalty ==
  /\ pc = "txs"
  /\ \E p \in Penalties :
       /\ p # state.penalty
       /\ state' = [state EXCEPT !.penalty = p]
       /\ followed' = Follow(state')
       /\ setting' = p
  /\ UNCHANGED <<network, chain, pc, time, fired, hook>>

\* finish: the block becomes the head.
FinishBlock ==
  /\ pc = "txs"
  /\ chain' = Append(chain, [time |-> time, state |-> state, fired |-> fired,
                             setting |-> setting])
  /\ pc' = "idle"
  /\ UNCHANGED <<network, time, state, fired, setting, hook, followed>>

\* A read, the system call or a transaction fails: the block is discarded.
FailBlock ==
  /\ pc # "idle"
  /\ pc' = "idle"
  /\ UNCHANGED <<network, chain, time, state, fired, setting, hook, followed>>

\* An ancestor becomes the head (external).
Reorg ==
  /\ pc = "idle" /\ Len(chain) > 1
  /\ \E n \in 1 .. Len(chain) - 1 : chain' = SubSeq(chain, 1, n)
  /\ UNCHANGED <<network, pc, time, state, fired, setting, hook, followed>>

TInit ==
  /\ \E n \in Networks :
       Starts(n) /\ network = [spec |-> SpecOf(n), via |-> n.via, genesis |-> n.genesis]
  /\ chain = <<[time |-> network.spec.genesisTime, state |-> network.genesis, fired |-> {},
                setting |-> NoSetting]>>
  /\ pc = "idle" /\ time = 0 /\ state = network.genesis
  /\ fired = {} /\ setting = NoSetting /\ hook = FALSE /\ followed = network.genesis

TNext ==
  \/ BeginBlock \/ (\E f \in Forks : PreBlock(f)) \/ BlockHashes
  \/ OwnerSetsPenalty \/ FinishBlock \/ FailBlock \/ Reorg

TSpec == TInit /\ [][TNext]_tvars

-----------------------------------------------------------------------------
(* Properties *)

\* Every block above genesis carries the flag of every fork that is active at its
\* timestamp, and the oracle code of the newest of them: two forks that activate in
\* one block leave the newer code, and no older one ever comes back.  The token is
\* in place from Tsuki on, and one that genesis supplies is never replaced.
ContractsMatchForks ==
  \A i \in 2 .. Len(chain) :
    LET b == chain[i]
    IN  /\ Active("Feynman", b.time) => b.state.isFeynman /\ b.state.code # "curie"
        /\ Active("GalileoV2", b.time) =>
             b.state.isGalileo /\ b.state.code \in {"galileo", "own"}
        /\ Active("Tsuki", b.time) => b.state.token # Nothing
        /\ network.genesis.token # Nothing => b.state.token = network.genesis.token

\* Every later block tries the transitions again and none of them acts twice: a
\* transition changes a block's state only where its fork was not active in the parent
\* ("in practice is the fork activation block", system_caller.rs), genesis excepted,
\* and what the owner set after Feynman stays set until the owner changes it.
OwnerSettingKept ==
  /\ \A i \in DOMAIN chain :
       chain[i].setting # NoSetting => chain[i].state.penalty = chain[i].setting
  /\ \A i \in 3 .. Len(chain) : \A f \in chain[i].fired : ~Active(f, chain[i - 1].time)

\* The updates a state hook is given reproduce the block's state, so the root that
\* the state-root task computes from them is the root of what was executed.
HookFollowsState == (hook /\ pc = "txs") => followed = state

\* A specification read from a genesis document gives later blocks later rules: the
\* revm specification of a block is never older than its parent's, and the Tsuki
\* specifications and the TsukiV2 fee parameters apply only where the token contract
\* that Tsuki deploys is in place.
RulesHaveContracts ==
  network.via = "genesis" =>
    \A i \in 2 .. Len(chain) :
      LET b == chain[i]
          id(j) == SpecId(network.spec, chain[j].time, j)
      IN  /\ id(i) >= id(i - 1)
          /\ id(i) >= 2 => b.state.token # Nothing
          /\ BaseFeeParamsAt(network.spec, b.time) = TsukiFeeParams => id(i) = 3

\* A fork that separates the network: scheduled after Tsuki and after genesis.
AfterTsuki(spec, f) ==
  LET c == Activation(spec, f)
  IN  /\ c.at = "time" /\ Activation(spec, "Tsuki").at = "time"
      /\ c.value > Activation(spec, "Tsuki").value /\ c.value > spec.genesisTime

\* lib.rs, fork_filter_keys: "Preserve legacy peer compatibility through Tsuki".  Two
\* nodes with the same specification accept each other wherever their heads are, the
\* peer that announces its last fork included; a legacy peer, which announces the
\* genesis hash and no fork, is accepted exactly until the first fork after Tsuki; and
\* once its head has passed that fork, a node refuses every peer of the same genesis
\* with no fork at that time, wherever the peer's head is.
PeersFollowRules ==
  LET spec == network.spec
      legacy == [hash |-> ForkHash(spec, {}), next |-> 0]
      after(s) == {f \in DOMAIN s.forks : AfterTsuki(s, f)}
      due(s, f) == Activation(s, f).value
  IN  /\ \A head \in 0 .. MaxTime :
           /\ PeerAccepted(spec, Tip.time, ForkId(spec, head))
           /\ PeerAccepted(spec, head, ForkId(spec, Tip.time))
      /\ PeerAccepted(spec, Tip.time, LatestForkId(spec))
      /\ PeerAccepted(spec, Tip.time, legacy) <=>
           ~\E f \in after(spec) : Active(f, Tip.time)
      /\ \A f \in after(spec) :
           Active(f, Tip.time) /\ (\A g \in after(spec) : due(spec, g) >= due(spec, f)) =>
             \A peer \in {SpecOf(n) : n \in {m \in Networks : Starts(m)}} :
               (/\ peer.genesisHash = spec.genesisHash
                /\ \A g \in after(peer) : due(peer, g) # due(spec, f)) =>
                 \A head \in 0 .. MaxTime : ~PeerAccepted(spec, Tip.time, ForkId(peer, head))

\* The inductive invariant.  A fork is in place when its transition has nothing left to
\* do; every block above genesis has the active ones in place, the executor those it
\* has been through, and what is in place stays.  A genesis document that is accepted
\* activates TsukiV2 only where Tsuki is active.
InPlace(f, s) ==
  CASE f = "Feynman" -> s.isFeynman
    [] f = "GalileoV2" -> s.isGalileo
    [] f = "Tsuki" -> s.token # Nothing

StateInv(s) ==
  /\ s \in States
  /\ s.isGalileo => s.isFeynman /\ s.code \in {"galileo", "own"}
  /\ s.isFeynman => s.code # "curie"
  /\ s.token = Nothing => s.tokenNonce = 0
  /\ network.genesis.token # Nothing => s.token = network.genesis.token

SettingInv(b) == b.setting # NoSetting => b.state.isFeynman /\ b.state.penalty = b.setting

NetworkInv ==
  /\ network.spec.genesisTime \in Nat
  /\ \A f \in DogeosHardfork : Activation(network.spec, f).value \in Nat
  /\ \A f \in DOMAIN network.spec.forks : Activation(network.spec, f).value \in Nat
  /\ Active("Feynman", network.spec.genesisTime)
  /\ network.via = "genesis" =>
       /\ \A f \in DogeosHardfork : Activation(network.spec, f).at # "block"
       /\ Activation(network.spec, "TsukiV2").at = "time" =>
            /\ Activation(network.spec, "Tsuki").at = "time"
            /\ Activation(network.spec, "Tsuki").value <= Activation(network.spec, "TsukiV2").value

CanonInv ==
  /\ chain \in Seq([time : Nat, state : States, fired : SUBSET Forks,
                    setting : Penalties \cup {NoSetting}])
  /\ Len(chain) \in 1 .. MaxBlocks
  /\ \A i \in DOMAIN chain :
       /\ chain[i].time >= network.spec.genesisTime
       /\ StateInv(chain[i].state) /\ SettingInv(chain[i])
  /\ \A i \in 2 .. Len(chain) :
       /\ chain[i - 1].time <= chain[i].time
       /\ \A f \in Forks : Active(f, chain[i].time) => InPlace(f, chain[i].state)
  /\ \A i \in 3 .. Len(chain) : \A f \in chain[i].fired : ~Active(f, chain[i - 1].time)

Handled ==
  CASE pc = "Feynman" -> {}
    [] pc = "GalileoV2" -> {"Feynman"}
    [] pc = "Tsuki" -> {"Feynman", "GalileoV2"}
    [] OTHER -> Forks

BlockInv ==
  /\ pc \in Forks \cup {"idle", "history", "txs"}
  /\ pc # "idle" =>
       /\ Len(chain) < MaxBlocks /\ time \in Nat /\ time >= Tip.time
       /\ StateInv(state) /\ SettingInv([state |-> state, setting |-> setting])
       /\ setting \in Penalties \cup {NoSetting}
       /\ \A f \in Forks : InPlace(f, Tip.state) => InPlace(f, state)
       /\ \A f \in Handled : Active(f, time) => InPlace(f, state)
       /\ fired \subseteq Forks
       /\ \A f \in fired : Len(chain) >= 2 => ~Active(f, Tip.time)
       /\ hook => followed = state

TransitionInv == NetworkInv /\ CanonInv /\ BlockInv

=============================================================================
