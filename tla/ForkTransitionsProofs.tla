----------------------- MODULE ForkTransitionsProofs -----------------------
(***************************************************************************)
(* The fork transitions for any schedules, genesis states, timestamps and  *)
(* lengths of the chain: contracts follow the forks, no transition acts    *)
(* twice, the state hook reproduces the block's state, and a node parts    *)
(* from the peers that miss a fork and from no others.                     *)
(***************************************************************************)
EXTENDS ForkTransitions, PartialSumsProofs, TLAPS

(* States *)

\* A state is the record of its fields.
LEMMA StateIsFunction ==
  ASSUME NEW s \in States
  PROVE  /\ DOMAIN s = {"code", "isFeynman", "isGalileo", "penalty", "token",
                        "tokenNonce", "history"}
         /\ s = [k \in DOMAIN s |-> s[k]]
  BY DEF States

\* A consumer that has the old state and is given what changed has the new one.
LEMMA FollowsUpdate ==
  ASSUME NEW s \in States, state \in States, hook => followed = state, hook
  PROVE  Follow(s) = s
<1>1. DOMAIN s = DOMAIN state
  BY StateIsFunction
<1>2. Follow(s) = [k \in DOMAIN state |-> s[k]]
  BY DEF Follow
<1>3. s = [k \in DOMAIN s |-> s[k]]
  BY StateIsFunction
<1>. QED BY <1>1, <1>2, <1>3

\* What a transition leaves of a state, and that it does nothing once it is in place.
LEMMA TransitionFacts ==
  ASSUME TransitionAssumption, NEW s, StateInv(s), NEW f \in Forks,
         f = "GalileoV2" => s.isFeynman
  PROVE  /\ StateInv(Transition(f, s)) /\ InPlace(f, Transition(f, s))
         /\ \A g \in Forks : InPlace(g, s) => InPlace(g, Transition(f, s))
         /\ InPlace(f, s) => Transition(f, s) = s
         /\ s.isFeynman => Transition(f, s).isFeynman /\ Transition(f, s).penalty = s.penalty
<1>1. s \in States /\ InitialPenalty \in Penalties \cup {InitialPenalty, 0}
  BY DEF StateInv
<1>2. CASE f = "Feynman"
  <2>1. Transition(f, s) = Feynman(s)
    BY <1>2 DEF Transition
  <2>2. CASE s.isFeynman
    BY <1>2, <2>1, <2>2 DEF Feynman, InPlace
  <2>3. CASE ~s.isFeynman
    <3> DEFINE t == [s EXCEPT !.code = "feynman", !.penalty = InitialPenalty, !.isFeynman = TRUE]
    <3>1. Transition(f, s) = t
      BY <2>1, <2>3 DEF Feynman
    <3>2. /\ t \in States /\ t.code = "feynman" /\ t.isFeynman = TRUE
          /\ t.isGalileo = s.isGalileo /\ t.token = s.token /\ t.tokenNonce = s.tokenNonce
      BY <1>1 DEF States
    <3>3. ~s.isGalileo
      BY <2>3 DEF StateInv
    <3> HIDE DEF t
    <3>4. StateInv(t)
      BY <3>2, <3>3 DEF StateInv
    <3>5. InPlace(f, t) /\ \A g \in Forks : InPlace(g, s) => InPlace(g, t)
      BY <1>2, <3>2, <3>3 DEF InPlace, Forks
    <3>. QED BY <1>2, <2>3, <3>1, <3>4, <3>5 DEF InPlace
  <2>. QED BY <2>2, <2>3
<1>3. CASE f = "GalileoV2"
  <2>1. Transition(f, s) = GalileoV2(s)
    BY <1>3 DEF Transition
  <2>2. CASE s.isGalileo
    BY <1>3, <2>1, <2>2 DEF GalileoV2, InPlace
  <2>3. CASE ~s.isGalileo
    <3> DEFINE t == [s EXCEPT !.code = "galileo", !.isGalileo = TRUE]
    <3>1. Transition(f, s) = t
      BY <2>1, <2>3 DEF GalileoV2
    <3>2. /\ t \in States /\ t.code = "galileo" /\ t.isGalileo = TRUE
          /\ t.isFeynman = s.isFeynman /\ t.token = s.token /\ t.tokenNonce = s.tokenNonce
          /\ t.penalty = s.penalty
      BY <1>1 DEF States
    <3> HIDE DEF t
    <3>4. StateInv(t)
      BY <1>3, <3>2 DEF StateInv
    <3>5. InPlace(f, t) /\ \A g \in Forks : InPlace(g, s) => InPlace(g, t)
      BY <1>3, <3>2 DEF InPlace, Forks
    <3>. QED BY <1>3, <2>3, <3>1, <3>2, <3>4, <3>5 DEF InPlace
  <2>. QED BY <2>2, <2>3
<1>4. CASE f = "Tsuki"
  <2>1. Transition(f, s) = Tsuki(s)
    BY <1>4 DEF Transition
  <2>2. CASE ~TokenEmpty(s)
    <3>1. s.token # Nothing
      BY <2>2 DEF TokenEmpty, StateInv
    <3>. QED BY <1>4, <2>1, <2>2, <3>1 DEF Tsuki, InPlace
  <2>3. CASE TokenEmpty(s)
    <3> DEFINE t == [s EXCEPT !.token = "tsuki", !.tokenNonce = 1]
    <3>1. Transition(f, s) = t /\ s.token = Nothing
      BY <2>1, <2>3 DEF Tsuki, TokenEmpty
    <3>2. /\ t \in States /\ t.token = "tsuki" /\ t.code = s.code
          /\ t.isFeynman = s.isFeynman /\ t.isGalileo = s.isGalileo /\ t.penalty = s.penalty
      BY <1>1 DEF States
    <3>3. t.token # Nothing
      BY <3>2 DEF Nothing
    <3> HIDE DEF t
    <3>4. StateInv(t)
      BY <3>1, <3>2, <3>3 DEF StateInv
    <3>5. InPlace(f, t) /\ ~InPlace(f, s) /\ \A g \in Forks : InPlace(g, s) => InPlace(g, t)
      BY <1>4, <3>1, <3>2, <3>3 DEF InPlace, Forks
    <3>. QED BY <3>1, <3>2, <3>4, <3>5
  <2>. QED BY <2>2, <2>3
<1>. QED BY <1>2, <1>3, <1>4 DEF Forks

\* A fork that is active stays active.
LEMMA ActiveStays ==
  ASSUME NetworkInv, NEW f \in DogeosHardfork, NEW t \in Nat, NEW u \in Nat, t <= u,
         Active(f, t)
  PROVE  Active(f, u)
<1>1. Activation(network.spec, f).value \in Nat
  BY DEF NetworkInv
<1>. QED BY <1>1 DEF Active, ActiveAtTimestamp

\* Feynman is active in every block.
LEMMA FeynmanActive ==
  ASSUME NetworkInv, NEW t \in Nat, t >= network.spec.genesisTime
  PROVE  Active("Feynman", t)
<1>1. network.spec.genesisTime \in Nat /\ "Feynman" \in DogeosHardfork
  BY DEF NetworkInv, DogeosHardfork
<1>. QED BY <1>1, ActiveStays DEF NetworkInv

\* from_custom_genesis: the forks are those of the document, and validate has seen
\* that TsukiV2 does not come before Tsuki.
LEMMA ScheduleFacts ==
  ASSUME NEW doc, GenesisAccepted(doc),
         \A f \in DogeosHardfork : Activation(FromCustomGenesis(doc), f).value \in Nat
  PROVE  LET a(f) == Activation(FromCustomGenesis(doc), f)
         IN  /\ \A f \in DogeosHardfork : a(f).at # "block"
             /\ a("TsukiV2").at = "time" =>
                  a("Tsuki").at = "time" /\ a("Tsuki").value <= a("TsukiV2").value
<1> DEFINE s == ActivationSchedule(doc)
<1>1. \A f \in DogeosHardfork : Activation(FromCustomGenesis(doc), f) = s[f]
  BY DEF Activation, FromCustomGenesis, BuildSpec, BuildSpecWithHardforks, FeynmanHardforks
<1>2. \A f \in DogeosHardfork : s[f] = Never \/ s[f].at = "time"
  BY DEF ActivationSchedule, ReadTime, Timestamp, Never
<1>3. ScheduleValid(s)
  BY DEF GenesisAccepted, HardforkInfoAccepted
<1> HIDE DEF s
<1>4. Never.at = "never"
  BY DEF Never
<1>5. "Tsuki" \in DogeosHardfork /\ "TsukiV2" \in DogeosHardfork
  BY DEF DogeosHardfork
<1>6. s["TsukiV2"].value \in Nat /\ s["Tsuki"].value \in Nat
  BY <1>1, <1>5
<1>7. ASSUME s["TsukiV2"].at = "time"
      PROVE  s["Tsuki"].at = "time" /\ s["Tsuki"].value <= s["TsukiV2"].value
  <2>1. s["TsukiV2"] # Never
    BY <1>4, <1>7
  <2>2. s["Tsuki"] # Never /\ s["TsukiV2"].value >= s["Tsuki"].value /\ s["Tsuki"].at = "time"
    BY <1>2, <1>3, <1>5, <2>1 DEF ScheduleValid
  <2>. QED BY <1>6, <2>2
<1>. QED BY <1>1, <1>2, <1>4, <1>5, <1>7

-----------------------------------------------------------------------------
(* Steps *)

LEMMA NetworkKept ==
  ASSUME network' = network
  PROVE  /\ NetworkInv => NetworkInv'
         /\ \A f, t : Active(f, t)' <=> Active(f, t)
         /\ \A t : StateInv(t)' <=> StateInv(t)
  BY DEF NetworkInv, Active, StateInv

LEMMA ChainKept ==
  ASSUME TransitionInv, UNCHANGED <<network, chain>>
  PROVE  NetworkInv' /\ CanonInv' /\ Tip' = Tip
<1>1. /\ NetworkInv' /\ \A f, t : Active(f, t)' <=> Active(f, t)
      /\ \A t : StateInv(t)' <=> StateInv(t)
  BY NetworkKept DEF TransitionInv
<1>2. CanonInv'
  BY <1>1 DEF TransitionInv, CanonInv
<1>. QED BY <1>1, <1>2 DEF Tip

\* The tip is a block of the chain.
LEMMA TipFacts ==
  ASSUME TransitionInv
  PROVE  /\ Len(chain) \in Nat \ {0} /\ DOMAIN chain = 1 .. Len(chain)
         /\ Tip \in [time : Nat, state : States, fired : SUBSET Forks,
                     setting : Penalties \cup {NoSetting}]
         /\ Tip.time >= network.spec.genesisTime
         /\ StateInv(Tip.state) /\ SettingInv(Tip)
         /\ Len(chain) >= 2 => \A f \in Forks : Active(f, Tip.time) => InPlace(f, Tip.state)
<1>1. Len(chain) \in 1 .. MaxBlocks
  BY DEF TransitionInv, CanonInv
<1>2. Len(chain) \in Nat \ {0} /\ DOMAIN chain = 1 .. Len(chain) /\ Len(chain) \in DOMAIN chain
  BY <1>1 DEF TransitionInv, CanonInv
<1>3. /\ Tip.time >= network.spec.genesisTime /\ StateInv(Tip.state) /\ SettingInv(Tip)
      /\ Tip \in [time : Nat, state : States, fired : SUBSET Forks,
                   setting : Penalties \cup {NoSetting}]
  <2> DEFINE Blocks == [time : Nat, state : States, fired : SUBSET Forks,
                        setting : Penalties \cup {NoSetting}]
  <2>1. chain \in Seq(Blocks)
    BY DEF TransitionInv, CanonInv
  <2> HIDE DEF Blocks
  <2>2. Tip \in Blocks
    BY <1>2, <2>1 DEF Tip
  <2>3. Tip.time >= network.spec.genesisTime /\ StateInv(Tip.state) /\ SettingInv(Tip)
    BY <1>2 DEF TransitionInv, CanonInv, Tip
  <2>. QED BY <2>2, <2>3 DEF Blocks
<1>4. Len(chain) >= 2 => Len(chain) \in 2 .. Len(chain)
  BY <1>2
<1>5. ASSUME Len(chain) >= 2, NEW f \in Forks, Active(f, Tip.time) PROVE InPlace(f, Tip.state)
  BY <1>4, <1>5 DEF TransitionInv, CanonInv, Tip
<1>. QED BY <1>2, <1>3, <1>5

\* A step of the executor that changes the block's state but keeps what is in place.
LEMMA ExecutorStep ==
  ASSUME TransitionInv, UNCHANGED <<network, chain, time, hook>>,
         pc # "idle", pc' \in Forks \cup {"history", "txs"},
         StateInv(state'), SettingInv([state |-> state', setting |-> setting']),
         setting' \in Penalties \cup {NoSetting},
         \A f \in Forks : InPlace(f, state) => InPlace(f, state'),
         \A f \in Handled' : Active(f, time) => InPlace(f, state'),
         fired' \subseteq Forks, \A f \in fired' : Len(chain) >= 2 => ~Active(f, Tip.time),
         hook => followed' = state'
  PROVE  TransitionInv'
<1>1. NetworkInv' /\ CanonInv' /\ Tip' = Tip
  BY ChainKept
<1>2. /\ \A f, t : Active(f, t)' <=> Active(f, t)
      /\ \A t : StateInv(t)' <=> StateInv(t)
  BY NetworkKept
<1>3. \A f \in Forks : InPlace(f, Tip'.state) => InPlace(f, state')
  BY <1>1 DEF TransitionInv, BlockInv
<1>4. StateInv(state)'
  BY DEF StateInv
<1>5. BlockInv'
  BY <1>1, <1>2, <1>3, <1>4 DEF TransitionInv, BlockInv, SettingInv, InPlace
<1>. QED BY <1>1, <1>5 DEF TransitionInv

LEMMA BeginInv ==
  ASSUME TransitionInv, BeginBlock
  PROVE  TransitionInv'
<1>1. /\ Len(chain) < MaxBlocks /\ time' \in Tip.time .. MaxTime /\ pc' = "Feynman"
      /\ state' = Tip.state /\ followed' = Tip.state /\ fired' = {}
      /\ setting' = Tip.setting /\ network' = network /\ chain' = chain
  BY DEF BeginBlock
<1>2. NetworkInv' /\ CanonInv' /\ Tip' = Tip
  BY <1>1, ChainKept
<1>3. /\ Tip.time \in Nat /\ StateInv(Tip.state) /\ SettingInv(Tip)
      /\ Tip.setting \in Penalties \cup {NoSetting}
  BY TipFacts
<1>4. StateInv(state)' /\ SettingInv([state |-> state, setting |-> setting])'
  BY <1>1, <1>3 DEF StateInv, SettingInv
<1>5. time' \in Nat /\ time' >= Tip.time
  BY <1>1, <1>3
<1>6. Handled' = {}
  BY <1>1 DEF Handled
<1>7. BlockInv'
  BY <1>1, <1>2, <1>3, <1>4, <1>5, <1>6 DEF BlockInv, Forks, InPlace
<1>. QED BY <1>2, <1>7 DEF TransitionInv

LEMMA PreBlockInv ==
  ASSUME TransitionInv, NEW f \in Forks, PreBlock(f)
  PROVE  TransitionInv'
<1> DEFINE s == IF Active(f, time) THEN Transition(f, state) ELSE state
<1>1. /\ pc = f /\ state' = s /\ followed' = Follow(s) /\ pc' = NextPc(f)
      /\ fired' = IF s = state THEN fired ELSE fired \cup {f}
      /\ UNCHANGED <<network, chain, time, setting, hook>>
  BY DEF PreBlock
<1>2. pc # "idle"
  BY <1>1 DEF Forks
<1>3. /\ time \in Nat /\ time >= Tip.time /\ StateInv(state)
      /\ SettingInv([state |-> state, setting |-> setting])
      /\ setting \in Penalties \cup {NoSetting} /\ fired \subseteq Forks
      /\ \A g \in Forks : InPlace(g, Tip.state) => InPlace(g, state)
      /\ \A g \in Handled : Active(g, time) => InPlace(g, state)
      /\ \A g \in fired : Len(chain) >= 2 => ~Active(g, Tip.time)
      /\ hook => followed = state
  BY <1>2 DEF TransitionInv, BlockInv
<1>4. Active("Feynman", time)
  <2>1. Tip.time \in Nat /\ Tip.time >= network.spec.genesisTime
    BY TipFacts
  <2>2. network.spec.genesisTime \in Nat /\ NetworkInv
    BY DEF TransitionInv, NetworkInv
  <2>3. time >= network.spec.genesisTime
    BY <1>3, <2>1, <2>2
  <2>. QED BY <1>3, <2>2, <2>3, FeynmanActive
<1>5. f = "GalileoV2" => state.isFeynman
  <2>1. f = "GalileoV2" => "Feynman" \in Handled
    BY <1>1 DEF Handled
  <2>. QED BY <1>3, <1>4, <2>1 DEF InPlace
<1>6. /\ StateInv(s) /\ (Active(f, time) => InPlace(f, s))
      /\ \A g \in Forks : InPlace(g, state) => InPlace(g, s)
      /\ Active(f, time) /\ InPlace(f, state) => s = state
      /\ state.isFeynman => s.isFeynman /\ s.penalty = state.penalty
  BY <1>3, <1>5, TransitionFacts, TransitionAssumption
<1>7. s # state => Active(f, time) /\ ~InPlace(f, state)
  BY <1>6
<1> HIDE DEF s
<1>8. SettingInv([state |-> state', setting |-> setting'])
  BY <1>1, <1>3, <1>6 DEF SettingInv
<1>9. pc' \in Forks \cup {"history", "txs"} /\ Handled' = Handled \cup {f}
  BY <1>1 DEF Forks, Handled, NextPc
<1>10. \A g \in Handled' : Active(g, time) => InPlace(g, state')
  <2>1. Handled \subseteq Forks
    BY <1>1 DEF Handled, Forks
  <2>. QED BY <1>1, <1>3, <1>6, <1>9, <2>1
<1>11. \A g \in fired' : Len(chain) >= 2 => ~Active(g, Tip.time)
  <2>1. ASSUME s # state, Len(chain) >= 2 PROVE ~Active(f, Tip.time)
    <3>1. ~InPlace(f, Tip.state)
      BY <1>3, <1>7, <2>1
    <3>. QED BY <2>1, <3>1, TipFacts
  <2>. QED BY <1>1, <1>3, <2>1
<1>12. hook => followed' = state'
  BY <1>1, <1>3, <1>6, FollowsUpdate DEF StateInv
<1>. QED
  BY <1>1, <1>2, <1>3, <1>6, <1>8, <1>9, <1>10, <1>11, <1>12, ExecutorStep

\* The system call and the owner's transactions change one slot.
LEMMA SlotInv ==
  ASSUME TransitionInv, BlockHashes \/ OwnerSetsPenalty
  PROVE  TransitionInv'
<1>1. /\ pc \in {"history", "txs"} /\ pc' = "txs" /\ fired' = fired
      /\ UNCHANGED <<network, chain, time, hook>> /\ followed' = Follow(state')
  BY DEF BlockHashes, OwnerSetsPenalty
<1>2. /\ StateInv(state) /\ state \in States /\ time \in Nat /\ time >= Tip.time
      /\ SettingInv([state |-> state, setting |-> setting])
      /\ setting \in Penalties \cup {NoSetting} /\ fired \subseteq Forks
      /\ \A g \in Handled : Active(g, time) => InPlace(g, state)
      /\ \A g \in fired : Len(chain) >= 2 => ~Active(g, Tip.time)
      /\ hook => followed = state
  BY <1>1 DEF TransitionInv, BlockInv, StateInv
<1>3. Handled = Forks /\ Handled' = Forks
  BY <1>1 DEF Handled, Forks
<1>4. state.isFeynman
  <2>1. Tip.time \in Nat /\ Tip.time >= network.spec.genesisTime
    BY TipFacts
  <2>2. network.spec.genesisTime \in Nat /\ NetworkInv
    BY DEF TransitionInv, NetworkInv
  <2>3. time >= network.spec.genesisTime
    BY <1>2, <2>1, <2>2
  <2>4. Active("Feynman", time)
    BY <1>2, <2>2, <2>3, FeynmanActive
  <2>. QED BY <1>2, <1>3, <2>4 DEF Forks, InPlace
<1>5. /\ state' \in States /\ state'.code = state.code /\ state'.isFeynman = state.isFeynman
      /\ state'.isGalileo = state.isGalileo /\ state'.token = state.token
      /\ state'.tokenNonce = state.tokenNonce
      /\ SettingInv([state |-> state', setting |-> setting'])
      /\ setting' \in Penalties \cup {NoSetting}
  <2>1. CASE BlockHashes
    <3>1. Len(chain) \in 0 .. MaxBlocks
      BY DEF TransitionInv, CanonInv
    <3>2. state' = state \/ state' = [state EXCEPT !.history = Len(chain)]
      BY <2>1 DEF BlockHashes
    <3>3. setting' = setting
      BY <2>1 DEF BlockHashes
    <3>4. /\ state' \in States /\ state'.code = state.code
          /\ state'.isFeynman = state.isFeynman
          /\ state'.isGalileo = state.isGalileo /\ state'.token = state.token
          /\ state'.tokenNonce = state.tokenNonce /\ state'.penalty = state.penalty
      BY <1>2, <3>1, <3>2 DEF States
    <3>. QED BY <1>2, <3>3, <3>4 DEF SettingInv
  <2>2. CASE OwnerSetsPenalty
    <3>1. PICK p \in Penalties : state' = [state EXCEPT !.penalty = p] /\ setting' = p
      BY <2>2 DEF OwnerSetsPenalty
    <3>2. /\ state' \in States /\ state'.code = state.code
          /\ state'.isFeynman = state.isFeynman
          /\ state'.isGalileo = state.isGalileo /\ state'.token = state.token
          /\ state'.tokenNonce = state.tokenNonce /\ state'.penalty = p
      BY <1>2, <3>1 DEF States
    <3>. QED BY <1>4, <3>1, <3>2 DEF SettingInv
  <2>. QED BY <2>1, <2>2
<1>6. StateInv(state') /\ \A f \in Forks : InPlace(f, state) => InPlace(f, state')
  BY <1>2, <1>5 DEF StateInv, InPlace, Forks
<1>7. \A f \in Handled' : Active(f, time) => InPlace(f, state')
  BY <1>2, <1>3, <1>6
<1>8. hook => followed' = state'
  BY <1>1, <1>2, <1>5, FollowsUpdate
<1>. QED BY <1>1, <1>2, <1>5, <1>6, <1>7, <1>8, ExecutorStep

\* finish: what was said of the block is now said of the tip.
LEMMA FinishInv ==
  ASSUME TransitionInv, FinishBlock
  PROVE  TransitionInv'
<1> DEFINE b == [time |-> time, state |-> state, fired |-> fired, setting |-> setting]
           n == Len(chain)
           Blocks == [time : Nat, state : States, fired : SUBSET Forks,
                      setting : Penalties \cup {NoSetting}]
<1>1. pc = "txs" /\ chain' = Append(chain, b) /\ pc' = "idle" /\ network' = network
  BY DEF FinishBlock
<1>2. /\ n < MaxBlocks /\ time \in Nat /\ time >= Tip.time /\ StateInv(state)
      /\ SettingInv([state |-> state, setting |-> setting])
      /\ setting \in Penalties \cup {NoSetting} /\ fired \subseteq Forks
      /\ \A f \in Handled : Active(f, time) => InPlace(f, state)
      /\ \A f \in fired : n >= 2 => ~Active(f, Tip.time)
  BY <1>1 DEF TransitionInv, BlockInv
<1>3. b \in Blocks /\ SettingInv(b) /\ b.time = time /\ b.state = state /\ b.fired = fired
  BY <1>2 DEF StateInv, SettingInv
<1>4. Handled = Forks
  BY <1>1 DEF Handled, Forks
<1>5. n \in Nat \ {0} /\ chain \in Seq(Blocks) /\ MaxBlocks \in Nat
  BY TipFacts, TransitionAssumption DEF TransitionInv, CanonInv
<1>6. b.time >= network.spec.genesisTime
  <2>1. Tip.time \in Nat /\ Tip.time >= network.spec.genesisTime
    BY TipFacts
  <2>2. network.spec.genesisTime \in Nat
    BY DEF TransitionInv, NetworkInv
  <2>. QED BY <1>2, <1>3, <2>1, <2>2
<1> HIDE DEF b, Blocks
<1>7. /\ chain' \in Seq(Blocks) /\ Len(chain') = n + 1 /\ DOMAIN chain' = 1 .. n + 1
      /\ chain'[n + 1] = b /\ \A i \in 1 .. n : chain'[i] = chain[i]
  BY <1>1, <1>3, <1>5
<1>8. /\ NetworkInv' /\ \A f, t : Active(f, t)' <=> Active(f, t)
      /\ \A t : StateInv(t)' <=> StateInv(t)
  BY <1>1, NetworkKept DEF TransitionInv
<1>9. Len(chain') \in 1 .. MaxBlocks
  BY <1>2, <1>5, <1>7
<1>10. ASSUME NEW i \in DOMAIN chain'
       PROVE  /\ chain'[i].time >= network'.spec.genesisTime
              /\ StateInv(chain'[i].state) /\ SettingInv(chain'[i])
  <2>1. CASE i = n + 1
    BY <1>1, <1>2, <1>3, <1>6, <1>7, <2>1
  <2>2. CASE i \in 1 .. n
    BY <1>1, <1>5, <1>7, <2>2 DEF TransitionInv, CanonInv
  <2>. QED BY <1>5, <1>7, <2>1, <2>2
<1>11. ASSUME NEW i \in 2 .. Len(chain'), NEW f \in Forks, Active(f, chain'[i].time)
       PROVE  InPlace(f, chain'[i].state)
  <2>1. CASE i = n + 1
    BY <1>2, <1>3, <1>4, <1>7, <1>11, <2>1
  <2>2. CASE i \in 2 .. n
    <3>1. chain'[i] = chain[i]
      BY <1>5, <1>7, <2>2
    <3>. QED BY <1>11, <2>2, <3>1 DEF TransitionInv, CanonInv
  <2>. QED BY <1>5, <1>7, <2>1, <2>2
<1>12. ASSUME NEW i \in 3 .. Len(chain'), NEW f \in chain'[i].fired
       PROVE  ~Active(f, chain'[i - 1].time)
  <2>1. CASE i = n + 1
    <3>1. i - 1 = n /\ n >= 2 /\ chain'[i - 1] = Tip
      BY <1>5, <1>7, <2>1 DEF Tip
    <3>. QED BY <1>2, <1>3, <1>7, <2>1, <3>1
  <2>2. CASE i \in 3 .. n
    <3>1. chain'[i] = chain[i] /\ chain'[i - 1] = chain[i - 1]
      BY <1>5, <1>7, <2>2
    <3>. QED BY <1>12, <2>2, <3>1 DEF TransitionInv, CanonInv
  <2>. QED BY <1>5, <1>7, <2>1, <2>2
<1>13. ASSUME NEW i \in 2 .. Len(chain') PROVE chain'[i - 1].time <= chain'[i].time
  <2>1. CASE i = n + 1
    <3>1. i - 1 = n /\ chain'[i - 1] = Tip /\ Tip.time \in Nat
      BY <1>5, <1>7, <2>1, TipFacts DEF Tip
    <3>. QED BY <1>2, <1>3, <1>7, <2>1, <3>1
  <2>2. CASE i \in 2 .. n
    <3>1. chain'[i] = chain[i] /\ chain'[i - 1] = chain[i - 1]
      BY <1>5, <1>7, <2>2
    <3>. QED BY <2>2, <3>1 DEF TransitionInv, CanonInv
  <2>. QED BY <1>5, <1>7, <2>1, <2>2
<1>14. CanonInv'
  <2>1. (\A i \in DOMAIN chain : StateInv(chain[i].state))'
    BY <1>1, <1>10 DEF StateInv
  <2>. QED BY <1>7, <1>8, <1>9, <1>10, <1>11, <1>12, <1>13, <2>1
       DEF CanonInv, Blocks, StateInv, SettingInv
<1>15. BlockInv'
  BY <1>1 DEF BlockInv
<1>. QED BY <1>8, <1>14, <1>15 DEF TransitionInv

\* A reorganization keeps a beginning of the chain.
LEMMA ReorgInv ==
  ASSUME TransitionInv, Reorg
  PROVE  TransitionInv'
<1> DEFINE Blocks == [time : Nat, state : States, fired : SUBSET Forks,
                      setting : Penalties \cup {NoSetting}]
<1>1. PICK n \in 1 .. Len(chain) - 1 : chain' = SubSeq(chain, 1, n)
  BY DEF Reorg
<1>2. pc = "idle" /\ pc' = "idle" /\ network' = network
  BY DEF Reorg
<1>3. chain \in Seq(Blocks) /\ Len(chain) \in 1 .. MaxBlocks /\ MaxBlocks \in Nat
  BY TransitionAssumption DEF TransitionInv, CanonInv
<1> HIDE DEF Blocks
<1>4. /\ chain' \in Seq(Blocks) /\ Len(chain') = n /\ DOMAIN chain' = 1 .. n
      /\ n \in 1 .. MaxBlocks /\ 1 .. n \subseteq DOMAIN chain
      /\ \A i \in 1 .. n : chain'[i] = chain[i]
  BY <1>1, <1>3
<1>5. /\ NetworkInv' /\ \A f, t : Active(f, t)' <=> Active(f, t)
      /\ \A t : StateInv(t)' <=> StateInv(t)
  BY <1>2, NetworkKept DEF TransitionInv
<1>6. ASSUME NEW i \in 1 .. n
      PROVE  /\ chain'[i].time >= network'.spec.genesisTime
             /\ StateInv(chain'[i].state) /\ SettingInv(chain'[i])
  BY <1>2, <1>4 DEF TransitionInv, CanonInv
<1>7. ASSUME NEW i \in 2 .. n, NEW f \in Forks, Active(f, chain'[i].time)
      PROVE  InPlace(f, chain'[i].state)
  <2>1. i \in 2 .. Len(chain) /\ chain'[i] = chain[i]
    BY <1>1, <1>3, <1>4
  <2>. QED BY <1>7, <2>1 DEF TransitionInv, CanonInv
<1>8. ASSUME NEW i \in 3 .. n, NEW f \in chain'[i].fired
      PROVE  ~Active(f, chain'[i - 1].time)
  <2>1. i \in 3 .. Len(chain) /\ chain'[i] = chain[i] /\ chain'[i - 1] = chain[i - 1]
    BY <1>1, <1>3, <1>4
  <2>. QED BY <1>8, <2>1 DEF TransitionInv, CanonInv
<1>9. ASSUME NEW i \in 2 .. n PROVE chain'[i - 1].time <= chain'[i].time
  <2>1. i \in 2 .. Len(chain) /\ chain'[i] = chain[i] /\ chain'[i - 1] = chain[i - 1]
    BY <1>1, <1>3, <1>4
  <2>. QED BY <2>1 DEF TransitionInv, CanonInv
<1>10. CanonInv'
  <2>1. (\A i \in DOMAIN chain : StateInv(chain[i].state))'
    BY <1>2, <1>4, <1>6 DEF StateInv
  <2>. QED BY <1>4, <1>5, <1>6, <1>7, <1>8, <1>9, <2>1
       DEF CanonInv, Blocks, StateInv, SettingInv
<1>11. BlockInv'
  BY <1>2 DEF BlockInv
<1>. QED BY <1>5, <1>10, <1>11 DEF TransitionInv

LEMMA InitTransitionInv == TInit => TransitionInv
<1> SUFFICES ASSUME TInit PROVE TransitionInv
  OBVIOUS
<1>1. PICK n \in Networks :
        Starts(n) /\ network = [spec |-> SpecOf(n), via |-> n.via, genesis |-> n.genesis]
  BY DEF TInit
<1>2. network.spec = SpecOf(n) /\ network.genesis = n.genesis
  BY <1>1
<1>3. NetworkInv
  <2>1. /\ network.spec.genesisTime \in Nat
        /\ \A f \in DogeosHardfork : Activation(network.spec, f).value \in Nat
        /\ \A f \in DOMAIN network.spec.forks : Activation(network.spec, f).value \in Nat
        /\ Active("Feynman", network.spec.genesisTime)
    BY <1>1, <1>2, TransitionAssumption, TimeAssumption DEF Active
  <2>2. ASSUME network.via = "genesis"
        PROVE  /\ \A f \in DogeosHardfork : Activation(network.spec, f).at # "block"
               /\ Activation(network.spec, "TsukiV2").at = "time" =>
                    /\ Activation(network.spec, "Tsuki").at = "time"
                    /\ Activation(network.spec, "Tsuki").value
                         <= Activation(network.spec, "TsukiV2").value
    <3>1. n.via = "genesis" /\ GenesisAccepted(n.doc) /\ network.spec = FromCustomGenesis(n.doc)
      BY <1>1, <1>2, <2>2 DEF Starts, SpecOf
    <3>. QED BY <2>1, <3>1, ScheduleFacts
  <2>. QED BY <2>1, <2>2 DEF NetworkInv
<1>4. StateInv(network.genesis)
  BY <1>2, TransitionAssumption DEF StateInv
<1> DEFINE g == [time |-> network.spec.genesisTime, state |-> network.genesis, fired |-> {},
                 setting |-> NoSetting]
<1>5. /\ g \in [time : Nat, state : States, fired : SUBSET Forks,
                setting : Penalties \cup {NoSetting}]
      /\ g.time = network.spec.genesisTime /\ g.state = network.genesis
      /\ g.setting = NoSetting
  BY <1>3, <1>4 DEF NetworkInv, StateInv
<1>6. chain = <<g>>
  BY DEF TInit
<1> HIDE DEF g
<1>7. Len(chain) = 1 /\ DOMAIN chain = {1} /\ chain[1] = g
  BY <1>6
<1>8. CanonInv
  <2>1. MaxBlocks \in Nat \ {0} /\ network.spec.genesisTime \in Nat
    BY <1>3, TransitionAssumption DEF NetworkInv
  <2>2. SettingInv(g)
    BY <1>5 DEF SettingInv
  <2>3. chain \in Seq([time : Nat, state : States, fired : SUBSET Forks,
                       setting : Penalties \cup {NoSetting}])
    BY <1>5, <1>6
  <2>. QED BY <1>4, <1>5, <1>7, <2>1, <2>2, <2>3 DEF CanonInv
<1>9. BlockInv
  BY DEF TInit, BlockInv
<1>. QED BY <1>3, <1>8, <1>9 DEF TransitionInv

LEMMA NextTransitionInv == TransitionInv /\ [TNext]_tvars => TransitionInv'
<1> SUFFICES ASSUME TransitionInv, [TNext]_tvars PROVE TransitionInv'
  OBVIOUS
<1>1. ASSUME NEW f \in Forks, PreBlock(f) PROVE TransitionInv'
  BY <1>1, PreBlockInv
<1>2. CASE FailBlock
  <2>1. pc' = "idle" /\ UNCHANGED <<network, chain>>
    BY <1>2 DEF FailBlock
  <2>2. BlockInv'
    BY <2>1 DEF BlockInv
  <2>. QED BY <2>1, <2>2, ChainKept DEF TransitionInv
<1>3. CASE UNCHANGED tvars
  <2>1. UNCHANGED <<network, chain, pc, time, state, fired, setting, hook, followed>>
    BY <1>3 DEF tvars
  <2>2. NetworkInv' /\ CanonInv' /\ Tip' = Tip
    BY <2>1, ChainKept
  <2>3. BlockInv'
    BY <2>1, <2>2 DEF TransitionInv, BlockInv, Handled, StateInv, SettingInv, Active, InPlace
  <2>. QED BY <2>2, <2>3 DEF TransitionInv
<1>. QED
  BY <1>1, <1>2, <1>3, BeginInv, SlotInv, FinishInv, ReorgInv DEF TNext

LEMMA TransitionInvariance == TSpec => []TransitionInv
BY InitTransitionInv, NextTransitionInv, PTL DEF TSpec

-----------------------------------------------------------------------------
(* Theorems *)

\* The updates given to the state hook, before the block and in it, reproduce its
\* state (commit_account_update, on_pre_block_state, the system call).
THEOREM HookReproducesState == TSpec => []HookFollowsState
<1>1. TransitionInv => HookFollowsState
  BY DEF TransitionInv, BlockInv, HookFollowsState
<1>. QED BY <1>1, TransitionInvariance, PTL

\* Whatever the schedule and the reorganizations, each block has the contracts of its
\* forks (apply_pre_execution_changes and the three transitions).
THEOREM ContractsFollowForks == TSpec => []ContractsMatchForks
<1>1. TransitionInv => ContractsMatchForks
  <2> SUFFICES ASSUME TransitionInv, NEW i \in 2 .. Len(chain)
               PROVE  /\ Active("Feynman", chain[i].time) =>
                           chain[i].state.isFeynman /\ chain[i].state.code # "curie"
                      /\ Active("GalileoV2", chain[i].time) =>
                           /\ chain[i].state.isGalileo
                           /\ chain[i].state.code \in {"galileo", "own"}
                      /\ Active("Tsuki", chain[i].time) => chain[i].state.token # Nothing
                      /\ network.genesis.token # Nothing =>
                           chain[i].state.token = network.genesis.token
    BY DEF ContractsMatchForks
  <2>1. i \in DOMAIN chain
    BY TipFacts
  <2>2. StateInv(chain[i].state)
    BY <2>1 DEF TransitionInv, CanonInv
  <2>3. \A f \in Forks : Active(f, chain[i].time) => InPlace(f, chain[i].state)
    BY DEF TransitionInv, CanonInv
  <2>. QED BY <2>2, <2>3 DEF StateInv, InPlace, Forks
<1>. QED BY <1>1, TransitionInvariance, PTL

\* No transition acts where its fork was active before, so none overwrites what the
\* oracle's owner has set.
THEOREM TransitionsActOnce == TSpec => []OwnerSettingKept
<1>1. TransitionInv => OwnerSettingKept
  BY DEF TransitionInv, CanonInv, SettingInv, OwnerSettingKept
<1>. QED BY <1>1, TransitionInvariance, PTL

\* For every genesis document that from_custom_genesis accepts, a later block has the
\* same or later rules, and the Tsuki rules only with Tsuki's contract.
THEOREM RulesFollowContracts == TSpec => []RulesHaveContracts
<1>1. TransitionInv => RulesHaveContracts
  <2> SUFFICES ASSUME TransitionInv, network.via = "genesis", NEW i \in 2 .. Len(chain)
               PROVE  LET b == chain[i]
                          id(j) == SpecId(network.spec, chain[j].time, j)
                      IN  /\ id(i) >= id(i - 1)
                          /\ id(i) >= 2 => b.state.token # Nothing
                          /\ BaseFeeParamsAt(network.spec, b.time) = TsukiFeeParams => id(i) = 3
    BY DEF RulesHaveContracts
  <2> DEFINE act(f, j) == Active(f, chain[j].time)
             id(j) == SpecId(network.spec, chain[j].time, j)
  <2>1. i \in DOMAIN chain /\ i - 1 \in DOMAIN chain
    BY TipFacts
  <2>2. chain[i].time \in Nat /\ chain[i - 1].time \in Nat /\ chain[i - 1].time <= chain[i].time
    <3> DEFINE Entry == [time : Nat, state : States, fired : SUBSET Forks,
                         setting : Penalties \cup {NoSetting}]
    <3>1. \A j \in DOMAIN chain : chain[j].time \in Nat
      <4>1. chain \in Seq(Entry)
        BY DEF TransitionInv, CanonInv
      <4>2. \A b \in Entry : b.time \in Nat
        OBVIOUS
      <4> HIDE DEF Entry
      <4>. QED BY <4>1, <4>2
    <3>2. chain[i - 1].time <= chain[i].time
      BY DEF TransitionInv, CanonInv
    <3>. QED BY <2>1, <3>1, <3>2
  <2>3. \A f \in DogeosHardfork : act(f, i - 1) => act(f, i)
    BY <2>2, ActiveStays DEF TransitionInv
  <2>4. act("TsukiV2", i) => act("Tsuki", i)
    <3>1. /\ Activation(network.spec, "TsukiV2").value \in Nat
          /\ Activation(network.spec, "Tsuki").value \in Nat
      BY DEF TransitionInv, NetworkInv, DogeosHardfork
    <3>. QED BY <2>2, <3>1 DEF TransitionInv, NetworkInv, Active, ActiveAtTimestamp
  <2>5. act("Tsuki", i) => chain[i].state.token # Nothing
    BY DEF TransitionInv, CanonInv, Forks, InPlace
  <2>6. \A j \in {i - 1, i} :
          id(j) = IF act("TsukiV2", j) THEN 3 ELSE IF act("Tsuki", j) THEN 2
                  ELSE IF act("GalileoV2", j) \/ act("Galileo", j) THEN 1 ELSE 0
    <3>1. \A f \in DogeosHardfork : Activation(network.spec, f).at # "block"
      BY DEF TransitionInv, NetworkInv
    <3>2. \A f \in DogeosHardfork : \A t, k :
            ActiveAt(Activation(network.spec, f), t, k) <=> Active(f, t)
      BY <3>1 DEF ActiveAt, Active
    <3>3. {"TsukiV2", "Tsuki", "GalileoV2", "Galileo"} \subseteq DogeosHardfork
      BY DEF DogeosHardfork
    <3>. QED BY <3>2, <3>3 DEF SpecId
  <2>7. BaseFeeParamsAt(network.spec, chain[i].time) = TsukiFeeParams => act("TsukiV2", i)
    <3>1. FeynmanFeeParams # TsukiFeeParams
      <4>1. FeynmanFeeParams.denominator = 8 /\ TsukiFeeParams.denominator = 48
        BY DEF FeynmanFeeParams, TsukiFeeParams
      <4>. QED BY <4>1
    <3>. QED BY <3>1 DEF BaseFeeParamsAt, Active
  <2>8. {"TsukiV2", "Tsuki", "GalileoV2", "Galileo"} \subseteq DogeosHardfork
    BY DEF DogeosHardfork
  <2> HIDE DEF act, id
  <2>9. /\ id(i) >= id(i - 1) /\ (id(i) >= 2 => chain[i].state.token # Nothing)
        /\ BaseFeeParamsAt(network.spec, chain[i].time) = TsukiFeeParams => id(i) = 3
    BY <2>3, <2>4, <2>5, <2>6, <2>7, <2>8
  <2>. QED BY <2>9 DEF id
<1>. QED BY <1>1, TransitionInvariance, PTL

-----------------------------------------------------------------------------
(* Peers *)

\* A filter's keys: the times of the forks after Tsuki and after genesis.
KeySet(keys) == keys \subseteq Nat \ {0}

LEMMA KeysFacts ==
  ASSUME NEW spec, spec.genesisTime \in Nat,
         \A f \in DOMAIN spec.forks : Activation(spec, f).value \in Nat
  PROVE  /\ KeySet(ForkFilterKeys(spec))
         /\ \A k : k \in ForkFilterKeys(spec) <=>
              \E f \in DOMAIN spec.forks : AfterTsuki(spec, f) /\ k = Activation(spec, f).value
<1>1. \A k : k \in ForkFilterKeys(spec) <=>
        \E f \in DOMAIN spec.forks : AfterTsuki(spec, f) /\ k = Activation(spec, f).value
  BY DEF ForkFilterKeys, AfterTsuki, Activation
<1>2. ASSUME NEW k \in ForkFilterKeys(spec)
      PROVE  k \in Nat \ {0}
  <2>1. PICK f \in DOMAIN spec.forks : AfterTsuki(spec, f) /\ k = Activation(spec, f).value
    BY <1>1
  <2>2. k \in Nat /\ k > spec.genesisTime
    BY <2>1 DEF AfterTsuki
  <2> QED
    BY <2>2
<1> QED
  BY <1>1, <1>2 DEF KeySet

\* The next key is the least of the later ones, or zero when there is none.
LEMMA NextFacts ==
  ASSUME NEW keys, KeySet(keys), NEW head \in Nat
  PROVE  \/ NextKey(keys, head) = 0 /\ \A k \in keys : k <= head
         \/ /\ NextKey(keys, head) \in keys /\ NextKey(keys, head) > head
            /\ \A k \in keys : k > head => NextKey(keys, head) <= k
<1>1. PICK later : later = {k \in keys : k > head}
  OBVIOUS
<1>2. NextKey(keys, head) = IF later = {} THEN 0 ELSE CHOOSE k \in later : \A m \in later : k <= m
  BY <1>1 DEF NextKey
<1>3. CASE later = {}
  BY <1>1, <1>2, <1>3 DEF KeySet
<1>4. CASE later # {}
  <2>1. later \in SUBSET Nat
    BY <1>1 DEF KeySet
  <2>2. \E k \in later : \A m \in later : k <= m
    BY <1>4, <2>1, LeastNat
  <2>3. NextKey(keys, head) \in later /\ \A m \in later : NextKey(keys, head) <= m
    BY <1>2, <1>4, <2>2
  <2> QED
    BY <1>1, <2>3
<1> QED
  BY <1>3, <1>4

\* Two heads that have passed the same keys have the same key ahead of them.
LEMMA SameNext ==
  ASSUME NEW keys, KeySet(keys), NEW a \in Nat, NEW b \in Nat, Passed(keys, a) = Passed(keys, b)
  PROVE  NextKey(keys, a) = NextKey(keys, b)
<1>1. \A k \in keys : k > a <=> k > b
  <2>1. \A k \in keys : k <= a <=> k <= b
    BY DEF Passed
  <2> QED
    BY <2>1 DEF KeySet
<1>2. PICK later : later = {k \in keys : k > a}
  OBVIOUS
<1>3. later = {k \in keys : k > b}
  BY <1>1, <1>2
<1>4. NextKey(keys, a) = IF later = {} THEN 0 ELSE CHOOSE k \in later : \A m \in later : k <= m
  BY <1>2 DEF NextKey
<1>5. NextKey(keys, b) = IF later = {} THEN 0 ELSE CHOOSE k \in later : \A m \in later : k <= m
  BY <1>3 DEF NextKey
<1> QED
  BY <1>4, <1>5

\* The last key that a head has passed, or zero, stands for that head.
LEMMA LastPassed ==
  ASSUME NEW keys, KeySet(keys), NEW head \in Nat
  PROVE  \E k \in {0} \cup Passed(keys, head) : Passed(keys, k) = Passed(keys, head)
<1>1. PICK back : back = {d \in Nat : d <= head /\ head - d \in {0} \cup Passed(keys, head)}
  OBVIOUS
<1>2. head \in back
  BY <1>1
<1>3. PICK d \in back : \A e \in back : d <= e
  BY <1>1, <1>2, LeastNat
<1>4. PICK k : k = head - d
  OBVIOUS
<1>5. d \in Nat /\ d <= head /\ k \in {0} \cup Passed(keys, head) /\ k \in Nat /\ k <= head
  BY <1>1, <1>3, <1>4
<1>6. ASSUME NEW m \in keys, m <= head
      PROVE  m <= k
  <2>1. m \in Nat /\ m \in Passed(keys, head)
    BY <1>6 DEF KeySet, Passed
  <2>2. head - m \in Nat /\ head - (head - m) = m /\ head - m <= head
    BY <1>6, <2>1
  <2>3. head - m \in back
    BY <1>1, <2>1, <2>2
  <2>4. d <= head - m
    BY <1>3, <2>3
  <2> QED
    BY <1>4, <1>5, <2>1, <2>4
<1>7. \A m \in keys : m <= k <=> m <= head
  BY <1>5, <1>6 DEF KeySet
<1>8. Passed(keys, k) = Passed(keys, head)
  BY <1>7 DEF Passed
<1> QED
  BY <1>5, <1>8

\* Whatever the heads, a node accepts a peer of its own specification.
LEMMA OwnAccepted ==
  ASSUME NEW spec, KeySet(ForkFilterKeys(spec)), NEW a \in Nat, NEW b \in Nat
  PROVE  PeerAccepted(spec, a, ForkId(spec, b))
<1>1. PICK keys : keys = ForkFilterKeys(spec)
  OBVIOUS
<1>2. KeySet(keys)
  BY <1>1
<1>3. PICK remote : remote = ForkId(spec, b)
  OBVIOUS
<1>4. remote.hash = ForkHash(spec, Passed(keys, b)) /\ remote.next = NextKey(keys, b)
  BY <1>1, <1>3 DEF ForkId, Current
<1>5. CASE remote.hash = ForkHash(spec, Passed(keys, a))
  <2>1. Passed(keys, a) = Passed(keys, b)
    BY <1>4, <1>5 DEF ForkHash
  <2>2. NextKey(keys, b) = NextKey(keys, a)
    BY <1>2, <2>1, SameNext
  <2>3. NextKey(keys, a) = 0 \/ (NextKey(keys, a) \in keys /\ NextKey(keys, a) > a)
    BY <1>2, NextFacts
  <2>4. remote.next = 0 \/ a < remote.next
    BY <1>2, <1>4, <2>2, <2>3 DEF KeySet
  <2> QED
    BY <1>1, <1>3, <1>5, <2>4 DEF PeerAccepted
<1>6. CASE remote.hash # ForkHash(spec, Passed(keys, a))
  <2>1. PICK k \in {0} \cup Passed(keys, b) : Passed(keys, k) = Passed(keys, b)
    BY <1>2, LastPassed
  <2>2. k \in Nat /\ (k = 0 \/ k \in keys)
    BY <1>2, <2>1 DEF Passed, KeySet
  <2>3. remote.hash = ForkHash(spec, Passed(keys, k)) /\ NextKey(keys, k) = remote.next
    BY <1>2, <1>4, <2>1, <2>2, SameNext
  <2>4. \/ \E m \in {0} \cup Passed(keys, a) :
             remote.hash = ForkHash(spec, Passed(keys, m)) /\ NextKey(keys, m) = remote.next
        \/ \E m \in keys \ Passed(keys, a) : remote.hash = ForkHash(spec, Passed(keys, m))
    BY <2>2, <2>3
  <2> QED
    BY <1>1, <1>3, <1>6, <2>4 DEF PeerAccepted
<1> QED
  BY <1>5, <1>6

\* A legacy peer is accepted exactly by a head that has passed no key.
LEMMA LegacyAccepted ==
  ASSUME NEW spec, KeySet(ForkFilterKeys(spec)), NEW head \in Nat
  PROVE  PeerAccepted(spec, head, [hash |-> ForkHash(spec, {}), next |-> 0]) <=>
           Passed(ForkFilterKeys(spec), head) = {}
<1>1. PICK keys : keys = ForkFilterKeys(spec)
  OBVIOUS
<1>2. KeySet(keys)
  BY <1>1
<1>3. PICK remote : remote = [hash |-> ForkHash(spec, {}), next |-> 0]
  OBVIOUS
<1>4. remote.hash = ForkHash(spec, {}) /\ remote.next = 0
  BY <1>3
<1>5. CASE Passed(keys, head) = {}
  BY <1>1, <1>3, <1>4, <1>5 DEF PeerAccepted
<1>6. CASE Passed(keys, head) # {}
  <2>1. \A k : ForkHash(spec, {}) = ForkHash(spec, Passed(keys, k)) => Passed(keys, k) = {}
    BY DEF ForkHash
  <2>2. remote.hash # ForkHash(spec, Passed(keys, head))
    BY <1>4, <1>6, <2>1
  <2>3. ASSUME NEW k \in {0} \cup Passed(keys, head), Passed(keys, k) = {}
        PROVE  NextKey(keys, k) # 0
    <3>1. k \in Nat
      BY <1>2 DEF KeySet, Passed
    <3>2. PICK m \in keys : m <= head
      BY <1>6 DEF Passed
    <3>3. ~(m <= k)
      BY <2>3, <3>2 DEF Passed
    <3> QED
      BY <1>2, <3>1, <3>2, <3>3, NextFacts DEF KeySet
  <2>4. ASSUME NEW k \in keys
        PROVE  Passed(keys, k) # {}
    <3>1. k \in Nat /\ k <= k
      BY <1>2 DEF KeySet
    <3> QED
      BY <3>1 DEF Passed
  <2>5. ~PeerAccepted(spec, head, remote)
    BY <1>1, <1>4, <2>1, <2>2, <2>3, <2>4 DEF PeerAccepted
  <2> QED
    BY <1>1, <1>3, <1>6, <2>5
<1> QED
  BY <1>5, <1>6

\* Past its first key a node refuses every peer without that key.
LEMMA StrangerRefused ==
  ASSUME NEW spec, NEW peer, peer.genesisHash = spec.genesisHash,
         KeySet(ForkFilterKeys(spec)), KeySet(ForkFilterKeys(peer)),
         NEW first \in ForkFilterKeys(spec), first \notin ForkFilterKeys(peer),
         \A k \in ForkFilterKeys(spec) : k >= first,
         NEW a \in Nat, first <= a, NEW b \in Nat
  PROVE  ~PeerAccepted(spec, a, ForkId(peer, b))
<1>1. PICK keys : keys = ForkFilterKeys(spec)
  OBVIOUS
<1>2. PICK theirs : theirs = ForkFilterKeys(peer)
  OBVIOUS
<1>3. PICK remote : remote = ForkId(peer, b)
  OBVIOUS
<1>4. /\ KeySet(keys) /\ KeySet(theirs) /\ first \in keys /\ first \notin theirs
      /\ \A k \in keys : k >= first
      /\ first \in Nat \ {0}
  BY <1>1, <1>2 DEF KeySet
<1>5. /\ remote.hash = ForkHash(peer, Passed(theirs, b))
      /\ remote.next = NextKey(theirs, b)
  BY <1>2, <1>3 DEF ForkId, Current
<1>6. \A k : remote.hash = ForkHash(spec, Passed(keys, k)) => Passed(theirs, b) = Passed(keys, k)
  BY <1>5 DEF ForkHash
<1>7. ASSUME NEW k \in Nat, remote.hash = ForkHash(spec, Passed(keys, k))
      PROVE  k < first
  <2>1. first \notin Passed(keys, k)
    BY <1>4, <1>6, <1>7 DEF Passed
  <2> QED
    BY <1>4, <2>1 DEF Passed
<1>8. remote.next # first
  <2>1. NextKey(theirs, b) = 0 \/ NextKey(theirs, b) \in theirs
    BY <1>4, NextFacts
  <2> QED
    BY <1>4, <1>5, <2>1
<1>9. ASSUME NEW k \in Nat, k < first
      PROVE  NextKey(keys, k) = first
  <2>1. \/ NextKey(keys, k) = 0 /\ \A m \in keys : m <= k
        \/ /\ NextKey(keys, k) \in keys /\ NextKey(keys, k) > k
           /\ \A m \in keys : m > k => NextKey(keys, k) <= m
    BY <1>4, NextFacts
  <2>2. NextKey(keys, k) \in keys /\ NextKey(keys, k) <= first
    BY <1>4, <1>9, <2>1
  <2>3. NextKey(keys, k) >= first /\ NextKey(keys, k) \in Nat
    BY <1>4, <2>2 DEF KeySet
  <2> QED
    BY <1>4, <2>2, <2>3
<1>10. remote.hash # ForkHash(spec, Passed(keys, a))
  BY <1>4, <1>7
<1>11. ASSUME NEW k \in {0} \cup Passed(keys, a)
       PROVE  ~(remote.hash = ForkHash(spec, Passed(keys, k)) /\ NextKey(keys, k) = remote.next)
  <2>1. k \in Nat
    BY <1>4 DEF KeySet, Passed
  <2> QED
    BY <1>7, <1>8, <1>9, <2>1
<1>12. ASSUME NEW k \in keys \ Passed(keys, a)
       PROVE  remote.hash # ForkHash(spec, Passed(keys, k))
  <2>1. k \in Nat /\ k >= first
    BY <1>4 DEF KeySet
  <2> QED
    BY <1>4, <1>7, <2>1
<1> QED
  BY <1>1, <1>3, <1>10, <1>11, <1>12 DEF PeerAccepted

\* At any height of the chain and wherever the peer's head is, a node accepts the peers of
\* its own specification, accepts a legacy peer exactly until the first fork after Tsuki,
\* and from then on refuses every peer of the same genesis with no fork at that time.
THEOREM PeersAlwaysFollowRules == TSpec => []PeersFollowRules
<1>1. TransitionInv => PeersFollowRules
  <2> SUFFICES ASSUME TransitionInv PROVE PeersFollowRules
    OBVIOUS
  <2>1. PICK spec : spec = network.spec
    OBVIOUS
  <2>2. PICK t : t = Tip.time
    OBVIOUS
  <2>3. t \in Nat
    BY <2>2, TipFacts
  <2>4. spec.genesisTime \in Nat /\ \A f \in DOMAIN spec.forks : Activation(spec, f).value \in Nat
    BY <2>1 DEF TransitionInv, NetworkInv
  <2>5. /\ KeySet(ForkFilterKeys(spec))
        /\ \A k : k \in ForkFilterKeys(spec) <=>
             \E f \in DOMAIN spec.forks : AfterTsuki(spec, f) /\ k = Activation(spec, f).value
    BY <2>4, KeysFacts
  <2>6. \A f \in DOMAIN spec.forks : AfterTsuki(spec, f) =>
          (Active(f, t) <=> Activation(spec, f).value <= t)
    BY <2>1, <2>3, <2>4 DEF AfterTsuki, Active, ActiveAtTimestamp
  <2>7. U64Max \in Nat /\ MaxTime \in Nat
    BY TransitionAssumption
  <2>8. /\ \A head \in 0 .. MaxTime :
             PeerAccepted(spec, t, ForkId(spec, head)) /\ PeerAccepted(spec, head, ForkId(spec, t))
        /\ PeerAccepted(spec, t, LatestForkId(spec))
    BY <2>3, <2>5, <2>7, OwnAccepted DEF LatestForkId
  <2>9. PeerAccepted(spec, t, [hash |-> ForkHash(spec, {}), next |-> 0]) <=>
          ~\E f \in {g \in DOMAIN spec.forks : AfterTsuki(spec, g)} : Active(f, t)
    <3>1. PeerAccepted(spec, t, [hash |-> ForkHash(spec, {}), next |-> 0]) <=>
            Passed(ForkFilterKeys(spec), t) = {}
      BY <2>3, <2>5, LegacyAccepted
    <3>2. Passed(ForkFilterKeys(spec), t) = {} <=>
            ~\E f \in {g \in DOMAIN spec.forks : AfterTsuki(spec, g)} : Active(f, t)
      BY <2>5, <2>6 DEF Passed
    <3> QED
      BY <3>1, <3>2
  <2>10. ASSUME NEW f \in {g \in DOMAIN spec.forks : AfterTsuki(spec, g)}, Active(f, t),
                \A g \in {h \in DOMAIN spec.forks : AfterTsuki(spec, h)} :
                  Activation(spec, g).value >= Activation(spec, f).value,
                NEW peer \in {SpecOf(n) : n \in {m \in Networks : Starts(m)}},
                peer.genesisHash = spec.genesisHash,
                \A g \in {h \in DOMAIN peer.forks : AfterTsuki(peer, h)} :
                  Activation(peer, g).value # Activation(spec, f).value,
                NEW head \in 0 .. MaxTime
         PROVE  ~PeerAccepted(spec, t, ForkId(peer, head))
    <3>1. PICK first : first = Activation(spec, f).value
      OBVIOUS
    <3>2. /\ peer.genesisTime \in Nat
          /\ \A g \in DOMAIN peer.forks : Activation(peer, g).value \in Nat
      BY <2>10, TimeAssumption
    <3>3. /\ KeySet(ForkFilterKeys(peer))
          /\ \A k : k \in ForkFilterKeys(peer) <=>
               \E g \in DOMAIN peer.forks : AfterTsuki(peer, g) /\ k = Activation(peer, g).value
      BY <3>2, KeysFacts
    <3>4. first \in ForkFilterKeys(spec) /\ first <= t
      BY <2>5, <2>6, <2>10, <3>1
    <3>5. \A k \in ForkFilterKeys(spec) : k >= first
      BY <2>5, <2>10, <3>1
    <3>6. first \notin ForkFilterKeys(peer)
      BY <2>10, <3>1, <3>3
    <3>7. head \in Nat
      BY <2>7
    <3> QED
      BY <2>3, <2>5, <2>10, <3>3, <3>4, <3>5, <3>6, <3>7, StrangerRefused
  <2> QED
    BY <2>1, <2>2, <2>8, <2>9, <2>10 DEF PeersFollowRules
<1> QED
  BY <1>1, TransitionInvariance, PTL

=============================================================================
