-------------------------- MODULE MCForkTransitions --------------------------
(* ForkTransitions on the three built-in networks, in small timestamps, and on   *)
(* custom genesis documents: one from before Feynman whose forks all activate at *)
(* once, two that move Chikyu's later forks, one that never schedules Tsuki, one *)
(* that starts late, one made with the builder, and documents to be refused.     *)
EXTENDS ForkTransitions

GenesisState(code, feynman, galileo, penalty, token) ==
  [code |-> code, isFeynman |-> feynman, isGalileo |-> galileo, penalty |-> penalty,
   token |-> token, tokenNonce |-> 0, history |-> 0]

Scroll == [feeVaultAddress |-> "FeeVault", unknownFields |-> {},
           l1ChainId |-> Number(1), numL1MessagesPerBlock |-> Text(TRUE, <<10>>)]

Times(feynman, galileo, galileoV2, tsuki, tsukiV2) ==
  [Feynman |-> feynman, Galileo |-> galileo, GalileoV2 |-> galileoV2, Tsuki |-> tsuki,
   TsukiV2 |-> tsukiV2]

Document(alloc, t, times) ==
  [alloc |-> alloc, timestamp |-> t, baseFee |-> 1, chainId |-> 1, scroll |-> Scroll,
   retiredKey |-> FALSE, times |-> times]

Custom(doc, s) == [via |-> "genesis", doc |-> doc, genesis |-> s]

N(t) == Number(t)
ChikyuDoc == Document("chikyu", 0, Times(N(0), N(1), Text(FALSE, <<1>>), N(2), N(3)))
ChikyuState == GenesisState("feynman", TRUE, FALSE, 0, "nothing")
DevDoc == Document("dev", 0, [f \in DogeosHardfork |-> Absent])
DevState == GenesisState("galileo", TRUE, TRUE, 1, "nothing")

Mainnet == Custom(Document("mainnet", 0, [f \in DogeosHardfork |-> N(0)]),
                  GenesisState("own", TRUE, TRUE, 2, "own"))
Chikyu  == Custom(ChikyuDoc, ChikyuState)
Moved   == Custom([ChikyuDoc EXCEPT !.times["TsukiV2"] = Text(TRUE, <<4>>)], ChikyuState)
Split   == Custom([ChikyuDoc EXCEPT !.times["GalileoV2"] = N(3), !.times["TsukiV2"] = N(4)],
                  ChikyuState)
Unforked == Custom([ChikyuDoc EXCEPT !.times["Tsuki"] = Null, !.times["TsukiV2"] = Absent],
                   ChikyuState)
Late    == Custom(Document("late", 1, Times(N(0), N(0), N(3), N(1), N(1))), ChikyuState)
Early   == Custom(Document("early", 0, Times(N(0), N(0), N(0), N(1), N(1))),
                  GenesisState("curie", FALSE, FALSE, 0, "nothing"))
Dev     == [via |-> "dev", doc |-> DevDoc, chain |-> 7, genesis |-> DevState]
Built   == [via |-> "builder", doc |-> DevDoc, chain |-> 7, genesis |-> DevState,
            changed |-> [Tsuki |-> Timestamp(1), TsukiV2 |-> Timestamp(2)]]

Refused ==
  {Custom(d, ChikyuState) : d \in
    {[ChikyuDoc EXCEPT !.times["TsukiV2"] = N(1)], [ChikyuDoc EXCEPT !.times["TsukiV2"] = Null],
     [ChikyuDoc EXCEPT !.times["Tsuki"] = Absent], [ChikyuDoc EXCEPT !.retiredKey = TRUE],
     [ChikyuDoc EXCEPT !.times["Galileo"] = Text(FALSE, <<10>>)],
     [ChikyuDoc EXCEPT !.times["Galileo"] = Number(-1)],
     [ChikyuDoc EXCEPT !.times["Galileo"] = Other], [ChikyuDoc EXCEPT !.baseFee = U64Max + 1],
     [ChikyuDoc EXCEPT !.scroll = None], [ChikyuDoc EXCEPT !.scroll.unknownFields = {"x"}]}}

MCNetworks == {Mainnet, Chikyu, Moved, Split, Unforked, Late, Early, Dev, Built} \cup Refused
=============================================================================
