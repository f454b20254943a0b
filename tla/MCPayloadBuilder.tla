-------------------------- MODULE MCPayloadBuilder --------------------------
(* Two L1 messages and an L2 transaction that may be forced, three pool        *)
(* transactions of two senders, and two codes that do not fit together with a  *)
(* reserve.                                                                    *)
EXTENDS PayloadBuilder, FiniteSetsExt, TLC

CONSTANTS small, large, m1, m2, f, blob, a1, a2, b1

Length(c) == IF c = small THEN 1 ELSE 2
MCCodeBytes == [S \in SUBSET {small, large} |-> MapThenSumSet(Length, S)]

T(kind, gas, da, auths, sender, queue) ==
  [kind |-> kind, gas |-> gas, da |-> da, auths |-> auths, sender |-> sender,
   tip |-> 1, queue |-> queue]

MCAttr ==
  (m1 :> T("l1", 2, 1, 0, 9, 7)) @@ (m2 :> T("l1", 2, 1, 0, 9, 8)) @@
  (f :> T("l2", 3, 2, 1, 8, 0)) @@ (blob :> T("blob", 1, 1, 0, 8, 0)) @@
  (a1 :> T("l2", 2, 1, 0, 1, 0)) @@ (a2 :> T("l2", 2, 1, 1, 1, 0)) @@
  (b1 :> T("l2", 3, 2, 0, 2, 0))

MCForced == {<<>>, <<m1, m2>>, <<m1, f>>, <<f, blob>>, <<f, f>>}
MCPool   == {<<a1, a2, b1>>, <<b1, m2>>}
MCConfigs == {[da |-> NoLimit, gas |-> NoLimit], [da |-> 2, gas |-> 4]}
=============================================================================
