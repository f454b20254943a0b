------------------------- MODULE AdmissionCapacity -------------------------
(***************************************************************************)
(* What the validation executor promises (the doc comment of               *)
(* DogeosValidationExecutor): at most Capacity requests are admitted at    *)
(* any time, whether they wait, execute or were abandoned by their caller; *)
(* a request is turned away only when Capacity others are admitted.        *)
(***************************************************************************)
EXTENDS Naturals, FiniteSets

CONSTANTS Requests, Capacity

VARIABLES
  admitted,   \* requests that count against the capacity
  refused     \* requests whose last answer was "retry later"

Admit(r) ==
  /\ r \notin admitted
  /\ Cardinality(admitted) < Capacity
  /\ admitted' = admitted \cup {r}
  /\ refused' = refused \ {r}

Refuse(r) ==
  /\ r \notin admitted
  /\ Cardinality(admitted) = Capacity
  /\ refused' = refused \cup {r}
  /\ UNCHANGED admitted

Leave(r) ==
  /\ r \in admitted
  /\ admitted' = admitted \ {r}
  /\ UNCHANGED refused

CapInit == admitted = {} /\ refused = {}
CapNext == \E r \in Requests : Admit(r) \/ Refuse(r) \/ Leave(r)
CapSpec == CapInit /\ [][CapNext]_<<admitted, refused>>
=============================================================================
