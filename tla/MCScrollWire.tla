---------------------------- MODULE MCScrollWire ----------------------------
(* Small instance of ScrollWire: a peer that reconnects beside one that does   *)
(* not, one more authorized key than the duplicate filter holds, and a key     *)
(* that is announced with two bodies.                                          *)
EXTENDS ScrollWire

CONSTANTS a, b, x

MCAnnouncements ==
  {[key |-> a, body |-> 1], [key |-> a, body |-> 2], [key |-> b, body |-> 1],
   [key |-> x, body |-> 1]}
=============================================================================
