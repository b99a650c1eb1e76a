------------------------------- MODULE MCTab5 -------------------------------
(* A Tab5 t with two clients, which send the packets of one peer p.        *)
EXTENDS Tab5

CONSTANTS t, p1, c1, c2, k1

(* A Profile of the peer and a Gift for the slot.                          *)
MCInputs ==
  {[type |-> "Profile", node |-> p1, missing |-> Slot],
   [type |-> "Gift", round |-> t, phrase |-> [slot |-> k1, deck |-> p1]]}
=============================================================================
