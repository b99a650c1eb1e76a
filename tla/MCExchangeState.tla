-------------------------- MODULE MCExchangeState --------------------------
(* One device n1 under two clients that send whole, partial, interleaved  *)
(* and repeated packets in any order.                                      *)
EXTENDS ExchangeState

CONSTANTS n1, n2, n3, k1

(* A Profile that needs all slots, one that needs none, one of the device  *)
(* itself; an empty Gift, a phrase for each slot, a Gift for another round. *)
MCInputs ==
  {[type |-> "Profile", node |-> n2, missing |-> Slot],
   [type |-> "Profile", node |-> n3, missing |-> {}],
   [type |-> "Profile", node |-> n1, missing |-> Slot],
   [type |-> "Gift", round |-> n1, phrase |-> None],
   [type |-> "Gift", round |-> n2, phrase |-> None]}
  \cup {[type |-> "Gift", round |-> n1, phrase |-> [slot |-> k, deck |-> n2]] : k \in Slot}
=============================================================================
