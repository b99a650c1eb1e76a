------------------------------ MODULE MCProcess ------------------------------
EXTENDS Process, TLC

CONSTANTS b1, b2

Phrases(size) == [slot \in Slot |-> size]

Good ==
  [name |-> 9, deck |-> Phrases(6), rssiThreshold |-> -65, roleMin |-> 2, roleMax |-> 3,
   exchangeTimeout |-> ExchangeTimeout, drain |-> 5, cooldown |-> 30, webPort |-> 8787,
   postUrl |-> "none"]

(* No role can last as long as this says.                                  *)
Reversed == [Good EXCEPT !.roleMax = 1]

MCGiven == {Good, Reversed}

(* At the limits, and one octet beyond.                                    *)
MCAsks ==
  b1 :> {[name |-> MAX_NAME_BYTES, deck |-> Phrases(1)],
         [name |-> 1, deck |-> [Phrases(1) EXCEPT !["How"] = MAX_PHRASE_BYTES + 1]]}
  @@ b2 :> {[name |-> 1, deck |-> Phrases(MAX_PHRASE_BYTES)]}
=============================================================================
