----------------------------- MODULE GiftLedger -----------------------------
(***************************************************************************)
(* What the exchange protocol promises two devices, whatever the link does *)
(* (README.md, "交換プロトコル"): the waiting side settles an exchange when *)
(* it is acknowledged, the connecting side settles it afterwards or never, *)
(* and if it does, both books tell the same story from their two sides.    *)
(* A waiting side that keeps silent when it refuses leaves the connecting  *)
(* side to settle alone what it will never settle.                         *)
(***************************************************************************)
CONSTANTS
  Trader,      \* the devices
  TradeId,     \* the exchanges
  Goods,       \* what a book entry may say was given, or was got
  Nothing      \* no entry yet

VARIABLES
  trade,       \* trade[x].first: waiting side's entry, .second: connecting side's
  silent       \* the devices that keep silent when they refuse

BookEntry == [node : Trader, peer : Trader, sent : Goods, received : Goods]

(* The same exchange seen from the other side.                             *)
Mirror(e) ==
  [node |-> e.peer, peer |-> e.node, sent |-> e.received, received |-> e.sent]

TradeInit ==
  /\ silent \subseteq Trader
  /\ trade = [x \in TradeId |-> [first |-> Nothing, second |-> Nothing]]

Open(x) == trade[x].first = Nothing /\ trade[x].second = Nothing

Settle(x) ==
  /\ Open(x)
  /\ \E e \in BookEntry :
       /\ e.node # e.peer
       /\ trade' = [trade EXCEPT ![x].first = e]

Follow(x) ==
  /\ trade[x].first # Nothing
  /\ trade[x].second = Nothing
  /\ trade' = [trade EXCEPT ![x].second = Mirror(trade[x].first)]

Alone(x) ==
  /\ Open(x)
  /\ \E e \in BookEntry :
       /\ e.node # e.peer /\ e.peer \in silent
       /\ trade' = [trade EXCEPT ![x].second = e]

TradeNext ==
  /\ \E x \in TradeId : Settle(x) \/ Follow(x) \/ Alone(x)
  /\ UNCHANGED silent

TradeSpec == TradeInit /\ [][TradeNext]_<<trade, silent>>
=============================================================================
