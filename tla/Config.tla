-------------------------------- MODULE Config --------------------------------
(***************************************************************************)
(* The configuration of the command line (cli/src/config.rs), the part of  *)
(* it a browser may set (SetupRequest of cli/src/web.rs), and what both    *)
(* check.  A text counts by its size in octets.                            *)
(***************************************************************************)
EXTENDS Integers

MAX_NAME_BYTES == 32
MAX_PHRASE_BYTES == 64

Slot == {"When", "Where", "Who", "What", "Why", "How"}

Deck == [Slot -> Nat]

SetupRequest == [name : Nat, deck : Deck]

Config ==
  [name : Nat, deck : Deck, rssiThreshold : Int,
   roleMin : Nat, roleMax : Nat, exchangeTimeout : Nat, drain : Nat, cooldown : Nat,
   webPort : Nat, postUrl : {"none", "http", "other"}]

PhraseAllowed(size) == size \in 1 .. MAX_PHRASE_BYTES

DeckAllowed(deck) == \A slot \in Slot : PhraseAllowed(deck[slot])

NameAllowed(size) == size \in 1 .. MAX_NAME_BYTES

(* SetupRequest::validate                                                  *)
SetupNameAllowed(s) == NameAllowed(s.name)
SetupAllowed(s) == NameAllowed(s.name) /\ DeckAllowed(s.deck)

(* Config::validate                                                        *)
ConfigAllowed(c) ==
  /\ NameAllowed(c.name)
  /\ DeckAllowed(c.deck)
  /\ c.rssiThreshold \in -127 .. 20
  /\ c.roleMin > 0 /\ c.roleMin <= c.roleMax /\ c.roleMax <= 3600
  /\ c.exchangeTimeout \in 1 .. 3600
  /\ c.roleMin >= c.exchangeTimeout
  /\ c.drain <= 60
  /\ c.cooldown <= 86400
  /\ c.webPort > 0
  /\ c.postUrl # "other"

FromConfig(c) == [name |-> c.name, deck |-> c.deck]

ApplyTo(s, c) == [c EXCEPT !.name = s.name, !.deck = s.deck]

(* role_run_duration: one slot_duration, and one more as often as the      *)
(* random role stays the same.  Each is at least a second.                 *)
MayLast(c, duration) ==
  \E more \in 0 .. duration :
    (more + 1) * c.roleMin <= duration /\ duration <= (more + 1) * c.roleMax
=============================================================================
