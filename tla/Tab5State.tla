----------------------------- MODULE Tab5State -----------------------------
(***************************************************************************)
(* The exchange state of the Tab5, m5stack/src/exchange_state.cpp: the     *)
(* machine of cli/src/state.rs ported to a clock of 32 bits that wraps,    *)
(* with a lease for every connection that has not yet begun its exchange.  *)
(* One mutex, so every method is one action, and every method but          *)
(* cooling_down, profile and choose_gift sweeps first (expire_locked).     *)
(*                                                                         *)
(* Packets and fragments are those of ExchangeState, whose Assembler       *)
(* protocol.cpp has line for line.  The events for the screen are left     *)
(* out; `log' has what was recorded.                                       *)
(***************************************************************************)
EXTENDS Integers, Sequences

CONSTANTS
  Self,           \* this device
  Peer, Client, ExchangeId, Slot, Inputs, None,
  Timeout, Grace, Cooldown, ProfileFrames, GiftFrames,  \* as in ExchangeState
  Clock,          \* the clock counts modulo this (2^32 in the code)
  MaxExchanges    \* bound: exchanges recorded

Half == Clock \div 2

(* app_config.hpp keeps every duration far below half the clock's range.   *)
ASSUME Tab5Assumption ==
  /\ Self \in Peer
  /\ ProfileFrames \in Nat /\ ProfileFrames >= 2 /\ GiftFrames \in Nat /\ GiftFrames >= 2
  /\ Slot # {} /\ MaxExchanges \in Nat
  /\ Clock \in Nat /\ Clock = 2 * Half
  /\ Timeout \in 1 .. Half - 1 /\ Grace \in 1 .. Half - 1 /\ Cooldown \in 0 .. Half - 1

VARIABLES
  now,          \* millis()
  enabled,
  session,
  connections,  \* deadline of each connected client without a session
  recent,       \* end of the cooldown of each peer, or None
  sentence,
  log           \* history: the exchanges recorded, newest first

statevars == <<now, enabled, session, connections, recent, sentence, log>>

-----------------------------------------------------------------------------
(* The clock. *)

ReachedUnsigned(t, deadline) == t >= deadline
Reached(t, deadline) == (t - deadline) % Clock < Half
After(t) == (now + t) % Clock
Remaining(deadline) == IF Reached(now, deadline) THEN 0 ELSE (deadline - now) % Clock

-----------------------------------------------------------------------------
(* The state of the CLI that this state amounts to: a deadline becomes the *)
(* time left until it.                                                     *)

Only(value) == [n \in {Self} |-> value]

Lease(s) ==
  IF s = None THEN None
  ELSE [client |-> s.client, exchange |-> s.exchange, timer |-> Remaining(s.deadline),
        incoming |-> s.incoming, peer |-> s.peer, outgoingGift |-> s.outgoingGift,
        incomingGift |-> s.incomingGift, reply |-> s.reply, selected |-> s.selected,
        read |-> s.read, committed |-> s.committed]

Cooling == [p \in Peer |-> IF recent[p] = None THEN 0 ELSE Remaining(recent[p])]

Complete == \A k \in Slot : sentence[k] # None

Cli == INSTANCE ExchangeState WITH
  Node <- {Self}, PostUrl <- {}, LogLimit <- MaxExchanges + 1,
  enabled <- Only(enabled), session <- Only(Lease(session)), recent <- Only(Cooling),
  sentence <- Only(sentence), exchanges <- Only(log), exchangeCount <- Only(Len(log)),
  postedRound <- Only(Complete), posts <- Only(0)

Time == 0 .. Clock - 1

(* exchange_state.hpp: a Session, with its deadline.                       *)
Session ==
  [client : Client, exchange : ExchangeId, deadline : Time, incoming : Cli!Assembler,
   peer : Cli!Profile \cup {None}, outgoingGift : Cli!Gift \cup {None},
   incomingGift : Cli!Gift \cup {None}, reply : Cli!Packet \cup {None},
   selected : Nat \cup {None}, read : SUBSET Nat, committed : BOOLEAN]

(* No value is told from None by its absence.                              *)
ASSUME DataAssumption ==
  /\ Inputs \subseteq Cli!Packet
  /\ None \notin Cli!Packet /\ None \notin Cli!Session
  /\ None \notin Session /\ None \notin Time

-----------------------------------------------------------------------------
(* What a method finds after its sweep, and how it leaves it.              *)

Live == IF session # None /\ Reached(now, session.deadline) THEN None ELSE session

LiveConnections ==
  [c \in {d \in DOMAIN connections : ~Reached(now, connections[d])} |-> connections[c]]

LiveRecent ==
  [p \in Peer |-> IF recent[p] # None /\ Reached(now, recent[p]) THEN None ELSE recent[p]]

Without(c, held) == [d \in DOMAIN held \ {c} |-> held[d]]

Leave(s, held) ==
  /\ session' = s /\ connections' = held /\ recent' = LiveRecent
  /\ UNCHANGED <<now, sentence, log>>

Hold(s) == Leave(s, LiveConnections) /\ UNCHANGED enabled

Expire == Hold(Live)

-----------------------------------------------------------------------------
(* Roles and connections. *)

Enable ==
  /\ enabled' = TRUE
  /\ UNCHANGED <<now, session, connections, recent, sentence, log>>

ShutdownKeepingSession ==
  /\ enabled' = FALSE /\ connections' = <<>>
  /\ UNCHANGED <<now, session, recent, sentence, log>>
Shutdown ==
  /\ enabled' = FALSE /\ session' = None /\ connections' = <<>>
  /\ UNCHANGED <<now, recent, sentence, log>>

IdleWithoutSession == Live = None
Idle == Live = None /\ LiveConnections = <<>>

DisableIfIdle ==
  /\ enabled' = (enabled /\ ~Idle)
  /\ Leave(Live, LiveConnections)

Connected(c) ==
  /\ Leave(Live,
           IF enabled
           THEN [d \in DOMAIN LiveConnections \cup {c} |->
                   IF d = c THEN After(Timeout) ELSE connections[d]]
           ELSE LiveConnections)
  /\ UNCHANGED enabled

(* The only method that sweeps nothing away but what is the client's.      *)
Disconnected(c) ==
  /\ connections' = Without(c, connections)
  /\ session' = IF session # None /\ session.client = c THEN None ELSE session
  /\ UNCHANGED <<now, enabled, recent, sentence, log>>

-----------------------------------------------------------------------------
(* The record. *)

SlotFree(phrase) == phrase # None => sentence[phrase.slot] = None
Missing == {k \in Slot : sentence[k] = None}
OwnProfile == [type |-> "Profile", node |-> Self, missing |-> Missing]

(* cooling_down: without a sweep, an entry long past may look ahead.       *)
CoolingDown(p) == recent[p] # None /\ ~Reached(now, recent[p])

RecordAllowed(peer, sent, received) ==
  /\ peer.node # Self
  /\ sent.round = peer.node
  /\ received.round = Self
  /\ sent.phrase # None => sent.phrase.slot \in peer.missing
  /\ SlotFree(received.phrase)

Record(peer, sent, received) ==
  /\ sentence' = IF received.phrase = None THEN sentence
                 ELSE [sentence EXCEPT ![received.phrase.slot] =
                         [source |-> peer.node, deck |-> received.phrase.deck]]
  /\ recent' = [LiveRecent EXCEPT ![peer.node] =
                  IF Cooldown = 0 THEN None ELSE After(Cooldown)]
  /\ log' = <<[sequence |-> Len(log) + 1, peer |-> peer.node,
               sent |-> sent.phrase, received |-> received.phrase]>> \o log
  /\ connections' = LiveConnections
  /\ UNCHANGED <<now, enabled>>

RecordCentral(peer, sent, received) ==
  /\ RecordAllowed(peer, sent, received)
  /\ Record(peer, sent, received)
  /\ session' = Live

-----------------------------------------------------------------------------
(* write.  The first fragment turns the client's connection lease into the *)
(* lease of its exchange.                                                  *)

NewSession(c, f) ==
  [client |-> c, exchange |-> f.exchange, deadline |-> After(Timeout),
   incoming |-> Cli!Pushed(Cli!EmptyAssembler, f),
   peer |-> None, outgoingGift |-> None, incomingGift |-> None,
   reply |-> None, selected |-> None, read |-> {}, committed |-> FALSE]

Begins(f) == enabled /\ Live = None /\ f.kind = "DATA" /\ f.seq = 0

Begin(c, f) ==
  /\ Begins(f)
  /\ Leave(NewSession(c, f), Without(c, LiveConnections))
  /\ UNCHANGED enabled

Leased(c, f) ==
  enabled /\ Live # None /\ Live.client = c /\ Live.exchange = f.exchange

AllRead(s) == s.read = 0 .. Cli!ReplyFrames(s) - 1

Appends(f) ==
  /\ f.kind = "DATA"
  /\ Live.peer # None => AllRead(Live) /\ Live.incomingGift = None
  /\ Cli!CanPush(Live.incoming, f)

AppendFragment(c, f) ==
  LET a == Cli!Pushed(Live.incoming, f)
  IN  /\ Leased(c, f) /\ Appends(f) /\ ~Cli!Finished(a)
      /\ Hold([Live EXCEPT !.incoming = a])

WithReply(s, packet) ==
  [s EXCEPT !.reply = packet, !.read = {}, !.selected = None,
            !.incoming = Cli!EmptyAssembler]

(* handle_packet_locked. *)
Welcome(p) ==
  /\ p # None
  /\ IF Live.peer = None
     THEN p.type = "Profile" /\ p.node # Self /\ ~(CoolingDown(p.node))
     ELSE p.type = "Gift" /\ p.round = Self /\ SlotFree(p.phrase)

Answered(p) ==
  IF Live.peer = None
  THEN {[WithReply(Live, OwnProfile) EXCEPT
           !.peer = p,
           !.outgoingGift = [type |-> "Gift", round |-> p.node, phrase |-> phrase]] :
          phrase \in Cli!Choices(Self, p.missing)}
  ELSE {[WithReply(Live, Live.outgoingGift) EXCEPT !.incomingGift = p]}

HandlePacket(c, f) ==
  LET a == Cli!Pushed(Live.incoming, f)
  IN  /\ Leased(c, f) /\ Appends(f) /\ Cli!Finished(a)
      /\ \E p \in Cli!Decoded(a) :
           IF Welcome(p) THEN \E s \in Answered(p) : Hold(s)
           ELSE Hold([Live EXCEPT !.incoming = a])

Selects(f) == f.kind = "SELECT" /\ ~Live.committed /\ f.index < Cli!ReplyFrames(Live)

Select(c, f) ==
  /\ Leased(c, f) /\ Selects(f)
  /\ Hold([Live EXCEPT !.selected = f.index])

Acks(f) == f.kind = "ACK" /\ Live.incomingGift # None /\ AllRead(Live)

Recordable == RecordAllowed(Live.peer, Live.outgoingGift, Live.incomingGift)

Acknowledge(c, f) ==
  /\ Leased(c, f) /\ Acks(f) /\ ~Live.committed /\ Recordable
  /\ Record(Live.peer, Live.outgoingGift, Live.incomingGift)
  /\ session' = [Live EXCEPT !.committed = TRUE, !.deadline = After(Grace)]

(* An acknowledgement repeated, and every other request: an error, or      *)
(* nothing to change.                                                      *)
Unserved(c, f) ==
  /\ ~Begins(f)
  /\ Leased(c, f) =>
       /\ ~Appends(f) /\ ~Selects(f)
       /\ Acks(f) => Live.committed \/ ~Recordable
  /\ Expire

Write(c, f) ==
  \/ Begin(c, f) \/ AppendFragment(c, f) \/ HandlePacket(c, f) \/ Select(c, f)
  \/ Acknowledge(c, f) \/ Unserved(c, f)

Reads(c) == enabled /\ Live # None /\ Live.client = c /\ Live.selected # None

ReadRenewing(c) ==
  IF Reads(c)
  THEN Hold([Live EXCEPT !.read = @ \cup {Live.selected}, !.deadline = After(Timeout)])
  ELSE Expire
Read(c) ==
  IF Reads(c) THEN Hold([Live EXCEPT !.read = @ \cup {Live.selected}]) ELSE Expire

-----------------------------------------------------------------------------

StateInit ==
  /\ now = 0
  /\ enabled = FALSE /\ session = None /\ connections = <<>>
  /\ recent = [p \in Peer |-> None]
  /\ sentence = [k \in Slot |-> None]
  /\ log = <<>>
=============================================================================
