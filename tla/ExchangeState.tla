--------------------------- MODULE ExchangeState ---------------------------
(***************************************************************************)
(* The exchange state of one device, cli/src/state.rs with the sentence of *)
(* cli/src/game.rs: the peripheral's single-client lease (`Session`), the  *)
(* cooldown table, the 5W1H sentence under construction, the exchange log  *)
(* and the once-per-sentence post.  The handlers run under one mutex, so   *)
(* each is one action.                                                     *)
(*                                                                         *)
(* Data is abstracted to what the state machine tells apart.  A packet is  *)
(* a record and a fragment names its packet; `node' and `round' are both   *)
(* drawn once per process (main.rs, Sentence::new), so the node stands for *)
(* its round too.  An `Instant' deadline is the time left until it, and    *)
(* Tick lets one unit of time pass.                                        *)
(***************************************************************************)
EXTENDS Integers, Sequences

CONSTANTS
  Node,           \* the devices whose State is modelled
  Peer,           \* every identity a packet can carry, Node among them
  Client,         \* link addresses of the connected centrals
  ExchangeId,     \* exchange numbers chosen by the centrals
  Slot,           \* the kinds of phrase (six in the code)
  PostUrl,        \* the nodes configured with --post-url
  Timeout,        \* lease of a peripheral session
  Grace,          \* what a committed session still gets (1 s in the code)
  Cooldown,       \* time before the same peer is exchanged with again
  ProfileFrames,  \* fragments of a Profile (3..7 in the code)
  GiftFrames,     \* fragments of a Gift (2..7 in the code)
  LogLimit,       \* length of the exchange log (50 in the code)
  Inputs,         \* the packets the environment sends
  MaxExchanges,   \* bound: exchanges the environment completes per node
  None

ASSUME ExchangeAssumption ==
  /\ Node \subseteq Peer
  /\ Timeout \in Nat \ {0} /\ Grace \in Nat \ {0} /\ Cooldown \in Nat
  /\ ProfileFrames \in Nat /\ ProfileFrames >= 2
  /\ GiftFrames \in Nat /\ GiftFrames >= 2
  /\ LogLimit \in Nat \ {0} /\ MaxExchanges \in Nat
  /\ Slot # {}

VARIABLES
  enabled,        \* the peripheral role accepts requests
  session,        \* the lease of one client, or None
  recent,         \* time left in the cooldown of each peer, 0 when absent
  sentence,       \* entry of each slot, or None
  exchanges,      \* log of exchanges, newest first
  exchangeCount,
  postedRound,    \* the sentence of this round was handed to the poster
  posts           \* post tasks spawned

vars == <<enabled, session, recent, sentence, exchanges, exchangeCount,
          postedRound, posts>>

book == <<recent, sentence, exchanges, exchangeCount, postedRound, posts>>

-----------------------------------------------------------------------------
(* Packets and fragments. *)

Phrase == [slot : Slot, deck : Peer]
Profile == [type : {"Profile"}, node : Peer, missing : SUBSET Slot]
Gift == [type : {"Gift"}, round : Peer, phrase : Phrase \cup {None}]
Packet == Profile \cup Gift

ASSUME PacketAssumption == Inputs \subseteq Packet /\ None \notin Packet

FrameCount(p) == IF p.type = "Profile" THEN ProfileFrames ELSE GiftFrames

Data(x, p, i) == [kind |-> "DATA", exchange |-> x, packet |-> p, seq |-> i]
Select(x, i) == [kind |-> "SELECT", exchange |-> x, index |-> i]
Ack(x) == [kind |-> "ACK", exchange |-> x]

(* A glued packet holds fragments of several packets. *)
Assembler == [next : Nat, count : Nat, packet : Packet \cup {None}]
EmptyAssembler == [next |-> 0, count |-> 0, packet |-> None]

(* Assembler::push takes the next fragment of the packet it has begun.  A  *)
(* fragment's index is below its count, so a finished assembler takes none *)
(* any more; the exchange number is checked before, by the session.        *)
CanPush(a, f) ==
  /\ f.seq = a.next
  /\ a.next > 0 => FrameCount(f.packet) = a.count

Pushed(a, f) ==
  [next |-> f.seq + 1, count |-> FrameCount(f.packet),
   packet |-> IF f.seq = 0 \/ a.packet = f.packet THEN f.packet ELSE None]

Finished(a) == a.next = a.count

(* Glued fragments may happen to decode to any packet, or to none. *)
Decoded(a) == IF a.packet = None THEN Inputs \cup {None} ELSE {a.packet}

-----------------------------------------------------------------------------
(* Sentence and deck. *)

Entry == [source : Peer, deck : Peer]

ASSUME EntryAssumption == None \notin Entry

Missing(n) == {k \in Slot : sentence[n][k] = None}
IsComplete(n) == Missing(n) = {}

SlotFree(n, phrase) == phrase # None => sentence[n][phrase.slot] = None

(* Deck::choose_for: a deck has a phrase of every slot and one of the      *)
(* missing ones is drawn, if any.                                          *)
Choices(n, missing) ==
  IF missing = {} THEN {None} ELSE [slot : missing, deck : {n}]

OwnProfileStale(n) == [type |-> "Profile", node |-> n, missing |-> Slot]
OwnProfile(n) == [type |-> "Profile", node |-> n, missing |-> Missing(n)]
GiftFor(p, phrase) == [type |-> "Gift", round |-> p.node, phrase |-> phrase]

-----------------------------------------------------------------------------
(* Session.  `read' holds the fragments of the reply the client has read.  *)

Session ==
  [client : Client, exchange : ExchangeId, timer : Nat, incoming : Assembler,
   peer : Profile \cup {None}, outgoingGift : Gift \cup {None},
   incomingGift : Gift \cup {None}, reply : Packet \cup {None},
   selected : Nat \cup {None}, read : SUBSET Nat, committed : BOOLEAN]

ASSUME SessionAssumption == None \notin Session

NewSession(c, x, a) ==
  [client |-> c, exchange |-> x, timer |-> Timeout, incoming |-> a,
   peer |-> None, outgoingGift |-> None, incomingGift |-> None,
   reply |-> None, selected |-> None, read |-> {}, committed |-> FALSE]

ReplyFrames(s) == IF s.reply = None THEN 0 ELSE FrameCount(s.reply)

AnyRead(s) == s.reply # None => s.read # {}
AllRead(s) == s.read = 0 .. ReplyFrames(s) - 1

(* Every reply starts unselected, unread and with a fresh assembler.       *)
StaleSelection(s, packet) ==
  [s EXCEPT !.reply = packet, !.read = {}, !.incoming = EmptyAssembler]
WithReply(s, packet) ==
  [s EXCEPT !.reply = packet, !.read = {}, !.selected = None,
            !.incoming = EmptyAssembler]

SelectedRefreshing(s, i) == [s EXCEPT !.selected = i, !.timer = Timeout]
Selected(s, i) == [s EXCEPT !.selected = i]

CommitForgotten(s) == [s EXCEPT !.timer = Grace]
Committed(s) == [s EXCEPT !.committed = TRUE, !.timer = Grace]

-----------------------------------------------------------------------------
(* Time.  `expire' runs first in every handler: a lease that is over is    *)
(* gone before the request is looked at.                                   *)

ElapseWrapping(t) == t - 1
Elapse(t) == IF t = 0 THEN 0 ELSE t - 1

LiveForever(n) == session[n]
Live(n) == IF session[n] # None /\ session[n].timer = 0
           THEN None ELSE session[n]

CoolingDownUnchecked(n, peer) == FALSE
CoolingDown(n, peer) == recent[n][peer] > 0

Tick ==
  /\ session' = [n \in Node |->
                   IF session[n] = None THEN None
                   ELSE [session[n] EXCEPT !.timer = Elapse(@)]]
  /\ recent' = [n \in Node |-> [p \in Peer |-> Elapse(recent[n][p])]]
  /\ UNCHANGED <<enabled, sentence, exchanges, exchangeCount, postedRound, posts>>

Expire(n) ==
  /\ session' = [session EXCEPT ![n] = Live(n)]
  /\ UNCHANGED <<enabled, book>>

-----------------------------------------------------------------------------
(* Role changes. *)

Enable(n) ==
  /\ enabled' = [enabled EXCEPT ![n] = TRUE]
  /\ UNCHANGED <<session, book>>

Shutdown(n) ==
  /\ enabled' = [enabled EXCEPT ![n] = FALSE]
  /\ session' = [session EXCEPT ![n] = None]
  /\ UNCHANGED book

DisableIfIdle(n) ==
  /\ session' = [session EXCEPT ![n] = Live(n)]
  /\ enabled' = [enabled EXCEPT ![n] = @ /\ Live(n) # None]
  /\ UNCHANGED book

-----------------------------------------------------------------------------
(* record_exchange: one exchange enters the book of node n.  All checks    *)
(* come before the first change.                                           *)

RecordAllowed(n, peer, sent, received) ==
  /\ peer.node # n
  /\ sent.round = peer.node
  /\ received.round = n
  /\ sent.phrase # None => sent.phrase.slot \in peer.missing
  /\ SlotFree(n, received.phrase)

AcceptAsOwn(n, peer, phrase) ==
  IF phrase = None THEN sentence[n]
  ELSE [sentence[n] EXCEPT ![phrase.slot] = [source |-> n, deck |-> phrase.deck]]

(* Sentence::accept stores the phrase with the peer it came from.          *)
Accept(n, peer, phrase) ==
  IF phrase = None THEN sentence[n]
  ELSE [sentence[n] EXCEPT ![phrase.slot] =
          [source |-> peer.node, deck |-> phrase.deck]]

Truncated(log) == IF Len(log) > LogLimit THEN SubSeq(log, 1, LogLimit) ELSE log

PostEachTime(n, complete) == complete
MustPost(n, complete) == complete /\ ~postedRound[n]

Record(n, peer, sent, received) ==
  /\ sentence' = [sentence EXCEPT ![n] = Accept(n, peer, received.phrase)]
  /\ exchangeCount' = [exchangeCount EXCEPT ![n] = @ + 1]
  /\ exchanges' = [exchanges EXCEPT ![n] =
       Truncated(<<[sequence |-> exchangeCount[n] + 1, peer |-> peer.node,
                    sent |-> sent.phrase, received |-> received.phrase]>> \o @)]
  /\ recent' = [recent EXCEPT ![n][peer.node] = Cooldown]
  /\ LET post == MustPost(n, \A k \in Slot : sentence'[n][k] # None)
     IN  /\ postedRound' = [postedRound EXCEPT ![n] = @ \/ post]
         /\ posts' = [posts EXCEPT ![n] =
                        IF post /\ n \in PostUrl THEN @ + 1 ELSE @]

-----------------------------------------------------------------------------
(* State::write.  A request is either served, changing what the serving    *)
(* action says, or refused with an error.                                  *)

LeasedToAnyone(n, c, f) ==
  enabled[n] /\ Live(n) # None /\ Live(n).exchange = f.exchange
Leased(n, c, f) ==
  /\ enabled[n]
  /\ Live(n) # None
  /\ Live(n).client = c
  /\ Live(n).exchange = f.exchange

MayBegin(n, f) ==
  /\ enabled[n]
  /\ Live(n) = None
  /\ f.kind = "DATA" /\ f.seq = 0

MayAppend(s, f) ==
  /\ f.kind = "DATA"
  /\ s.peer # None => AllRead(s) /\ s.incomingGift = None
  /\ CanPush(s.incoming, f)

MaySelect(s, f) ==
  /\ f.kind = "SELECT"
  /\ ~s.committed
  /\ f.index < ReplyFrames(s)

MayAck(s, f) ==
  /\ f.kind = "ACK"
  /\ s.incomingGift # None
  /\ AllRead(s)

AckRecordable(n, s) ==
  RecordAllowed(n, s.peer, s.outgoingGift, s.incomingGift)

(* The first fragment opens the lease; a packet has at least two.          *)
Begin(n, c, f) ==
  /\ MayBegin(n, f)
  /\ session' = [session EXCEPT ![n] =
                   NewSession(c, f.exchange, Pushed(EmptyAssembler, f))]
  /\ UNCHANGED <<enabled, book>>

Continue(n, c, f) ==
  LET s == Live(n)  a == Pushed(s.incoming, f)
  IN  /\ Leased(n, c, f) /\ MayAppend(s, f) /\ ~Finished(a)
      /\ session' = [session EXCEPT ![n] = [s EXCEPT !.incoming = a]]
      /\ UNCHANGED <<enabled, book>>

(* handle_packet: what it asks of the packet a session is waiting for.     *)
ProfileWelcome(n, p) ==
  p.type = "Profile" /\ p.node # n /\ ~CoolingDown(n, p.node)

GiftWelcomeUnchecked(n, p) == p.type = "Gift" /\ p.round = n
GiftWelcome(n, p) == p.type = "Gift" /\ p.round = n /\ SlotFree(n, p.phrase)

Welcome(n, s, p) ==
  /\ p # None
  /\ IF s.peer = None THEN ProfileWelcome(n, p) ELSE GiftWelcome(n, p)

(* The peer's Profile is answered with the own one and settles the gift.   *)
AcceptProfile(n, c, f) ==
  LET s == Live(n)  a == Pushed(s.incoming, f)
  IN  /\ Leased(n, c, f) /\ MayAppend(s, f) /\ Finished(a)
      /\ s.peer = None
      /\ \E p \in Decoded(a) :
           /\ Welcome(n, s, p)
           /\ \E phrase \in Choices(n, p.missing) :
                session' = [session EXCEPT ![n] =
                  [WithReply(s, OwnProfile(n)) EXCEPT
                     !.peer = p, !.outgoingGift = GiftFor(p, phrase)]]
      /\ UNCHANGED <<enabled, book>>

(* The peer's Gift is answered with the own one.                           *)
AcceptGift(n, c, f) ==
  LET s == Live(n)  a == Pushed(s.incoming, f)
  IN  /\ Leased(n, c, f) /\ MayAppend(s, f) /\ Finished(a)
      /\ s.peer # None
      /\ \E p \in Decoded(a) :
           /\ Welcome(n, s, p)
           /\ session' = [session EXCEPT ![n] =
                [WithReply(s, s.outgoingGift) EXCEPT !.incomingGift = p]]
      /\ UNCHANGED <<enabled, book>>

(* A packet that is not welcome leaves a finished assembler behind: the    *)
(* request fails and the session can only wait for its deadline.           *)
RefusePacket(n, c, f) ==
  LET s == Live(n)  a == Pushed(s.incoming, f)
  IN  /\ Leased(n, c, f) /\ MayAppend(s, f) /\ Finished(a)
      /\ \E p \in Decoded(a) : ~Welcome(n, s, p)
      /\ session' = [session EXCEPT ![n] = [s EXCEPT !.incoming = a]]
      /\ UNCHANGED <<enabled, book>>

SelectFragment(n, c, f) ==
  /\ Leased(n, c, f) /\ MaySelect(Live(n), f)
  /\ session' = [session EXCEPT ![n] = Selected(Live(n), f.index)]
  /\ UNCHANGED <<enabled, book>>

(* The acknowledgement commits the exchange ...                            *)
Acknowledge(n, c, f) ==
  LET s == Live(n)
  IN  /\ Leased(n, c, f) /\ MayAck(s, f)
      /\ ~s.committed /\ AckRecordable(n, s)
      /\ Record(n, s.peer, s.outgoingGift, s.incomingGift)
      /\ session' = [session EXCEPT ![n] = Committed(s)]
      /\ UNCHANGED enabled

(* ... and its repetition is served without recording anything.            *)
AcknowledgeAgain(n, c, f) ==
  /\ Leased(n, c, f) /\ MayAck(Live(n), f) /\ Live(n).committed
  /\ UNCHANGED vars

Serves(n, c, f) ==
  \/ MayBegin(n, f)
  \/ /\ Leased(n, c, f)
     /\ \/ MayAppend(Live(n), f)
        \/ MaySelect(Live(n), f)
        \/ /\ MayAck(Live(n), f)
           /\ Live(n).committed \/ AckRecordable(n, Live(n))

RefuseWrite(n, c, f) == ~Serves(n, c, f) /\ Expire(n)

WriteOk(n, c, f) ==
  \/ Begin(n, c, f)
  \/ Continue(n, c, f)
  \/ AcceptProfile(n, c, f)
  \/ AcceptGift(n, c, f)
  \/ SelectFragment(n, c, f)
  \/ Acknowledge(n, c, f)
  \/ AcknowledgeAgain(n, c, f)

WriteError(n, c, f) == RefusePacket(n, c, f) \/ RefuseWrite(n, c, f)

-----------------------------------------------------------------------------
(* State::read of the reply: the selected fragment counts as read.         *)

MayRead(n, c) ==
  /\ enabled[n]
  /\ Live(n) # None
  /\ Live(n).client = c
  /\ Live(n).selected # None

ReadFragment(n, c) ==
  LET s == Live(n)
  IN  /\ MayRead(n, c)
      /\ session' = [session EXCEPT ![n] =
                       [s EXCEPT !.read = @ \cup {s.selected}]]
      /\ UNCHANGED <<enabled, book>>

RefuseRead(n, c) == ~MayRead(n, c) /\ Expire(n)

-----------------------------------------------------------------------------
(* The State under an arbitrary environment: any connected client sends    *)
(* any well-formed fragment, selection or acknowledgement at any moment.   *)
(* (Other values fail in `header' or `Assembler::push' and change nothing  *)
(* but what Expire does.)                                                  *)

Fragments ==
  UNION {{Data(x, p, i) : x \in ExchangeId, i \in 0 .. FrameCount(p) - 1}
           : p \in Inputs}
Requests ==
  Fragments \cup {Select(x, i) : x \in ExchangeId, i \in 0 .. ProfileFrames}
            \cup {Ack(x) : x \in ExchangeId}

Init ==
  /\ enabled = [n \in Node |-> FALSE]
  /\ session = [n \in Node |-> None]
  /\ recent = [n \in Node |-> [p \in Peer |-> 0]]
  /\ sentence = [n \in Node |-> [k \in Slot |-> None]]
  /\ exchanges = [n \in Node |-> <<>>]
  /\ exchangeCount = [n \in Node |-> 0]
  /\ postedRound = [n \in Node |-> FALSE]
  /\ posts = [n \in Node |-> 0]

(* MaxExchanges bounds what is recorded.                                   *)
Bounded(n, f) == f.kind = "ACK" => exchangeCount[n] < MaxExchanges

Write(n, c, f) == Bounded(n, f) /\ (WriteOk(n, c, f) \/ WriteError(n, c, f))
Read(n, c) == ReadFragment(n, c) \/ RefuseRead(n, c)

Next ==
  \/ Tick
  \/ \E n \in Node :
       \/ Enable(n)
       \/ DisableIfIdle(n)
       \/ Shutdown(n)
       \/ Expire(n)
       \/ \E c \in Client : Read(n, c)
       \/ \E c \in Client, f \in Requests : Write(n, c, f)

Spec == Init /\ [][Next]_vars

-----------------------------------------------------------------------------
(* Properties. *)

LogEntry == [sequence : Nat, peer : Peer, sent : Phrase \cup {None},
             received : Phrase \cup {None}]

(* Every variable stays in its domain; in particular the countdown timers  *)
(* and the log numbers are naturals.                                       *)
TypeOK ==
  /\ enabled \in [Node -> BOOLEAN]
  /\ session \in [Node -> Session \cup {None}]
  /\ recent \in [Node -> [Peer -> Nat]]
  /\ sentence \in [Node -> [Slot -> Entry \cup {None}]]
  /\ exchanges \in [Node -> Seq(LogEntry)]
  /\ exchangeCount \in [Node -> Nat]
  /\ postedRound \in [Node -> BOOLEAN]
  /\ posts \in [Node -> Nat]

(* What the code relies on without checking: the indexing of `reply' and   *)
(* `read' by `selected', and the unwraps of `peer' and of the two gifts in *)
(* the acknowledgement, never panic, whatever order requests arrive in.    *)
WellFormed(s) ==
  /\ s.selected # None => s.selected < ReplyFrames(s)
  /\ s.read \subseteq 0 .. ReplyFrames(s) - 1
  /\ s.peer # None => s.outgoingGift # None /\ s.reply # None
  /\ s.incomingGift # None => s.peer # None /\ s.reply = s.outgoingGift
NoPanic == \A n \in Node : session[n] # None => WellFormed(session[n])

(* A peripheral commits only what it has handed over: the whole reply,     *)
(* which by then is the own gift, was read before the acknowledgement took *)
(* effect, and the peer's gift had arrived.                                *)
CommitAfterDelivery ==
  \A n \in Node :
    session[n] # None /\ session[n].committed =>
      /\ session[n].incomingGift # None
      /\ session[n].reply = session[n].outgoingGift
      /\ session[n].read = 0 .. GiftFrames - 1

(* The acknowledgement of a complete transfer is never refused: what was   *)
(* checked when the Profile and the Gift arrived still holds when          *)
(* record_exchange checks it again.                                        *)
AckNeverRefused ==
  \A n \in Node :
    LET s == session[n]
    IN  s # None /\ s.incomingGift # None /\ ~s.committed => AckRecordable(n, s)

(* An exchange is recorded by the acknowledgement of a session that has    *)
(* not recorded one, however often the acknowledgement is repeated.        *)
RecordedOncePerSession ==
  [][\A n \in Node :
       exchangeCount'[n] # exchangeCount[n] =>
         /\ session[n] # None /\ ~session[n].committed
         /\ session'[n].committed
         /\ session'[n].client = session[n].client
         /\ session'[n].exchange = session[n].exchange]_vars

(* A filled slot keeps its phrase and its giver.                           *)
NoOverwrite ==
  [][\A n \in Node, k \in Slot :
       sentence[n][k] # None => sentence'[n][k] = sentence[n][k]]_vars

(* The log explains the sentence: each received phrase of the log stands   *)
(* in its slot under the name of the peer that gave it, and no two log     *)
(* entries received the same slot.                                         *)
LogMatchesSentence ==
  \A n \in Node : \A i \in DOMAIN exchanges[n] :
    LET e == exchanges[n][i]
    IN  e.received # None =>
          /\ sentence[n][e.received.slot] =
               [source |-> e.peer, deck |-> e.received.deck]
          /\ \A j \in DOMAIN exchanges[n] :
               LET d == exchanges[n][j]
               IN  j # i /\ d.received # None => d.received.slot # e.received.slot

(* A peer that is cooling down is not recorded again.                      *)
NoRecordWhileCooling ==
  [][\A n \in Node :
       exchangeCount'[n] # exchangeCount[n] =>
         recent[n][exchanges'[n][1].peer] = 0]_vars

(* A lease is its client's alone: whatever others send, with the number of *)
(* its exchange or another, leaves it and the book as they are.  And no    *)
(* request prolongs it: only the one commit grants the grace time.         *)
Strange(n, c) == c # session[n].client /\ (Read(n, c) \/ \E f \in Requests : Write(n, c, f))
KeepsLease(n) ==
  session[n] # None /\ session[n].timer > 0 =>
    /\ (\E c \in Client : Strange(n, c)) => UNCHANGED <<session[n], sentence[n]>>
    /\ session'[n] # None =>
         \/ session'[n].timer <= session[n].timer
         \/ ~session[n].committed /\ session'[n].committed
LeaseKept == [][\A n \in Node : KeepsLease(n)]_vars

(* A completed sentence is posted once, however many exchanges follow it,  *)
(* and an incomplete one never.                                            *)
PostedOnce ==
  \A n \in Node : posts[n] = IF n \in PostUrl /\ IsComplete(n) THEN 1 ELSE 0
=============================================================================
