------------------------ MODULE ExchangeState_proofs ------------------------
(***************************************************************************)
(* Theorems about ExchangeState, for every value of its constants.         *)
(***************************************************************************)
EXTENDS ExchangeState, SequenceTheorems, TLAPS

-----------------------------------------------------------------------------
(* What the operators the actions are built from return. *)

(* What the lemmas ask of a request; a composed specification may send     *)
(* requests of its own instead of those of Requests.                       *)
WellTyped(f) ==
  /\ f.kind = "DATA" => /\ f.packet \in Packet
                        /\ f.seq \in Nat
                        /\ f.exchange \in ExchangeId
  /\ f.kind = "SELECT" => f.index \in Nat

LEMMA RequestType ==
  ASSUME NEW f \in Requests
  PROVE  WellTyped(f)
<1>1. CASE f \in Fragments
  <2>1. PICK p \in Inputs : f \in {Data(x, p, i) : x \in ExchangeId,
                                                  i \in 0 .. FrameCount(p) - 1}
    BY <1>1 DEF Fragments
  <2>2. PICK x \in ExchangeId, i \in 0 .. FrameCount(p) - 1 : f = Data(x, p, i)
    BY <2>1
  <2>3. FrameCount(p) \in Nat
    BY ExchangeAssumption DEF FrameCount
  <2>4. QED
    BY <2>2, <2>3, PacketAssumption DEF Data, WellTyped
<1>2. CASE f \in {Select(x, i) : x \in ExchangeId, i \in 0 .. ProfileFrames}
  <2>1. PICK x \in ExchangeId, i \in 0 .. ProfileFrames : f = Select(x, i)
    BY <1>2
  <2>2. QED
    BY <2>1 DEF Select, WellTyped
<1>3. CASE f \in {Ack(x) : x \in ExchangeId}
  <2>1. PICK x \in ExchangeId : f = Ack(x)
    BY <1>3
  <2>2. QED
    BY <2>1 DEF Ack, WellTyped
<1>4. QED
  BY <1>1, <1>2, <1>3 DEF Requests

LEMMA FrameCountType ==
  ASSUME NEW p PROVE FrameCount(p) \in Nat /\ FrameCount(p) >= 2
BY ExchangeAssumption DEF FrameCount

LEMMA PushedType ==
  ASSUME NEW a \in Assembler, NEW f, f.packet \in Packet, f.seq \in Nat
  PROVE  Pushed(a, f) \in Assembler
BY FrameCountType DEF Assembler, Pushed

LEMMA EmptyAssemblerType == EmptyAssembler \in Assembler
BY DEF EmptyAssembler, Assembler

LEMMA DecodedType ==
  ASSUME NEW a \in Assembler, NEW p \in Decoded(a), p # None
  PROVE  p \in Packet
BY PacketAssumption DEF Decoded, Assembler

LEMMA LiveType ==
  ASSUME TypeOK, NEW n \in Node
  PROVE  Live(n) \in Session \cup {None}
BY DEF TypeOK, Live

LEMMA WithReplyType ==
  ASSUME NEW s \in Session, NEW p \in Packet \cup {None}
  PROVE  WithReply(s, p) \in Session
BY EmptyAssemblerType DEF WithReply, Session

LEMMA ChoicesType ==
  ASSUME NEW n \in Peer, NEW missing \in SUBSET Slot,
         NEW phrase \in Choices(n, missing), phrase # None
  PROVE  phrase \in Phrase /\ phrase.slot \in missing
BY DEF Choices, Phrase

LEMMA OwnProfileType ==
  ASSUME NEW n \in Node
  PROVE  OwnProfile(n) \in Profile /\ OwnProfile(n) \in Packet
BY ExchangeAssumption DEF OwnProfile, Profile, Missing, Packet

-----------------------------------------------------------------------------
(* Type correctness. *)

LEMMA InitTypeOK == Init => TypeOK
BY DEF Init, TypeOK, Entry, LogEntry

LEMMA TickTypeOK == TypeOK /\ Tick => TypeOK'
<1> SUFFICES ASSUME TypeOK, Tick PROVE TypeOK'
  OBVIOUS
<1>1. \A t \in Nat : Elapse(t) \in Nat
  BY DEF Elapse
<1>2. session' \in [Node -> Session \cup {None}]
  <2>1. ASSUME NEW s \in Session PROVE [s EXCEPT !.timer = Elapse(@)] \in Session
    BY <1>1 DEF Session
  <2>2. ASSUME NEW n \in Node, session[n] # None
        PROVE  [session[n] EXCEPT !.timer = Elapse(@)] \in Session
    BY <2>1, <2>2 DEF TypeOK
  <2>3. QED
    BY <2>2 DEF Tick
<1>3. recent' \in [Node -> [Peer -> Nat]]
  BY <1>1 DEF Tick, TypeOK
<1>4. QED
  BY <1>2, <1>3 DEF Tick, TypeOK

(* An action that only changes one session, to a session or to none, keeps *)
(* the types.                                                              *)
LEMMA SessionUpdate ==
  ASSUME TypeOK, NEW n \in Node, NEW s \in Session \cup {None},
         session' = [session EXCEPT ![n] = s], UNCHANGED <<enabled, book>>
  PROVE  TypeOK'
BY DEF TypeOK, book

LEMMA RoleTypeOK ==
  ASSUME TypeOK, NEW n \in Node,
         Enable(n) \/ DisableIfIdle(n) \/ Shutdown(n) \/ Expire(n)
  PROVE  TypeOK'
<1>1. CASE Enable(n)
  BY <1>1 DEF Enable, TypeOK, book
<1>2. CASE DisableIfIdle(n)
  BY <1>2, LiveType DEF DisableIfIdle, TypeOK, book
<1>3. CASE Shutdown(n)
  BY <1>3 DEF Shutdown, TypeOK, book
<1>4. CASE Expire(n)
  BY <1>4, LiveType, SessionUpdate DEF Expire
<1>5. QED
  BY <1>1, <1>2, <1>3, <1>4

LEMMA TruncatedType ==
  ASSUME NEW log \in Seq(LogEntry)
  PROVE  Truncated(log) \in Seq(LogEntry)
<1>1. CASE Len(log) > LogLimit
  <2>1. /\ LogLimit \in Nat
        /\ \A i \in 1 .. LogLimit : log[i] \in LogEntry
    BY <1>1, ExchangeAssumption, ElementOfSeq
  <2>2. SubSeq(log, 1, LogLimit) \in Seq(LogEntry)
    BY <2>1, <1>1, ExchangeAssumption, SubSeqProperties
  <2>3. QED
    BY <1>1, <2>2 DEF Truncated
<1>2. CASE ~(Len(log) > LogLimit)
  BY <1>2 DEF Truncated
<1>3. QED
  BY <1>1, <1>2

(* Recording an exchange with well-typed gifts keeps the types of the book. *)
LEMMA RecordTypeOK ==
  ASSUME TypeOK, NEW n \in Node, NEW peer \in Profile, NEW sent \in Gift,
         NEW received \in Gift, Record(n, peer, sent, received)
  PROVE  /\ recent' \in [Node -> [Peer -> Nat]]
         /\ sentence' \in [Node -> [Slot -> Entry \cup {None}]]
         /\ exchanges' \in [Node -> Seq(LogEntry)]
         /\ exchangeCount' \in [Node -> Nat]
         /\ postedRound' \in [Node -> BOOLEAN]
         /\ posts' \in [Node -> Nat]
<1>1. Accept(n, peer, received.phrase) \in [Slot -> Entry \cup {None}]
  BY DEF Accept, TypeOK, Profile, Gift, Phrase, Entry
<1>2. sentence' \in [Node -> [Slot -> Entry \cup {None}]]
  BY <1>1 DEF Record, TypeOK
<1>3. recent' \in [Node -> [Peer -> Nat]]
  BY ExchangeAssumption DEF Record, TypeOK, Profile
<1>4. exchangeCount' \in [Node -> Nat]
  BY DEF Record, TypeOK
<1>5. exchanges' \in [Node -> Seq(LogEntry)]
  <2> DEFINE e == [sequence |-> exchangeCount[n] + 1, peer |-> peer.node,
                   sent |-> sent.phrase, received |-> received.phrase]
  <2>1. e \in LogEntry
    BY DEF LogEntry, Profile, Gift, TypeOK
  <2>2. <<e>> \in Seq(LogEntry)
    BY <2>1
  <2>3. <<e>> \o exchanges[n] \in Seq(LogEntry)
    BY <2>2, ConcatProperties DEF TypeOK
  <2>4. Truncated(<<e>> \o exchanges[n]) \in Seq(LogEntry)
    BY <2>3, TruncatedType
  <2>5. exchanges' = [exchanges EXCEPT ![n] = Truncated(<<e>> \o exchanges[n])]
    BY DEF Record
  <2>6. QED
    BY <2>4, <2>5 DEF TypeOK
<1>6. postedRound' \in [Node -> BOOLEAN]
  <2>1. PICK post : postedRound' = [postedRound EXCEPT ![n] = @ \/ post]
    BY DEF Record
  <2>2. (postedRound[n] \/ post) \in BOOLEAN
    OBVIOUS
  <2>3. QED
    BY <2>1, <2>2 DEF TypeOK
<1>7. posts' \in [Node -> Nat]
  <2>1. PICK post : posts' = [posts EXCEPT ![n] =
                                IF post /\ n \in PostUrl THEN @ + 1 ELSE @]
    BY DEF Record
  <2> DEFINE v == IF post /\ n \in PostUrl THEN posts[n] + 1 ELSE posts[n]
  <2>2. v = posts[n] + 1 \/ v = posts[n]
    OBVIOUS
  <2>3. v \in Nat
    BY <2>2 DEF TypeOK
  <2>4. posts' = [posts EXCEPT ![n] = v]
    BY <2>1
  <2> HIDE DEF v
  <2>5. QED
    BY <2>3, <2>4 DEF TypeOK
<1>8. QED
  BY <1>2, <1>3, <1>4, <1>5, <1>6, <1>7

-----------------------------------------------------------------------------
(* The inductive invariant.  TypeOK alone is not inductive: that the book   *)
(* is well typed needs the peer and both gifts of a session that is        *)
(* acknowledged to be there, and that the acknowledgement is accepted      *)
(* needs every check of handle_packet to still hold.  Sound(n, s) says of  *)
(* a session s of node n what each of its stages has established.          *)

PeerSettled(n, s) ==
  s.peer # None =>
    /\ s.peer.node # n
    /\ s.outgoingGift.round = s.peer.node
    /\ s.outgoingGift.phrase # None => s.outgoingGift.phrase.slot \in s.peer.missing

GiftSettled(n, s) ==
  s.incomingGift # None =>
    /\ s.incomingGift.round = n
    /\ ~s.committed => SlotFree(n, s.incomingGift.phrase)

CommitSettled(s) == s.committed => s.incomingGift # None /\ AllRead(s)

Sound(n, s) ==
  WellFormed(s) /\ PeerSettled(n, s) /\ GiftSettled(n, s) /\ CommitSettled(s)

LeaseInv == \A n \in Node : session[n] # None => Sound(n, session[n])

IInv == TypeOK /\ LeaseInv

LEMMA InitIInv == Init => IInv
BY InitTypeOK DEF Init, IInv, LeaseInv

LEMMA LiveSound ==
  ASSUME IInv, NEW n \in Node, Live(n) # None
  PROVE  /\ Live(n) \in Session
         /\ Live(n) = session[n]
         /\ Sound(n, Live(n))
BY LiveType DEF IInv, LeaseInv, Live

(* Changing one session to a sound one keeps the invariant. *)
LEMMA SoundUpdate ==
  ASSUME IInv, NEW n \in Node, NEW s \in Session \cup {None},
         s # None => Sound(n, s),
         session' = [session EXCEPT ![n] = s], UNCHANGED <<enabled, book>>
  PROVE  IInv'
<1>1. TypeOK'
  BY SessionUpdate DEF IInv
<1>2. ASSUME NEW m \in Node, session'[m] # None PROVE Sound(m, session[m])'
  <2>1. session'[m] = IF m = n THEN s ELSE session[m]
    BY DEF IInv, TypeOK
  <2>2. Sound(m, session'[m])
    BY <1>2, <2>1 DEF IInv, LeaseInv
  <2>3. sentence' = sentence
    BY DEF book
  <2>4. QED
    BY <2>2, <2>3 DEF Sound, WellFormed, PeerSettled, GiftSettled, CommitSettled,
                      SlotFree, AllRead, ReplyFrames
<1>3. QED
  BY <1>1, <1>2 DEF IInv, LeaseInv

LEMMA RoleIInv ==
  ASSUME IInv, NEW n \in Node,
         Enable(n) \/ DisableIfIdle(n) \/ Shutdown(n) \/ Expire(n)
  PROVE  IInv'
<1>1. TypeOK'
  BY RoleTypeOK DEF IInv
<1>2. sentence' = sentence
  BY DEF Enable, DisableIfIdle, Shutdown, Expire, book
<1>3. ASSUME NEW m \in Node PROVE session'[m] = session[m] \/ session'[m] = None
  BY DEF Enable, DisableIfIdle, Shutdown, Expire, Live, IInv, TypeOK
<1>4. ASSUME NEW m \in Node, session'[m] # None PROVE Sound(m, session[m])'
  <2>1. session'[m] = session[m] /\ Sound(m, session[m])
    BY <1>3, <1>4 DEF IInv, LeaseInv
  <2>2. QED
    BY <1>2, <2>1 DEF Sound, WellFormed, PeerSettled, GiftSettled, CommitSettled,
                      SlotFree, AllRead, ReplyFrames
<1>5. QED
  BY <1>1, <1>4 DEF IInv, LeaseInv

LEMMA TickIInv == IInv /\ Tick => IInv'
<1> SUFFICES ASSUME IInv, Tick PROVE IInv'
  OBVIOUS
<1>1. TypeOK'
  BY TickTypeOK DEF IInv
<1>2. ASSUME NEW s \in Session, NEW n \in Node, NEW t, Sound(n, s)
      PROVE  Sound(n, [s EXCEPT !.timer = t])
  BY <1>2 DEF Session, Sound, WellFormed, PeerSettled, GiftSettled, CommitSettled,
              AllRead, ReplyFrames
<1>3. ASSUME NEW m \in Node, session'[m] # None PROVE Sound(m, session[m])'
  <2>1. session[m] # None /\ session'[m] = [session[m] EXCEPT !.timer = Elapse(@)]
    BY <1>3 DEF Tick
  <2>2. session[m] \in Session /\ Sound(m, session[m])
    BY <2>1 DEF IInv, LeaseInv, TypeOK
  <2>3. Sound(m, session'[m])
    BY <1>2, <2>1, <2>2
  <2>4. sentence' = sentence
    BY DEF Tick
  <2>5. QED
    BY <2>3, <2>4 DEF Sound, WellFormed, PeerSettled, GiftSettled, CommitSettled,
                      SlotFree, AllRead, ReplyFrames
<1>4. QED
  BY <1>1, <1>3 DEF IInv, LeaseInv

-----------------------------------------------------------------------------
(* The requests.  Each one leaves the session it serves sound. *)

LEMMA BeginIInv ==
  ASSUME IInv, NEW n \in Node, NEW c \in Client, NEW f, WellTyped(f), Begin(n, c, f)
  PROVE  IInv'
<1> DEFINE s == NewSession(c, f.exchange, Pushed(EmptyAssembler, f))
<1>1. f.packet \in Packet /\ f.seq \in Nat /\ f.exchange \in ExchangeId
  BY DEF Begin, MayBegin, WellTyped
<1>2. Pushed(EmptyAssembler, f) \in Assembler
  BY <1>1, PushedType, EmptyAssemblerType
<1>3. s \in Session
  BY <1>1, <1>2, ExchangeAssumption DEF NewSession, Session
<1>4. Sound(n, s)
  BY DEF NewSession, Sound, WellFormed, PeerSettled, GiftSettled, CommitSettled
<1>5. session' = [session EXCEPT ![n] = s] /\ UNCHANGED <<enabled, book>>
  BY DEF Begin
<1> HIDE DEF s
<1>6. QED
  BY <1>3, <1>4, <1>5, SoundUpdate

(* A fragment that is appended, whatever becomes of it, changes only the   *)
(* assembler of the session.                                               *)
LEMMA AppendIInv ==
  ASSUME IInv, NEW n \in Node, NEW c \in Client, NEW f, WellTyped(f),
         Continue(n, c, f) \/ RefusePacket(n, c, f)
  PROVE  IInv'
<1> DEFINE s == Live(n)
           r == [s EXCEPT !.incoming = Pushed(s.incoming, f)]
<1>1. s # None /\ f.kind = "DATA"
  BY DEF Continue, RefusePacket, Leased, MayAppend
<1>2. s \in Session /\ Sound(n, s)
  BY <1>1, LiveSound
<1>3. Pushed(s.incoming, f) \in Assembler
  BY <1>1, <1>2, PushedType DEF Session, WellTyped
<1>4. r \in Session /\ Sound(n, r)
  BY <1>2, <1>3 DEF Session, Sound, WellFormed, PeerSettled, GiftSettled,
                    CommitSettled, AllRead, ReplyFrames
<1>5. session' = [session EXCEPT ![n] = r] /\ UNCHANGED <<enabled, book>>
  BY DEF Continue, RefusePacket
<1> HIDE DEF r
<1>6. QED
  BY <1>4, <1>5, SoundUpdate

LEMMA AcceptProfileIInv ==
  ASSUME IInv, NEW n \in Node, NEW c \in Client, NEW f, WellTyped(f),
         AcceptProfile(n, c, f)
  PROVE  IInv'
<1> DEFINE s == Live(n)
<1>1. /\ s # None /\ s.peer = None /\ f.kind = "DATA"
      /\ UNCHANGED <<enabled, book>>
  BY DEF AcceptProfile, Leased, MayAppend
<1>2. s \in Session /\ Sound(n, s)
  BY <1>1, LiveSound
<1>3. Pushed(s.incoming, f) \in Assembler
  BY <1>1, <1>2, PushedType DEF Session, WellTyped
<1>4. PICK p \in Decoded(Pushed(s.incoming, f)) :
         /\ Welcome(n, s, p)
         /\ \E phrase \in Choices(n, p.missing) :
              session' = [session EXCEPT ![n] =
                [WithReply(s, OwnProfile(n)) EXCEPT
                   !.peer = p, !.outgoingGift = GiftFor(p, phrase)]]
  BY DEF AcceptProfile
<1>5. p \in Packet /\ p.type = "Profile" /\ p.node # n
  BY <1>1, <1>3, <1>4, DecodedType DEF Welcome, ProfileWelcome
<1>6. p \in Profile
  BY <1>5 DEF Packet, Gift
<1>7. PICK phrase \in Choices(n, p.missing) :
         session' = [session EXCEPT ![n] =
           [WithReply(s, OwnProfile(n)) EXCEPT
              !.peer = p, !.outgoingGift = GiftFor(p, phrase)]]
  BY <1>4
<1>8. n \in Peer /\ p.missing \in SUBSET Slot
  BY <1>6, ExchangeAssumption DEF Profile
<1>9. phrase # None => phrase \in Phrase /\ phrase.slot \in p.missing
  BY <1>7, <1>8, ChoicesType
<1>10. GiftFor(p, phrase) \in Gift
  BY <1>6, <1>9 DEF GiftFor, Gift, Profile
<1> DEFINE q == WithReply(s, OwnProfile(n))
           r == [q EXCEPT !.peer = p, !.outgoingGift = GiftFor(p, phrase)]
<1>11. q \in Session
  BY <1>2, WithReplyType, OwnProfileType
<1>12. r \in Session
  BY <1>6, <1>10, <1>11 DEF Session
<1>13. ~s.committed /\ s.incomingGift = None
  BY <1>1, <1>2 DEF Sound, WellFormed, CommitSettled, Session
<1>14. /\ r.selected = None /\ r.read = {} /\ r.reply = OwnProfile(n)
       /\ r.peer = p /\ r.outgoingGift = GiftFor(p, phrase)
       /\ r.incomingGift = None /\ ~r.committed
  BY <1>2, <1>13 DEF WithReply, Session
<1>15. OwnProfile(n) # None /\ GiftFor(p, phrase) # None
  BY <1>10, OwnProfileType, PacketAssumption DEF Packet
<1>16. Sound(n, r)
  BY <1>5, <1>9, <1>14, <1>15
     DEF Sound, WellFormed, PeerSettled, GiftSettled, CommitSettled, GiftFor
<1>17. session' = [session EXCEPT ![n] = r]
  BY <1>7
<1> HIDE DEF r
<1>18. QED
  BY <1>1, <1>12, <1>16, <1>17, SoundUpdate

LEMMA AcceptGiftIInv ==
  ASSUME IInv, NEW n \in Node, NEW c \in Client, NEW f, WellTyped(f),
         AcceptGift(n, c, f)
  PROVE  IInv'
<1> DEFINE s == Live(n)
<1>1. /\ s # None /\ s.peer # None /\ s.incomingGift = None /\ f.kind = "DATA"
      /\ UNCHANGED <<enabled, book>>
  BY DEF AcceptGift, Leased, MayAppend
<1>2. s \in Session /\ Sound(n, s)
  BY <1>1, LiveSound
<1>3. Pushed(s.incoming, f) \in Assembler
  BY <1>1, <1>2, PushedType DEF Session, WellTyped
<1>4. PICK p \in Decoded(Pushed(s.incoming, f)) :
         /\ Welcome(n, s, p)
         /\ session' = [session EXCEPT ![n] =
              [WithReply(s, s.outgoingGift) EXCEPT !.incomingGift = p]]
  BY DEF AcceptGift
<1>5. p \in Packet /\ p.type = "Gift" /\ p.round = n /\ SlotFree(n, p.phrase)
  BY <1>1, <1>3, <1>4, DecodedType DEF Welcome, GiftWelcome
<1>6. p \in Gift
  BY <1>5 DEF Packet, Profile
<1> DEFINE q == WithReply(s, s.outgoingGift)
           r == [q EXCEPT !.incomingGift = p]
<1>7. s.outgoingGift \in Packet \cup {None}
  BY <1>2 DEF Session, Packet
<1>8. q \in Session
  BY <1>2, <1>7, WithReplyType
<1>9. r \in Session
  BY <1>6, <1>8 DEF Session
<1>10. s.outgoingGift # None /\ ~s.committed
  BY <1>1, <1>2 DEF Sound, WellFormed, CommitSettled, Session
<1>11. /\ r.selected = None /\ r.read = {} /\ r.reply = s.outgoingGift
       /\ r.peer = s.peer /\ r.outgoingGift = s.outgoingGift
       /\ r.incomingGift = p /\ ~r.committed
  BY <1>2, <1>10 DEF WithReply, Session
<1>12. Sound(n, r)
  BY <1>1, <1>2, <1>5, <1>10, <1>11
     DEF Sound, WellFormed, PeerSettled, GiftSettled, CommitSettled
<1>13. session' = [session EXCEPT ![n] = r]
  BY <1>4
<1> HIDE DEF r
<1>14. QED
  BY <1>1, <1>9, <1>12, <1>13, SoundUpdate

LEMMA SelectIInv ==
  ASSUME IInv, NEW n \in Node, NEW c \in Client, NEW f, WellTyped(f),
         SelectFragment(n, c, f)
  PROVE  IInv'
<1> DEFINE s == Live(n)  r == Selected(s, f.index)
<1>1. /\ s # None /\ f.kind = "SELECT" /\ f.index < ReplyFrames(s)
      /\ UNCHANGED <<enabled, book>>
  BY DEF SelectFragment, Leased, MaySelect
<1>2. s \in Session /\ Sound(n, s)
  BY <1>1, LiveSound
<1>3. f.index \in Nat
  BY <1>1 DEF WellTyped
<1>4. r \in Session /\ Sound(n, r)
  BY <1>1, <1>2, <1>3 DEF Selected, Session, Sound, WellFormed, PeerSettled,
                          GiftSettled, CommitSettled, AllRead, ReplyFrames
<1>5. session' = [session EXCEPT ![n] = r]
  BY DEF SelectFragment
<1> HIDE DEF r
<1>6. QED
  BY <1>1, <1>4, <1>5, SoundUpdate

LEMMA ReadIInv ==
  ASSUME IInv, NEW n \in Node, NEW c \in Client, ReadFragment(n, c)
  PROVE  IInv'
<1> DEFINE s == Live(n)  r == [s EXCEPT !.read = @ \cup {s.selected}]
<1>1. s # None /\ s.selected # None /\ UNCHANGED <<enabled, book>>
  BY DEF ReadFragment, MayRead
<1>2. s \in Session /\ Sound(n, s)
  BY <1>1, LiveSound
<1>3. s.selected \in 0 .. ReplyFrames(s) - 1
  BY <1>1, <1>2, FrameCountType DEF Session, Sound, WellFormed, ReplyFrames
<1>4. r \in Session
  BY <1>1, <1>2 DEF Session
<1>5. s.read \subseteq 0 .. ReplyFrames(s) - 1
  BY <1>2 DEF Sound, WellFormed
<1>6. r.read \subseteq 0 .. ReplyFrames(s) - 1
  BY <1>2, <1>3, <1>5 DEF Session
<1>7. s.committed => r.read = s.read
  BY <1>2, <1>3 DEF Sound, CommitSettled, AllRead, Session
<1>8. Sound(n, r)
  BY <1>2, <1>6, <1>7 DEF Session, Sound, WellFormed, PeerSettled, GiftSettled,
                          CommitSettled, AllRead, ReplyFrames
<1>9. session' = [session EXCEPT ![n] = r]
  BY DEF ReadFragment
<1> HIDE DEF r
<1>10. QED
  BY <1>1, <1>4, <1>8, <1>9, SoundUpdate

(* The acknowledgement is the one request that changes the book: the       *)
(* session becomes committed, so its gift may take the slot it was for.    *)
LEMMA AcknowledgeIInv ==
  ASSUME IInv, NEW n \in Node, NEW c \in Client, NEW f,
         Acknowledge(n, c, f)
  PROVE  IInv'
<1> DEFINE s == Live(n)  r == Committed(s)
<1>1. /\ s # None /\ s.incomingGift # None /\ AllRead(s)
      /\ Record(n, s.peer, s.outgoingGift, s.incomingGift)
      /\ session' = [session EXCEPT ![n] = r] /\ UNCHANGED enabled
  BY DEF Acknowledge, Leased, MayAck
<1>2. s \in Session /\ Sound(n, s)
  BY <1>1, LiveSound
<1>3. s.peer # None /\ s.outgoingGift # None
  BY <1>1, <1>2 DEF Sound, WellFormed
<1>4. s.peer \in Profile /\ s.outgoingGift \in Gift /\ s.incomingGift \in Gift
  BY <1>1, <1>2, <1>3 DEF Session
<1>5. r \in Session
  BY <1>2, ExchangeAssumption DEF Committed, Session
<1>6. TypeOK'
  <2>1. session' \in [Node -> Session \cup {None}] /\ enabled' \in [Node -> BOOLEAN]
    BY <1>1, <1>5 DEF IInv, TypeOK
  <2> HIDE DEF r
  <2>2. QED
    BY <1>1, <1>4, <2>1, RecordTypeOK DEF IInv, TypeOK
<1>7. ASSUME NEW m \in Node, session'[m] # None PROVE Sound(m, session[m])'
  <2>1. CASE m = n
    <3>1. session'[m] = r
      BY <1>1, <2>1 DEF IInv, TypeOK
    <3>2. /\ r.committed /\ r.peer = s.peer /\ r.outgoingGift = s.outgoingGift
          /\ r.incomingGift = s.incomingGift /\ r.reply = s.reply
          /\ r.read = s.read /\ r.selected = s.selected
      BY <1>2 DEF Committed, Session
    <3> HIDE DEF r
    <3>3. QED
      BY <1>1, <1>2, <2>1, <3>1, <3>2
         DEF Sound, WellFormed, PeerSettled, GiftSettled, CommitSettled,
             AllRead, ReplyFrames
  <2>2. CASE m # n
    <3>1. session'[m] = session[m]
      BY <1>1, <2>2 DEF IInv, TypeOK
    <3>2. sentence'[m] = sentence[m]
      BY <1>1, <2>2 DEF Record, IInv, TypeOK
    <3>3. Sound(m, session[m])
      BY <1>7, <3>1 DEF IInv, LeaseInv
    <3>4. QED
      BY <3>1, <3>2, <3>3
         DEF Sound, WellFormed, PeerSettled, GiftSettled, CommitSettled,
             SlotFree, AllRead, ReplyFrames
  <2>3. QED
    BY <2>1, <2>2
<1>8. QED
  BY <1>6, <1>7 DEF IInv, LeaseInv

LEMMA StutterIInv == IInv /\ UNCHANGED vars => IInv'
BY DEF IInv, LeaseInv, TypeOK, vars, Sound, WellFormed, PeerSettled, GiftSettled,
       CommitSettled, SlotFree, AllRead, ReplyFrames

LEMMA NextIInv == IInv /\ [Next]_vars => IInv'
<1> SUFFICES ASSUME IInv, [Next]_vars PROVE IInv'
  OBVIOUS
<1>1. CASE Tick
  BY <1>1, TickIInv
<1>2. ASSUME NEW n \in Node, Enable(n) \/ DisableIfIdle(n) \/ Shutdown(n) \/ Expire(n)
      PROVE  IInv'
  BY <1>2, RoleIInv
<1>3. ASSUME NEW n \in Node, NEW c \in Client, Read(n, c)
      PROVE  IInv'
  BY <1>3, ReadIInv, RoleIInv DEF Read, RefuseRead
<1>4. ASSUME NEW n \in Node, NEW c \in Client, NEW f \in Requests, Write(n, c, f)
      PROVE  IInv'
  <2>1. CASE Begin(n, c, f)
    BY <2>1, RequestType, BeginIInv
  <2>2. CASE Continue(n, c, f) \/ RefusePacket(n, c, f)
    BY <2>2, RequestType, AppendIInv
  <2>3. CASE AcceptProfile(n, c, f)
    BY <2>3, RequestType, AcceptProfileIInv
  <2>4. CASE AcceptGift(n, c, f)
    BY <2>4, RequestType, AcceptGiftIInv
  <2>5. CASE SelectFragment(n, c, f)
    BY <2>5, RequestType, SelectIInv
  <2>6. CASE Acknowledge(n, c, f)
    BY <2>6, AcknowledgeIInv
  <2>7. CASE AcknowledgeAgain(n, c, f)
    BY <2>7, StutterIInv DEF AcknowledgeAgain
  <2>8. CASE RefuseWrite(n, c, f)
    BY <2>8, RoleIInv DEF RefuseWrite
  <2>9. QED
    BY <1>4, <2>1, <2>2, <2>3, <2>4, <2>5, <2>6, <2>7, <2>8
       DEF Write, WriteOk, WriteError
<1>5. CASE UNCHANGED vars
  BY <1>5, StutterIInv
<1>6. QED
  BY <1>1, <1>2, <1>3, <1>4, <1>5 DEF Next

(* IInv: whatever clients write and read, in any order, at a State, its    *)
(* sessions stay as the handlers of state.rs leave them: typed, settled    *)
(* and committed only after delivery.                                      *)
THEOREM SpecIInv == Spec => []IInv
BY InitIInv, NextIInv, PTL DEF Spec

-----------------------------------------------------------------------------
(* Safety. *)

(* No request, tick or role change ever takes State out of its types.      *)
THEOREM TypeCorrect == Spec => []TypeOK
<1>1. IInv => TypeOK
  BY DEF IInv
<1>2. QED
  BY <1>1, SpecIInv, PTL

(* No order of requests makes State::write or State::read index `reply' or *)
(* `read' out of range, or unwrap a peer or a gift that is not there.      *)
THEOREM NoPanicHolds == Spec => []NoPanic
<1>1. IInv => NoPanic
  BY DEF IInv, LeaseInv, Sound, NoPanic
<1>2. QED
  BY <1>1, SpecIInv, PTL

(* A peripheral whose session is committed has received the peer's gift    *)
(* and handed over every fragment of its own.                              *)
THEOREM CommitsAfterDelivery == Spec => []CommitAfterDelivery
<1>1. ASSUME IInv, NEW n \in Node, session[n] # None, session[n].committed
      PROVE  /\ session[n].incomingGift # None
             /\ session[n].reply = session[n].outgoingGift
             /\ session[n].read = 0 .. GiftFrames - 1
  <2> DEFINE s == session[n]
  <2>1. s \in Session /\ Sound(n, s)
    BY <1>1 DEF IInv, TypeOK, LeaseInv
  <2>2. s.incomingGift # None /\ AllRead(s)
    BY <1>1, <2>1 DEF Sound, CommitSettled
  <2>3. s.reply = s.outgoingGift /\ s.outgoingGift # None
    BY <2>1, <2>2 DEF Sound, WellFormed
  <2>4. s.outgoingGift.type = "Gift"
    BY <2>1, <2>3 DEF Session, Gift
  <2>5. QED
    BY <2>2, <2>3, <2>4 DEF AllRead, ReplyFrames, FrameCount
<1>2. IInv => CommitAfterDelivery
  BY <1>1 DEF CommitAfterDelivery
<1>3. QED
  BY <1>2, SpecIInv, PTL

(* Once both gifts are settled, every check record_exchange repeats at the *)
(* acknowledgement passes: a peripheral never refuses a commit it prepared.*)
THEOREM AcksNeverRefused == Spec => []AckNeverRefused
<1>1. ASSUME IInv, NEW n \in Node, session[n] # None,
             session[n].incomingGift # None, ~session[n].committed
      PROVE  AckRecordable(n, session[n])
  <2>1. Sound(n, session[n])
    BY <1>1 DEF IInv, LeaseInv
  <2>2. QED
    BY <1>1, <2>1 DEF Sound, WellFormed, PeerSettled, GiftSettled, AckRecordable,
                      RecordAllowed
<1>2. IInv => AckNeverRefused
  BY <1>1 DEF AckNeverRefused
<1>3. QED
  BY <1>2, SpecIInv, PTL

-----------------------------------------------------------------------------
(* Only the acknowledgement of an uncommitted session changes the book. *)

LEMMA OnlyAcknowledgeRecords ==
  ASSUME IInv, [Next]_vars
  PROVE  \/ \E n \in Node, c \in Client, f \in Requests : Acknowledge(n, c, f)
         \/ UNCHANGED <<sentence, exchanges, exchangeCount, postedRound, posts>>
<1>1. CASE Tick
  BY <1>1 DEF Tick
<1>2. ASSUME NEW n \in Node, Enable(n) \/ DisableIfIdle(n) \/ Shutdown(n) \/ Expire(n)
      PROVE  UNCHANGED book
  BY <1>2 DEF Enable, DisableIfIdle, Shutdown, Expire
<1>3. ASSUME NEW n \in Node, NEW c \in Client, Read(n, c)
      PROVE  UNCHANGED book
  BY <1>3 DEF Read, ReadFragment, RefuseRead, Expire
<1>4. ASSUME NEW n \in Node, NEW c \in Client, NEW f \in Requests, Write(n, c, f)
      PROVE  Acknowledge(n, c, f) \/ UNCHANGED book
  BY <1>4 DEF Write, WriteOk, WriteError, Begin, Continue, AcceptProfile, AcceptGift,
              RefusePacket, SelectFragment, AcknowledgeAgain, RefuseWrite, Expire,
              vars, book
<1>5. QED
  BY <1>1, <1>2, <1>3, <1>4 DEF Next, vars, book

(* Which session it is, and what it did. *)
LEMMA AcknowledgedSession ==
  ASSUME IInv, NEW n \in Node, NEW c \in Client, NEW f,
         Acknowledge(n, c, f)
  PROVE  LET s == session[n]
         IN  /\ s \in Session /\ ~s.committed /\ Live(n) = s
             /\ s.peer \in Profile /\ s.outgoingGift \in Gift
             /\ s.incomingGift \in Gift
             /\ RecordAllowed(n, s.peer, s.outgoingGift, s.incomingGift)
             /\ Record(n, s.peer, s.outgoingGift, s.incomingGift)
             /\ session' = [session EXCEPT ![n] = Committed(s)]
<1> DEFINE s == Live(n)
<1>1. /\ s # None /\ s.incomingGift # None /\ ~s.committed
      /\ AckRecordable(n, s)
      /\ Record(n, s.peer, s.outgoingGift, s.incomingGift)
      /\ session' = [session EXCEPT ![n] = Committed(s)]
  BY DEF Acknowledge, Leased, MayAck
<1>2. s \in Session /\ s = session[n] /\ Sound(n, s)
  BY <1>1, LiveSound
<1>3. s.peer # None /\ s.outgoingGift # None
  BY <1>1, <1>2 DEF Sound, WellFormed
<1>4. s.peer \in Profile /\ s.outgoingGift \in Gift /\ s.incomingGift \in Gift
  BY <1>1, <1>2, <1>3 DEF Session
<1>5. QED
  BY <1>1, <1>2, <1>4 DEF AckRecordable

LEMMA CommittedSession ==
  ASSUME NEW s \in Session
  PROVE  /\ Committed(s).committed = TRUE
         /\ Committed(s).client = s.client
         /\ Committed(s).exchange = s.exchange
BY DEF Committed, Session

(* An exchange is recorded once per session: by the acknowledgement that   *)
(* commits it, never by a repetition.                                      *)
THEOREM RecordsOncePerSession == Spec => RecordedOncePerSession
<1> DEFINE Recorded(n) == /\ session[n] # None /\ ~session[n].committed
                          /\ session'[n].committed
                          /\ session'[n].client = session[n].client
                          /\ session'[n].exchange = session[n].exchange
<1>1. ASSUME IInv, [Next]_vars, NEW n \in Node, exchangeCount'[n] # exchangeCount[n]
      PROVE  Recorded(n)
  <2>1. PICK m \in Node, c \in Client, f \in Requests : Acknowledge(m, c, f)
    BY <1>1, OnlyAcknowledgeRecords
  <2>2. /\ session[m] \in Session /\ ~session[m].committed
        /\ exchangeCount' = [exchangeCount EXCEPT ![m] = @ + 1]
        /\ session' = [session EXCEPT ![m] = Committed(session[m])]
    BY <1>1, <2>1, AcknowledgedSession DEF Record
  <2>3. m = n
    BY <1>1, <2>2 DEF IInv, TypeOK
  <2>4. session[n] # None
    BY <1>1, <2>1, <2>3, LiveSound DEF Acknowledge, Leased, Live
  <2>5. session'[n] = Committed(session[n])
    BY <1>1, <2>2, <2>3 DEF IInv, TypeOK
  <2>6. session[n] \in Session /\ ~session[n].committed
    BY <2>2, <2>3
  <2>7. QED
    BY <2>4, <2>5, <2>6, CommittedSession
<1>2. IInv /\ [Next]_vars =>
        [\A n \in Node : exchangeCount'[n] # exchangeCount[n] => Recorded(n)]_vars
  BY <1>1
<1>3. QED
  BY <1>2, SpecIInv, PTL DEF Spec, RecordedOncePerSession

(* Only a free slot is ever filled: an entry of the sentence is final.     *)
THEOREM NeverOverwrites == Spec => NoOverwrite
<1>1. ASSUME IInv, [Next]_vars, NEW n \in Node, NEW k \in Slot, sentence[n][k] # None
      PROVE  sentence'[n][k] = sentence[n][k]
  <2>1. CASE UNCHANGED sentence
    BY <2>1
  <2>2. ASSUME NEW m \in Node, NEW c \in Client, NEW f \in Requests,
               Acknowledge(m, c, f)
        PROVE  sentence'[n][k] = sentence[n][k]
    <3> DEFINE s == session[m]
    <3>1. /\ SlotFree(m, s.incomingGift.phrase)
          /\ sentence' = [sentence EXCEPT ![m] =
                            Accept(m, s.peer, s.incomingGift.phrase)]
      BY <1>1, <2>2, AcknowledgedSession DEF Record, RecordAllowed
    <3>2. QED
      BY <1>1, <3>1 DEF Accept, SlotFree, IInv, TypeOK
  <2>3. QED
    BY <1>1, <2>1, <2>2, OnlyAcknowledgeRecords
<1>2. IInv /\ [Next]_vars =>
        [\A n \in Node, k \in Slot :
           sentence[n][k] # None => sentence'[n][k] = sentence[n][k]]_vars
  BY <1>1
<1>3. QED
  BY <1>2, SpecIInv, PTL DEF Spec, NoOverwrite

-----------------------------------------------------------------------------
(* The lease. *)

LEMMA WithReplyTimer ==
  ASSUME NEW s \in Session, NEW p
  PROVE  WithReply(s, p).timer = s.timer
BY DEF WithReply, Session

LEMMA ElapseShrinks == \A t \in Nat : Elapse(t) \in Nat /\ Elapse(t) <= t
BY DEF Elapse

(* "busy with another exchange" (state.rs): what is not the client's own   *)
(* request finds the lease and leaves it, and the book, as they were.      *)
LEMMA StrangersServedNothing ==
  ASSUME IInv, NEW n \in Node, session[n] # None, session[n].timer > 0,
         NEW c \in Client, Strange(n, c)
  PROVE  UNCHANGED <<session[n], sentence[n]>>
<1>1. Live(n) = session[n] /\ c # Live(n).client
  BY DEF Live, Strange
<1>2. Expire(n) => UNCHANGED <<session[n], sentence[n]>>
  BY <1>1 DEF Expire, book, IInv, TypeOK
<1>3. CASE Read(n, c)
  BY <1>1, <1>2, <1>3 DEF Read, ReadFragment, RefuseRead, MayRead
<1>4. ASSUME NEW f \in Requests, Write(n, c, f)
      PROVE  UNCHANGED <<session[n], sentence[n]>>
  <2>1. ~Leased(n, c, f) /\ ~MayBegin(n, f)
    BY <1>1 DEF Leased, MayBegin
  <2>2. RefuseWrite(n, c, f)
    BY <1>4, <2>1 DEF Write, WriteOk, WriteError, Begin, Continue, AcceptProfile, AcceptGift,
       RefusePacket, SelectFragment, Acknowledge, AcknowledgeAgain
  <2> QED
    BY <1>2, <2>2 DEF RefuseWrite
<1> QED
  BY <1>3, <1>4 DEF Strange

(* A peripheral is taken by one client, for Timeout plus Grace at most:    *)
(* State::write and State::read serve nobody else while a lease lives, and *)
(* nothing its client sends gives it more time than it has left.           *)
THEOREM LeasesKept == Spec => LeaseKept
<1> DEFINE Shrinks(n) == session'[n].timer <= session[n].timer
           Commits(n) == ~session[n].committed /\ session'[n].committed
<1>1. ASSUME IInv, [Next]_vars, NEW n \in Node,
             session[n] # None, session[n].timer > 0, session'[n] # None
      PROVE  Shrinks(n) \/ Commits(n)
  <2>1. session[n] \in Session /\ session[n].timer \in Nat /\ Live(n) = session[n]
    BY <1>1 DEF IInv, TypeOK, Session, Live
  <2>2. session'[n] = session[n] => Shrinks(n)
    BY <2>1
  <2>3. CASE Tick
    <3>1. session'[n] = [session[n] EXCEPT !.timer = Elapse(@)]
      BY <1>1, <2>3 DEF Tick
    <3>2. session'[n].timer = Elapse(session[n].timer)
      BY <2>1, <3>1 DEF Session
    <3>3. QED
      BY <2>1, <3>2, ElapseShrinks
  <2>4. ASSUME NEW m \in Node, Enable(m) \/ DisableIfIdle(m) \/ Shutdown(m) \/ Expire(m)
        PROVE  session'[n] = session[n]
    BY <1>1, <2>1, <2>4 DEF Enable, DisableIfIdle, Shutdown, Expire, IInv, TypeOK
  <2>5. ASSUME NEW m \in Node, NEW c \in Client, Read(m, c)
        PROVE  Shrinks(n)
    <3>1. CASE ReadFragment(m, c)
      <4>1. session'[n] = session[n] \/
              session'[n] = [session[n] EXCEPT !.read = @ \cup {session[n].selected}]
        BY <1>1, <2>1, <3>1 DEF ReadFragment, IInv, TypeOK
      <4>2. QED
        BY <2>1, <4>1 DEF Session
    <3>2. QED
      BY <2>2, <2>4, <2>5, <3>1 DEF Read, RefuseRead
  <2>6. ASSUME NEW m \in Node, NEW c \in Client, NEW f \in Requests, Write(m, c, f)
        PROVE  Shrinks(n) \/ Commits(n)
    <3>1. CASE Begin(m, c, f)
      BY <1>1, <2>1, <2>2, <3>1 DEF Begin, MayBegin, IInv, TypeOK
    <3>2. CASE Continue(m, c, f) \/ RefusePacket(m, c, f)
      <4>1. PICK a : session' = [session EXCEPT ![m] = [Live(m) EXCEPT !.incoming = a]]
        BY <3>2 DEF Continue, RefusePacket
      <4>2. session'[n] = session[n] \/ session'[n] = [session[n] EXCEPT !.incoming = a]
        BY <1>1, <2>1, <4>1 DEF IInv, TypeOK
      <4>3. QED
        BY <2>1, <4>2 DEF Session
    <3>3. CASE AcceptProfile(m, c, f)
      <4>1. PICK p, g : session' = [session EXCEPT ![m] =
              [WithReply(Live(m), OwnProfile(m)) EXCEPT !.peer = p, !.outgoingGift = g]]
        BY <3>3 DEF AcceptProfile
      <4> DEFINE q == WithReply(session[n], OwnProfile(n))
                 r == [q EXCEPT !.peer = p, !.outgoingGift = g]
      <4>2. session'[n] = session[n] \/ session'[n] = r
        BY <1>1, <2>1, <4>1 DEF IInv, TypeOK
      <4>3. q \in Session /\ q.timer = session[n].timer
        BY <2>1, WithReplyType, OwnProfileType, WithReplyTimer
      <4> HIDE DEF q
      <4>4. r.timer = session[n].timer
        BY <4>3 DEF Session
      <4> HIDE DEF r
      <4>5. QED
        BY <2>1, <2>2, <4>2, <4>4
    <3>4. CASE AcceptGift(m, c, f)
      <4>1. PICK p : session' = [session EXCEPT ![m] =
              [WithReply(Live(m), Live(m).outgoingGift) EXCEPT !.incomingGift = p]]
        BY <3>4 DEF AcceptGift
      <4>2. session'[n] = session[n] \/ session'[n] =
              [WithReply(session[n], session[n].outgoingGift) EXCEPT !.incomingGift = p]
        BY <1>1, <2>1, <4>1 DEF IInv, TypeOK
      <4>3. session[n].outgoingGift \in Packet \cup {None}
        BY <2>1 DEF Session, Packet
      <4>4. /\ WithReply(session[n], session[n].outgoingGift) \in Session
            /\ WithReply(session[n], session[n].outgoingGift).timer = session[n].timer
        BY <2>1, <4>3, WithReplyType, WithReplyTimer
      <4>5. QED
        BY <2>1, <4>2, <4>4 DEF Session
    <3>5. CASE SelectFragment(m, c, f)
      <4>1. session'[n] = session[n] \/ session'[n] = Selected(session[n], f.index)
        BY <1>1, <2>1, <3>5 DEF SelectFragment, IInv, TypeOK
      <4>2. QED
        BY <2>1, <4>1 DEF Session, Selected
    <3>6. CASE Acknowledge(m, c, f)
      <4>1. /\ ~session[m].committed
            /\ session' = [session EXCEPT ![m] = Committed(session[m])]
        BY <1>1, <3>6, AcknowledgedSession
      <4>2. CASE m = n
        BY <1>1, <2>1, <4>1, <4>2 DEF Committed, Session, IInv, TypeOK
      <4>3. CASE m # n
        BY <1>1, <2>2, <4>1, <4>3 DEF IInv, TypeOK
      <4>4. QED
        BY <4>2, <4>3
    <3>7. CASE AcknowledgeAgain(m, c, f)
      BY <2>2, <3>7 DEF AcknowledgeAgain, vars
    <3>8. CASE RefuseWrite(m, c, f)
      BY <2>2, <2>4, <3>8 DEF RefuseWrite
    <3>9. QED
      BY <2>6, <3>1, <3>2, <3>3, <3>4, <3>5, <3>6, <3>7, <3>8
         DEF Write, WriteOk, WriteError
  <2>7. CASE UNCHANGED vars
    BY <2>2, <2>7 DEF vars
  <2>8. QED
    BY <1>1, <2>2, <2>3, <2>4, <2>5, <2>6, <2>7 DEF Next
<1>2. IInv /\ [Next]_vars => [\A n \in Node : KeepsLease(n)]_vars
  BY <1>1, StrangersServedNothing DEF KeepsLease
<1>3. QED
  BY <1>2, SpecIInv, PTL DEF Spec, LeaseKept

-----------------------------------------------------------------------------
(* The log and the posts.  Both are invariants of the book that only an    *)
(* acknowledgement can disturb; they are inductive relative to IInv.       *)

LEMMA TruncatedPrefix ==
  ASSUME NEW log \in Seq(LogEntry), NEW i \in DOMAIN Truncated(log)
  PROVE  i \in DOMAIN log /\ Truncated(log)[i] = log[i]
<1>1. CASE Len(log) > LogLimit
  <2>1. /\ DOMAIN SubSeq(log, 1, LogLimit) = 1 .. LogLimit
        /\ \A j \in 1 .. LogLimit : SubSeq(log, 1, LogLimit)[j] = log[j]
    BY <1>1, ExchangeAssumption, SubSeqProperties, ElementOfSeq
  <2>2. QED
    BY <1>1, <2>1, ExchangeAssumption DEF Truncated
<1>2. CASE ~(Len(log) > LogLimit)
  BY <1>2 DEF Truncated
<1>3. QED
  BY <1>1, <1>2

(* An entry of the new log is the new one or an entry of the old log.      *)
LEMMA RecordedLog ==
  ASSUME NEW e \in LogEntry, NEW log \in Seq(LogEntry),
         NEW i \in DOMAIN Truncated(<<e>> \o log)
  PROVE  /\ i \in Nat /\ i >= 1
         /\ i = 1 => Truncated(<<e>> \o log)[i] = e
         /\ i # 1 => /\ i - 1 \in DOMAIN log
                     /\ Truncated(<<e>> \o log)[i] = log[i - 1]
<1>1. <<e>> \in Seq(LogEntry) /\ <<e>> \o log \in Seq(LogEntry)
  BY ConcatProperties
<1>2. i \in DOMAIN (<<e>> \o log) /\ Truncated(<<e>> \o log)[i] = (<<e>> \o log)[i]
  BY <1>1, TruncatedPrefix
<1>3. QED
  BY <1>1, <1>2, ConcatProperties

(* What one acknowledgement does to the sentence: it fills a free slot, or *)
(* leaves the sentence alone, and never touches another node.              *)
LEMMA AcceptedSentence ==
  ASSUME TypeOK, NEW n \in Node, NEW peer \in Profile, NEW sent \in Gift,
         NEW received \in Gift, SlotFree(n, received.phrase),
         Record(n, peer, sent, received)
  PROVE  /\ \A m \in Node : m # n => sentence'[m] = sentence[m]
         /\ \A k \in Slot : sentence[n][k] # None => sentence'[n][k] = sentence[n][k]
         /\ received.phrase # None =>
              /\ received.phrase \in Phrase
              /\ sentence[n][received.phrase.slot] = None
              /\ sentence'[n][received.phrase.slot] =
                   [source |-> peer.node, deck |-> received.phrase.deck]
<1>1. sentence' = [sentence EXCEPT ![n] = Accept(n, peer, received.phrase)]
  BY DEF Record
<1>2. received.phrase # None =>
        received.phrase \in Phrase /\ received.phrase.slot \in Slot
  BY DEF Gift, Phrase
<1>3. QED
  BY <1>1, <1>2 DEF Accept, SlotFree, TypeOK

(* The log explains the sentence: no phrase of the log was overwritten or  *)
(* attributed to another peer, and no slot was filled twice.               *)
THEOREM LogExplainsSentence == Spec => []LogMatchesSentence
<1> DEFINE Explained(n, i) ==
             LET e == exchanges[n][i]
             IN  e.received # None =>
                   /\ sentence[n][e.received.slot] =
                        [source |-> e.peer, deck |-> e.received.deck]
                   /\ \A j \in DOMAIN exchanges[n] :
                        LET d == exchanges[n][j]
                        IN  j # i /\ d.received # None =>
                              d.received.slot # e.received.slot
<1>1. Init => LogMatchesSentence
  BY DEF Init, LogMatchesSentence
<1>2. ASSUME IInv, LogMatchesSentence, [Next]_vars PROVE LogMatchesSentence'
  <2>1. CASE UNCHANGED <<sentence, exchanges, exchangeCount, postedRound, posts>>
    BY <1>2, <2>1 DEF LogMatchesSentence
  <2>2. ASSUME NEW m \in Node, NEW c \in Client, NEW f \in Requests,
               Acknowledge(m, c, f)
        PROVE  LogMatchesSentence'
    <3> DEFINE s == session[m]
               g == s.incomingGift.phrase
               e == [sequence |-> exchangeCount[m] + 1, peer |-> s.peer.node,
                     sent |-> s.outgoingGift.phrase, received |-> g]
               log == exchanges[m]
    <3>1. /\ s.peer \in Profile /\ s.outgoingGift \in Gift /\ s.incomingGift \in Gift
          /\ SlotFree(m, g)
          /\ Record(m, s.peer, s.outgoingGift, s.incomingGift)
      BY <1>2, <2>2, AcknowledgedSession DEF RecordAllowed
    <3>2. /\ \A n \in Node : n # m => sentence'[n] = sentence[n]
          /\ \A k \in Slot : sentence[m][k] # None => sentence'[m][k] = sentence[m][k]
          /\ g # None => /\ g \in Phrase /\ sentence[m][g.slot] = None
                         /\ sentence'[m][g.slot] =
                              [source |-> s.peer.node, deck |-> g.deck]
      BY <1>2, <3>1, AcceptedSentence DEF IInv
    <3>3. exchanges' = [exchanges EXCEPT ![m] = Truncated(<<e>> \o log)]
      BY <3>1 DEF Record
    <3>4. e \in LogEntry /\ log \in Seq(LogEntry)
      <4>1. s.peer.node \in Peer /\ s.outgoingGift.phrase \in Phrase \cup {None}
            /\ g \in Phrase \cup {None}
        BY <3>1 DEF Profile, Gift
      <4>2. exchangeCount[m] + 1 \in Nat /\ log \in Seq(LogEntry)
        BY <1>2 DEF IInv, TypeOK
      <4> HIDE DEF s, g
      <4>3. QED
        BY <4>1, <4>2 DEF LogEntry
    <3> HIDE DEF s, g
    <3>5. ASSUME NEW n \in Node, n # m, NEW i \in DOMAIN exchanges'[n]
          PROVE  Explained(n, i)'
      <4>1. exchanges'[n] = exchanges[n] /\ sentence'[n] = sentence[n]
        BY <1>2, <3>2, <3>3, <3>5 DEF IInv, TypeOK
      <4>2. QED
        BY <1>2, <3>5, <4>1 DEF LogMatchesSentence
    (* An old entry keeps its slot, and a filled slot is not the new one's. *)
    <3>6. ASSUME NEW i \in DOMAIN log, log[i].received # None
          PROVE  /\ log[i].received.slot \in Slot
                 /\ sentence[m][log[i].received.slot] # None
                 /\ sentence'[m][log[i].received.slot] =
                      [source |-> log[i].peer, deck |-> log[i].received.deck]
                 /\ g # None => g.slot # log[i].received.slot
      <4>1. log[i] \in LogEntry
        BY <3>4, <3>6, ElementOfSeq
      <4>2. log[i].received \in Phrase /\ log[i].received.slot \in Slot
        BY <3>6, <4>1 DEF LogEntry, Phrase
      <4>3. sentence[m][log[i].received.slot] =
              [source |-> log[i].peer, deck |-> log[i].received.deck]
        BY <1>2, <3>6 DEF LogMatchesSentence
      <4>4. log[i].peer \in Peer /\ log[i].received.deck \in Peer
        BY <4>1, <4>2 DEF LogEntry, Phrase
      <4>5. sentence[m][log[i].received.slot] # None
        BY <4>3, <4>4, EntryAssumption DEF Entry
      <4>6. QED
        BY <3>2, <4>2, <4>3, <4>5
    <3>7. \A i \in DOMAIN exchanges'[m] : Explained(m, i)'
      <4> DEFINE new == Truncated(<<e>> \o log)
      <4>1. exchanges'[m] = new
        BY <1>2, <3>3 DEF IInv, TypeOK
      <4>2. \A i \in DOMAIN new :
              /\ i \in Nat /\ i >= 1
              /\ i = 1 => new[i] = e
              /\ i # 1 => i - 1 \in DOMAIN log /\ new[i] = log[i - 1]
        BY <3>4, RecordedLog
      <4>3. e.received = g /\ e.peer = s.peer.node
        OBVIOUS
      <4>4. \A i, j \in DOMAIN log :
              i # j /\ log[i].received # None /\ log[j].received # None =>
                log[j].received.slot # log[i].received.slot
        BY <1>2 DEF LogMatchesSentence
      <4> HIDE DEF new, e, log
      <4>5. ASSUME NEW i \in DOMAIN new, new[i].received # None
            PROVE  sentence'[m][new[i].received.slot] =
                     [source |-> new[i].peer, deck |-> new[i].received.deck]
        BY <3>2, <3>6, <4>2, <4>3, <4>5
      <4>6. ASSUME NEW i \in DOMAIN new, NEW j \in DOMAIN new, i # j,
                   new[i].received # None, new[j].received # None
            PROVE  new[j].received.slot # new[i].received.slot
        <5>1. CASE i # 1 /\ j # 1
          <6>1. /\ i - 1 \in DOMAIN log /\ j - 1 \in DOMAIN log /\ i - 1 # j - 1
                /\ new[i] = log[i - 1] /\ new[j] = log[j - 1]
            BY <4>2, <4>6, <5>1
          <6>2. QED
            BY <4>4, <4>6, <6>1
        <5>2. CASE i = 1
          <6>1. new[i].received = g /\ j - 1 \in DOMAIN log /\ new[j] = log[j - 1]
            BY <4>2, <4>3, <4>6, <5>2
          <6>2. QED
            BY <3>6, <4>6, <6>1
        <5>3. CASE j = 1
          <6>1. new[j].received = g /\ i - 1 \in DOMAIN log /\ new[i] = log[i - 1]
            BY <4>2, <4>3, <4>6, <5>3
          <6>2. QED
            BY <3>6, <4>6, <6>1
        <5>4. QED
          BY <5>1, <5>2, <5>3
      <4>7. QED
        BY <4>1, <4>5, <4>6
    <3>8. QED
      BY <3>5, <3>7 DEF LogMatchesSentence
  <2>3. QED
    BY <1>2, <2>1, <2>2, OnlyAcknowledgeRecords
<1>3. QED
  BY <1>1, <1>2, SpecIInv, PTL DEF Spec

(* postedRound remembers that the sentence is complete, and a post was     *)
(* spawned when it was set.                                                *)
PostInv ==
  \A n \in Node :
    /\ postedRound[n] <=> \A k \in Slot : sentence[n][k] # None
    /\ posts[n] = IF n \in PostUrl /\ postedRound[n] THEN 1 ELSE 0

(* However many exchanges follow its completion, a sentence is posted once.*)
THEOREM PostsOnce == Spec => []PostedOnce
<1>1. ASSUME Init PROVE PostInv
  <2>1. ASSUME NEW n \in Node
        PROVE  /\ ~postedRound[n] /\ posts[n] = 0
               /\ \A k \in Slot : sentence[n][k] = None
    BY <1>1 DEF Init
  <2>2. PICK k : k \in Slot
    BY ExchangeAssumption
  <2>3. QED
    BY <2>1, <2>2 DEF PostInv
<1>2. ASSUME IInv, PostInv, [Next]_vars PROVE PostInv'
  <2>1. CASE UNCHANGED <<sentence, exchanges, exchangeCount, postedRound, posts>>
    BY <1>2, <2>1 DEF PostInv
  <2>2. ASSUME NEW m \in Node, NEW c \in Client, NEW f \in Requests,
               Acknowledge(m, c, f)
        PROVE  PostInv'
    <3> DEFINE s == session[m]
               Complete == \A k \in Slot : sentence[m][k] # None
               post == MustPost(m, Complete')
    <3>1. /\ s.peer \in Profile /\ s.outgoingGift \in Gift /\ s.incomingGift \in Gift
          /\ SlotFree(m, s.incomingGift.phrase)
          /\ Record(m, s.peer, s.outgoingGift, s.incomingGift)
      BY <1>2, <2>2, AcknowledgedSession DEF RecordAllowed
    <3>2. /\ \A n \in Node : n # m => sentence'[n] = sentence[n]
          /\ \A k \in Slot : sentence[m][k] # None => sentence'[m][k] = sentence[m][k]
      BY <1>2, <3>1, AcceptedSentence DEF IInv
    <3>3. /\ postedRound' = [postedRound EXCEPT ![m] = @ \/ post]
          /\ posts' = [posts EXCEPT ![m] =
                         IF post /\ m \in PostUrl THEN @ + 1 ELSE @]
      BY <3>1 DEF Record
    <3> HIDE DEF s
    <3>4. postedRound[m] <=> Complete
      BY <1>2 DEF PostInv
    <3>5. Complete => Complete'
      BY <3>2
    <3>6. post <=> (Complete' /\ ~postedRound[m])
      BY DEF MustPost
    <3> HIDE DEF post
    <3>7. /\ postedRound'[m] <=> (postedRound[m] \/ post)
          /\ posts'[m] = IF post /\ m \in PostUrl THEN posts[m] + 1 ELSE posts[m]
      BY <1>2, <3>3 DEF IInv, TypeOK
    <3>8. postedRound'[m] <=> Complete'
      BY <3>4, <3>5, <3>6, <3>7
    <3>9. posts[m] = IF m \in PostUrl /\ postedRound[m] THEN 1 ELSE 0
      BY <1>2 DEF PostInv
    <3>10. posts'[m] = IF m \in PostUrl /\ postedRound'[m] THEN 1 ELSE 0
      <4>1. CASE post
        <5>1. ~postedRound[m] /\ postedRound'[m]
          BY <3>6, <3>7, <4>1
        <5>2. QED
          BY <3>7, <3>9, <4>1, <5>1
      <4>2. CASE ~post
        <5>1. posts'[m] = posts[m] /\ (postedRound'[m] <=> postedRound[m])
          BY <3>7, <4>2
        <5>2. QED
          BY <3>9, <5>1
      <4>3. QED
        BY <4>1, <4>2
    <3>11. ASSUME NEW n \in Node, n # m
           PROVE  /\ postedRound'[n] = postedRound[n] /\ posts'[n] = posts[n]
                  /\ sentence'[n] = sentence[n]
      BY <1>2, <3>2, <3>3, <3>11 DEF IInv, TypeOK
    <3>12. ASSUME NEW n \in Node
           PROVE  /\ postedRound'[n] <=> \A k \in Slot : sentence'[n][k] # None
                  /\ posts'[n] = IF n \in PostUrl /\ postedRound'[n] THEN 1 ELSE 0
      <4>1. CASE n = m
        BY <3>8, <3>10, <4>1
      <4>2. CASE n # m
        BY <1>2, <3>11, <4>2 DEF PostInv
      <4>3. QED
        BY <4>1, <4>2
    <3>13. QED
      BY <3>12 DEF PostInv
  <2>3. QED
    BY <1>2, <2>1, <2>2, OnlyAcknowledgeRecords
<1>3. PostInv => PostedOnce
  BY DEF PostInv, PostedOnce, IsComplete, Missing
<1>4. QED
  BY <1>1, <1>2, <1>3, SpecIInv, PTL DEF Spec

-----------------------------------------------------------------------------
(* The cooldown.  The Profile was welcome because the peer was not cooling *)
(* down, and until the session is committed nothing records an exchange of *)
(* this node that could start its cooldown again.                          *)

CoolInv ==
  \A n \in Node :
    LET s == session[n]
    IN  s # None /\ s.peer # None /\ ~s.committed => recent[n][s.peer.node] = 0

LEMMA NewSessionCool ==
  ASSUME NEW c \in Client, NEW x, NEW a
  PROVE  NewSession(c, x, a).peer = None
BY DEF NewSession

(* A step either leaves peer and commit of a session alone, or drops or    *)
(* opens the session, or commits it, or settles a peer that is not cooling *)
(* down.                                                                   *)
LEMMA SessionStep ==
  ASSUME IInv, [Next]_vars, NEW n \in Node, session'[n] # None
  PROVE  \/ /\ session[n] # None
            /\ session'[n].peer = session[n].peer
            /\ session'[n].committed = session[n].committed
         \/ session'[n].peer = None
         \/ session'[n].committed
         \/ recent'[n] = recent[n] /\ recent[n][session'[n].peer.node] = 0
<1> DEFINE Kept == /\ session[n] # None
                   /\ session'[n].peer = session[n].peer
                   /\ session'[n].committed = session[n].committed
           Settled == recent'[n] = recent[n] /\ recent[n][session'[n].peer.node] = 0
           Goal == Kept \/ session'[n].peer = None \/ session'[n].committed \/ Settled
<1>1. session'[n] = session[n] => Kept
  OBVIOUS
<1>2. session[n] # None => session[n] \in Session
  BY DEF IInv, TypeOK
<1>3. CASE Tick
  <2>1. session[n] # None /\ session'[n] = [session[n] EXCEPT !.timer = Elapse(@)]
    BY <1>3 DEF Tick
  <2>2. QED
    BY <1>2, <2>1 DEF Session
<1>4. ASSUME NEW m \in Node, Enable(m) \/ DisableIfIdle(m) \/ Shutdown(m) \/ Expire(m)
      PROVE  session'[n] = session[n]
  BY <1>4 DEF Enable, DisableIfIdle, Shutdown, Expire, Live, IInv, TypeOK
<1>5. ASSUME NEW m \in Node, NEW c \in Client, Read(m, c)
      PROVE  Goal
  <2>1. CASE ReadFragment(m, c)
    <3>1. Live(m) # None /\ Live(m) \in Session /\ Live(m) = session[m]
      BY <2>1, LiveSound DEF ReadFragment, MayRead
    <3>2. PICK r : session' = [session EXCEPT ![m] = [session[m] EXCEPT !.read = r]]
      BY <2>1, <3>1 DEF ReadFragment
    <3>3. session'[n] = session[n] \/
            (m = n /\ session'[n] = [session[n] EXCEPT !.read = r])
      BY <3>2 DEF IInv, TypeOK
    <3>4. QED
      BY <1>1, <3>1, <3>3 DEF Session
  <2>2. QED
    BY <1>1, <1>4, <1>5, <2>1 DEF Read, RefuseRead
<1>6. ASSUME NEW m \in Node, NEW c \in Client, NEW f \in Requests, Write(m, c, f)
      PROVE  Goal
  <2>1. CASE Begin(m, c, f)
    <3>1. PICK a : session' = [session EXCEPT ![m] = NewSession(c, f.exchange, a)]
      BY <2>1 DEF Begin
    <3>2. session'[n] = session[n] \/ session'[n] = NewSession(c, f.exchange, a)
      BY <3>1 DEF IInv, TypeOK
    <3>3. QED
      BY <1>1, <3>2, NewSessionCool
  <2>2. CASE Continue(m, c, f) \/ RefusePacket(m, c, f)
    <3>1. Live(m) # None /\ Live(m) \in Session /\ Live(m) = session[m]
      BY <2>2, LiveSound DEF Continue, RefusePacket, Leased
    <3>2. PICK a : session' = [session EXCEPT ![m] = [session[m] EXCEPT !.incoming = a]]
      BY <2>2, <3>1 DEF Continue, RefusePacket
    <3>3. session'[n] = session[n] \/
            (m = n /\ session'[n] = [session[n] EXCEPT !.incoming = a])
      BY <3>2 DEF IInv, TypeOK
    <3>4. QED
      BY <1>1, <3>1, <3>3 DEF Session
  <2>3. CASE AcceptProfile(m, c, f)
    <3>1. /\ Live(m) # None /\ Live(m) \in Session /\ Live(m) = session[m]
          /\ session[m].peer = None /\ recent' = recent
      BY <2>3, LiveSound DEF AcceptProfile, Leased, book
    <3>2. PICK p \in Decoded(Pushed(Live(m).incoming, f)) :
            /\ Welcome(m, Live(m), p)
            /\ \E phrase \in Choices(m, p.missing) :
                 session' = [session EXCEPT ![m] =
                   [WithReply(Live(m), OwnProfile(m)) EXCEPT
                      !.peer = p, !.outgoingGift = GiftFor(p, phrase)]]
      BY <2>3 DEF AcceptProfile
    <3>3. PICK g : session' = [session EXCEPT ![m] =
            [WithReply(Live(m), OwnProfile(m)) EXCEPT !.peer = p, !.outgoingGift = g]]
      BY <3>2
    <3> DEFINE q == WithReply(session[m], OwnProfile(m))
               r == [q EXCEPT !.peer = p, !.outgoingGift = g]
    <3>4. q \in Session
      BY <3>1, WithReplyType, OwnProfileType
    <3>5. session' = [session EXCEPT ![m] = r]
      BY <3>1, <3>3
    <3> HIDE DEF q
    <3>6. r.peer = p
      BY <3>4 DEF Session
    <3>7. ~CoolingDown(m, p.node)
      BY <3>1, <3>2 DEF Welcome, ProfileWelcome
    <3>8. p.node \in Peer
      <4>1. f.kind = "DATA"
        BY <2>3 DEF AcceptProfile, MayAppend
      <4>2. Pushed(Live(m).incoming, f) \in Assembler
        BY <3>1, <4>1, RequestType, PushedType DEF Session, WellTyped
      <4>3. p \in Packet /\ p.type = "Profile"
        BY <3>1, <3>2, <4>2, DecodedType DEF Welcome, ProfileWelcome
      <4>4. QED
        BY <4>3 DEF Packet, Profile, Gift
    <3> HIDE DEF r
    <3>9. recent[m][p.node] = 0
      BY <3>7, <3>8 DEF CoolingDown, IInv, TypeOK
    <3>10. session'[n] = session[n] \/ (m = n /\ session'[n] = r)
      BY <3>5 DEF IInv, TypeOK
    <3>11. QED
      BY <1>1, <3>1, <3>6, <3>9, <3>10
  <2>4. CASE AcceptGift(m, c, f)
    <3>1. Live(m) # None /\ Live(m) \in Session /\ Live(m) = session[m]
      BY <2>4, LiveSound DEF AcceptGift, Leased
    <3>2. PICK p : session' = [session EXCEPT ![m] =
            [WithReply(Live(m), Live(m).outgoingGift) EXCEPT !.incomingGift = p]]
      BY <2>4 DEF AcceptGift
    <3> DEFINE q == WithReply(session[m], session[m].outgoingGift)
               r == [q EXCEPT !.incomingGift = p]
    <3>3. q \in Session /\ q.peer = session[m].peer /\ q.committed = session[m].committed
      <4>1. session[m].outgoingGift \in Packet \cup {None}
        BY <3>1 DEF Session, Packet
      <4>2. q \in Session
        BY <3>1, <4>1, WithReplyType
      <4>3. QED
        BY <3>1, <4>2 DEF WithReply, Session
    <3>4. session' = [session EXCEPT ![m] = r]
      BY <3>1, <3>2
    <3> HIDE DEF q
    <3>5. r.peer = session[m].peer /\ r.committed = session[m].committed
      BY <3>3 DEF Session
    <3> HIDE DEF r
    <3>6. session'[n] = session[n] \/ (m = n /\ session'[n] = r)
      BY <3>4 DEF IInv, TypeOK
    <3>7. QED
      BY <1>1, <3>1, <3>5, <3>6
  <2>5. CASE SelectFragment(m, c, f)
    <3>1. Live(m) # None /\ Live(m) \in Session /\ Live(m) = session[m]
      BY <2>5, LiveSound DEF SelectFragment, Leased
    <3>2. session' = [session EXCEPT ![m] = Selected(session[m], f.index)]
      BY <2>5, <3>1 DEF SelectFragment
    <3>3. session'[n] = session[n] \/
            (m = n /\ session'[n] = Selected(session[n], f.index))
      BY <3>2 DEF IInv, TypeOK
    <3>4. QED
      BY <1>1, <3>1, <3>3 DEF Session, Selected
  <2>6. CASE Acknowledge(m, c, f)
    <3>1. /\ session[m] \in Session
          /\ session' = [session EXCEPT ![m] = Committed(session[m])]
      BY <2>6, AcknowledgedSession
    <3>2. session'[n] = session[n] \/ (m = n /\ session'[n] = Committed(session[m]))
      BY <3>1 DEF IInv, TypeOK
    <3>3. Committed(session[m]).committed = TRUE
      BY <3>1, CommittedSession
    <3>4. QED
      BY <1>1, <3>2, <3>3
  <2>7. CASE AcknowledgeAgain(m, c, f)
    BY <1>1, <2>7 DEF AcknowledgeAgain, vars
  <2>8. CASE RefuseWrite(m, c, f)
    BY <1>1, <1>4, <2>8 DEF RefuseWrite
  <2>9. QED
    BY <1>6, <2>1, <2>2, <2>3, <2>4, <2>5, <2>6, <2>7, <2>8
       DEF Write, WriteOk, WriteError
<1>7. CASE UNCHANGED vars
  BY <1>1, <1>7 DEF vars
<1>8. QED
  BY <1>1, <1>3, <1>4, <1>5, <1>6, <1>7 DEF Next

(* Only the acknowledgement that commits a session starts a cooldown. *)
LEMMA RecentStep ==
  ASSUME IInv, [Next]_vars, NEW n \in Node, NEW p \in Peer, recent[n][p] = 0,
         session'[n] # None => ~session'[n].committed
  PROVE  recent'[n][p] = 0
<1>1. CASE Tick
  <2>1. recent'[n][p] = Elapse(recent[n][p])
    BY <1>1 DEF Tick
  <2>2. QED
    BY <2>1 DEF Elapse
<1>2. ASSUME NEW m \in Node, Enable(m) \/ DisableIfIdle(m) \/ Shutdown(m) \/ Expire(m)
      PROVE  recent' = recent
  BY <1>2 DEF Enable, DisableIfIdle, Shutdown, Expire, book
<1>3. ASSUME NEW m \in Node, NEW c \in Client, Read(m, c)
      PROVE  recent' = recent
  BY <1>3 DEF Read, ReadFragment, RefuseRead, Expire, book
<1>4. ASSUME NEW m \in Node, NEW c \in Client, NEW f \in Requests, Write(m, c, f)
      PROVE  Acknowledge(m, c, f) \/ recent' = recent
  BY <1>4 DEF Write, WriteOk, WriteError, Begin, Continue, AcceptProfile, AcceptGift,
              RefusePacket, SelectFragment, AcknowledgeAgain, RefuseWrite, Expire,
              vars, book
<1>5. ASSUME NEW m \in Node, NEW c \in Client, NEW f \in Requests, Acknowledge(m, c, f)
      PROVE  recent'[n] = recent[n]
  <2>1. /\ session[m] \in Session
        /\ session' = [session EXCEPT ![m] = Committed(session[m])]
        /\ recent' = [recent EXCEPT ![m][session[m].peer.node] = Cooldown]
    BY <1>5, AcknowledgedSession DEF Record
  <2>2. Committed(session[m]) \in Session /\ Committed(session[m]).committed
    BY <2>1, ExchangeAssumption DEF Committed, Session
  <2>3. Committed(session[m]) # None
    BY <2>1, <2>2, SessionAssumption
  <2>4. n # m
    BY <2>1, <2>2, <2>3 DEF IInv, TypeOK
  <2>5. QED
    BY <2>1, <2>4 DEF IInv, TypeOK
<1>6. QED
  BY <1>1, <1>2, <1>3, <1>4, <1>5 DEF Next, vars

(* The head of the new log is the exchange just recorded. *)
LEMMA RecordedHead ==
  ASSUME NEW e \in LogEntry, NEW log \in Seq(LogEntry)
  PROVE  Truncated(<<e>> \o log)[1] = e
<1>1. <<e>> \in Seq(LogEntry)
  OBVIOUS
<1>2. /\ <<e>> \o log \in Seq(LogEntry) /\ Len(<<e>> \o log) = 1 + Len(log)
      /\ (<<e>> \o log)[1] = e
  BY <1>1, ConcatProperties
<1>3. 1 \in DOMAIN Truncated(<<e>> \o log)
  <2>1. CASE Len(<<e>> \o log) > LogLimit
    <3>1. DOMAIN SubSeq(<<e>> \o log, 1, LogLimit) = 1 .. LogLimit
      BY <1>2, <2>1, ExchangeAssumption, SubSeqProperties, ElementOfSeq
    <3>2. QED
      BY <2>1, <3>1, ExchangeAssumption DEF Truncated
  <2>2. CASE ~(Len(<<e>> \o log) > LogLimit)
    BY <1>2, <2>2 DEF Truncated
  <2>3. QED
    BY <2>1, <2>2
<1>4. QED
  BY <1>2, <1>3, TruncatedPrefix

(* No exchange is recorded with a peer that is still cooling down from the *)
(* previous one.                                                           *)
THEOREM NeverRecordsWhileCooling == Spec => NoRecordWhileCooling
<1>1. Init => CoolInv
  BY DEF Init, CoolInv
<1>2. ASSUME IInv, CoolInv, [Next]_vars PROVE CoolInv'
  <2>1. ASSUME NEW n \in Node, session'[n] # None, session'[n].peer # None,
               ~session'[n].committed
        PROVE  recent'[n][session'[n].peer.node] = 0
    <3>1. CASE /\ session[n] # None
               /\ session'[n].peer = session[n].peer
               /\ session'[n].committed = session[n].committed
      <4>1. recent[n][session[n].peer.node] = 0
        BY <1>2, <2>1, <3>1 DEF CoolInv
      <4>2. session[n].peer.node \in Peer
        BY <1>2, <2>1, <3>1 DEF IInv, TypeOK, Session, Profile
      <4>3. QED
        BY <1>2, <2>1, <3>1, <4>1, <4>2, RecentStep
    <3>2. QED
      BY <1>2, <2>1, <3>1, SessionStep
  <2>2. QED
    BY <2>1 DEF CoolInv
<1>3. ASSUME IInv, CoolInv, [Next]_vars, NEW n \in Node,
             exchangeCount'[n] # exchangeCount[n]
      PROVE  recent[n][exchanges'[n][1].peer] = 0
  <2>1. PICK m \in Node, c \in Client, f \in Requests : Acknowledge(m, c, f)
    BY <1>3, OnlyAcknowledgeRecords
  <2> DEFINE s == session[m]
             e == [sequence |-> exchangeCount[m] + 1, peer |-> s.peer.node,
                   sent |-> s.outgoingGift.phrase, received |-> s.incomingGift.phrase]
             log == exchanges[m]
  <2>2. /\ s \in Session /\ ~s.committed /\ s.peer \in Profile
        /\ s.outgoingGift \in Gift /\ s.incomingGift \in Gift
        /\ Live(m) # None /\ Live(m) = s
        /\ Record(m, s.peer, s.outgoingGift, s.incomingGift)
    BY <1>3, <2>1, AcknowledgedSession DEF Acknowledge, Leased
  <2>3. /\ exchangeCount' = [exchangeCount EXCEPT ![m] = @ + 1]
        /\ exchanges' = [exchanges EXCEPT ![m] = Truncated(<<e>> \o log)]
    BY <2>2 DEF Record
  <2>4. m = n
    BY <1>3, <2>3 DEF IInv, TypeOK
  <2>5. recent[m][s.peer.node] = 0
    <3>1. s.peer # None
      BY <2>2, PacketAssumption DEF Packet
    <3>2. QED
      BY <1>3, <2>2, <3>1 DEF CoolInv
  <2>6. e \in LogEntry /\ log \in Seq(LogEntry)
    <3>1. s.peer.node \in Peer /\ s.outgoingGift.phrase \in Phrase \cup {None}
          /\ s.incomingGift.phrase \in Phrase \cup {None}
      BY <2>2 DEF Profile, Gift
    <3>2. exchangeCount[m] + 1 \in Nat /\ log \in Seq(LogEntry)
      BY <1>3 DEF IInv, TypeOK
    <3> HIDE DEF s
    <3>3. QED
      BY <3>1, <3>2 DEF LogEntry
  <2>7. e.peer = s.peer.node
    OBVIOUS
  <2> HIDE DEF s, e
  <2>8. exchanges'[n][1] = e
    BY <1>3, <2>3, <2>4, <2>6, RecordedHead DEF IInv, TypeOK
  <2>9. QED
    BY <2>4, <2>5, <2>7, <2>8
<1>4. IInv /\ CoolInv /\ [Next]_vars =>
        [\A n \in Node :
           exchangeCount'[n] # exchangeCount[n] =>
             recent[n][exchanges'[n][1].peer] = 0]_vars
  BY <1>3
<1>5. QED
  BY <1>1, <1>2, <1>4, SpecIInv, PTL DEF Spec, NoRecordWhileCooling
=============================================================================
