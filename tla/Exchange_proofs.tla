--------------------------- MODULE Exchange_proofs ---------------------------
(***************************************************************************)
(* Theorems about the devices of Exchange, for any number of them, any     *)
(* fleet of Tab5 among them, and any loss, delay and abort.                *)
(*                                                                         *)
(* The proofs build on the invariant IInv of one State (ExchangeState):    *)
(* every handler that serves a request is one of its actions.              *)
(***************************************************************************)
EXTENDS Exchange, ExchangeState_proofs

-----------------------------------------------------------------------------
(* What travels over the link. *)

Fragment == [kind : {"DATA"}, exchange : ExchangeId, packet : Packet, seq : Nat]

Body ==
  Fragment \cup [kind : {"SELECT"}, exchange : ExchangeId, index : Nat]
    \cup [kind : {"ACK"}, exchange : ExchangeId] \cup {Info, ReadTx}

Message == [client : Node, target : Node, exchange : ExchangeId, body : Body]

Answer == [ok : BOOLEAN, fragment : Fragment \cup {None}]

NetTyped ==
  /\ tab5 \in Fleets
  /\ role \in [Node -> {"Central", "Peripheral", "Draining"}]
  /\ central \in [Node -> Central \cup {None}]
  /\ inflight \subseteq Message
  /\ answer \in [Node -> Answer \cup {None}]
  /\ attempts \in Nat

(* A device that plays the Central serves nobody, and only then has it an  *)
(* exchange of its own.                                                    *)
RolesKept ==
  \A n \in Node :
    /\ central[n] # None => role[n] = "Central"
    /\ role[n] = "Central" => ~enabled[n] /\ session[n] = None

(* What each stage of `exchange' has established.  The own Profile is      *)
(* still true: nothing is recorded before the exchange ends.               *)
StageKnown(n, c) ==
  /\ c.target # n /\ c.exchange <= attempts
  /\ c.stage # "Info" \/ n \in tab5 => c.own = OwnProfile(n)
  /\ c.stage \in {"SendGift", "ReadGift", "Ack"} =>
       /\ c.peer \in Profile /\ c.peer.node = c.target
       /\ c.sent \in Gift /\ c.sent.round = c.target
       /\ c.sent.phrase # None => c.sent.phrase.slot \in c.peer.missing
  /\ c.stage = "Ack" =>
       /\ c.received \in Gift /\ c.received.round = n
       /\ c.received.phrase # None => c.received.phrase.slot \in c.own.missing

CentralsKnow == \A n \in Node : central[n] # None => StageKnown(n, central[n])

(* The request of the exchange a central is in is the one it waits for,    *)
(* and there is one of each exchange on the way.                           *)
Awaited(r) ==
  central[r.client] # None /\ central[r.client].exchange = r.exchange =>
    /\ central[r.client].waiting /\ answer[r.client] = None
    /\ r.target = central[r.client].target
    /\ r.body = Request(central[r.client])

RequestsKnown ==
  /\ \A r \in inflight : r.client # r.target /\ r.exchange <= attempts /\ Awaited(r)
  /\ \A q, r \in inflight : q.client = r.client /\ q.exchange = r.exchange => q = r

(* An answer is waited for, and a READ that succeeds brings a fragment.    *)
AnswersKnown ==
  \A n \in Node :
    answer[n] # None =>
      /\ central[n] # None /\ central[n].waiting
      /\ answer[n].ok /\ Request(central[n]) = ReadTx => answer[n].fragment \in Fragment

NetInv ==
  IInv /\ NetTyped /\ RolesKept /\ CentralsKnow /\ RequestsKnown /\ AnswersKnown

-----------------------------------------------------------------------------
(* What the central's operators return. *)

LEMMA RequestBody ==
  ASSUME NEW n \in Node, NEW c \in Central, StageKnown(n, c), tab5 \in Fleets
  PROVE  Request(c) \in Body
<1>1. CASE c.stage = "Info"
  BY <1>1 DEF Request, Body
<1>2. CASE c.stage = "SendProfile"
  <2>1. c.own \in Packet
    BY <1>2, OwnProfileType DEF StageKnown
  <2> QED
    BY <1>2, <2>1 DEF Request, Body, Data, Fragment, Central
<1>3. CASE c.stage = "SendGift"
  <2>1. c.sent \in Packet
    BY <1>3 DEF StageKnown, Packet
  <2> QED
    BY <1>3, <2>1 DEF Request, Body, Data, Fragment, Central
<1>4. CASE c.stage \in {"ReadProfile", "ReadGift"}
  <2>1. Request(c) = IF c.step % 2 = 0 THEN Select(c.exchange, c.step \div 2) ELSE ReadTx
    BY <1>4 DEF Request
  <2>2. c.step \div 2 \in Nat /\ c.exchange \in ExchangeId
    BY DEF Central
  <2> QED
    BY <2>1, <2>2 DEF Body, Select
<1>5. CASE c.stage = "Ack"
  BY <1>5 DEF Request, Body, Ack, Central
<1> QED
  BY <1>1, <1>2, <1>3, <1>4, <1>5 DEF Central, Stage

LEMMA RequestWaiting ==
  ASSUME NEW c \in Central
  PROVE  /\ [c EXCEPT !.waiting = TRUE] \in Central
         /\ Request([c EXCEPT !.waiting = TRUE]) = Request(c)
BY DEF Central, Request

LEMMA EnterStageType ==
  ASSUME NEW c \in Central, NEW stage \in Stage
  PROVE  LET d == EnterStage(c, stage)
         IN  /\ d \in Central /\ d.stage = stage /\ ~d.waiting /\ d.step = 0
             /\ d.target = c.target /\ d.exchange = c.exchange /\ d.own = c.own
             /\ d.peer = c.peer /\ d.sent = c.sent /\ d.received = c.received
             /\ d.incoming = EmptyAssembler
BY EmptyAssemblerType DEF EnterStage, Central

LEMMA NextStepType ==
  ASSUME NEW c \in Central
  PROVE  LET d == NextStep(c)
         IN  /\ d \in Central /\ d.stage = c.stage /\ ~d.waiting /\ d.step = c.step + 1
             /\ d.target = c.target /\ d.exchange = c.exchange /\ d.own = c.own
             /\ d.peer = c.peer /\ d.sent = c.sent /\ d.received = c.received
             /\ d.incoming = c.incoming
<1>1. c.step \in Nat /\ c.step + 1 \in Nat
  BY DEF Central
<1>2. NextStep(c) = [c EXCEPT !.step = c.step + 1, !.waiting = FALSE]
  BY DEF NextStep
<1> QED
  BY <1>1, <1>2 DEF Central

LEMMA ServedRequest ==
  ASSUME NetTyped, NEW r \in inflight
  PROVE  /\ r.client \in Node /\ r.client \in Client /\ r.target \in Node
         /\ r.exchange \in ExchangeId /\ r.body \in Body
         /\ r.body \notin {Info, ReadTx} => WellTyped(r.body)
<1>1. r \in Message
  BY DEF NetTyped
<1> QED
  BY <1>1, NetworkAssumption DEF Message, Body, Fragment, WellTyped

-----------------------------------------------------------------------------
(* The invariant of the States is kept. *)

(* The central records what its own checks let pass.                       *)
LEMMA CentralRecordIInv ==
  ASSUME IInv, NEW n \in Node, session[n] = None, NEW peer \in Profile, NEW sent \in Gift,
         NEW received \in Gift, Record(n, peer, sent, received), UNCHANGED <<enabled, session>>
  PROVE  IInv'
<1>1. TypeOK'
  BY RecordTypeOK DEF IInv, TypeOK
<1>2. ASSUME NEW m \in Node, session'[m] # None PROVE Sound(m, session[m])'
  <2>1. session'[m] = session[m] /\ m # n
    BY <1>2
  <2>2. sentence'[m] = sentence[m]
    BY <2>1 DEF Record, IInv, TypeOK
  <2>3. Sound(m, session[m])
    BY <1>2, <2>1 DEF IInv, LeaseInv
  <2> QED
    BY <2>1, <2>2, <2>3 DEF Sound, WellFormed, PeerSettled, GiftSettled, CommitSettled,
       SlotFree, AllRead, ReplyFrames
<1> QED
  BY <1>1, <1>2 DEF IInv, LeaseInv

LEMMA ServeIInv ==
  ASSUME IInv, NetTyped, NEW r \in inflight, Serve(r)
  PROVE  IInv'
<1> DEFINE p == r.target  c == r.client  f == r.body
<1>1. p \in Node /\ c \in Client /\ (f \notin {Info, ReadTx} => WellTyped(f))
  BY ServedRequest
<1>2. CASE ServeInfo(r)
  BY <1>1, <1>2, RoleIInv DEF ServeInfo
<1>3. CASE ServeRead(r)
  BY <1>1, <1>3, RoleIInv, ReadIInv DEF ServeRead, RefuseRead
<1>4. CASE ServeWrite(r)
  <2>1. WellTyped(f) /\ (WriteOk(p, c, f) \/ WriteError(p, c, f))
    BY <1>1, <1>4 DEF ServeWrite
  <2> HIDE DEF p, c, f
  <2> QED
    BY <1>1, <2>1, BeginIInv, AppendIInv, AcceptProfileIInv, AcceptGiftIInv, SelectIInv,
       AcknowledgeIInv, StutterIInv, RoleIInv
       DEF WriteOk, WriteError, AcknowledgeAgain, RefuseWrite
<1> QED
  BY <1>2, <1>3, <1>4 DEF Serve

(* The central's actions leave the States alone but for OnAck.             *)
LEMMA CentralLeavesState ==
  ASSUME NEW n \in Node, CentralStep(n) \/ Abort(n)
  PROVE  OnAck(n) \/ UNCHANGED vars
BY DEF CentralStep, Abort, Send, Failed, OnInfo, Tab5OnInfo, Tab5OnFirstData, OnSent, OnSelected,
   OnFragment, OnProfile, OnGift

LEMMA OnAckIInv ==
  ASSUME NetInv, NEW n \in Node, OnAck(n)
  PROVE  IInv'
<1> DEFINE c == central[n]
<1>1. c # None /\ c.stage = "Ack"
  BY DEF OnAck, Answered, NetInv, AnswersKnown
<1>2. c.peer \in Profile /\ c.sent \in Gift /\ c.received \in Gift /\ session[n] = None
  BY <1>1 DEF NetInv, CentralsKnow, StageKnown, RolesKept
<1>3. \/ Record(n, c.peer, c.sent, c.received) /\ UNCHANGED <<enabled, session>>
      \/ UNCHANGED vars
  BY DEF OnAck, Settled
<1> QED
  BY <1>2, <1>3, CentralRecordIInv, StutterIInv DEF NetInv

LEMMA Tab5DisconnectedIInv ==
  ASSUME IInv, NEW n \in Node, Tab5Disconnected(n)
  PROVE  IInv'
BY SoundUpdate DEF Tab5Disconnected

LEMMA NetIInv ==
  ASSUME NetInv, [NetNext]_netvars
  PROVE  IInv'
<1> USE DEF NetInv
<1>1. CASE NetTick
  BY <1>1, TickIInv DEF NetTick
<1>2. ASSUME NEW n \in Node,
             \/ EnterPeripheral(n) \/ StopAdvertising(n) \/ LeaveWhenIdle(n)
             \/ Tab5LeavesWhenIdle(n) \/ Tab5Quits(n) \/ FailedSlot(n) \/ PowerOff(n)
             \/ NetExpire(n) \/ Tab5Disconnected(n)
      PROVE  IInv'
  BY <1>2, RoleIInv, StutterIInv, Tab5DisconnectedIInv DEF EnterPeripheral, StopAdvertising,
     LeaveWhenIdle, Tab5LeavesWhenIdle, Tab5Quits, FailedSlot, PowerOff, NetExpire
<1>3. ASSUME NEW n \in Node, NEW p \in Node, Connect(n, p)
      PROVE  IInv'
  BY <1>3, StutterIInv DEF Connect
<1>4. ASSUME NEW n \in Node, CentralStep(n) \/ Abort(n)
      PROVE  IInv'
  BY <1>4, CentralLeavesState, OnAckIInv, StutterIInv
<1>5. ASSUME NEW r \in inflight, Serve(r) \/ LoseRequest(r)
      PROVE  IInv'
  BY <1>5, ServeIInv, StutterIInv DEF LoseRequest
<1>6. CASE UNCHANGED netvars
  BY <1>6, StutterIInv DEF netvars
<1> QED
  BY <1>1, <1>2, <1>3, <1>4, <1>5, <1>6 DEF NetNext

-----------------------------------------------------------------------------
(* The central's progress: an answer takes it to a state in which its      *)
(* stage is known again, or ends the exchange.                             *)

Advanced(n, c) ==
  /\ c \in Central /\ StageKnown(n, c) /\ ~c.waiting
  /\ c.exchange = central[n].exchange /\ c.target = central[n].target

Progress(n) ==
  \E c : /\ Proceed(n, c)
         /\ c = None \/ (answer[n] # None /\ Advanced(n, c))

LEMMA AnsweredCentral ==
  ASSUME NetInv, NEW n \in Node, answer[n] # None
  PROVE  /\ central[n] # None /\ central[n] \in Central
         /\ StageKnown(n, central[n])
BY DEF NetInv, NetTyped, AnswersKnown, CentralsKnow

LEMMA InfoProgress ==
  ASSUME NetInv, NEW n \in Node, OnInfo(n) \/ Tab5OnInfo(n) \/ Tab5OnFirstData(n)
  PROVE  Progress(n)
<1> DEFINE c == central[n]
<1>1. answer[n] # None
  BY DEF OnInfo, Tab5OnInfo, Tab5OnFirstData, Answered
<1>2. c \in Central /\ StageKnown(n, c)
  BY <1>1, AnsweredCentral
<1> HIDE DEF c
<1>3. CASE OnInfo(n)
  <2> DEFINE e == EnterStage(c, "SendProfile")
             d == [e EXCEPT !.own = OwnProfile(n)]
  <2>1. Proceed(n, None) \/ Proceed(n, d)
    BY <1>3 DEF OnInfo, c
  <2>2. /\ e \in Central /\ e.stage = "SendProfile" /\ ~e.waiting
        /\ e.target = c.target /\ e.exchange = c.exchange
    BY <1>2, EnterStageType DEF Stage
  <2> HIDE DEF e
  <2>3. /\ d \in Central /\ d.stage = "SendProfile" /\ ~d.waiting /\ d.own = OwnProfile(n)
        /\ d.target = c.target /\ d.exchange = c.exchange
    BY <2>2, OwnProfileType DEF Central
  <2> HIDE DEF d
  <2>4. StageKnown(n, d)
    BY <1>2, <2>3 DEF StageKnown
  <2> QED
    BY <1>1, <2>1, <2>3, <2>4 DEF Progress, Advanced, c
<1>4. CASE Tab5OnInfo(n)
  <2> DEFINE e == EnterStage(c, "SendProfile")
             d == NextStep(e)
  <2>1. Proceed(n, None) \/ Proceed(n, d)
    BY <1>4 DEF Tab5OnInfo, c
  <2>2. n \in tab5
    BY <1>4 DEF Tab5OnInfo
  <2>3. /\ e \in Central /\ e.stage = "SendProfile" /\ e.own = c.own
        /\ e.target = c.target /\ e.exchange = c.exchange
    BY <1>2, EnterStageType DEF Stage
  <2> HIDE DEF e
  <2>4. /\ d \in Central /\ d.stage = "SendProfile" /\ ~d.waiting /\ d.own = c.own
        /\ d.target = c.target /\ d.exchange = c.exchange
    BY <2>3, NextStepType
  <2> HIDE DEF d
  <2>5. StageKnown(n, d)
    BY <1>2, <2>2, <2>4 DEF StageKnown
  <2> QED
    BY <1>1, <2>1, <2>4, <2>5 DEF Progress, Advanced, c
<1>5. CASE Tab5OnFirstData(n)
  <2> DEFINE d == EnterStage(c, "Info")
  <2>1. Proceed(n, d) /\ n \in tab5
    BY <1>5 DEF Tab5OnFirstData, c
  <2>2. /\ d \in Central /\ d.stage = "Info" /\ ~d.waiting /\ d.own = c.own
        /\ d.target = c.target /\ d.exchange = c.exchange
    BY <1>2, EnterStageType DEF Stage
  <2> HIDE DEF d
  <2>3. StageKnown(n, d)
    BY <1>2, <2>1, <2>2 DEF StageKnown
  <2> QED
    BY <1>1, <2>1, <2>2, <2>3 DEF Progress, Advanced, c
<1> QED
  BY <1>3, <1>4, <1>5

(* The next step, and the next stage of a transfer.                        *)
LEMMA StepKnown ==
  ASSUME NEW n \in Node, NEW c \in Central, StageKnown(n, c)
  PROVE  NextStep(c) \in Central /\ StageKnown(n, NextStep(c))
BY NextStepType DEF StageKnown

LEMMA StageEntered ==
  ASSUME NEW n \in Node, NEW c \in Central, StageKnown(n, c),
         NEW stage \in {"ReadProfile", "ReadGift"}, stage = "ReadGift" => c.stage = "SendGift",
         c.stage # "Info"
  PROVE  EnterStage(c, stage) \in Central /\ StageKnown(n, EnterStage(c, stage))
<1> stage \in Stage
  BY DEF Stage
<1> QED
  BY EnterStageType DEF StageKnown

LEMMA TransferProgress ==
  ASSUME NetInv, NEW n \in Node,
         \/ OnSent(n, "SendProfile", central[n].own, "ReadProfile")
         \/ OnSent(n, "SendGift", central[n].sent, "ReadGift")
         \/ OnSelected(n, "ReadProfile") \/ OnSelected(n, "ReadGift")
  PROVE  Progress(n)
<1> DEFINE c == central[n]
<1>1. answer[n] # None
  BY DEF OnSent, OnSelected, Answered
<1>2. c \in Central /\ StageKnown(n, c)
  BY <1>1, AnsweredCentral
<1>3. Proceed(n, NextStep(c)) \/ Proceed(n, EnterStage(c, "ReadProfile"))
      \/ (c.stage = "SendGift" /\ Proceed(n, EnterStage(c, "ReadGift")))
  BY DEF OnSent, OnSelected, Answered
<1>4. c.stage # "Info"
  BY DEF OnSent, OnSelected, Answered
<1> HIDE DEF c
<1>5. CASE Proceed(n, NextStep(c))
  BY <1>1, <1>2, <1>5, StepKnown, NextStepType DEF Progress, Advanced, c
<1>6. CASE Proceed(n, EnterStage(c, "ReadProfile"))
  BY <1>1, <1>2, <1>4, <1>6, StageEntered, EnterStageType DEF Progress, Advanced, c, Stage
<1>7. CASE c.stage = "SendGift" /\ Proceed(n, EnterStage(c, "ReadGift"))
  BY <1>1, <1>2, <1>4, <1>7, StageEntered, EnterStageType DEF Progress, Advanced, c, Stage
<1> QED
  BY <1>3, <1>5, <1>6, <1>7

(* A READ's answer is a fragment.                                          *)
LEMMA FragmentRead ==
  ASSUME NetInv, NEW n \in Node, answer[n] # None, answer[n].ok,
         central[n].stage \in {"ReadProfile", "ReadGift"}, central[n].step % 2 = 1
  PROVE  /\ answer[n].fragment \in Fragment
         /\ Pushed(central[n].incoming, answer[n].fragment) \in Assembler
<1>1. central[n] \in Central
  BY AnsweredCentral
<1>2. Request(central[n]) = ReadTx
  BY DEF Request
<1>3. answer[n].fragment \in Fragment
  BY <1>2 DEF NetInv, AnswersKnown
<1> QED
  BY <1>1, <1>3, PushedType DEF Fragment, Central

LEMMA FragmentProgress ==
  ASSUME NetInv, NEW n \in Node, OnFragment(n, "ReadProfile") \/ OnFragment(n, "ReadGift")
  PROVE  Progress(n)
<1> DEFINE c == central[n]
           inc == Pushed(c.incoming, answer[n].fragment)
           d == [NextStep(c) EXCEPT !.incoming = inc]
<1>1. /\ answer[n] # None /\ answer[n].ok /\ c.stage \in {"ReadProfile", "ReadGift"}
      /\ c.step % 2 = 1 /\ (Proceed(n, None) \/ Proceed(n, d))
  BY DEF OnFragment, Answered
<1>2. c \in Central /\ StageKnown(n, c) /\ inc \in Assembler
  BY <1>1, AnsweredCentral, FragmentRead
<1> HIDE DEF inc, c
<1>3. /\ d \in Central /\ d.stage = c.stage /\ ~d.waiting /\ d.own = c.own
      /\ d.target = c.target /\ d.exchange = c.exchange /\ d.peer = c.peer /\ d.sent = c.sent
      /\ d.received = c.received
  BY <1>2, NextStepType DEF Central
<1> HIDE DEF d
<1>4. StageKnown(n, d)
  BY <1>2, <1>3 DEF StageKnown
<1> QED
  BY <1>1, <1>3, <1>4 DEF Progress, Advanced, c

LEMMA ReplyType ==
  ASSUME NetInv, NEW n \in Node, NEW stage \in {"ReadProfile", "ReadGift"},
         LastFragment(n, stage)
  PROVE  /\ answer[n] # None /\ central[n] \in Central /\ StageKnown(n, central[n])
         /\ central[n].stage = stage /\ Reply(n) \in Packet \cup {None}
<1>1. /\ answer[n] # None /\ answer[n].ok /\ central[n].stage = stage
      /\ central[n].step % 2 = 1
  BY DEF LastFragment, Answered
<1>2. Pushed(central[n].incoming, answer[n].fragment) \in Assembler
  BY <1>1, FragmentRead
<1> QED
  BY <1>1, <1>2, AnsweredCentral DEF Reply, Assembler

LEMMA ProfileProgress ==
  ASSUME NetInv, NEW n \in Node, OnProfile(n)
  PROVE  Progress(n)
<1> DEFINE c == central[n]  p == Reply(n)  e == EnterStage(c, "SendGift")
<1>1. /\ answer[n] # None /\ c \in Central /\ StageKnown(n, c) /\ c.stage = "ReadProfile"
      /\ p \in Packet \cup {None}
  BY ReplyType DEF OnProfile
<1>2. CASE ProfileFits(n, p)
  <2>1. PICK phrase \in Choices(n, p.missing) :
           Proceed(n, [e EXCEPT !.peer = p, !.sent = GiftFor(p, phrase)])
    BY <1>2 DEF OnProfile
  <2>2. p \in Profile /\ p.node = c.target
    BY <1>1, <1>2 DEF ProfileFits, Packet, Gift
  <2>3. n \in Peer /\ p.missing \in SUBSET Slot
    BY <2>2, ExchangeAssumption DEF Profile
  <2>4. phrase # None => phrase \in Phrase /\ phrase.slot \in p.missing
    BY <2>1, <2>3, ChoicesType
  <2> DEFINE g == GiftFor(p, phrase)
             d == [e EXCEPT !.peer = p, !.sent = g]
  <2>5. g \in Gift /\ g.round = c.target /\ g.phrase = phrase
    BY <2>2, <2>4 DEF GiftFor, Gift, Profile
  <2>6. /\ e \in Central /\ e.stage = "SendGift" /\ ~e.waiting /\ e.own = c.own
        /\ e.target = c.target /\ e.exchange = c.exchange
    BY <1>1, EnterStageType DEF Stage
  <2>7. Proceed(n, d)
    BY <2>1
  <2> HIDE DEF e, g, p
  <2>8. /\ d \in Central /\ d.stage = "SendGift" /\ ~d.waiting /\ d.own = c.own
        /\ d.target = c.target /\ d.exchange = c.exchange /\ d.peer = p /\ d.sent = g
    BY <2>2, <2>5, <2>6 DEF Central
  <2> HIDE DEF d
  <2>9. StageKnown(n, d)
    BY <1>1, <2>2, <2>4, <2>5, <2>8 DEF StageKnown
  <2> QED
    BY <1>1, <2>7, <2>8, <2>9 DEF Progress, Advanced
<1>3. CASE ~ProfileFits(n, p)
  BY <1>3 DEF OnProfile, Progress
<1> QED
  BY <1>2, <1>3

LEMMA GiftProgress ==
  ASSUME NetInv, NEW n \in Node, OnGift(n)
  PROVE  Progress(n)
<1> DEFINE c == central[n]  p == Reply(n)  e == EnterStage(c, "Ack")
           d == [e EXCEPT !.received = p]
<1>1. /\ answer[n] # None /\ c \in Central /\ StageKnown(n, c) /\ c.stage = "ReadGift"
      /\ p \in Packet \cup {None}
  BY ReplyType DEF OnGift
<1>2. CASE GiftFits(n, p)
  <2>1. Proceed(n, d)
    BY <1>2 DEF OnGift
  <2>2. p \in Gift /\ p.round = n /\ (p.phrase # None => p.phrase.slot \in c.own.missing)
    BY <1>1, <1>2 DEF GiftFits, Packet, Profile
  <2>3. /\ e \in Central /\ e.stage = "Ack" /\ ~e.waiting /\ e.own = c.own
        /\ e.target = c.target /\ e.exchange = c.exchange /\ e.peer = c.peer /\ e.sent = c.sent
    BY <1>1, EnterStageType DEF Stage
  <2> HIDE DEF e, p
  <2>4. /\ d \in Central /\ d.stage = "Ack" /\ ~d.waiting /\ d.own = c.own /\ d.received = p
        /\ d.target = c.target /\ d.exchange = c.exchange /\ d.peer = c.peer /\ d.sent = c.sent
    BY <2>2, <2>3 DEF Central
  <2> HIDE DEF d
  <2>5. StageKnown(n, d)
    BY <1>1, <2>2, <2>4 DEF StageKnown
  <2> QED
    BY <1>1, <2>1, <2>4, <2>5 DEF Progress, Advanced
<1>3. CASE ~GiftFits(n, p)
  BY <1>3 DEF OnGift, Progress
<1> QED
  BY <1>2, <1>3

-----------------------------------------------------------------------------
(* Every step keeps the rest of the invariant. *)

NetRest == NetTyped /\ RolesKept /\ CentralsKnow /\ RequestsKnown /\ AnswersKnown

(* What a central knows stays true while its own sentence is the same.     *)
LEMMA KnowledgeKept ==
  ASSUME NetInv, NEW n \in Node, central[n] # None, UNCHANGED <<central[n], sentence[n], tab5>>,
         attempts' \in Nat, attempts' >= attempts
  PROVE  StageKnown(n, central[n])'
<1>1. central[n] \in Central /\ StageKnown(n, central[n]) /\ attempts \in Nat
  BY DEF NetInv, NetTyped, CentralsKnow
<1>2. OwnProfile(n)' = OwnProfile(n)
  BY DEF OwnProfile, Missing
<1>3. central[n].exchange \in Nat
  BY <1>1, NetworkAssumption DEF Central
<1>4. central'[n].exchange <= attempts'
  BY <1>1, <1>3 DEF StageKnown
<1> QED
  BY <1>1, <1>2, <1>4 DEF StageKnown

(* The steps of the peripheral's side alone.                               *)
LEMMA PeripheralRest ==
  ASSUME NetInv, UNCHANGED <<central, link, attempts, tab5, sentence>>,
         role' \in [Node -> {"Central", "Peripheral", "Draining"}], RolesKept'
  PROVE  NetRest'
<1>1. NetTyped'
  BY DEF NetInv, NetTyped, link
<1>2. CentralsKnow'
  <2>1. ASSUME NEW n \in Node, central[n] # None PROVE StageKnown(n, central[n])'
    <3>1. central[n] \in Central /\ StageKnown(n, central[n]) /\ attempts \in Nat
      BY <2>1 DEF NetInv, NetTyped, CentralsKnow
    <3>2. OwnProfile(n)' = OwnProfile(n)
      BY DEF OwnProfile, Missing
    <3> QED
      BY <3>1, <3>2 DEF StageKnown
  <2> QED
    BY <2>1 DEF CentralsKnow
<1>3. RequestsKnown' /\ AnswersKnown'
  BY DEF NetInv, RequestsKnown, Awaited, AnswersKnown, link, Request
<1> QED
  BY <1>1, <1>2, <1>3 DEF NetRest

LEMMA RoleStepRest ==
  ASSUME NetInv, NEW n \in Node,
         \/ EnterPeripheral(n) \/ StopAdvertising(n) \/ LeaveWhenIdle(n)
         \/ Tab5LeavesWhenIdle(n) \/ Tab5Quits(n) \/ FailedSlot(n) \/ PowerOff(n)
         \/ NetExpire(n) \/ Tab5Disconnected(n)
  PROVE  NetRest'
<1> USE DEF NetInv
<1>1. UNCHANGED <<central, link, attempts, tab5, sentence>>
  BY DEF EnterPeripheral, StopAdvertising, LeaveWhenIdle, Tab5LeavesWhenIdle, Tab5Quits,
     FailedSlot, PowerOff, NetExpire, Tab5Disconnected, Enable, DisableIfIdle, Shutdown, Expire,
     book, vars
<1>2. /\ enabled \in [Node -> BOOLEAN] /\ session \in [Node -> Session \cup {None}]
      /\ role \in [Node -> {"Central", "Peripheral", "Draining"}]
  BY DEF IInv, TypeOK, NetTyped
<1>3. role' \in [Node -> {"Central", "Peripheral", "Draining"}]
  BY <1>2 DEF EnterPeripheral, StopAdvertising, LeaveWhenIdle, Tab5LeavesWhenIdle, Tab5Quits,
     FailedSlot, PowerOff, NetExpire, Tab5Disconnected
<1>4. RolesKept'
  <2>1. CASE EnterPeripheral(n)
    BY <1>2, <2>1 DEF EnterPeripheral, Enable, RolesKept
  <2>2. CASE StopAdvertising(n)
    BY <1>2, <2>2 DEF StopAdvertising, vars, RolesKept
  <2>3. CASE LeaveWhenIdle(n) \/ Tab5LeavesWhenIdle(n)
    <3>1. DisableIfIdle(n) /\ central' = central /\ role[n] # "Central"
          /\ role' = [role EXCEPT ![n] = IF Live(n) = None THEN "Central" ELSE @]
      BY <2>3 DEF LeaveWhenIdle, Tab5LeavesWhenIdle
    <3> DEFINE on == enabled[n] /\ Live(n) # None
    <3>2. enabled' = [enabled EXCEPT ![n] = on] /\ session' = [session EXCEPT ![n] = Live(n)]
      BY <3>1 DEF DisableIfIdle
    <3>3. role'[n] = "Central" => ~on /\ Live(n) = None
      BY <1>2, <3>1
    <3> HIDE DEF on
    <3>4. \A m \in Node \ {n} : role'[m] = role[m] /\ enabled'[m] = enabled[m]
                                 /\ session'[m] = session[m]
      BY <1>2, <3>1, <3>2
    <3>5. central[n] = None /\ (enabled'[n] <=> on) /\ session'[n] = Live(n)
      BY <1>2, <3>1, <3>2 DEF RolesKept
    <3> QED
      BY <3>1, <3>3, <3>4, <3>5 DEF RolesKept
  <2>4. CASE FailedSlot(n) \/ Tab5Quits(n)
    BY <1>2, <2>4 DEF FailedSlot, Tab5Quits, Shutdown, RolesKept
  <2>5. CASE PowerOff(n)
    BY <1>2, <2>5 DEF PowerOff, Shutdown, RolesKept
  <2>6. CASE NetExpire(n)
    BY <1>2, <2>6 DEF NetExpire, Expire, Live, RolesKept
  <2>7. CASE Tab5Disconnected(n)
    BY <1>2, <2>7 DEF Tab5Disconnected, RolesKept
  <2> QED
    BY <2>1, <2>2, <2>3, <2>4, <2>5, <2>6, <2>7
<1> QED
  BY <1>1, <1>3, <1>4, PeripheralRest

LEMMA TickRest ==
  ASSUME NetInv, NetTick
  PROVE  NetRest'
<1>1. UNCHANGED <<central, link, attempts, tab5, sentence, role, enabled>>
  BY DEF NetTick, Tick
<1>2. \A n \in Node : session[n] = None => session'[n] = None
  BY DEF NetTick, Tick
<1>3. RolesKept'
  BY <1>1, <1>2 DEF NetInv, RolesKept
<1> QED
  BY <1>1, <1>3, PeripheralRest DEF NetInv, NetTyped

-----------------------------------------------------------------------------

(* A new exchange has a number nobody has used.                            *)
LEMMA ConnectRest ==
  ASSUME NetInv, NEW n \in Node, NEW p \in Node, Connect(n, p)
  PROVE  NetRest'
<1> DEFINE x == attempts + 1
           c == IF n \in tab5 THEN Tab5Connected(n, p, x) ELSE Connected(p, x)
<1>1. /\ role[n] = "Central" /\ central[n] = None /\ n # p /\ x \in ExchangeId
      /\ attempts' = x /\ central' = [central EXCEPT ![n] = c]
      /\ UNCHANGED <<vars, role, link, tab5>>
  BY DEF Connect
<1>2. attempts \in Nat /\ x > attempts
  BY DEF NetInv, NetTyped
<1>3. Connected(p, x) \in Central
  BY <1>1, EmptyAssemblerType DEF Connected, Central, Stage
<1>4. /\ c \in Central /\ c.exchange = x /\ c.target = p /\ ~c.waiting
      /\ c.stage \in {"Info", "SendProfile"}
      /\ c.stage # "Info" \/ n \in tab5 => c.own = OwnProfile(n)
  <2>1. CASE n \in tab5
    <3>1. c = [Connected(p, x) EXCEPT !.stage = "SendProfile", !.own = OwnProfile(n)]
      BY <2>1 DEF Tab5Connected
    <3> QED
      BY <1>3, <2>1, <3>1, OwnProfileType DEF Central, Stage, Connected
  <2>2. CASE n \notin tab5
    BY <1>3, <2>2 DEF Connected
  <2> QED
    BY <2>1, <2>2
<1> HIDE DEF c
<1>5. \A m \in Node : central'[m] = IF m = n THEN c ELSE central[m]
  BY <1>1 DEF NetInv, NetTyped
<1>6. NetTyped'
  BY <1>1, <1>2, <1>4 DEF NetInv, NetTyped, link
<1>7. RolesKept'
  BY <1>1, <1>5 DEF NetInv, RolesKept, vars
<1>8. sentence' = sentence
  BY <1>1 DEF vars
<1>9. CentralsKnow'
  <2>1. OwnProfile(n)' = OwnProfile(n)
    BY <1>8 DEF OwnProfile, Missing
  <2>2. x \in Nat
    BY <1>2
  <2>3. StageKnown(n, central[n])'
    BY <1>1, <1>4, <1>5, <2>1, <2>2 DEF StageKnown
  <2>4. ASSUME NEW m \in Node, m # n, central'[m] # None PROVE StageKnown(m, central[m])'
    BY <1>1, <1>2, <1>5, <1>8, <2>4, KnowledgeKept
  <2> QED
    BY <2>3, <2>4 DEF CentralsKnow
<1>10. RequestsKnown'
  <2>1. ASSUME NEW r \in inflight PROVE r.exchange \in Nat /\ r.exchange <= attempts
    BY NetworkAssumption DEF NetInv, NetTyped, Message, RequestsKnown
  <2>2. ASSUME NEW r \in inflight PROVE Awaited(r)'
    <3>1. r.client \in Node /\ Awaited(r) /\ r.exchange # x
      BY <1>2, <2>1, <2>2 DEF NetInv, NetTyped, Message, RequestsKnown
    <3>2. CASE r.client = n
      BY <1>4, <1>5, <3>1, <3>2 DEF Awaited
    <3>3. CASE r.client # n
      BY <1>1, <1>5, <3>1, <3>3 DEF Awaited, link, Request
    <3> QED
      BY <3>2, <3>3
  <2>3. inflight' = inflight /\ (\A r \in inflight : r.exchange <= attempts')
    BY <1>1, <1>2, <2>1 DEF link
  <2> QED
    BY <2>2, <2>3 DEF NetInv, RequestsKnown
<1>11. AnswersKnown'
  <2>1. answer' = answer /\ answer[n] = None
    BY <1>1 DEF NetInv, AnswersKnown, link
  <2> QED
    BY <1>5, <2>1 DEF NetInv, AnswersKnown, Request
<1> QED
  BY <1>6, <1>7, <1>9, <1>10, <1>11 DEF NetRest

(* The exchange of one central ends or goes on, and its answer is used.    *)
LEMMA ProceedRest ==
  ASSUME NetInv, NEW n \in Node, NEW c, Proceed(n, c), central[n] # None,
         c = None \/ (answer[n] # None /\ Advanced(n, c)),
         UNCHANGED <<enabled, session>>,
         sentence'[n] = sentence[n] \/ c = None,
         \A m \in Node \ {n} : sentence'[m] = sentence[m]
  PROVE  NetRest'
<1>1. /\ central' = [central EXCEPT ![n] = c] /\ answer' = [answer EXCEPT ![n] = None]
      /\ UNCHANGED <<role, inflight, attempts, tab5>>
  BY DEF Proceed
<1>2. /\ \A m \in Node : central'[m] = IF m = n THEN c ELSE central[m]
      /\ \A m \in Node : answer'[m] = IF m = n THEN None ELSE answer[m]
  BY <1>1 DEF NetInv, NetTyped
<1>3. attempts \in Nat
  BY DEF NetInv, NetTyped
<1>4. NetTyped'
  BY <1>1 DEF NetInv, NetTyped, Advanced
<1>5. RolesKept'
  BY <1>1, <1>2 DEF NetInv, RolesKept
<1>6. CentralsKnow'
  <2>1. ASSUME c # None PROVE StageKnown(n, central[n])'
    <3>1. OwnProfile(n)' = OwnProfile(n)
      BY <2>1 DEF OwnProfile, Missing
    <3>2. StageKnown(n, c)
      BY <2>1 DEF Advanced
    <3> QED
      BY <1>1, <1>2, <3>1, <3>2 DEF StageKnown
  <2>2. ASSUME NEW m \in Node, m # n, central'[m] # None PROVE StageKnown(m, central[m])'
    BY <1>1, <1>2, <1>3, <2>2, KnowledgeKept
  <2> QED
    BY <1>2, <2>1, <2>2 DEF CentralsKnow
<1>7. RequestsKnown'
  <2>1. ASSUME NEW r \in inflight PROVE Awaited(r)'
    <3>1. r.client \in Node /\ Awaited(r)
      BY DEF NetInv, NetTyped, Message, RequestsKnown
    <3>2. CASE r.client = n
      BY <1>2, <3>1, <3>2 DEF Awaited, Advanced
    <3>3. CASE r.client # n
      BY <1>2, <3>1, <3>3 DEF Awaited, Request
    <3> QED
      BY <3>2, <3>3
  <2> QED
    BY <1>1, <2>1 DEF NetInv, RequestsKnown
<1>8. AnswersKnown'
  BY <1>2 DEF NetInv, AnswersKnown, Request
<1> QED
  BY <1>4, <1>5, <1>6, <1>7, <1>8 DEF NetRest

LEMMA SendRest ==
  ASSUME NetInv, NEW n \in Node, Send(n)
  PROVE  NetRest'
<1> DEFINE c == central[n]
           d == [c EXCEPT !.waiting = TRUE]
<1>0. PICK q : q = [client |-> n, target |-> c.target, exchange |-> c.exchange,
                    body |-> Request(c)]
  OBVIOUS
<1>1. /\ c # None /\ ~c.waiting /\ inflight' = inflight \cup {q}
      /\ central' = [central EXCEPT ![n].waiting = TRUE]
      /\ UNCHANGED <<vars, role, answer, attempts, tab5>>
  BY <1>0 DEF Send
<1>2. central' = [central EXCEPT ![n] = d]
  BY <1>1
<1>3. c \in Central /\ StageKnown(n, c) /\ attempts \in Nat /\ answer[n] = None
  BY <1>1 DEF NetInv, NetTyped, CentralsKnow, AnswersKnown
<1>4. Request(c) \in Body /\ d \in Central /\ Request(d) = Request(c) /\ d.waiting
  BY <1>3, RequestBody, RequestWaiting DEF NetInv, NetTyped, Central
<1>5. /\ d.target = c.target /\ d.exchange = c.exchange /\ d.stage = c.stage /\ d.own = c.own
      /\ d.peer = c.peer /\ d.sent = c.sent /\ d.received = c.received
  BY <1>3 DEF Central
<1>6. \A m \in Node : central'[m] = IF m = n THEN d ELSE central[m]
  BY <1>2 DEF NetInv, NetTyped
<1>7. q \in Message /\ q.client # q.target /\ q.exchange <= attempts
  BY <1>0, <1>3, <1>4 DEF Message, Central, StageKnown
<1>8. \A r \in inflight : r.client = n => r.exchange # c.exchange
  BY <1>1 DEF NetInv, RequestsKnown, Awaited
<1>9. q.client = n /\ q.target = c.target /\ q.exchange = c.exchange /\ q.body = Request(c)
  BY <1>0
<1> HIDE DEF d
<1>10. NetTyped'
  BY <1>1, <1>2, <1>4, <1>7 DEF NetInv, NetTyped
<1>11. RolesKept'
  BY <1>1, <1>6 DEF NetInv, RolesKept, vars
<1>12. CentralsKnow'
  <2>1. sentence' = sentence
    BY <1>1 DEF vars
  <2>2. OwnProfile(n)' = OwnProfile(n)
    BY <2>1 DEF OwnProfile, Missing
  <2>3. StageKnown(n, central[n])'
    BY <1>1, <1>3, <1>5, <1>6, <2>2 DEF StageKnown
  <2>4. ASSUME NEW m \in Node, m # n, central'[m] # None PROVE StageKnown(m, central[m])'
    BY <1>1, <1>3, <1>6, <2>1, <2>4, KnowledgeKept
  <2> QED
    BY <2>3, <2>4 DEF CentralsKnow
<1>13. RequestsKnown'
  <2>1. ASSUME NEW r \in inflight PROVE Awaited(r)'
    <3>1. r.client \in Node /\ Awaited(r) /\ (r.client = n => r.exchange # c.exchange)
      BY <1>8 DEF NetInv, NetTyped, Message, RequestsKnown
    <3>2. CASE r.client = n
      BY <1>5, <1>6, <3>1, <3>2 DEF Awaited
    <3>3. CASE r.client # n
      BY <1>1, <1>6, <3>1, <3>3 DEF Awaited, Request
    <3> QED
      BY <3>2, <3>3
  <2>2. Awaited(q)'
    <3>1. Request(central[n])' = Request(d)
      BY <1>6 DEF Request
    <3>2. q.body = Request(central[n])'
      BY <1>4, <1>9, <3>1
    <3> QED
      BY <1>1, <1>3, <1>4, <1>5, <1>6, <1>9, <3>2 DEF Awaited
  <2>3. \A r \in inflight' : r.client # r.target /\ r.exchange <= attempts' /\ Awaited(r)'
    BY <1>1, <1>7, <2>1, <2>2 DEF NetInv, RequestsKnown
  <2>4. ASSUME NEW o \in inflight', NEW r \in inflight', o.client = r.client,
               o.exchange = r.exchange
        PROVE  o = r
    BY <1>1, <1>8, <1>9, <2>4 DEF NetInv, RequestsKnown
  <2> QED
    BY <2>3, <2>4 DEF RequestsKnown
<1>14. AnswersKnown'
  BY <1>1, <1>3, <1>6 DEF NetInv, AnswersKnown, Request
<1> QED
  BY <1>10, <1>11, <1>12, <1>13, <1>14 DEF NetRest

LEMMA CentralProgress ==
  ASSUME NetInv, NEW n \in Node, CentralStep(n) \/ Abort(n)
  PROVE  Send(n) \/ OnAck(n) \/ (Progress(n) /\ UNCHANGED vars)
<1>1. CASE Failed(n) \/ Abort(n)
  BY <1>1 DEF Failed, Abort, Progress
<1>2. CASE OnInfo(n) \/ Tab5OnInfo(n) \/ Tab5OnFirstData(n)
  BY <1>2, InfoProgress DEF OnInfo, Tab5OnInfo, Tab5OnFirstData
<1>3. CASE \/ OnSent(n, "SendProfile", central[n].own, "ReadProfile")
           \/ OnSent(n, "SendGift", central[n].sent, "ReadGift")
           \/ OnSelected(n, "ReadProfile") \/ OnSelected(n, "ReadGift")
  BY <1>3, TransferProgress DEF OnSent, OnSelected
<1>4. CASE OnFragment(n, "ReadProfile") \/ OnFragment(n, "ReadGift")
  BY <1>4, FragmentProgress DEF OnFragment
<1>5. CASE OnProfile(n)
  BY <1>5, ProfileProgress DEF OnProfile
<1>6. CASE OnGift(n)
  BY <1>6, GiftProgress DEF OnGift
<1> QED
  BY <1>1, <1>2, <1>3, <1>4, <1>5, <1>6 DEF CentralStep

LEMMA CentralRest ==
  ASSUME NetInv, NEW n \in Node, CentralStep(n) \/ Abort(n)
  PROVE  NetRest'
<1>1. CASE Send(n)
  BY <1>1, SendRest
<1>2. CASE Progress(n) /\ UNCHANGED vars
  <2>1. PICK c : Proceed(n, c) /\ (c = None \/ (answer[n] # None /\ Advanced(n, c)))
    BY <1>2 DEF Progress
  <2>2. central[n] # None \/ central' = central
    BY <2>1 DEF NetInv, NetTyped, Proceed, AnswersKnown
  <2>3. CASE central[n] # None
    BY <1>2, <2>1, <2>3, ProceedRest DEF vars, book
  <2>4. CASE central[n] = None
    <3>1. answer[n] = None /\ c = None
      BY <2>1, <2>4 DEF NetInv, AnswersKnown
    <3>2. central' = central /\ answer' = answer
      BY <2>1, <2>4, <3>1 DEF NetInv, NetTyped, Proceed
    <3> QED
      BY <1>2, <2>1, <3>2, PeripheralRest DEF Proceed, NetInv, NetTyped, RolesKept, link, vars
  <2> QED
    BY <2>3, <2>4
<1>3. CASE OnAck(n)
  <2>1. answer[n] # None /\ Proceed(n, None) /\ UNCHANGED <<enabled, session>>
    BY <1>3 DEF OnAck, Answered, Settled, vars
  <2>2. \A m \in Node \ {n} : sentence'[m] = sentence[m]
    BY <1>3 DEF OnAck, Settled, Record, vars, book, NetInv, IInv, TypeOK
  <2>3. central[n] # None
    BY <2>1 DEF NetInv, AnswersKnown
  <2> QED
    BY <2>1, <2>2, <2>3, ProceedRest
<1> QED
  BY <1>1, <1>2, <1>3, CentralProgress

(* Serving a request touches the State of its target only, and only while  *)
(* that is enabled: an expired lease apart.                                *)
LEMMA ServeTouches ==
  ASSUME NetInv, NEW r \in inflight, Serve(r)
  PROVE  /\ UNCHANGED <<role, central, attempts, tab5, enabled>>
         /\ \A m \in Node :
              \/ m = r.target /\ enabled[m]
              \/ /\ sentence'[m] = sentence[m] /\ recent'[m] = recent[m]
                 /\ session[m] = None => session'[m] = None
<1> DEFINE p == r.target
<1>1. /\ p \in Node /\ session \in [Node -> Session \cup {None}]
      /\ DOMAIN sentence = Node /\ DOMAIN recent = Node
  BY ServedRequest DEF NetInv, IInv, TypeOK
<1> HIDE DEF p
<1> DEFINE Kept == \A m \in Node :
                     \/ m = p /\ enabled[m]
                     \/ /\ sentence'[m] = sentence[m] /\ recent'[m] = recent[m]
                        /\ session[m] = None => session'[m] = None
           Local == /\ enabled[p] /\ enabled' = enabled
                    /\ \A m \in Node \ {p} : UNCHANGED <<session[m], sentence[m], recent[m]>>
<1>2. Expire(p) => enabled' = enabled /\ Kept
  BY <1>1 DEF Expire, Live, book
<1>3. Local => enabled' = enabled /\ Kept
  BY <1>1
<1>4. ASSUME Expire(p) \/ UNCHANGED vars \/ Local
      PROVE  enabled' = enabled /\ Kept
  BY <1>2, <1>3, <1>4 DEF vars
<1> HIDE DEF Kept
<1>5. UNCHANGED <<role, central, attempts, tab5>>
  BY DEF Serve, ServeInfo, ServeRead, ServeWrite, Taken
<1>6. CASE ServeInfo(r)
  BY <1>4, <1>5, <1>6 DEF ServeInfo, p, Kept
<1>7. CASE ServeRead(r)
  <2>1. ReadFragment(p, r.client) \/ Expire(p)
    BY <1>7 DEF ServeRead, RefuseRead, p
  <2>2. ReadFragment(p, r.client) => Local
    BY <1>1 DEF ReadFragment, MayRead, book
  <2> QED
    BY <1>4, <1>5, <2>1, <2>2 DEF p, Kept
<1>8. CASE ServeWrite(r)
  <2> DEFINE c == r.client  f == r.body
  <2>1. WriteOk(p, c, f) \/ WriteError(p, c, f)
    BY <1>8 DEF ServeWrite, p
  <2> HIDE DEF c, f
  <2>2. Begin(p, c, f) => Local
    BY <1>1 DEF Begin, MayBegin, book
  <2>3. Continue(p, c, f) \/ RefusePacket(p, c, f) \/ SelectFragment(p, c, f) => Local
    BY <1>1 DEF Continue, RefusePacket, SelectFragment, Leased, book
  <2>4. AcceptProfile(p, c, f) \/ AcceptGift(p, c, f) => Local
    BY <1>1 DEF AcceptProfile, AcceptGift, Leased, book
  <2>5. Acknowledge(p, c, f) => Local
    BY <1>1 DEF Acknowledge, Leased, Record
  <2>6. AcknowledgeAgain(p, c, f) => UNCHANGED vars
    BY DEF AcknowledgeAgain
  <2>7. Expire(p) \/ UNCHANGED vars \/ Local
    BY <2>1, <2>2, <2>3, <2>4, <2>5, <2>6 DEF WriteOk, WriteError, RefuseWrite
  <2> QED
    BY <1>4, <1>5, <2>7 DEF p, Kept
<1> QED
  BY <1>6, <1>7, <1>8 DEF Serve

(* A write is answered with success or failure, and nothing more.          *)
LEMMA WriteAnswered ==
  ASSUME NEW r, ServeWrite(r)
  PROVE  r.body # ReadTx /\ \E ok \in BOOLEAN : Respond(r, ok, None)
<1>1. r.body # ReadTx /\ (Respond(r, TRUE, None) \/ Respond(r, r.target \in tab5, None))
  BY DEF ServeWrite
<1>2. (r.target \in tab5) \in BOOLEAN
  OBVIOUS
<1> QED
  BY <1>1, <1>2

(* The answer goes to the central that waits for it, if it still does.     *)
LEMMA ServeAnswers ==
  ASSUME NetInv, NEW r \in inflight, Serve(r)
  PROVE  /\ inflight' = inflight \ {r}
         /\ \/ answer' = answer
            \/ \E a \in Answer :
                 /\ central[r.client] # None /\ central[r.client].exchange = r.exchange
                 /\ answer' = [answer EXCEPT ![r.client] = a]
                 /\ a.ok /\ r.body = ReadTx => a.fragment \in Fragment
<1> DEFINE Answers(ok, g) ==
      \/ answer' = answer
      \/ /\ central[r.client] # None /\ central[r.client].exchange = r.exchange
         /\ answer' = [answer EXCEPT ![r.client] = [ok |-> ok, fragment |-> g]]
<1>1. inflight' = inflight \ {r} /\ r.target \in Node
  BY ServedRequest DEF NetInv, Serve, ServeInfo, ServeRead, ServeWrite, Taken
<1>2. \A ok, g : Respond(r, ok, g) => Answers(ok, g)
  BY DEF Respond
<1>3. ASSUME NEW ok \in BOOLEAN, NEW g \in Fragment \cup {None}, Answers(ok, g),
             ok /\ r.body = ReadTx => g \in Fragment
      PROVE  \/ answer' = answer
             \/ \E a \in Answer :
                  /\ central[r.client] # None /\ central[r.client].exchange = r.exchange
                  /\ answer' = [answer EXCEPT ![r.client] = a]
                  /\ a.ok /\ r.body = ReadTx => a.fragment \in Fragment
  <2>1. [ok |-> ok, fragment |-> g] \in Answer
    BY DEF Answer
  <2> QED
    BY <1>3, <2>1
<1> HIDE DEF Answers
<1>4. CASE ServeInfo(r)
  <2> DEFINE ok == enabled[r.target] \/ r.target \in tab5
  <2>1. Respond(r, ok, None) /\ r.body = Info
    BY <1>4 DEF ServeInfo
  <2>2. ok \in BOOLEAN /\ r.body # ReadTx
    BY <2>1 DEF Info, ReadTx
  <2> HIDE DEF ok
  <2>3. Answers(ok, None)
    BY <1>2, <2>1
  <2> QED
    BY <1>1, <1>3, <2>2, <2>3
<1>5. CASE ServeRead(r)
  <2> DEFINE s == Live(r.target)
  <2>1. CASE ReadFragment(r.target, r.client)
                /\ Respond(r, TRUE, Data(s.exchange, s.reply, s.selected))
    <3>1. s \in Session /\ s.selected # None /\ s # None
      BY <1>1, <2>1, LiveType DEF ReadFragment, MayRead, NetInv, IInv
    <3>2. Sound(r.target, s)
      BY <1>1, <3>1, LiveSound DEF NetInv
    <3>3. Data(s.exchange, s.reply, s.selected) \in Fragment
      <4> HIDE DEF s
      <4>1. s.selected \in Nat /\ s.reply \in Packet \cup {None} /\ s.exchange \in ExchangeId
        BY <3>1 DEF Session
      <4>2. s.selected < ReplyFrames(s)
        BY <3>1, <3>2 DEF Sound, WellFormed
      <4>3. s.reply # None
        BY <4>1, <4>2 DEF ReplyFrames
      <4> QED
        BY <4>1, <4>3 DEF Data, Fragment
    <3> HIDE DEF s
    <3>4. Answers(TRUE, Data(s.exchange, s.reply, s.selected))
      BY <1>2, <2>1 DEF s
    <3> QED
      BY <1>1, <1>3, <3>3, <3>4
  <2>2. CASE Respond(r, FALSE, None)
    <3>1. Answers(FALSE, None)
      BY <1>2, <2>2
    <3> QED
      BY <1>1, <1>3, <3>1
  <2> QED
    BY <1>5, <2>1, <2>2 DEF ServeRead
<1>6. CASE ServeWrite(r)
  <2>1. r.body # ReadTx /\ \E ok \in BOOLEAN : Respond(r, ok, None)
    BY <1>6, WriteAnswered
  <2>2. \E ok \in BOOLEAN : Answers(ok, None)
    BY <1>2, <2>1
  <2> QED
    BY <1>1, <1>3, <2>1, <2>2
<1> QED
  BY <1>4, <1>5, <1>6 DEF Serve

LEMMA ServeRest ==
  ASSUME NetInv, NEW r \in inflight, Serve(r)
  PROVE  NetRest'
<1>1. /\ UNCHANGED <<role, central, attempts, tab5, enabled>> /\ inflight' = inflight \ {r}
      /\ r.client \in Node
  BY ServeTouches, ServeAnswers, ServedRequest DEF NetInv
<1>2. \A m \in Node :
        ~enabled[m] => sentence'[m] = sentence[m] /\ (session[m] = None => session'[m] = None)
  BY ServeTouches
<1>3. RolesKept'
  BY <1>1, <1>2 DEF NetInv, RolesKept
<1>4. CentralsKnow'
  <2>1. ASSUME NEW m \in Node, central[m] # None PROVE StageKnown(m, central[m])'
    <3>1. sentence'[m] = sentence[m] /\ attempts \in Nat
      BY <1>2, <2>1 DEF NetInv, RolesKept, NetTyped
    <3> QED
      BY <1>1, <2>1, <3>1, KnowledgeKept
  <2> QED
    BY <1>1, <2>1 DEF CentralsKnow
<1>5. CASE answer' = answer
  <2>1. NetTyped' /\ AnswersKnown'
    BY <1>1, <1>5 DEF NetInv, NetTyped, AnswersKnown, Request
  <2>2. RequestsKnown'
    BY <1>1, <1>5 DEF NetInv, RequestsKnown, Awaited, Request
  <2> QED
    BY <1>3, <1>4, <2>1, <2>2 DEF NetRest
<1>6. ASSUME NEW a \in Answer, central[r.client] # None, central[r.client].exchange = r.exchange,
             answer' = [answer EXCEPT ![r.client] = a],
             a.ok /\ r.body = ReadTx => a.fragment \in Fragment
      PROVE  NetRest'
  <2>1. NetTyped'
    BY <1>1, <1>6 DEF NetInv, NetTyped
  <2>2. \A m \in Node : answer'[m] = IF m = r.client THEN a ELSE answer[m]
    BY <1>6 DEF NetInv, NetTyped
  <2>3. central[r.client].waiting /\ r.body = Request(central[r.client])
    BY <1>6 DEF NetInv, RequestsKnown, Awaited
  <2>4. RequestsKnown'
    <3>1. ASSUME NEW q \in inflight, q # r PROVE Awaited(q)'
      <4>1. q.client \in Node /\ Awaited(q) /\ ~(q.client = r.client /\ q.exchange = r.exchange)
        BY <3>1 DEF NetInv, NetTyped, Message, RequestsKnown
      <4>2. CASE q.client = r.client
        BY <1>1, <1>6, <4>1, <4>2 DEF Awaited
      <4>3. CASE q.client # r.client
        BY <1>1, <2>2, <4>1, <4>3 DEF Awaited, Request
      <4> QED
        BY <4>2, <4>3
    <3> QED
      BY <1>1, <3>1 DEF NetInv, RequestsKnown
  <2>5. AnswersKnown'
    <3>1. ASSUME NEW m \in Node, answer'[m] # None
          PROVE  /\ central[m] # None /\ central[m].waiting
                 /\ answer'[m].ok /\ Request(central[m]) = ReadTx =>
                      answer'[m].fragment \in Fragment
      <4>1. CASE m = r.client
        BY <1>6, <2>2, <2>3, <4>1
      <4>2. CASE m # r.client
        BY <2>2, <3>1, <4>2 DEF NetInv, AnswersKnown
      <4> QED
        BY <4>1, <4>2
    <3> QED
      BY <1>1, <3>1 DEF AnswersKnown, Request
  <2> QED
    BY <1>3, <1>4, <2>1, <2>4, <2>5 DEF NetRest
<1> QED
  BY <1>5, <1>6, ServeAnswers

LEMMA LoseRequestRest ==
  ASSUME NetInv, NEW r \in inflight, LoseRequest(r)
  PROVE  NetRest'
<1>1. /\ UNCHANGED <<vars, role, central, answer, attempts, tab5>>
      /\ inflight' = inflight \ {r}
  BY DEF LoseRequest, Taken
<1>2. UNCHANGED <<enabled, session, sentence>>
  BY <1>1 DEF vars, book
<1>3. NetTyped' /\ RolesKept' /\ AnswersKnown'
  BY <1>1, <1>2 DEF NetInv, NetTyped, RolesKept, AnswersKnown, Request
<1>4. CentralsKnow'
  <2>1. ASSUME NEW m \in Node, central[m] # None PROVE StageKnown(m, central[m])'
    <3>1. /\ UNCHANGED <<central[m], sentence[m], tab5>>
          /\ attempts' = attempts /\ attempts \in Nat
      BY <1>1, <1>2 DEF NetInv, NetTyped
    <3> QED
      BY <2>1, <3>1, KnowledgeKept
  <2> QED
    BY <1>1, <2>1 DEF CentralsKnow
<1>5. RequestsKnown'
  BY <1>1 DEF NetInv, RequestsKnown, Awaited, Request
<1> QED
  BY <1>3, <1>4, <1>5 DEF NetRest

LEMMA NetInvKept ==
  ASSUME NetInv, [NetNext]_netvars
  PROVE  NetInv'
<1> SUFFICES NetRest'
  BY NetIInv DEF NetInv, NetRest
<1>1. CASE NetTick
  BY <1>1, TickRest
<1>2. ASSUME NEW n \in Node,
             \/ EnterPeripheral(n) \/ StopAdvertising(n) \/ LeaveWhenIdle(n)
             \/ Tab5LeavesWhenIdle(n) \/ Tab5Quits(n) \/ FailedSlot(n) \/ PowerOff(n)
             \/ NetExpire(n) \/ Tab5Disconnected(n)
      PROVE  NetRest'
  BY <1>2, RoleStepRest
<1>3. ASSUME NEW n \in Node, NEW p \in Node, Connect(n, p)
      PROVE  NetRest'
  BY <1>3, ConnectRest
<1>4. ASSUME NEW n \in Node, CentralStep(n) \/ Abort(n)
      PROVE  NetRest'
  BY <1>4, CentralRest
<1>5. ASSUME NEW r \in inflight, Serve(r) \/ LoseRequest(r)
      PROVE  NetRest'
  BY <1>5, ServeRest, LoseRequestRest
<1>6. CASE UNCHANGED netvars
  <2>1. UNCHANGED <<central, link, attempts, tab5, sentence>>
        /\ UNCHANGED <<role, enabled, session>>
    BY <1>6 DEF netvars, vars, book
  <2>2. role' \in [Node -> {"Central", "Peripheral", "Draining"}]
    BY <2>1 DEF NetInv, NetTyped
  <2>3. RolesKept'
    BY <2>1 DEF NetInv, RolesKept
  <2> QED
    BY <2>1, <2>2, <2>3, PeripheralRest
<1> QED
  BY <1>1, <1>2, <1>3, <1>4, <1>5, <1>6 DEF NetNext

LEMMA InitNetInv ==
  ASSUME NetInit
  PROVE  NetInv
<1>1. IInv
  BY InitIInv DEF NetInit
<1>2. NetTyped
  BY DEF NetInit, NetTyped
<1>3. RolesKept /\ CentralsKnow /\ RequestsKnown /\ AnswersKnown
  BY DEF NetInit, Init, RolesKept, CentralsKnow, RequestsKnown, AnswersKnown
<1> QED
  BY <1>1, <1>2, <1>3 DEF NetInv

(* Every device, role, exchange, request and answer stays as NetInv says.  *)
THEOREM NetInvariant == NetSpec => []NetInv
<1>1. NetInit => NetInv
  BY InitNetInv
<1>2. NetInv /\ [NetNext]_netvars => NetInv'
  BY NetInvKept
<1> QED
  BY <1>1, <1>2, PTL DEF NetSpec

-----------------------------------------------------------------------------
(* What follows. *)

LEMMA NetTypeFollows ==
  ASSUME NetInv
  PROVE  NetTypeOK
BY DEF NetInv, IInv, NetTyped, RequestsKnown, Awaited, AnswersKnown, NetTypeOK

(* The check of record_exchange in `exchange' (cli/src/ble.rs) cannot fail *)
(* once the acknowledgement is answered.                                   *)
LEMMA RecordableFollows ==
  ASSUME NetInv, NEW n \in Node, central[n] # None, central[n].stage = "Ack"
  PROVE  Recordable(n)
<1> DEFINE c == central[n]
<1>1. StageKnown(n, c) /\ c.stage = "Ack" /\ c \in Central
  BY DEF NetInv, CentralsKnow, NetTyped
<1>2. c.own = OwnProfile(n) /\ c.received \in Gift
  BY <1>1 DEF StageKnown
<1>3. SlotFree(n, c.received.phrase)
  BY <1>1, <1>2 DEF StageKnown, SlotFree, OwnProfile, Missing
<1> QED
  BY <1>1, <1>3 DEF StageKnown, Recordable, RecordAllowed

(* A central has looked up the cooldown of its peer: when it was told who  *)
(* that is, which a Tab5 asks after its first fragment.  While it goes on, *)
(* nobody else records for the device, so the peer stays unmet.            *)
Looked(n, c) ==
  c.stage # "Info" /\ (n \in tab5 /\ c.stage = "SendProfile" => c.step > 0)

UnmetBy(n) ==
  central[n] # None /\ Looked(n, central[n]) => ~CoolingDown(n, central[n].target)
Unmet == \A n \in Node : UnmetBy(n)

LEMMA CentralLooked ==
  ASSUME NetInv, NEW n \in Node, CentralStep(n) \/ Abort(n), central'[n] # None,
         Looked(n, central[n])'
  PROVE  Looked(n, central[n]) \/ ~CoolingDown(n, central[n].target)
<1> DEFINE c == central[n]
<1>1. \A d : Proceed(n, d) => central'[n] = d
  BY DEF Proceed, NetInv, NetTyped
<1>2. ~Failed(n) /\ ~Abort(n) /\ ~OnAck(n)
  BY <1>1 DEF Failed, Abort, OnAck, Settled
<1>3. CASE Send(n)
  <2>1. c # None /\ c \in Central /\ central' = [central EXCEPT ![n].waiting = TRUE]
        /\ tab5' = tab5
    BY <1>3 DEF Send, NetInv, NetTyped
  <2>2. central'[n] = [c EXCEPT !.waiting = TRUE]
    BY <2>1 DEF NetInv, NetTyped
  <2>3. central'[n].stage = c.stage /\ central'[n].step = c.step
    BY <2>1, <2>2 DEF Central
  <2> QED
    BY <2>1, <2>3 DEF Looked
<1>4. CASE OnInfo(n) \/ Tab5OnInfo(n)
  BY <1>1, <1>4 DEF OnInfo, Tab5OnInfo
<1>5. CASE Tab5OnFirstData(n)
  <2>1. answer[n] # None /\ Proceed(n, EnterStage(c, "Info"))
    BY <1>5 DEF Tab5OnFirstData, Answered
  <2>2. central'[n].stage = "Info"
    BY <1>1, <2>1, AnsweredCentral, EnterStageType DEF Stage
  <2> QED
    BY <2>2 DEF Looked
<1>6. CASE \/ OnSent(n, "SendProfile", c.own, "ReadProfile")
           \/ OnSent(n, "SendGift", c.sent, "ReadGift")
  BY <1>6 DEF OnSent, Answered, Looked
<1>7. CASE \/ OnSelected(n, "ReadProfile") \/ OnSelected(n, "ReadGift")
           \/ OnFragment(n, "ReadProfile") \/ OnFragment(n, "ReadGift")
           \/ OnProfile(n) \/ OnGift(n)
  <2>1. c.stage \in {"ReadProfile", "ReadGift"}
    BY <1>7 DEF OnSelected, OnFragment, OnProfile, OnGift, LastFragment, Answered
  <2> QED
    BY <2>1 DEF Looked
<1> QED
  BY <1>2, <1>3, <1>4, <1>5, <1>6, <1>7 DEF CentralStep

(* A step after which a central is as it was, and knows no more peers.     *)
LEMMA UnmetStays ==
  ASSUME NetInv, Unmet, NEW n \in Node, tab5' = tab5, central'[n] = central[n],
         central[n] # None => \A q \in Peer : recent'[n][q] > 0 => recent[n][q] > 0
  PROVE  UnmetBy(n)'
<1>1. central[n] # None => central[n].target \in Peer
  BY NetworkAssumption DEF NetInv, NetTyped, Central
<1> QED
  BY <1>1 DEF Unmet, UnmetBy, Looked, CoolingDown

LEMMA CentralUnmet ==
  ASSUME NetInv, Unmet, NEW n \in Node, CentralStep(n) \/ Abort(n)
  PROVE  Unmet'
<1>1. /\ \A m \in Node \ {n} : central'[m] = central[m] /\ recent'[m] = recent[m]
      /\ tab5' = tab5
      /\ central'[n] # None => /\ recent' = recent
                              /\ central[n] # None
                              /\ central'[n].target = central[n].target
  <2>1. CASE Send(n)
    <3>1. /\ central' = [central EXCEPT ![n].waiting = TRUE] /\ central[n] \in Central
          /\ UNCHANGED <<vars, tab5>> /\ central[n] # None
      BY <2>1 DEF Send, NetInv, NetTyped
    <3>2. central'[n] = [central[n] EXCEPT !.waiting = TRUE]
          /\ \A m \in Node \ {n} : central'[m] = central[m]
      BY <3>1 DEF NetInv, NetTyped
    <3>3. recent' = recent
      BY <3>1 DEF vars, book
    <3>4. central'[n].target = central[n].target
      BY <3>1, <3>2 DEF Central
    <3> QED
      BY <3>1, <3>2, <3>3, <3>4
  <2>2. CASE OnAck(n)
    <3>1. /\ central' = [central EXCEPT ![n] = None] /\ tab5' = tab5
          /\ recent' = recent
             \/ \E p : recent' = [recent EXCEPT ![n][p] = Cooldown]
      BY <2>2 DEF OnAck, Settled, Proceed, Record, vars, book
    <3> QED
      BY <3>1 DEF NetInv, NetTyped, IInv, TypeOK
  <2>3. CASE Progress(n) /\ UNCHANGED vars
    <3>1. PICK c : Proceed(n, c) /\ (c = None \/ (answer[n] # None /\ Advanced(n, c)))
      BY <2>3 DEF Progress
    <3>2. /\ \A m \in Node : central'[m] = IF m = n THEN c ELSE central[m]
          /\ tab5' = tab5 /\ recent' = recent
      BY <2>3, <3>1 DEF Proceed, NetInv, NetTyped, vars, book
    <3> QED
      BY <3>1, <3>2 DEF Advanced, NetInv, AnswersKnown
  <2> QED
    BY <2>1, <2>2, <2>3, CentralProgress
<1>2. ASSUME central'[n] # None, Looked(n, central[n])'
      PROVE  ~CoolingDown(n, central[n].target)'
  <2>1. ~CoolingDown(n, central[n].target)
    BY <1>1, <1>2, CentralLooked DEF Unmet, UnmetBy
  <2> QED
    BY <1>1, <1>2, <2>1 DEF CoolingDown
<1>3. UnmetBy(n)'
  BY <1>2 DEF UnmetBy
<1>4. ASSUME NEW m \in Node, m # n PROVE UnmetBy(m)'
  BY <1>1, <1>4, UnmetStays
<1> QED
  BY <1>3, <1>4 DEF Unmet

LEMMA UnmetKept ==
  ASSUME NetInv, Unmet, [NetNext]_netvars
  PROVE  Unmet'
<1>1. CASE NetTick
  <2>1. UNCHANGED <<tab5, central>>
        /\ recent' = [n \in Node |-> [p \in Peer |-> Elapse(recent[n][p])]]
    BY <1>1 DEF NetTick, Tick
  <2>2. ASSUME NEW n \in Node, NEW q \in Peer, recent'[n][q] > 0 PROVE recent[n][q] > 0
    <3>1. recent[n][q] \in Nat /\ recent'[n][q] = Elapse(recent[n][q])
      BY <2>1 DEF NetInv, IInv, TypeOK
    <3> QED
      BY <2>2, <3>1 DEF Elapse
  <2> QED
    BY <2>1, <2>2, UnmetStays DEF Unmet
<1>2. ASSUME NEW n \in Node,
             \/ EnterPeripheral(n) \/ StopAdvertising(n) \/ LeaveWhenIdle(n)
             \/ Tab5LeavesWhenIdle(n) \/ Tab5Quits(n) \/ FailedSlot(n) \/ PowerOff(n)
             \/ NetExpire(n) \/ Tab5Disconnected(n)
      PROVE  Unmet'
  <2>1. UNCHANGED <<tab5, central, recent>>
    BY <1>2 DEF EnterPeripheral, StopAdvertising, LeaveWhenIdle, Tab5LeavesWhenIdle, Tab5Quits,
       FailedSlot, PowerOff, NetExpire, Tab5Disconnected, Enable, DisableIfIdle, Shutdown, Expire,
       book, vars
  <2> QED
    BY <2>1, UnmetStays DEF Unmet
<1>3. ASSUME NEW n \in Node, NEW p \in Node, Connect(n, p)
      PROVE  Unmet'
  <2> DEFINE x == attempts + 1
             c == IF n \in tab5 THEN Tab5Connected(n, p, x) ELSE Connected(p, x)
  <2>1. /\ central' = [central EXCEPT ![n] = c] /\ tab5' = tab5 /\ UNCHANGED vars
    BY <1>3 DEF Connect
  <2>2. ~Looked(n, c)
    BY DEF Looked, Tab5Connected, Connected
  <2> HIDE DEF c
  <2>3. central'[n] = c /\ recent' = recent
        /\ \A m \in Node \ {n} : central'[m] = central[m]
    BY <2>1 DEF NetInv, NetTyped, vars, book
  <2>4. UnmetBy(n)'
    BY <2>1, <2>2, <2>3 DEF UnmetBy, Looked
  <2>5. ASSUME NEW m \in Node, m # n PROVE UnmetBy(m)'
    BY <2>1, <2>3, <2>5, UnmetStays
  <2> QED
    BY <2>4, <2>5 DEF Unmet
<1>4. ASSUME NEW n \in Node, CentralStep(n) \/ Abort(n)
      PROVE  Unmet'
  BY <1>4, CentralUnmet
<1>5. ASSUME NEW r \in inflight, Serve(r)
      PROVE  Unmet'
  <2>1. ASSUME NEW m \in Node PROVE UnmetBy(m)'
    <3>1. central[m] # None => ~enabled[m]
      BY DEF NetInv, RolesKept
    <3> QED
      BY <1>5, <3>1, ServeTouches, UnmetStays
  <2> QED
    BY <2>1 DEF Unmet
<1>6. CASE UNCHANGED netvars \/ \E r \in inflight : LoseRequest(r)
  <2>1. UNCHANGED <<tab5, central, recent>>
    BY <1>6 DEF LoseRequest, Taken, netvars, vars, book
  <2> QED
    BY <2>1, UnmetStays DEF Unmet
<1> QED
  BY <1>1, <1>2, <1>3, <1>4, <1>5, <1>6 DEF NetNext

(* Variables stay in their domains and a central has at most one request   *)
(* of its current exchange on the way, which it waits for (ble.rs sends    *)
(* the next one when the last is answered).                                *)
THEOREM NetworkTypeCorrect == NetSpec => []NetTypeOK
BY NetInvariant, NetTypeFollows, PTL

(* No device is both sides of an exchange at once: Radio::run enables the  *)
(* service when the central's slot has ended, and disables it before the   *)
(* next one.                                                               *)
THEOREM RolesExclusive == NetSpec => []RoleExclusion
<1>1. NetInv => RoleExclusion
  BY DEF NetInv, RolesKept, RoleExclusion
<1> QED
  BY <1>1, NetInvariant, PTL

(* A central whose acknowledgement is answered can always record: nothing  *)
(* it offered to take has been filled meanwhile, so State::record_exchange *)
(* refuses nothing that was handed over; and it records nobody twice: the  *)
(* cooldown that `exchange' looked at before its awaits has not begun.     *)
THEOREM CentralAlwaysRecords == NetSpec => []CentralChecksHold
<1>1. NetInit => Unmet
  BY DEF NetInit, Unmet, UnmetBy
<1>2. NetInv /\ Unmet /\ [NetNext]_netvars => Unmet'
  BY UnmetKept
<1>3. NetInv /\ Unmet => CentralChecksHold
  <2> SUFFICES ASSUME NetInv, Unmet, NEW n \in Node, central[n] # None,
                      central[n].stage = "Ack"
               PROVE  Recordable(n) /\ ~CoolingDown(n, central[n].peer.node)
    BY DEF CentralChecksHold
  <2>1. central[n].peer.node = central[n].target
    BY DEF NetInv, CentralsKnow, StageKnown
  <2>2. ~CoolingDown(n, central[n].target)
    BY DEF Unmet, UnmetBy, Looked
  <2> QED
    BY <2>1, <2>2, RecordableFollows
<1> QED
  BY <1>1, <1>2, <1>3, NetInvariant, PTL DEF NetSpec

-----------------------------------------------------------------------------
(* Where things come from, and how the two sides of an exchange stay in    *)
(* step: what GiftIntegrity and the ledger need beside NetInv.             *)

(* A Profile is of its device, a phrase from its device's deck.            *)
From(m, packet) ==
  IF packet.type = "Profile" THEN packet.node = m
  ELSE packet.phrase # None => packet.phrase.deck = m

SessionTrue(p, s) ==
  /\ s.client # p
  /\ s.peer # None => s.peer.node = s.client
  /\ s.incomingGift # None => From(s.client, s.incomingGift)
  /\ s.reply # None => From(p, s.reply)
  /\ s.outgoingGift # None => From(p, s.outgoingGift)

CentralTrue(n, c) ==
  /\ c.sent # None => From(n, c.sent)
  /\ c.received # None => From(c.target, c.received)
  /\ c.incoming.packet # None => From(c.target, c.incoming.packet)

AnswerTrue(c, a) ==
  a # None /\ a.ok /\ Request(c) = ReadTx => From(c.target, a.fragment.packet)

Truthful ==
  /\ \A r \in inflight : r.body.kind = "DATA" => From(r.client, r.body.packet)
  /\ \A p \in Node : session[p] # None => SessionTrue(p, session[p])
  /\ \A n \in Node :
       central[n] # None => CentralTrue(n, central[n]) /\ AnswerTrue(central[n], answer[n])

(* An exchange number belongs to one central, and has one request at most. *)
Unique ==
  /\ \A m, n \in Node :
       central[m] # None /\ central[n] # None /\ central[m].exchange = central[n].exchange =>
         m = n
  /\ \A r \in inflight, n \in Node :
       central[n] # None /\ central[n].exchange = r.exchange => n = r.client
  /\ \A q, r \in inflight : q.exchange = r.exchange => q = r
  /\ \A r \in inflight : r.body \notin {Info, ReadTx} => r.body.exchange = r.exchange
  /\ \A p \in Node : session[p] # None => session[p].exchange <= attempts

(* A fragment that a session might push continues the packet it has begun, *)
(* and what follows the Profile is the Gift.                               *)
Continues(r, s) ==
  s # None /\ s.exchange = r.exchange /\ r.body.kind = "DATA" =>
    /\ s.incoming.next > 0 => s.incoming.packet = r.body.packet
    /\ s.peer # None => r.body.packet \in Gift

(* What the peripheral has assembled is of the packet being sent, also     *)
(* where it took only some of the fragments.  It knows the Profile when    *)
(* the last fragment is served and not before, and then begins anew.       *)
Sending(c) == IF c.sent = None THEN c.own ELSE c.sent

InStep(n, c, s) ==
  s # None /\ s.exchange = c.exchange =>
    /\ c.stage = "Info" => n \in tab5
    /\ s.incoming.next > 0 => s.incoming.packet = Sending(c)
    /\ s.reply # None => s.peer # None
    /\ s.peer # None /\ c.sent = None =>
         /\ s.incoming.next = 0
         /\ \/ c.stage = "ReadProfile"
            \/ c.stage = "SendProfile" /\ c.waiting /\ c.step + 1 = FrameCount(c.own)

(* The two sides of an exchange have each other's gift.                    *)
GiftsAgree(c, s, a) ==
  s # None /\ s.exchange = c.exchange =>
    /\ s.incomingGift # None => s.incomingGift = c.sent
    /\ a # None /\ a.ok /\ Request(c) = ReadTx /\ a.fragment.exchange = c.exchange =>
         a.fragment.packet = s.reply
    /\ c.incoming.packet # None => c.incoming.packet = s.reply
    /\ c.stage = "Ack" => c.received = s.reply

(* What a central has not got before its stage.                            *)
NotYet(c) ==
  /\ c.stage \in {"Info", "SendProfile", "ReadProfile"} => c.sent = None
  /\ c.stage \notin {"ReadProfile", "ReadGift"} => c.incoming.packet = None

Linked ==
  /\ \A r \in inflight : Continues(r, session[r.target])
  /\ \A n \in Node : central[n] # None =>
       LET c == central[n]  s == session[c.target]
       IN  InStep(n, c, s) /\ GiftsAgree(c, s, answer[n]) /\ NotYet(c)

LinkInv == NetInv /\ Truthful /\ Unique /\ Linked /\ GiftIntegrity

-----------------------------------------------------------------------------
(* A session that is left alone, or ends.                                  *)

Alike(s, t) ==
  /\ t.client = s.client /\ t.exchange = s.exchange /\ t.incoming = s.incoming
  /\ t.peer = s.peer /\ t.outgoingGift = s.outgoingGift /\ t.incomingGift = s.incomingGift
  /\ t.reply = s.reply

Fades(p) == session'[p] = None \/ (session[p] # None /\ Alike(session[p], session'[p]))

LEMMA AlikeLinked ==
  ASSUME NEW s, NEW t, s # None, Alike(s, t)
  PROVE  /\ \A p : SessionTrue(p, s) => SessionTrue(p, t)
         /\ \A r : Continues(r, s) => Continues(r, t)
         /\ \A n, c : InStep(n, c, s) => InStep(n, c, t)
         /\ \A c, a : GiftsAgree(c, s, a) => GiftsAgree(c, t, a)
<1>1. /\ t.client = s.client /\ t.exchange = s.exchange /\ t.incoming = s.incoming
      /\ t.peer = s.peer /\ t.outgoingGift = s.outgoingGift /\ t.incomingGift = s.incomingGift
      /\ t.reply = s.reply
  BY DEF Alike
<1>2. \A p : SessionTrue(p, s) => SessionTrue(p, t)
  BY <1>1 DEF SessionTrue
<1>3. \A r : Continues(r, s) => Continues(r, t)
  BY <1>1 DEF Continues
<1>4. \A n, c : InStep(n, c, s) => InStep(n, c, t)
  BY <1>1 DEF InStep
<1>5. \A c, a : GiftsAgree(c, s, a) => GiftsAgree(c, t, a)
  BY <1>1 DEF GiftsAgree
<1> QED
  BY <1>2, <1>3, <1>4, <1>5

LEMMA FadingLinked ==
  ASSUME LinkInv, UNCHANGED <<central, answer, attempts, tab5, sentence>>,
         inflight' \subseteq inflight, \A p \in Node : Fades(p)
  PROVE  Truthful' /\ Unique' /\ Linked' /\ GiftIntegrity'
<1>1. /\ inflight \subseteq Message
      /\ \A n \in Node : central[n] # None => central[n].target \in Node
      /\ attempts \in Nat
  BY DEF LinkInv, NetInv, NetTyped, Central
<1>2. Truthful'
  <2>1. \A p \in Node : session'[p] # None => SessionTrue(p, session'[p])
    BY AlikeLinked DEF LinkInv, Truthful, Fades
  <2> QED
    BY <2>1 DEF LinkInv, Truthful
<1>3. Unique'
  BY DEF LinkInv, Unique, Fades, Alike
<1>4. Linked'
  <2>1. \A r \in inflight' : Continues(r, session'[r.target])
    <3>1. ASSUME NEW r \in inflight' PROVE Continues(r, session'[r.target])
      <4>1. r.target \in Node /\ Continues(r, session[r.target])
        BY <1>1 DEF LinkInv, Linked, Message
      <4> QED
        BY <4>1, AlikeLinked DEF Fades, Continues
    <3> QED
      BY <3>1
  <2>2. ASSUME NEW n \in Node, central[n] # None
        PROVE  LET c == central[n]  s == session'[c.target]
               IN  InStep(n, c, s) /\ GiftsAgree(c, s, answer[n]) /\ NotYet(c)
    <3> DEFINE c == central[n]  s == session[c.target]  t == session'[c.target]
    <3>1. /\ InStep(n, c, s) /\ GiftsAgree(c, s, answer[n]) /\ NotYet(c)
          /\ c.target \in Node
      BY <1>1, <2>2 DEF LinkInv, Linked
    <3>2. CASE t = None
      BY <3>1, <3>2 DEF InStep, GiftsAgree
    <3>3. CASE s # None /\ Alike(s, t)
      <4> HIDE DEF s, t, c
      <4> QED
        BY <3>1, <3>3, AlikeLinked DEF c, s, t
    <3> QED
      BY <3>1, <3>2, <3>3 DEF Fades
  <2>3. \A n, c, s : InStep(n, c, s) => InStep(n, c, s)'
    BY DEF InStep
  <2> QED
    BY <2>1, <2>2, <2>3 DEF Linked
<1>5. GiftIntegrity'
  BY DEF LinkInv, GiftIntegrity
<1> QED
  BY <1>2, <1>3, <1>4, <1>5

(* What a handler serves, it serves to the exchange of the request.  A     *)
(* packet that is complete was sent by one central, and a packet alone.    *)
Begun(r, t) ==
  /\ r.body.seq = 0 /\ t.incoming.next = 1 /\ t.incoming.packet = r.body.packet
  /\ t.peer = None /\ t.outgoingGift = None /\ t.incomingGift = None /\ t.reply = None

Appended(r, s, t) ==
  /\ t.incoming.next = r.body.seq + 1 /\ t.incoming.packet = r.body.packet
  /\ t.peer = s.peer /\ t.outgoingGift = s.outgoingGift /\ t.incomingGift = s.incomingGift
  /\ t.reply = s.reply

ProfileTaken(r, s, t) ==
  /\ t.incoming = EmptyAssembler
  /\ r.body.packet \in Profile /\ t.peer = r.body.packet
  /\ r.body.seq + 1 = FrameCount(r.body.packet)
  /\ t.reply = OwnProfile(r.target) /\ t.incomingGift = s.incomingGift
  /\ t.outgoingGift \in Gift /\ From(r.target, t.outgoingGift)

GiftTaken(r, s, t) ==
  /\ t.incoming = EmptyAssembler
  /\ r.body.packet \in Gift /\ t.incomingGift = r.body.packet
  /\ s.peer # None /\ t.peer = s.peer /\ t.outgoingGift = s.outgoingGift /\ t.reply = s.outgoingGift

Advances(r, s, t) ==
  /\ r.body.kind = "DATA" /\ t.client = r.client /\ t.exchange = r.exchange
  /\ \/ Begun(r, t)
     \/ /\ s # None /\ s.client = r.client /\ s.exchange = r.exchange
        /\ Appended(r, s, t) \/ ProfileTaken(r, s, t) \/ GiftTaken(r, s, t)

Served(r) ==
  \/ Fades(r.target)
  \/ Advances(r, session[r.target], session'[r.target])

(* One handler: the sessions a State holds before and after.               *)
LEMMA WriteServes ==
  ASSUME LinkInv, NEW r \in inflight, ServeWrite(r)
  PROVE  Served(r)
<1> DEFINE p == r.target  f == r.body  s == session[p]  t == session'[p]
<1>1. /\ p \in Node /\ r.client \in Node /\ f \in Body /\ f.exchange = r.exchange
      /\ f \notin {Info, ReadTx} /\ session \in [Node -> Session \cup {None}]
  BY ServedRequest DEF LinkInv, NetInv, IInv, TypeOK, Unique, ServeWrite
<1>2. Live(p) # None => Live(p) = s /\ s # None /\ s \in Session /\ Sound(p, s)
  BY <1>1, LiveSound DEF LinkInv, NetInv
<1>3. WriteOk(p, r.client, f) \/ WriteError(p, r.client, f)
  BY DEF ServeWrite
<1>4. f.kind = "DATA" => f \in Fragment /\ Continues(r, s)
  BY <1>1 DEF Body, LinkInv, Linked
<1> HIDE DEF p, f, s, t
<1>5. ASSUME Leased(p, r.client, f), MayAppend(Live(p), f)
      PROVE  /\ f \in Fragment /\ s \in Session /\ s # None /\ Live(p) = s
             /\ s.client = r.client /\ s.exchange = r.exchange
             /\ Pushed(s.incoming, f).packet = f.packet /\ f.kind = "DATA"
             /\ Pushed(s.incoming, f).next = f.seq + 1
  <2>1. /\ f.kind = "DATA" /\ Live(p) = s /\ s # None /\ s \in Session /\ s.exchange = r.exchange
        /\ s.client = r.client /\ f.seq = s.incoming.next
    BY <1>1, <1>2, <1>5 DEF Leased, MayAppend, CanPush
  <2>2. f.seq \in Nat
    BY <1>4, <2>1 DEF Fragment
  <2>3. f.seq = 0 \/ s.incoming.packet = f.packet
    BY <1>4, <2>1, <2>2 DEF Continues, f
  <2> QED
    BY <1>4, <2>1, <2>3 DEF Pushed
<1>6. CASE Begin(p, r.client, f)
  <2>1. /\ f.kind = "DATA" /\ f.seq = 0
        /\ t = NewSession(r.client, f.exchange, Pushed(EmptyAssembler, f))
    BY <1>1, <1>6 DEF Begin, MayBegin, t
  <2>2. Pushed(EmptyAssembler, f).next = 1 /\ Pushed(EmptyAssembler, f).packet = f.packet
    BY <2>1 DEF Pushed
  <2> HIDE DEF t
  <2>3. /\ t.client = r.client /\ t.exchange = r.exchange
        /\ t.incoming = Pushed(EmptyAssembler, f) /\ t.peer = None /\ t.outgoingGift = None
        /\ t.incomingGift = None /\ t.reply = None
    BY <1>1, <2>1 DEF NewSession
  <2>4. Begun(r, t)
    BY <2>1, <2>2, <2>3 DEF Begun, f
  <2> QED
    BY <2>1, <2>3, <2>4 DEF Served, Advances, f, t, p
<1>7. CASE Continue(p, r.client, f) \/ RefusePacket(p, r.client, f)
  <2> DEFINE a == Pushed(s.incoming, f)
  <2>1. Leased(p, r.client, f) /\ MayAppend(Live(p), f)
    BY <1>7 DEF Continue, RefusePacket
  <2>2. t = [s EXCEPT !.incoming = a]
    BY <1>1, <1>5, <1>7, <2>1 DEF Continue, RefusePacket, t
  <2> HIDE DEF a
  <2>3. /\ t.client = s.client /\ t.exchange = s.exchange /\ t.incoming = a /\ t.peer = s.peer
        /\ t.outgoingGift = s.outgoingGift /\ t.incomingGift = s.incomingGift
        /\ t.reply = s.reply
    BY <1>5, <2>1, <2>2 DEF Session
  <2>4. Appended(r, s, t)
    BY <1>5, <2>1, <2>3 DEF Appended, a, f
  <2> QED
    BY <1>5, <2>1, <2>3, <2>4 DEF Served, Advances, f, t, p, s
<1>8. CASE AcceptProfile(p, r.client, f)
  <2> DEFINE a == Pushed(s.incoming, f)
  <2>1. Leased(p, r.client, f) /\ MayAppend(Live(p), f)
    BY <1>8 DEF AcceptProfile
  <2>2. f.packet \in Packet /\ Decoded(a) = {f.packet}
    BY <1>5, <2>1, PacketAssumption DEF Fragment, Decoded
  <2> HIDE DEF a
  <2>3. PICK phrase \in Choices(p, f.packet.missing) :
          /\ Welcome(p, s, f.packet) /\ s.peer = None
          /\ session' = [session EXCEPT ![p] =
               [WithReply(s, OwnProfile(p)) EXCEPT
                  !.peer = f.packet, !.outgoingGift = GiftFor(f.packet, phrase)]]
    BY <1>5, <1>8, <2>1, <2>2 DEF AcceptProfile, a
  <2>4. f.packet \in Profile
    BY <2>2, <2>3 DEF Welcome, ProfileWelcome, Packet, Gift
  <2>5. p \in Peer /\ f.packet.missing \in SUBSET Slot
    BY <1>1, <2>4, ExchangeAssumption DEF Profile
  <2>6. phrase # None => phrase \in Phrase /\ phrase.deck = p
    BY <2>3, <2>5, ChoicesType DEF Choices
  <2> DEFINE g == GiftFor(f.packet, phrase)  w == WithReply(s, OwnProfile(p))
  <2>7. g \in Gift /\ From(p, g)
    BY <2>4, <2>6 DEF GiftFor, Gift, Profile, From
  <2>8. t = [w EXCEPT !.peer = f.packet, !.outgoingGift = g]
    BY <1>1, <2>3 DEF t
  <2>9. w \in Session /\ w.client = s.client /\ w.exchange = s.exchange /\ w.reply = OwnProfile(p)
        /\ w.incoming = EmptyAssembler /\ w.incomingGift = s.incomingGift
    BY <1>5, <2>1, <2>5, WithReplyType, OwnProfileType, EmptyAssemblerType, <1>1
       DEF WithReply, Session
  <2> HIDE DEF g, w
  <2>10. /\ t.client = s.client /\ t.exchange = s.exchange /\ t.reply = OwnProfile(p)
         /\ t.incoming = EmptyAssembler /\ t.incomingGift = s.incomingGift
         /\ t.peer = f.packet /\ t.outgoingGift = g
    BY <2>8, <2>9 DEF Session
  <2>11. f.seq + 1 = FrameCount(f.packet)
    BY <1>8 DEF AcceptProfile, Finished, Pushed
  <2>12. ProfileTaken(r, s, t)
    BY <2>4, <2>7, <2>10, <2>11 DEF ProfileTaken, f, p
  <2> QED
    BY <1>5, <2>1, <2>10, <2>12 DEF Served, Advances, f, t, p, s
<1>9. CASE AcceptGift(p, r.client, f)
  <2> DEFINE a == Pushed(s.incoming, f)
  <2>1. Leased(p, r.client, f) /\ MayAppend(Live(p), f)
    BY <1>9 DEF AcceptGift
  <2>2. f.packet \in Packet /\ Decoded(a) = {f.packet}
    BY <1>5, <2>1, PacketAssumption DEF Fragment, Decoded
  <2> HIDE DEF a
  <2>3. /\ Welcome(p, s, f.packet) /\ s.peer # None
        /\ session' = [session EXCEPT ![p] =
             [WithReply(s, s.outgoingGift) EXCEPT !.incomingGift = f.packet]]
    BY <1>5, <1>9, <2>1, <2>2 DEF AcceptGift, a
  <2>4. f.packet \in Gift
    BY <2>2, <2>3 DEF Welcome, GiftWelcome, Packet, Profile
  <2> DEFINE w == WithReply(s, s.outgoingGift)
  <2>5. t = [w EXCEPT !.incomingGift = f.packet]
    BY <1>1, <2>3 DEF t
  <2>6. s.outgoingGift \in Packet \cup {None}
    BY <1>5, <2>1 DEF Session, Packet
  <2>7. w \in Session /\ w.client = s.client /\ w.exchange = s.exchange
        /\ w.reply = s.outgoingGift /\ w.peer = s.peer /\ w.outgoingGift = s.outgoingGift
        /\ w.incoming = EmptyAssembler
    BY <1>5, <2>1, <2>6, WithReplyType, EmptyAssemblerType DEF WithReply, Session
  <2> HIDE DEF w
  <2>8. /\ t.client = s.client /\ t.exchange = s.exchange /\ t.reply = s.outgoingGift
        /\ t.incoming = EmptyAssembler /\ t.incomingGift = f.packet
        /\ t.peer = s.peer /\ t.outgoingGift = s.outgoingGift
    BY <2>5, <2>7 DEF Session
  <2>9. GiftTaken(r, s, t)
    BY <2>3, <2>4, <2>8 DEF GiftTaken, f
  <2> QED
    BY <1>5, <2>1, <2>8, <2>9 DEF Served, Advances, f, t, p, s
<1>10. CASE SelectFragment(p, r.client, f)
  <2>1. f.kind = "SELECT" /\ Live(p) = s /\ s \in Session /\ s # None /\ t = Selected(s, f.index)
    BY <1>1, <1>2, <1>10 DEF SelectFragment, Leased, MaySelect, t
  <2>2. Alike(s, t)
    BY <2>1 DEF Alike, Selected, Session
  <2> QED
    BY <2>1, <2>2 DEF Served, Fades, f, s, t, p
<1>11. CASE Acknowledge(p, r.client, f)
  <2>1. f.kind = "ACK" /\ Live(p) = s /\ s \in Session /\ s # None /\ t = Committed(s)
    BY <1>1, <1>2, <1>11 DEF Acknowledge, Leased, MayAck, t
  <2>2. Alike(s, t)
    BY <2>1 DEF Alike, Committed, Session
  <2> QED
    BY <2>1, <2>2 DEF Served, Fades, f, s, t, p
<1>12. CASE AcknowledgeAgain(p, r.client, f)
  <2>1. f.kind = "ACK" /\ s # None /\ t = s
    BY <1>2, <1>12 DEF AcknowledgeAgain, Leased, MayAck, t, s, vars
  <2> QED
    BY <2>1 DEF Served, Fades, Alike, f, s, t, p
<1>13. CASE RefuseWrite(p, r.client, f)
  <2>1. t = Live(p)
    BY <1>1, <1>13 DEF RefuseWrite, Expire, t
  <2> QED
    BY <1>2, <2>1 DEF Served, Fades, Alike, f, s, t, p
<1> QED
  BY <1>3, <1>6, <1>7, <1>8, <1>9, <1>10, <1>11, <1>12, <1>13 DEF WriteOk, WriteError

LEMMA ServeServed ==
  ASSUME LinkInv, NEW r \in inflight, Serve(r)
  PROVE  Served(r) /\ \A m \in Node \ {r.target} : session'[m] = session[m]
<1> DEFINE p == r.target
<1>1. p \in Node /\ session \in [Node -> Session \cup {None}]
  BY ServedRequest DEF LinkInv, NetInv, IInv, TypeOK
<1>2. Live(p) # None => Live(p) = session[p] /\ session[p] \in Session
  BY <1>1 DEF Live
<1> HIDE DEF p
<1>3. CASE ServeInfo(r)
  <2>1. r.body.kind # "DATA" /\ session' = [session EXCEPT ![p] = Live(p)]
    BY <1>3 DEF ServeInfo, Info, Expire, p
  <2>2. session'[p] = Live(p) /\ \A m \in Node \ {p} : session'[m] = session[m]
    BY <1>1, <2>1
  <2> QED
    BY <1>2, <2>1, <2>2 DEF Served, Fades, Alike, p
<1>4. CASE ServeRead(r)
  <2>0. r.body.kind # "DATA"
    BY <1>4 DEF ServeRead, ReadTx
  <2>1. r.body.kind # "DATA" /\ (ReadFragment(p, r.client) \/ Expire(p))
    BY <1>4, <2>0 DEF ServeRead, RefuseRead, p
  <2> DEFINE s == session[p]
  <2>2. CASE ReadFragment(p, r.client)
    <3>1. s # None /\ s \in Session
          /\ session' = [session EXCEPT ![p] = [s EXCEPT !.read = @ \cup {s.selected}]]
      BY <1>2, <2>2 DEF ReadFragment, MayRead
    <3>2. /\ session'[p] = [s EXCEPT !.read = @ \cup {s.selected}]
          /\ \A m \in Node \ {p} : session'[m] = session[m]
      BY <1>1, <3>1
    <3> HIDE DEF s
    <3>3. Alike(s, session'[p])
      BY <3>1, <3>2 DEF Alike, Session
    <3> QED
      BY <2>1, <3>1, <3>2, <3>3 DEF Served, Fades, p, s
  <2>3. CASE Expire(p)
    <3>1. session'[p] = Live(p) /\ \A m \in Node \ {p} : session'[m] = session[m]
      BY <1>1, <2>3 DEF Expire
    <3> QED
      BY <1>2, <2>1, <3>1 DEF Served, Fades, Alike, p
  <2> QED
    BY <2>1, <2>2, <2>3
<1>5. CASE ServeWrite(r)
  <2>1. WriteOk(p, r.client, r.body) \/ WriteError(p, r.client, r.body)
    BY <1>5 DEF ServeWrite, p
  <2>2. \A m \in Node \ {p} : session'[m] = session[m]
    BY <1>1, <2>1 DEF WriteOk, WriteError, Begin, Continue, AcceptProfile, AcceptGift,
       SelectFragment, Acknowledge, AcknowledgeAgain, RefusePacket, RefuseWrite, Expire, vars
  <2> QED
    BY <1>5, <2>2, WriteServes DEF p
<1> QED
  BY <1>3, <1>4, <1>5 DEF Serve

(* The central a request is answered to, and the fragment it is given.     *)
Waits(r) == central[r.client] # None /\ central[r.client].exchange = r.exchange

Handed(r, f) ==
  LET t == session'[r.target]
  IN  /\ t # None
      /\ f.exchange = t.exchange /\ f.packet = t.reply /\ t.reply # None

LEMMA ServeHands ==
  ASSUME LinkInv, NEW r \in inflight, Serve(r)
  PROVE  /\ \A n \in Node : n # r.client \/ ~Waits(r) => answer'[n] = answer[n]
         /\ Waits(r) /\ r.body = ReadTx /\ answer'[r.client].ok =>
              Handed(r, answer'[r.client].fragment)
<1> DEFINE Answers(ok, g) ==
      /\ \A n \in Node : n # r.client \/ ~Waits(r) => answer'[n] = answer[n]
      /\ Waits(r) => answer'[r.client] = [ok |-> ok, fragment |-> g]
<1>1. r.client \in Node /\ r.target \in Node /\ answer \in [Node -> Answer \cup {None}]
      /\ session \in [Node -> Session \cup {None}]
  BY ServedRequest DEF LinkInv, NetInv, NetTyped, IInv, TypeOK
<1>2. \A ok, g : Respond(r, ok, g) => Answers(ok, g)
  BY <1>1 DEF Respond, Waits
<1>3. CASE \E ok \in BOOLEAN : Respond(r, ok, None) /\ (r.body = ReadTx => ~ok)
  <2>1. PICK ok \in BOOLEAN : Respond(r, ok, None) /\ (r.body = ReadTx => ~ok)
    BY <1>3
  <2>2. Answers(ok, None)
    BY <1>2, <2>1
  <2> QED
    BY <2>1, <2>2
<1>4. CASE /\ r.body = ReadTx /\ ReadFragment(r.target, r.client)
           /\ Respond(r, TRUE, Data(Live(r.target).exchange, Live(r.target).reply,
                                    Live(r.target).selected))
  <2> DEFINE s == session[r.target]
             g == Data(s.exchange, s.reply, s.selected)
  <2>1. Live(r.target) # None /\ Live(r.target).selected # None
    BY <1>4 DEF ReadFragment, MayRead
  <2>2. Live(r.target) = s /\ s \in Session /\ Sound(r.target, s)
    BY <1>1, <2>1, LiveSound DEF LinkInv, NetInv
  <2>3. session'[r.target] = [s EXCEPT !.read = @ \cup {s.selected}]
    BY <1>1, <1>4, <2>2 DEF ReadFragment
  <2>4. Answers(TRUE, g)
    BY <1>2, <1>4, <2>2
  <2> HIDE DEF s
  <2>5. s.selected \in Nat /\ s.selected < ReplyFrames(s)
    BY <2>1, <2>2 DEF Sound, WellFormed, Session
  <2>6. s.reply # None
    BY <2>5 DEF ReplyFrames
  <2>7. /\ session'[r.target].exchange = s.exchange /\ session'[r.target].reply = s.reply
        /\ session'[r.target] # None
    <3>1. s.read \cup {s.selected} \in SUBSET Nat
      BY <2>2, <2>5 DEF Session
    <3>2. session'[r.target] \in Session
      BY <2>2, <2>3, <3>1 DEF Session
    <3> QED
      BY <2>2, <2>3, <3>2, SessionAssumption DEF Session
  <2>8. g.exchange = s.exchange /\ g.packet = s.reply
    BY DEF Data
  <2> HIDE DEF g
  <2>9. Handed(r, g)
    BY <1>4, <2>6, <2>7, <2>8 DEF Handed
  <2> QED
    BY <2>4, <2>9
<1>5. (\E ok \in BOOLEAN : Respond(r, ok, None) /\ (r.body = ReadTx => ~ok))
      \/ /\ r.body = ReadTx /\ ReadFragment(r.target, r.client)
         /\ Respond(r, TRUE, Data(Live(r.target).exchange, Live(r.target).reply,
                                  Live(r.target).selected))
  <2>1. CASE ServeInfo(r)
    <3>1. r.body # ReadTx /\ \E ok \in BOOLEAN : Respond(r, ok, None)
      <4>1. r.body # ReadTx
        BY <2>1 DEF ServeInfo, Info, ReadTx
      <4>2. (enabled[r.target] \/ r.target \in tab5) \in BOOLEAN
        OBVIOUS
      <4> QED
        BY <2>1, <4>1, <4>2 DEF ServeInfo
    <3> QED
      BY <3>1
  <2>2. CASE ServeRead(r)
    BY <2>2 DEF ServeRead
  <2>3. CASE ServeWrite(r)
    BY <2>3, WriteAnswered
  <2> QED
    BY <2>1, <2>2, <2>3 DEF Serve
<1> QED
  BY <1>3, <1>4, <1>5

(* What the request of a waiting central says of its stage.                *)
LEMMA DataRequest ==
  ASSUME NEW c \in Central, Request(c).kind = "DATA"
  PROVE  \/ /\ c.stage = "SendProfile"
            /\ Request(c).packet = c.own /\ Request(c).seq = c.step
         \/ /\ c.stage = "SendGift"
            /\ Request(c).packet = c.sent /\ Request(c).seq = c.step
<1>1. CASE c.stage \in {"SendProfile", "SendGift"}
  BY <1>1 DEF Request, Data
<1>2. CASE c.stage \in {"ReadProfile", "ReadGift"}
  BY <1>2 DEF Request, Select, ReadTx
<1>3. CASE c.stage \in {"Info", "Ack"}
  BY <1>3 DEF Request, Info, Ack
<1> QED
  BY <1>1, <1>2, <1>3 DEF Central, Stage

LEMMA AwaitedRequest ==
  ASSUME LinkInv, NEW r \in inflight, Waits(r)
  PROVE  LET c == central[r.client]
         IN  /\ c \in Central /\ c.waiting /\ answer[r.client] = None
             /\ r.target = c.target /\ r.body = Request(c) /\ StageKnown(r.client, c)
<1>1. r.client \in Node
  BY ServedRequest DEF LinkInv, NetInv
<1> QED
  BY <1>1 DEF LinkInv, NetInv, NetTyped, CentralsKnow, RequestsKnown, Awaited, Waits

LEMMA ServeTruthful ==
  ASSUME LinkInv, NEW r \in inflight, Serve(r)
  PROVE  Truthful'
<1> DEFINE p == r.target  s == session[p]  t == session'[p]
<1>1. /\ p \in Node /\ r.client \in Node /\ r.client # p /\ central' = central
      /\ inflight' = inflight \ {r}
  BY ServedRequest, ServeAnswers, ServeTouches DEF LinkInv, NetInv, RequestsKnown
<1>2. Served(r) /\ \A m \in Node \ {p} : session'[m] = session[m]
  BY ServeServed
<1>3. s # None => SessionTrue(p, s)
  BY <1>1 DEF LinkInv, Truthful
<1>4. t # None => SessionTrue(p, t)
  <2>1. CASE Fades(p)
    BY <1>3, <2>1, AlikeLinked DEF Fades
  <2>2. CASE Advances(r, s, t)
    <3>1. From(r.client, r.body.packet) /\ t.client = r.client
      BY <2>2 DEF LinkInv, Truthful, Advances
    <3>2. CASE Begun(r, t)
      BY <1>1, <3>1, <3>2 DEF SessionTrue, Begun
    <3>3. CASE s # None /\ s.client = r.client /\ Appended(r, s, t)
      BY <1>3, <3>1, <3>3 DEF SessionTrue, Appended
    <3>4. CASE s # None /\ s.client = r.client /\ ProfileTaken(r, s, t)
      <4>1. t.peer.node = t.client
        BY <3>1, <3>4 DEF ProfileTaken, From, Profile
      <4>2. From(p, t.reply)
        BY <3>4 DEF ProfileTaken, From, OwnProfile
      <4> QED
        BY <1>3, <3>1, <3>4, <4>1, <4>2 DEF SessionTrue, ProfileTaken
    <3>5. CASE s # None /\ s.client = r.client /\ GiftTaken(r, s, t)
      BY <1>3, <3>1, <3>5 DEF SessionTrue, GiftTaken
    <3> QED
      BY <2>2, <3>2, <3>3, <3>4, <3>5 DEF Advances
  <2> QED
    BY <1>2, <2>1, <2>2 DEF Served
<1>5. \A m \in Node : session'[m] # None => SessionTrue(m, session'[m])
  BY <1>1, <1>2, <1>4 DEF LinkInv, Truthful
<1>6. ASSUME NEW n \in Node, central[n] # None
      PROVE  CentralTrue(n, central[n]) /\ AnswerTrue(central[n], answer'[n])
  <2>1. CentralTrue(n, central[n]) /\ AnswerTrue(central[n], answer[n])
    BY <1>6 DEF LinkInv, Truthful
  <2>2. CASE n # r.client \/ ~Waits(r)
    BY <2>1, <2>2, ServeHands
  <2>3. CASE n = r.client /\ Waits(r)
    <3>1. r.target = central[n].target /\ r.body = Request(central[n])
      BY <2>3, AwaitedRequest
    <3>2. r.body = ReadTx /\ answer'[n].ok => Handed(r, answer'[n].fragment)
      BY <2>3, ServeHands
    <3>3. Handed(r, answer'[n].fragment) => From(p, answer'[n].fragment.packet)
      BY <1>4 DEF Handed, SessionTrue
    <3> QED
      BY <2>1, <3>1, <3>2, <3>3 DEF AnswerTrue, Handed
  <2> QED
    BY <2>2, <2>3
<1> QED
  BY <1>1, <1>5, <1>6 DEF LinkInv, Truthful

LEMMA ServeUnique ==
  ASSUME LinkInv, NEW r \in inflight, Serve(r)
  PROVE  Unique'
<1>1. /\ r.target \in Node /\ r.exchange <= attempts
      /\ UNCHANGED <<central, attempts>> /\ inflight' = inflight \ {r}
  BY ServedRequest, ServeAnswers, ServeTouches DEF LinkInv, NetInv, RequestsKnown
<1>2. \A m \in Node : session'[m] # None => session'[m].exchange <= attempts
  BY <1>1, ServeServed DEF LinkInv, Unique, Served, Fades, Alike, Advances
<1> QED
  BY <1>1, <1>2 DEF LinkInv, Unique

(* The central the request belongs to sees its effect as it expects.       *)
LEMMA ServeInStep ==
  ASSUME LinkInv, NEW r \in inflight, Serve(r), Waits(r)
  PROVE  LET c == central[r.client]  t == session'[c.target]  a == answer'[r.client]
         IN  InStep(r.client, c, t) /\ GiftsAgree(c, t, a)
<1> DEFINE c == central[r.client]  s == session[c.target]  t == session'[c.target]
           a == answer'[r.client]
<1>1. /\ c \in Central /\ c.waiting /\ answer[r.client] = None /\ r.target = c.target
      /\ r.body = Request(c) /\ StageKnown(r.client, c) /\ r.client \in Node /\ c # None
      /\ c.exchange = r.exchange
  BY AwaitedRequest, ServedRequest DEF LinkInv, NetInv, Waits
<1>2. /\ InStep(r.client, c, s) /\ GiftsAgree(c, s, None) /\ NotYet(c)
      /\ Continues(r, s)
  BY <1>1 DEF LinkInv, Linked
<1>3. r.body = ReadTx /\ a.ok => Handed(r, a.fragment)
  BY ServeHands
<1>4. Served(r)
  BY ServeServed
<1>5. CASE t = None
  BY <1>5 DEF InStep, GiftsAgree
<1>6. CASE s # None /\ Alike(s, t)
  <2>1. InStep(r.client, c, t) /\ GiftsAgree(c, t, None)
    BY <1>2, <1>6, AlikeLinked
  <2>2. GiftsAgree(c, t, a)
    BY <1>1, <1>3, <2>1 DEF GiftsAgree, Handed
  <2> QED
    BY <2>1, <2>2
<1>7. CASE Advances(r, s, t)
  <2> DEFINE f == r.body
  <2>1. f.kind = "DATA" /\ Request(c) # ReadTx
    BY <1>1, <1>7 DEF Advances, ReadTx
  <2>2. \/ c.stage = "SendProfile" /\ f.packet = c.own /\ f.seq = c.step
        \/ c.stage = "SendGift" /\ f.packet = c.sent /\ f.seq = c.step
    BY <1>1, <2>1, DataRequest
  <2>3. /\ c.stage = "SendProfile" => f.packet \notin Gift /\ c.sent = None
        /\ c.stage = "SendGift" => f.packet \in Gift /\ f.packet \notin Profile /\ c.sent # None
    BY <1>1, <1>2, <2>2, PacketAssumption DEF StageKnown, OwnProfile, Gift, Profile, NotYet, Packet
  <2>4. Sending(c) = f.packet
    BY <2>2, <2>3 DEF Sending
  <2>5. InStep(r.client, c, t)
    <3>1. CASE Begun(r, t)
      BY <2>2, <2>4, <3>1 DEF InStep, Begun
    <3>2. CASE s # None /\ s.exchange = r.exchange /\ Appended(r, s, t)
      BY <1>1, <1>2, <2>1, <2>2, <2>3, <2>4, <3>2 DEF InStep, Appended, Continues
    <3>3. CASE ProfileTaken(r, s, t)
      <4>1. c.stage = "SendProfile" /\ f.packet = c.own /\ f.seq = c.step
        BY <2>2, <2>3, <3>3 DEF ProfileTaken
      <4>2. t.incoming.next = 0 /\ t.peer # None /\ c.step + 1 = FrameCount(c.own)
        BY <3>3, <4>1, PacketAssumption DEF ProfileTaken, EmptyAssembler, Packet
      <4> QED
        BY <1>1, <4>1, <4>2 DEF InStep
    <3>4. CASE s # None /\ GiftTaken(r, s, t)
      BY <2>2, <2>3, <3>4 DEF InStep, GiftTaken, EmptyAssembler
    <3> QED
      BY <1>7, <3>1, <3>2, <3>3, <3>4 DEF Advances
  <2>6. f.packet \in Gift => c.stage = "SendGift" /\ f.packet = c.sent
    BY <1>1, <2>2 DEF StageKnown, OwnProfile, Gift
  <2>7. t.incomingGift # None => t.incomingGift = c.sent
    BY <1>1, <1>2, <1>7, <2>6 DEF Advances, Begun, Appended, ProfileTaken, GiftTaken, GiftsAgree
  <2>8. c.incoming.packet = None /\ c.stage # "Ack"
    BY <1>2, <2>2 DEF NotYet
  <2>9. GiftsAgree(c, t, a)
    BY <2>1, <2>7, <2>8 DEF GiftsAgree
  <2> QED
    BY <2>5, <2>9
<1> QED
  BY <1>1, <1>4, <1>5, <1>6, <1>7 DEF Served, Fades

LEMMA ServeLinked ==
  ASSUME LinkInv, NEW r \in inflight, Serve(r)
  PROVE  Linked'
<1> DEFINE p == r.target
<1>1. /\ p \in Node /\ UNCHANGED <<central, tab5>> /\ inflight' = inflight \ {r}
      /\ inflight \subseteq Message
  BY ServedRequest, ServeAnswers, ServeTouches DEF LinkInv, NetInv, NetTyped
<1>2. Served(r) /\ \A m \in Node \ {p} : session'[m] = session[m]
  BY ServeServed
<1>3. ASSUME NEW q \in inflight, q # r PROVE Continues(q, session'[q.target])
  <2>1. Continues(q, session[q.target]) /\ q.exchange # r.exchange /\ q.target \in Node
    BY <1>1, <1>3 DEF LinkInv, Linked, Unique, Message
  <2>2. CASE q.target # p
    BY <1>2, <2>1, <2>2
  <2>3. CASE q.target = p /\ Fades(p)
    BY <2>1, <2>3, AlikeLinked DEF Fades, Continues
  <2>4. CASE q.target = p /\ Advances(r, session[p], session'[p])
    BY <2>1, <2>4 DEF Advances, Continues
  <2> QED
    BY <1>2, <2>2, <2>3, <2>4 DEF Served
<1>4. ASSUME NEW n \in Node, central[n] # None
      PROVE  LET c == central[n]  t == session'[c.target]
             IN  InStep(n, c, t) /\ GiftsAgree(c, t, answer'[n]) /\ NotYet(c)
  <2> DEFINE c == central[n]  s == session[c.target]  t == session'[c.target]
  <2>1. /\ InStep(n, c, s) /\ GiftsAgree(c, s, answer[n]) /\ NotYet(c) /\ c.target \in Node
    BY <1>4 DEF LinkInv, Linked, NetInv, NetTyped, Central
  <2>2. CASE n = r.client /\ Waits(r)
    BY <2>1, <2>2, ServeInStep
  <2>3. CASE n # r.client \/ ~Waits(r)
    <3>1. answer'[n] = answer[n] /\ c.exchange # r.exchange
      <4>1. answer'[n] = answer[n]
        BY <2>3, ServeHands
      <4>2. c.exchange = r.exchange => n = r.client
        BY <1>4 DEF LinkInv, Unique
      <4>3. ASSUME c.exchange = r.exchange PROVE FALSE
        BY <1>4, <2>3, <4>2, <4>3 DEF Waits
      <4> QED
        BY <4>1, <4>3
    <3>2. CASE c.target # p
      BY <1>2, <2>1, <3>1, <3>2
    <3>3. CASE c.target = p /\ Fades(p)
      <4>1. CASE t = None
        BY <2>1, <4>1 DEF InStep, GiftsAgree
      <4>2. CASE s # None /\ Alike(s, t)
        <5> HIDE DEF c, s, t
        <5> QED
          BY <2>1, <3>1, <4>2, AlikeLinked DEF c, t
      <4> QED
        BY <3>3, <4>1, <4>2 DEF Fades
    <3>4. CASE c.target = p /\ Advances(r, s, t)
      BY <2>1, <3>1, <3>4 DEF Advances, InStep, GiftsAgree
    <3> QED
      BY <1>2, <3>2, <3>3, <3>4 DEF Served
  <2> QED
    BY <2>2, <2>3
<1>5. \A n, c, s : InStep(n, c, s) => InStep(n, c, s)'
  BY <1>1 DEF InStep
<1> QED
  BY <1>1, <1>3, <1>4, <1>5 DEF Linked

(* A State files what it accepts under the device it comes from.           *)
LEMMA RecordIntegrity ==
  ASSUME IInv, GiftIntegrity, NEW n \in Node, NEW peer \in Profile, NEW sent, NEW received \in Gift,
         peer.node # n, From(peer.node, received), Record(n, peer, sent, received)
  PROVE  GiftIntegrity'
<1> DEFINE old == sentence[n]  new == Accept(n, peer, received.phrase)
<1>1. sentence' = [sentence EXCEPT ![n] = new] /\ sentence \in [Node -> [Slot -> Entry \cup {None}]]
  BY DEF Record, IInv, TypeOK
<1>2. ASSUME NEW k \in Slot, new[k] # None
      PROVE  new[k].source # n /\ new[k].deck = new[k].source
  <2>1. /\ old \in [Slot -> Entry \cup {None}]
        /\ old[k] # None => old[k].source # n /\ old[k].deck = old[k].source
    BY <1>1 DEF GiftIntegrity
  <2>2. CASE received.phrase = None
    BY <1>2, <2>1, <2>2 DEF Accept
  <2>3. CASE received.phrase # None
    <3>1. received.phrase.deck = peer.node
      BY <2>3 DEF From, Gift
    <3>2. new = [old EXCEPT ![received.phrase.slot] =
                   [source |-> peer.node, deck |-> received.phrase.deck]]
      BY <2>3 DEF Accept
    <3> HIDE DEF old, new
    <3>3. CASE k = received.phrase.slot
      <4>1. new[k] = [source |-> peer.node, deck |-> received.phrase.deck]
        BY <2>1, <3>2, <3>3
      <4> QED
        BY <3>1, <4>1
    <3>4. CASE k # received.phrase.slot
      BY <1>2, <2>1, <3>2, <3>4
    <3> QED
      BY <3>3, <3>4
  <2> QED
    BY <2>2, <2>3
<1> HIDE DEF old, new
<1>3. \A m \in Node : sentence'[m] = IF m = n THEN new ELSE sentence[m]
  BY <1>1
<1>4. ASSUME NEW m \in Node, NEW k \in Slot, sentence'[m][k] # None
      PROVE  /\ sentence'[m][k].source # m
             /\ sentence'[m][k].deck = sentence'[m][k].source
  <2>1. CASE m = n
    BY <1>2, <1>3, <1>4, <2>1
  <2>2. CASE m # n
    BY <1>3, <1>4, <2>2 DEF GiftIntegrity
  <2> QED
    BY <2>1, <2>2
<1> QED
  BY <1>4 DEF GiftIntegrity

LEMMA ServeIntegrity ==
  ASSUME LinkInv, NEW r \in inflight, Serve(r)
  PROVE  GiftIntegrity'
<1> DEFINE p == r.target  f == r.body  s == Live(p)
<1>1. p \in Node
  BY ServedRequest DEF LinkInv, NetInv
<1> HIDE DEF p, f
<1>2. CASE Acknowledge(p, r.client, f)
  <2>1. s # None /\ s.incomingGift # None /\ Record(p, s.peer, s.outgoingGift, s.incomingGift)
    BY <1>2 DEF Acknowledge, Leased, MayAck
  <2>2. s \in Session /\ s = session[p] /\ Sound(p, s)
    BY <1>1, <2>1, LiveSound DEF LinkInv, NetInv
  <2>3. SessionTrue(p, s)
    BY <1>1, <2>1, <2>2 DEF LinkInv, Truthful
  <2> HIDE DEF s
  <2>4. s.peer \in Profile /\ s.incomingGift \in Gift
    BY <2>1, <2>2 DEF Sound, WellFormed, Session
  <2>5. s.peer.node # p /\ From(s.peer.node, s.incomingGift)
    BY <2>1, <2>3, <2>4, PacketAssumption DEF SessionTrue, Packet
  <2> QED
    BY <1>1, <2>1, <2>4, <2>5, RecordIntegrity DEF LinkInv, NetInv
<1>3. CASE sentence' = sentence
  BY <1>3 DEF LinkInv, GiftIntegrity
<1>4. Acknowledge(p, r.client, f) \/ sentence' = sentence
  <2>1. CASE ServeInfo(r)
    BY <2>1 DEF ServeInfo, Expire, book
  <2>2. CASE ServeRead(r)
    BY <2>2 DEF ServeRead, ReadFragment, RefuseRead, Expire, book
  <2>3. CASE ServeWrite(r)
    BY <2>3 DEF ServeWrite, WriteOk, WriteError, Begin, Continue, AcceptProfile, AcceptGift,
       RefusePacket, RefuseWrite, SelectFragment, AcknowledgeAgain, Expire, vars, book, p, f
  <2> QED
    BY <2>1, <2>2, <2>3 DEF Serve
<1> QED
  BY <1>2, <1>3, <1>4

(* A new exchange has no session yet.                                      *)
LEMMA ConnectLinked ==
  ASSUME LinkInv, NEW n \in Node, NEW p \in Node, Connect(n, p)
  PROVE  Truthful' /\ Unique' /\ Linked' /\ GiftIntegrity'
<1> DEFINE x == attempts + 1
           c == IF n \in tab5 THEN Tab5Connected(n, p, x) ELSE Connected(p, x)
<1>1. /\ central[n] = None /\ attempts' = x /\ central' = [central EXCEPT ![n] = c]
      /\ UNCHANGED <<vars, inflight, answer, tab5>>
  BY DEF Connect, link
<1>2. /\ attempts \in Nat /\ inflight \subseteq Message /\ answer[n] = None
      /\ central \in [Node -> Central \cup {None}]
  BY <1>1 DEF LinkInv, NetInv, NetTyped, AnswersKnown
<1>3. /\ c.exchange = x /\ c.target = p /\ ~c.waiting /\ c.stage \in {"Info", "SendProfile"}
      /\ c.step = 0 /\ c.sent = None /\ c.received = None /\ c.incoming = EmptyAssembler
  <2>1. CASE n \in tab5
    BY <2>1 DEF Tab5Connected, Connected
  <2>2. CASE n \notin tab5
    BY <2>2 DEF Connected
  <2> QED
    BY <2>1, <2>2
<1> HIDE DEF c
<1>4. \A m \in Node : central'[m] = IF m = n THEN c ELSE central[m]
  BY <1>1, <1>2
<1>5. UNCHANGED <<session, sentence>>
  BY <1>1 DEF vars, book
<1>6. \A q \in Node : session[q] # None => session[q].exchange # x /\ session[q].exchange <= x
  <2>1. ASSUME NEW q \in Node, session[q] # None PROVE session[q].exchange \in Nat
    BY <2>1, NetworkAssumption DEF LinkInv, NetInv, IInv, TypeOK, Session
  <2> QED
    BY <1>2, <2>1 DEF LinkInv, Unique
<1>7. ASSUME NEW m \in Node, central[m] # None PROVE central[m].exchange # x
  <2>1. central[m].exchange \in Nat /\ central[m].exchange <= attempts
    BY <1>2, <1>7, NetworkAssumption DEF LinkInv, NetInv, CentralsKnow, StageKnown, Central
  <2> QED
    BY <1>2, <2>1
<1>8. ASSUME NEW r \in inflight PROVE r.exchange # x
  <2>1. r.exchange \in Nat /\ r.exchange <= attempts
    BY <1>2, <1>8, NetworkAssumption DEF LinkInv, NetInv, RequestsKnown, Message
  <2> QED
    BY <1>2, <2>1
<1>9. Truthful'
  <2>1. CentralTrue(n, c) /\ AnswerTrue(c, answer[n])
    BY <1>2, <1>3 DEF CentralTrue, AnswerTrue, EmptyAssembler
  <2> QED
    BY <1>1, <1>4, <1>5, <2>1 DEF LinkInv, Truthful
<1>10. Unique'
  BY <1>1, <1>3, <1>4, <1>5, <1>6, <1>7, <1>8 DEF LinkInv, Unique
<1>11. Linked'
  <2>1. InStep(n, c, session[p]) /\ GiftsAgree(c, session[p], answer[n]) /\ NotYet(c)
    BY <1>3, <1>6 DEF InStep, GiftsAgree, NotYet, EmptyAssembler
  <2>2. \A m, d, s : InStep(m, d, s) => InStep(m, d, s)'
    BY <1>1 DEF InStep
  <2> QED
    BY <1>1, <1>3, <1>4, <1>5, <2>1, <2>2 DEF LinkInv, Linked
<1>12. GiftIntegrity'
  BY <1>5 DEF LinkInv, GiftIntegrity
<1> QED
  BY <1>9, <1>10, <1>11, <1>12

LEMMA SendLinked ==
  ASSUME LinkInv, NEW n \in Node, Send(n)
  PROVE  Truthful' /\ Unique' /\ Linked' /\ GiftIntegrity'
<1> DEFINE c == central[n]  d == [c EXCEPT !.waiting = TRUE]
<1>0. PICK q : q = [client |-> n, target |-> c.target, exchange |-> c.exchange,
                    body |-> Request(c)]
  OBVIOUS
<1>1. /\ c # None /\ ~c.waiting /\ inflight' = inflight \cup {q}
      /\ central' = [central EXCEPT ![n] = d] /\ UNCHANGED <<vars, answer, attempts, tab5>>
  BY <1>0 DEF Send
<1>2. /\ c \in Central /\ StageKnown(n, c) /\ answer[n] = None
      /\ central \in [Node -> Central \cup {None}] /\ inflight \subseteq Message
  BY <1>1 DEF LinkInv, NetInv, NetTyped, CentralsKnow, AnswersKnown
<1>3. CentralTrue(n, c) /\ NotYet(c) /\ c.target \in Node
      /\ InStep(n, c, session[c.target]) /\ GiftsAgree(c, session[c.target], answer[n])
  BY <1>1, <1>2 DEF LinkInv, Truthful, Linked, Central
<1>4. /\ d.target = c.target /\ d.exchange = c.exchange /\ d.stage = c.stage /\ d.own = c.own
      /\ d.peer = c.peer /\ d.sent = c.sent /\ d.received = c.received /\ d.waiting
      /\ d.incoming = c.incoming /\ d.step = c.step
  BY <1>2 DEF Central
<1>5. q.client = n /\ q.target = c.target /\ q.exchange = c.exchange /\ q.body = Request(c)
  BY <1>0
<1> HIDE DEF d
<1>6. \A m \in Node : central'[m] = IF m = n THEN d ELSE central[m]
  BY <1>1, <1>2
<1>7. UNCHANGED <<session, sentence>>
  BY <1>1 DEF vars, book
<1>8. q.body.kind = "DATA" =>
        \/ c.stage = "SendProfile" /\ q.body.packet = c.own /\ q.body.seq = c.step
        \/ c.stage = "SendGift" /\ q.body.packet = c.sent /\ q.body.seq = c.step
  BY <1>2, <1>5, DataRequest
<1>9. Truthful'
  <2>1. CentralTrue(n, d) /\ AnswerTrue(d, answer[n])
    BY <1>2, <1>3, <1>4 DEF CentralTrue, AnswerTrue
  <2>2. ASSUME q.body.kind = "DATA" PROVE From(q.client, q.body.packet)
    <3>1. CASE c.stage = "SendProfile" /\ q.body.packet = c.own
      BY <1>2, <1>5, <3>1 DEF StageKnown, OwnProfile, From
    <3>2. CASE c.stage = "SendGift" /\ q.body.packet = c.sent
      <4>1. c.sent \in Packet
        BY <1>2, <3>2 DEF StageKnown, Packet
      <4> QED
        BY <1>3, <1>5, <3>2, <4>1, PacketAssumption DEF CentralTrue
    <3> QED
      BY <1>8, <2>2, <3>1, <3>2
  <2> QED
    BY <1>1, <1>6, <1>7, <2>1, <2>2 DEF LinkInv, Truthful
<1>10. Unique'
  <2>1. \A r \in inflight : r.exchange # c.exchange
    <3>1. ASSUME NEW r \in inflight, r.exchange = c.exchange PROVE FALSE
      BY <1>1, <3>1 DEF LinkInv, Unique, NetInv, RequestsKnown, Awaited
    <3> QED
      BY <3>1
  <2>2. q.body \notin {Info, ReadTx} => q.body.exchange = q.exchange
    BY <1>2, <1>5 DEF Request, Data, Select, Ack, Central, Stage
  <2>3. \A m \in Node : central'[m] # None /\ central'[m].exchange = c.exchange => m = n
    BY <1>1, <1>4, <1>6 DEF LinkInv, Unique
  <2>4. \A l, m \in Node :
          central'[l] # None /\ central'[m] # None /\ central'[l].exchange = central'[m].exchange =>
            l = m
    BY <1>1, <1>4, <1>6 DEF LinkInv, Unique
  <2>5. \A r \in inflight, m \in Node :
          central'[m] # None /\ central'[m].exchange = r.exchange => m = r.client
    BY <1>1, <1>4, <1>6 DEF LinkInv, Unique
  <2>6. \A o, r \in inflight' : o.exchange = r.exchange => o = r
    BY <1>1, <1>5, <2>1 DEF LinkInv, Unique
  <2> QED
    BY <1>1, <1>5, <1>7, <2>2, <2>3, <2>4, <2>5, <2>6 DEF LinkInv, Unique
<1>11. Linked'
  <2>1. InStep(n, d, session[c.target])
    BY <1>1, <1>3, <1>4 DEF InStep, Sending
  <2>2. GiftsAgree(d, session[c.target], answer[n]) /\ NotYet(d)
    BY <1>2, <1>3, <1>4 DEF GiftsAgree, NotYet
  <2>3. Continues(q, session[c.target])
    <3>1. ASSUME q.body.kind = "DATA"
          PROVE  /\ Sending(c) = q.body.packet
                 /\ q.body.packet \in Gift \/ (c.stage = "SendProfile" /\ c.sent = None)
      BY <1>2, <1>3, <1>8, <3>1, PacketAssumption DEF Sending, NotYet, StageKnown, Packet
    <3> QED
      BY <1>1, <1>3, <1>5, <3>1 DEF Continues, InStep
  <2>4. \A m, e, s : InStep(m, e, s) => InStep(m, e, s)'
    BY <1>1 DEF InStep
  <2> QED
    BY <1>1, <1>4, <1>5, <1>6, <1>7, <2>1, <2>2, <2>3, <2>4 DEF LinkInv, Linked
<1>12. GiftIntegrity'
  BY <1>7 DEF LinkInv, GiftIntegrity
<1> QED
  BY <1>9, <1>10, <1>11, <1>12

(* The exchange of one central ends or goes on.                            *)
LEMMA ProceedLinked ==
  ASSUME LinkInv, NEW n \in Node, NEW c, Proceed(n, c), central[n] # None, session' = session,
         \/ c = None
         \/ /\ c.exchange = central[n].exchange /\ c.target = central[n].target
            /\ CentralTrue(n, c) /\ NotYet(c)
            /\ InStep(n, c, session[c.target]) /\ GiftsAgree(c, session[c.target], None)
  PROVE  Truthful' /\ Unique' /\ Linked'
<1>1. /\ central' = [central EXCEPT ![n] = c] /\ answer' = [answer EXCEPT ![n] = None]
      /\ UNCHANGED <<inflight, attempts, tab5>>
  BY DEF Proceed
<1>2. /\ \A m \in Node : central'[m] = IF m = n THEN c ELSE central[m]
      /\ \A m \in Node : answer'[m] = IF m = n THEN None ELSE answer[m]
  BY <1>1 DEF LinkInv, NetInv, NetTyped
<1>3. Truthful'
  BY <1>1, <1>2 DEF LinkInv, Truthful, AnswerTrue
<1>4. Unique'
  BY <1>1, <1>2 DEF LinkInv, Unique
<1>5. Linked'
  <2>1. \A m, d, s : InStep(m, d, s) => InStep(m, d, s)'
    BY <1>1 DEF InStep
  <2> QED
    BY <1>1, <1>2, <2>1 DEF LinkInv, Linked
<1> QED
  BY <1>3, <1>4, <1>5

(* Every action of a central but Send and OnAck ...                        *)
Goes(n) ==
  \E c : /\ Proceed(n, c) /\ UNCHANGED vars
         /\ \/ c = None
            \/ /\ c.exchange = central[n].exchange /\ c.target = central[n].target
               /\ central[n].stage # "Ack" /\ CentralTrue(n, c) /\ NotYet(c)
               /\ InStep(n, c, session[c.target]) /\ GiftsAgree(c, session[c.target], None)

LEMMA CentralGoes ==
  ASSUME LinkInv, NEW n \in Node, CentralStep(n) \/ Abort(n)
  PROVE  Send(n) \/ OnAck(n) \/ Goes(n)
<1> DEFINE c == central[n]  s == session[c.target]  a == answer[n]
<1>1. CASE Failed(n) \/ Abort(n)
  BY <1>1 DEF Failed, Abort, Goes
<1> SUFFICES ASSUME a # None, ~Failed(n), ~Abort(n), ~Send(n), ~OnAck(n)
             PROVE  Goes(n)
  BY <1>1 DEF CentralStep, OnInfo, Tab5OnInfo, Tab5OnFirstData, OnSent, OnSelected, OnFragment,
     OnProfile, OnGift, LastFragment, Answered
<1>2. /\ c # None /\ c \in Central /\ c.waiting /\ StageKnown(n, c) /\ CentralTrue(n, c)
      /\ AnswerTrue(c, a) /\ InStep(n, c, s) /\ GiftsAgree(c, s, a) /\ NotYet(c)
  BY DEF LinkInv, NetInv, NetTyped, AnswersKnown, CentralsKnow, Truthful, Linked
<1>0. /\ c.stage # "Info" => FrameCount(c.own) >= 2 /\ c.own # None
      /\ c.stage \in {"SendGift", "ReadGift", "Ack"} => c.sent # None
  <2>1. n \in Peer /\ OwnProfile(n) \in Profile
    BY ExchangeAssumption, OwnProfileType
  <2> QED
    BY <1>2, <2>1, PacketAssumption, ExchangeAssumption DEF StageKnown, FrameCount, Packet, Profile
<1>3. CASE OnInfo(n)
  <2> DEFINE e == EnterStage(c, "SendProfile")  d == [e EXCEPT !.own = OwnProfile(n)]
  <2>1. /\ c.stage = "Info" /\ (Proceed(n, None) \/ Proceed(n, d)) /\ UNCHANGED vars
        /\ n \notin tab5
    BY <1>3 DEF OnInfo, Answered
  <2>2. /\ e \in Central /\ e.stage = "SendProfile" /\ ~e.waiting /\ e.step = 0
        /\ e.target = c.target
        /\ e.exchange = c.exchange /\ e.sent = c.sent /\ e.received = c.received
        /\ e.incoming = EmptyAssembler
    BY <1>2, EnterStageType DEF Stage
  <2> HIDE DEF e
  <2>3. /\ d.stage = "SendProfile" /\ ~d.waiting /\ d.step = 0 /\ d.target = c.target
        /\ d.exchange = c.exchange /\ d.sent = c.sent /\ d.received = c.received
        /\ d.incoming = EmptyAssembler
    BY <2>2 DEF Central
  <2> HIDE DEF d, c, s, a
  <2>4. CentralTrue(n, d) /\ NotYet(d) /\ InStep(n, d, s) /\ GiftsAgree(d, s, None)
    BY <1>2, <2>1, <2>3 DEF CentralTrue, NotYet, InStep, GiftsAgree, EmptyAssembler
  <2> QED
    BY <2>1, <2>3, <2>4 DEF Goes, c, s
<1>4. CASE Tab5OnInfo(n)
  <2> DEFINE e == EnterStage(c, "SendProfile")  d == NextStep(e)
  <2>1. /\ c.stage = "Info" /\ (Proceed(n, None) \/ Proceed(n, d)) /\ UNCHANGED vars /\ n \in tab5
    BY <1>4 DEF Tab5OnInfo, Answered
  <2>2. /\ e \in Central /\ e.stage = "SendProfile" /\ e.step = 0 /\ e.target = c.target
        /\ e.exchange = c.exchange /\ e.sent = c.sent /\ e.received = c.received
        /\ e.incoming = EmptyAssembler /\ e.own = c.own
    BY <1>2, EnterStageType DEF Stage
  <2> HIDE DEF e
  <2>3. /\ d.stage = "SendProfile" /\ ~d.waiting /\ d.step = 1 /\ d.target = c.target
        /\ d.exchange = c.exchange /\ d.sent = c.sent /\ d.received = c.received
        /\ d.incoming = EmptyAssembler /\ d.own = c.own
    BY <2>2, NextStepType
  <2> HIDE DEF d, c, s, a
  <2>4. CentralTrue(n, d) /\ NotYet(d) /\ InStep(n, d, s) /\ GiftsAgree(d, s, None)
    BY <1>2, <2>1, <2>3 DEF CentralTrue, NotYet, InStep, Sending, GiftsAgree, EmptyAssembler
  <2> QED
    BY <2>1, <2>3, <2>4 DEF Goes, c, s
<1>5. CASE Tab5OnFirstData(n)
  <2> DEFINE d == EnterStage(c, "Info")
  <2>1. /\ c.stage = "SendProfile" /\ Proceed(n, d) /\ UNCHANGED vars /\ c.step = 0
        /\ n \in tab5
    BY <1>5 DEF Tab5OnFirstData, Answered
  <2>2. /\ d.stage = "Info" /\ ~d.waiting /\ d.step = 0 /\ d.target = c.target
        /\ d.exchange = c.exchange /\ d.sent = c.sent /\ d.received = c.received
        /\ d.incoming = EmptyAssembler /\ d.own = c.own
    BY <1>2, EnterStageType DEF Stage
  <2> HIDE DEF d, c, s, a
  <2>3. CentralTrue(n, d) /\ NotYet(d) /\ InStep(n, d, s) /\ GiftsAgree(d, s, None)
    BY <1>0, <1>2, <2>1, <2>2
       DEF CentralTrue, NotYet, InStep, Sending, GiftsAgree, EmptyAssembler
  <2> QED
    BY <2>1, <2>2, <2>3 DEF Goes, c, s
<1>6. CASE \/ OnSent(n, "SendProfile", c.own, "ReadProfile")
           \/ OnSent(n, "SendGift", c.sent, "ReadGift")
  <2> DEFINE d == NextStep(c)
  <2>1. PICK next \in {"ReadProfile", "ReadGift"} :
          /\ \/ Proceed(n, d) /\ (c.stage = "SendProfile" => c.step + 1 < FrameCount(c.own))
             \/ Proceed(n, EnterStage(c, next))
          /\ (next = "ReadProfile" <=> c.stage = "SendProfile")
    BY <1>6 DEF OnSent, Answered
  <2>2. UNCHANGED vars /\ c.stage \in {"SendProfile", "SendGift"} /\ a.ok
    BY <1>6 DEF OnSent, Answered
  <2> DEFINE e == EnterStage(c, next)
  <2>3. /\ d.stage = c.stage /\ ~d.waiting /\ d.step = c.step + 1 /\ d.target = c.target
        /\ d.exchange = c.exchange /\ d.sent = c.sent /\ d.received = c.received
        /\ d.incoming = c.incoming /\ d.own = c.own
    BY <1>2, NextStepType
  <2>4. next \in Stage
    BY DEF Stage
  <2>5. /\ e.stage = next /\ ~e.waiting /\ e.target = c.target
        /\ e.exchange = c.exchange /\ e.sent = c.sent /\ e.received = c.received
        /\ e.incoming = EmptyAssembler /\ e.own = c.own
    BY <1>2, <2>4, EnterStageType
  <2>6. \/ Proceed(n, d) /\ (c.stage = "SendProfile" => c.step + 1 < FrameCount(c.own))
        \/ Proceed(n, e)
    BY <2>1
  <2> HIDE DEF d, e, c, s, a
  <2>7. ASSUME c.stage = "SendProfile" => c.step + 1 < FrameCount(c.own)
        PROVE  CentralTrue(n, d) /\ NotYet(d) /\ InStep(n, d, s) /\ GiftsAgree(d, s, None)
    <3>1. c.step \in Nat /\ (c.stage = "SendProfile" => c.step + 1 # FrameCount(c.own))
      BY <1>2, <2>7 DEF Central
    <3> QED
      BY <1>0, <1>2, <2>2, <2>3, <3>1 DEF CentralTrue, NotYet, InStep, Sending, GiftsAgree
  <2>8. CentralTrue(n, e) /\ NotYet(e) /\ InStep(n, e, s) /\ GiftsAgree(e, s, None)
    BY <1>0, <1>2, <2>1, <2>2, <2>5
       DEF CentralTrue, NotYet, InStep, Sending, GiftsAgree, EmptyAssembler
  <2> QED
    BY <2>2, <2>3, <2>5, <2>6, <2>7, <2>8 DEF Goes, c, s
<1>7. CASE OnSelected(n, "ReadProfile") \/ OnSelected(n, "ReadGift")
  <2> DEFINE d == NextStep(c)
  <2>1. UNCHANGED vars /\ c.stage \in {"ReadProfile", "ReadGift"} /\ Proceed(n, d)
    BY <1>7 DEF OnSelected, Answered
  <2>2. /\ d.stage = c.stage /\ ~d.waiting /\ d.target = c.target
        /\ d.exchange = c.exchange /\ d.sent = c.sent /\ d.received = c.received
        /\ d.incoming = c.incoming /\ d.own = c.own
    BY <1>2, NextStepType
  <2> HIDE DEF d, c, s, a
  <2>3. CentralTrue(n, d) /\ NotYet(d) /\ InStep(n, d, s) /\ GiftsAgree(d, s, None)
    BY <1>0, <1>2, <2>1, <2>2 DEF CentralTrue, NotYet, InStep, Sending, GiftsAgree
  <2> QED
    BY <2>1, <2>2, <2>3 DEF Goes, c, s
<1> DEFINE f == a.fragment  inc == Pushed(c.incoming, f)
<1>8. ASSUME c.stage \in {"ReadProfile", "ReadGift"}, c.step % 2 = 1, a.ok, Fits(c, f)
      PROVE  /\ inc \in Assembler
             /\ inc.packet # None => inc.packet = f.packet
             /\ From(c.target, f.packet) /\ f.packet # None
             /\ s # None /\ s.exchange = c.exchange => f.packet = s.reply
  <2>1. inc \in Assembler /\ f.packet # None
    BY <1>8, FragmentRead, PacketAssumption DEF LinkInv, Fragment
  <2>2. inc.packet = f.packet \/ inc.packet = None
    BY DEF Pushed
  <2>3. Request(c) = ReadTx /\ f.exchange = c.exchange
    BY <1>8 DEF Request, Fits
  <2> HIDE DEF c, s, a
  <2>4. From(c.target, f.packet)
    BY <1>2, <1>8, <2>3, <2>3 DEF AnswerTrue, f, a
  <2>5. s # None /\ s.exchange = c.exchange => f.packet = s.reply
    BY <1>2, <1>8, <2>3 DEF GiftsAgree, a
  <2> QED
    BY <2>1, <2>2, <2>4, <2>5
<1>9. CASE OnFragment(n, "ReadProfile") \/ OnFragment(n, "ReadGift")
  <2> DEFINE d == [NextStep(c) EXCEPT !.incoming = inc]
  <2>1. /\ UNCHANGED vars /\ c.stage \in {"ReadProfile", "ReadGift"} /\ c.step % 2 = 1 /\ a.ok
        /\ Proceed(n, None) \/ (Fits(c, f) /\ Proceed(n, d))
    BY <1>9 DEF OnFragment, Answered
  <2>2. CASE Proceed(n, None)
    BY <2>1, <2>2 DEF Goes
  <2>3. CASE Fits(c, f) /\ Proceed(n, d)
    <3>1. /\ NextStep(c) \in Central /\ NextStep(c).stage = c.stage
          /\ ~NextStep(c).waiting /\ NextStep(c).target = c.target
          /\ NextStep(c).exchange = c.exchange /\ NextStep(c).sent = c.sent
          /\ NextStep(c).received = c.received /\ NextStep(c).own = c.own
      BY <1>2, NextStepType
    <3> HIDE DEF inc
    <3>2. /\ d.stage = c.stage /\ d.target = c.target
          /\ d.exchange = c.exchange /\ d.sent = c.sent /\ d.received = c.received
          /\ d.incoming = inc /\ d.own = c.own
      BY <3>1 DEF Central
    <3> HIDE DEF d, c, s, a, f
    <3>3. CentralTrue(n, d) /\ NotYet(d)
      BY <1>2, <1>8, <2>1, <2>3, <3>2 DEF CentralTrue, NotYet
    <3>4. InStep(n, d, s) /\ GiftsAgree(d, s, None)
      BY <1>0, <1>2, <1>8, <2>1, <2>3, <3>2 DEF InStep, Sending, GiftsAgree
    <3> QED
      BY <2>1, <2>3, <3>2, <3>3, <3>4 DEF Goes, c, s
  <2> QED
    BY <2>1, <2>2, <2>3
<1>10. CASE OnProfile(n)
  <2> DEFINE p == Reply(n)  e == EnterStage(c, "SendGift")
  <2>1. /\ c.stage = "ReadProfile" /\ p \in Packet \cup {None} /\ UNCHANGED vars
        /\ c.step % 2 = 1 /\ a.ok /\ Fits(c, f)
    BY <1>10, ReplyType DEF OnProfile, LastFragment, Answered, LinkInv
  <2>2. CASE ~ProfileFits(n, p)
    BY <1>10, <2>1, <2>2 DEF OnProfile, Goes
  <2>3. CASE ProfileFits(n, p)
    <3>1. PICK phrase \in Choices(n, p.missing) :
             Proceed(n, [e EXCEPT !.peer = p, !.sent = GiftFor(p, phrase)])
      BY <1>10, <2>3 DEF OnProfile
    <3>2. p \in Profile
      BY <2>1, <2>3 DEF ProfileFits, Packet, Gift
    <3>3. n \in Peer /\ p.missing \in SUBSET Slot
      BY <3>2, ExchangeAssumption DEF Profile
    <3>4. phrase # None => phrase.deck = n /\ phrase \in Phrase
      BY <3>1, <3>3, ChoicesType DEF Choices
    <3> DEFINE g == GiftFor(p, phrase)  d == [e EXCEPT !.peer = p, !.sent = g]
    <3>5. From(n, g) /\ g # None
      BY <3>2, <3>4, PacketAssumption DEF GiftFor, From, Gift, Profile, Packet
    <3>6. /\ e \in Central /\ e.stage = "SendGift" /\ ~e.waiting /\ e.step = 0
          /\ e.target = c.target /\ e.exchange = c.exchange /\ e.received = c.received
          /\ e.incoming = EmptyAssembler
      BY <1>2, EnterStageType DEF Stage
    <3>7. Proceed(n, d)
      BY <3>1
    <3> HIDE DEF e, g, p
    <3>8. /\ d.stage = "SendGift" /\ ~d.waiting /\ d.step = 0 /\ d.sent = g
          /\ d.target = c.target /\ d.exchange = c.exchange /\ d.received = c.received
          /\ d.incoming = EmptyAssembler
      BY <3>6 DEF Central
    <3> HIDE DEF d, c, s, a, f
    <3>9. s # None /\ s.exchange = c.exchange => s.incoming.next = 0
      BY <1>2, <1>8, <2>1 DEF InStep, NotYet
    <3>10. CentralTrue(n, d) /\ NotYet(d) /\ InStep(n, d, s) /\ GiftsAgree(d, s, None)
      BY <1>2, <2>1, <3>5, <3>8, <3>9
         DEF CentralTrue, NotYet, InStep, GiftsAgree, EmptyAssembler
    <3> QED
      BY <2>1, <3>7, <3>8, <3>10 DEF Goes, c, s
  <2> QED
    BY <2>2, <2>3
<1>11. CASE OnGift(n)
  <2> DEFINE p == Reply(n)  e == EnterStage(c, "Ack")  d == [e EXCEPT !.received = p]
  <2>1. /\ c.stage = "ReadGift" /\ UNCHANGED vars /\ c.step % 2 = 1 /\ a.ok /\ Fits(c, f)
        /\ Proceed(n, None) \/ (p # None /\ Proceed(n, d))
    BY <1>11 DEF OnGift, LastFragment, Answered, GiftFits
  <2>2. CASE Proceed(n, None)
    BY <2>1, <2>2 DEF Goes
  <2>3. CASE p # None /\ Proceed(n, d)
    <3>1. p = inc.packet
      BY DEF Reply
    <3>2. /\ e \in Central /\ e.stage = "Ack" /\ e.target = c.target /\ e.exchange = c.exchange
          /\ e.sent = c.sent /\ e.incoming = EmptyAssembler
      BY <1>2, EnterStageType DEF Stage
    <3> HIDE DEF e, p, inc
    <3>3. /\ d.stage = "Ack" /\ d.target = c.target /\ d.exchange = c.exchange
          /\ d.sent = c.sent /\ d.incoming = EmptyAssembler /\ d.received = p
      BY <3>2 DEF Central
    <3> HIDE DEF d, c, s, a, f
    <3>4. p = f.packet /\ From(c.target, f.packet)
          /\ (s # None /\ s.exchange = c.exchange => f.packet = s.reply)
      BY <1>8, <2>1, <2>3, <3>1
    <3>5. CentralTrue(n, d) /\ NotYet(d) /\ InStep(n, d, s) /\ GiftsAgree(d, s, None)
      BY <1>0, <1>2, <2>1, <3>3, <3>4
         DEF CentralTrue, NotYet, InStep, Sending, GiftsAgree, EmptyAssembler
    <3> QED
      BY <2>1, <2>3, <3>3, <3>5 DEF Goes, c, s
  <2> QED
    BY <2>1, <2>2, <2>3
<1> QED
  BY <1>3, <1>4, <1>5, <1>6, <1>7, <1>9, <1>10, <1>11 DEF CentralStep

LEMMA OnAckLinked ==
  ASSUME LinkInv, NEW n \in Node, OnAck(n)
  PROVE  Truthful' /\ Unique' /\ Linked' /\ GiftIntegrity'
<1> DEFINE c == central[n]
<1>1. /\ answer[n] # None /\ c.stage = "Ack" /\ Proceed(n, None) /\ session' = session
      /\ UNCHANGED vars \/ Record(n, c.peer, c.sent, c.received)
  BY DEF OnAck, Answered, Settled, vars
<1>2. c # None /\ StageKnown(n, c) /\ CentralTrue(n, c)
  BY <1>1 DEF LinkInv, NetInv, AnswersKnown, CentralsKnow, Truthful
<1>3. Truthful' /\ Unique' /\ Linked'
  BY <1>1, <1>2, ProceedLinked
<1>4. CASE Record(n, c.peer, c.sent, c.received)
  <2>1. c.peer \in Profile /\ c.received \in Gift /\ c.peer.node # n /\ c.peer.node = c.target
    BY <1>1, <1>2 DEF StageKnown
  <2>2. c.received # None
    BY <2>1, PacketAssumption DEF Packet
  <2>3. From(c.peer.node, c.received)
    BY <1>2, <2>1, <2>2 DEF CentralTrue
  <2> QED
    BY <1>3, <1>4, <2>1, <2>3, RecordIntegrity DEF LinkInv, NetInv
<1>5. CASE UNCHANGED vars
  <2>1. sentence' = sentence
    BY <1>5 DEF vars, book
  <2> QED
    BY <1>3, <2>1 DEF LinkInv, GiftIntegrity
<1> QED
  BY <1>1, <1>4, <1>5

LEMMA CentralLinked ==
  ASSUME LinkInv, NEW n \in Node, CentralStep(n) \/ Abort(n)
  PROVE  Truthful' /\ Unique' /\ Linked' /\ GiftIntegrity'
<1>1. CASE Goes(n)
  <2>1. PICK c : /\ Proceed(n, c) /\ UNCHANGED vars
                 /\ \/ c = None
                    \/ /\ c.exchange = central[n].exchange /\ c.target = central[n].target
                       /\ CentralTrue(n, c) /\ NotYet(c)
                       /\ InStep(n, c, session[c.target])
                       /\ GiftsAgree(c, session[c.target], None)
    BY <1>1 DEF Goes
  <2>2. UNCHANGED <<session, sentence>>
    BY <2>1 DEF vars, book
  <2>3. central[n] # None
    BY DEF CentralStep, Abort, Send, Failed, OnInfo, Tab5OnInfo, Tab5OnFirstData, OnSent,
       OnSelected,
       OnFragment, OnProfile, OnGift, OnAck, LastFragment, Answered, LinkInv, NetInv, AnswersKnown
  <2>4. Truthful' /\ Unique' /\ Linked'
    BY <2>1, <2>2, <2>3, ProceedLinked
  <2> QED
    BY <2>2, <2>4 DEF LinkInv, GiftIntegrity
<1> QED
  BY <1>1, CentralGoes, SendLinked, OnAckLinked

LEMMA LinkInvKept ==
  ASSUME LinkInv, [NetNext]_netvars
  PROVE  LinkInv'
<1> SUFFICES Truthful' /\ Unique' /\ Linked' /\ GiftIntegrity'
  BY NetInvKept DEF LinkInv
<1>1. CASE NetTick
  <2>1. UNCHANGED <<central, answer, attempts, tab5, sentence, inflight>>
    BY <1>1 DEF NetTick, Tick, link
  <2>2. ASSUME NEW p \in Node PROVE Fades(p)
    <3>1. session[p] \in Session \cup {None}
      BY DEF LinkInv, NetInv, IInv, TypeOK
    <3>2. session'[p] = IF session[p] = None THEN None
                        ELSE [session[p] EXCEPT !.timer = Elapse(@)]
      BY <1>1 DEF NetTick, Tick
    <3> QED
      BY <3>1, <3>2 DEF Fades, Alike, Session
  <2> QED
    BY <2>1, <2>2, FadingLinked
<1>2. ASSUME NEW n \in Node,
             \/ EnterPeripheral(n) \/ StopAdvertising(n) \/ LeaveWhenIdle(n)
             \/ Tab5LeavesWhenIdle(n) \/ Tab5Quits(n) \/ FailedSlot(n) \/ PowerOff(n)
             \/ NetExpire(n) \/ Tab5Disconnected(n)
      PROVE  Truthful' /\ Unique' /\ Linked' /\ GiftIntegrity'
  <2>1. UNCHANGED <<central, answer, attempts, tab5, sentence, inflight>>
    BY <1>2 DEF EnterPeripheral, StopAdvertising, LeaveWhenIdle, Tab5LeavesWhenIdle, Tab5Quits,
       FailedSlot, PowerOff, NetExpire, Tab5Disconnected, Enable, DisableIfIdle, Shutdown,
       Expire, book, vars,
       link
  <2>2. \/ session' = session \/ session' = [session EXCEPT ![n] = None]
        \/ session' = [session EXCEPT ![n] = Live(n)]
    BY <1>2 DEF EnterPeripheral, StopAdvertising, LeaveWhenIdle, Tab5LeavesWhenIdle, Tab5Quits,
       FailedSlot, PowerOff, NetExpire, Tab5Disconnected, Enable, DisableIfIdle, Shutdown,
       Expire, vars
  <2>3. ASSUME NEW p \in Node PROVE Fades(p)
    <3>1. session \in [Node -> Session \cup {None}]
      BY DEF LinkInv, NetInv, IInv, TypeOK
    <3>2. session'[p] = None \/ session'[p] = session[p]
      BY <2>2, <3>1 DEF Live
    <3> QED
      BY <3>2 DEF Fades, Alike
  <2> QED
    BY <2>1, <2>3, FadingLinked
<1>3. ASSUME NEW n \in Node, NEW p \in Node, Connect(n, p)
      PROVE  Truthful' /\ Unique' /\ Linked' /\ GiftIntegrity'
  BY <1>3, ConnectLinked
<1>4. ASSUME NEW n \in Node, CentralStep(n) \/ Abort(n)
      PROVE  Truthful' /\ Unique' /\ Linked' /\ GiftIntegrity'
  BY <1>4, CentralLinked
<1>5. ASSUME NEW r \in inflight, Serve(r)
      PROVE  Truthful' /\ Unique' /\ Linked' /\ GiftIntegrity'
  BY <1>5, ServeTruthful, ServeUnique, ServeLinked, ServeIntegrity
<1>6. CASE UNCHANGED netvars \/ \E r \in inflight : LoseRequest(r)
  <2>1. UNCHANGED <<central, answer, attempts, tab5, sentence>> /\ inflight' \subseteq inflight
        /\ session' = session
    BY <1>6 DEF LoseRequest, Taken, netvars, vars, book, link
  <2>2. \A p \in Node : Fades(p)
    BY <2>1 DEF Fades, Alike
  <2> QED
    BY <2>1, <2>2, FadingLinked
<1> QED
  BY <1>1, <1>2, <1>3, <1>4, <1>5, <1>6 DEF NetNext

(* NetInv, and the two sides of every exchange in step: what on_write has  *)
(* assembled is of the packet that the central is sending, and the gifts   *)
(* that the two of them hold are the same.  It does not rest on a refusal  *)
(* being told: a Tab5 that acknowledges the writes it refuses is left      *)
(* behind, but takes nothing that does not belong together.                *)
THEOREM LinkInvariant == NetSpec => []LinkInv
<1>1. NetInit => LinkInv
  BY InitNetInv DEF NetInit, Init, LinkInv, Truthful, Unique, Linked, GiftIntegrity
<1>2. LinkInv /\ [NetNext]_netvars => LinkInv'
  BY LinkInvKept
<1> QED
  BY <1>1, <1>2, PTL DEF NetSpec

(* Whatever is delayed, lost or aborted, every phrase of a sentence is     *)
(* from the deck of the device it is filed under, and that is another one: *)
(* the packets of two exchanges never mix in an assembler (protocol.rs),   *)
(* and the Profile a gift is booked with is of the client that sent it.    *)
THEOREM GiftsKeepTheirSource == NetSpec => []GiftIntegrity
BY LinkInvariant, PTL DEF LinkInv

-----------------------------------------------------------------------------
(* The two books.  An exchange is settled by the peripheral while the      *)
(* central waits for its acknowledgement, so what the central holds then   *)
(* is the mirror of the entry: it is what it books, if it still does.  It  *)
(* is told so only then, unless the peripheral is a Tab5.                  *)

Mirrored(n, c) ==
  [node |-> c.target, peer |-> n, sent |-> c.received.phrase, received |-> c.sent.phrase]

CentralBooked(n, c, a) ==
  /\ clientBook[c.exchange] = None
  /\ serverBook[c.exchange] # None =>
       c.stage = "Ack" /\ c.waiting /\ serverBook[c.exchange] = Mirrored(n, c)
  /\ c.stage = "Ack" /\ a # None /\ a.ok =>
       serverBook[c.exchange] # None \/ c.target \in tab5

CommitBooked(s) == s # None /\ s.committed => serverBook[s.exchange] # None

BookInv ==
  /\ serverBook \in [ExchangeId -> Ledger!BookEntry \cup {None}]
  /\ clientBook \in [ExchangeId -> Ledger!BookEntry \cup {None}]
  /\ \A x \in ExchangeId : x > attempts => serverBook[x] = None /\ clientBook[x] = None
  /\ \A r \in inflight : serverBook[r.exchange] = None /\ clientBook[r.exchange] = None
  /\ \A p \in Node : CommitBooked(session[p])
  /\ \A n \in Node : central[n] # None => CentralBooked(n, central[n], answer[n])

(* A step of the ledger, in terms of the books.                            *)
Settles ==
  \E x \in ExchangeId, e \in Ledger!BookEntry :
    /\ serverBook[x] = None /\ clientBook[x] = None /\ e.node # e.peer
    /\ serverBook' = [serverBook EXCEPT ![x] = e] /\ clientBook' = clientBook

Follows ==
  \E x \in ExchangeId :
    /\ serverBook[x] # None /\ clientBook[x] = None
    /\ clientBook' = [clientBook EXCEPT ![x] = Ledger!Mirror(serverBook[x])]
    /\ serverBook' = serverBook

StandsAlone ==
  \E x \in ExchangeId, e \in Ledger!BookEntry :
    /\ serverBook[x] = None /\ clientBook[x] = None /\ e.node # e.peer /\ e.peer \in tab5
    /\ clientBook' = [clientBook EXCEPT ![x] = e] /\ serverBook' = serverBook

(* Nothing is booked: sessions fade or are left alone.                     *)
LastsUncommitted(p) ==
  session'[p] # None /\ session'[p].committed =>
    session[p] # None /\ session[p].committed /\ session'[p].exchange = session[p].exchange

LEMMA FadingBooked ==
  ASSUME LinkInv, BookInv, UNCHANGED <<central, answer, attempts, tab5, books>>,
         inflight' \subseteq inflight, \A p \in Node : LastsUncommitted(p)
  PROVE  BookInv'
<1>1. UNCHANGED <<serverBook, clientBook>>
  BY DEF books
<1>2. \A p \in Node : CommitBooked(session[p])'
  BY <1>1 DEF BookInv, CommitBooked, LastsUncommitted
<1> QED
  BY <1>1, <1>2 DEF BookInv, CentralBooked

LEMMA ConnectBooked ==
  ASSUME LinkInv, BookInv, NEW n \in Node, NEW p \in Node, Connect(n, p)
  PROVE  BookInv' /\ UNCHANGED books
<1> DEFINE x == attempts + 1
           c == IF n \in tab5 THEN Tab5Connected(n, p, x) ELSE Connected(p, x)
<1>1. /\ central[n] = None /\ attempts' = x /\ central' = [central EXCEPT ![n] = c]
      /\ UNCHANGED <<session, inflight, answer, tab5, serverBook, clientBook>> /\ x \in ExchangeId
  BY DEF Connect, link, books, vars
<1>2. /\ attempts \in Nat /\ answer[n] = None
      /\ central \in [Node -> Central \cup {None}]
  BY <1>1 DEF LinkInv, NetInv, NetTyped, AnswersKnown
<1>3. c.exchange = x
  BY DEF Tab5Connected, Connected
<1> HIDE DEF c
<1>4. \A m \in Node : central'[m] = IF m = n THEN c ELSE central[m]
  BY <1>1, <1>2
<1>5. serverBook[x] = None /\ clientBook[x] = None
  BY <1>1, <1>2 DEF BookInv
<1>6. CentralBooked(n, c, answer[n])
  BY <1>2, <1>3, <1>5 DEF CentralBooked
<1>7. \A m \in Node : central'[m] # None => CentralBooked(m, central[m], answer[m])'
  BY <1>1, <1>4, <1>6 DEF BookInv, CentralBooked
<1>8. ASSUME NEW y \in ExchangeId, y > attempts' PROVE serverBook[y] = None /\ clientBook[y] = None
  <2>1. y > attempts
    BY <1>1, <1>2, <1>8, NetworkAssumption
  <2> QED
    BY <2>1 DEF BookInv
<1> QED
  BY <1>1, <1>7, <1>8 DEF BookInv, CommitBooked, books

LEMMA SendBooked ==
  ASSUME LinkInv, BookInv, NEW n \in Node, Send(n)
  PROVE  BookInv' /\ UNCHANGED books
<1> DEFINE c == central[n]  d == [c EXCEPT !.waiting = TRUE]
<1>0. PICK q : q = [client |-> n, target |-> c.target, exchange |-> c.exchange,
                    body |-> Request(c)]
  OBVIOUS
<1>1. /\ c # None /\ ~c.waiting /\ inflight' = inflight \cup {q}
      /\ central' = [central EXCEPT ![n] = d]
      /\ UNCHANGED <<session, answer, attempts, tab5, serverBook, clientBook>>
  BY <1>0 DEF Send, books, vars
<1>2. c \in Central /\ answer[n] = None /\ central \in [Node -> Central \cup {None}]
  BY <1>1 DEF LinkInv, NetInv, NetTyped, AnswersKnown
<1>3. d.exchange = c.exchange
  BY <1>2 DEF Central
<1> HIDE DEF d
<1>4. \A m \in Node : central'[m] = IF m = n THEN d ELSE central[m]
  BY <1>1, <1>2
<1>5. serverBook[c.exchange] = None /\ clientBook[c.exchange] = None
  BY <1>1 DEF BookInv, CentralBooked
<1>6. CentralBooked(n, d, answer[n])
  BY <1>2, <1>3, <1>5 DEF CentralBooked
<1>7. \A m \in Node : central'[m] # None => CentralBooked(m, central[m], answer[m])'
  BY <1>1, <1>4, <1>6 DEF BookInv, CentralBooked
<1>8. \A r \in inflight' : serverBook[r.exchange] = None /\ clientBook[r.exchange] = None
  BY <1>0, <1>1, <1>5 DEF BookInv
<1> QED
  BY <1>1, <1>7, <1>8 DEF BookInv, CommitBooked, books

LEMMA GoesBooked ==
  ASSUME LinkInv, BookInv, NEW n \in Node, Goes(n), UNCHANGED clientBook, central[n] # None
  PROVE  BookInv' /\ UNCHANGED books
<1>1. PICK c : /\ Proceed(n, c) /\ UNCHANGED vars
               /\ \/ c = None
                  \/ c.exchange = central[n].exchange /\ central[n].stage # "Ack"
  BY DEF Goes
<1>2. /\ central' = [central EXCEPT ![n] = c] /\ answer' = [answer EXCEPT ![n] = None]
      /\ UNCHANGED <<session, inflight, attempts, tab5, serverBook, clientBook>>
  BY <1>1 DEF Proceed, vars
<1>3. /\ \A m \in Node : central'[m] = IF m = n THEN c ELSE central[m]
      /\ \A m \in Node : answer'[m] = IF m = n THEN None ELSE answer[m]
  BY <1>2 DEF LinkInv, NetInv, NetTyped
<1>4. c # None => CentralBooked(n, c, None)
  BY <1>1 DEF BookInv, CentralBooked
<1>5. \A m \in Node : central'[m] # None => CentralBooked(m, central[m], answer[m])'
  BY <1>2, <1>3, <1>4 DEF BookInv, CentralBooked
<1> QED
  BY <1>2, <1>5 DEF BookInv, CommitBooked, books

LEMMA OnAckBooked ==
  ASSUME LinkInv, BookInv, NEW n \in Node, OnAck(n)
  PROVE  BookInv' /\ (Follows \/ StandsAlone)
<1> DEFINE c == central[n]  x == c.exchange
           e == [node |-> n, peer |-> c.peer.node, sent |-> c.sent.phrase,
                 received |-> c.received.phrase]
<1>1. answer[n] # None /\ answer[n].ok /\ c.stage = "Ack" /\ Proceed(n, None)
  BY DEF OnAck, Answered, Settled
<1>2. /\ c # None /\ c \in Central /\ StageKnown(n, c)
      /\ CentralBooked(n, c, answer[n]) /\ Recordable(n)
  BY <1>1, RecordableFollows
     DEF LinkInv, NetInv, NetTyped, AnswersKnown, CentralsKnow, BookInv
<1>3. UNCHANGED session /\ clientBook' = [clientBook EXCEPT ![x] = e]
  BY <1>2 DEF OnAck, Settled
<1>4. /\ x \in ExchangeId /\ x <= attempts /\ clientBook[x] = None
      /\ serverBook[x] = Mirrored(n, c) \/ (serverBook[x] = None /\ c.target \in tab5)
  BY <1>1, <1>2 DEF Central, StageKnown, CentralBooked
<1>5. /\ c.peer.node = c.target /\ c.target \in Node /\ c.sent \in Gift /\ c.received \in Gift
      /\ c.target # n
  BY <1>1, <1>2 DEF StageKnown, Central
<1>6. serverBook[x] = Mirrored(n, c) => e = Ledger!Mirror(serverBook[x])
  BY <1>4, <1>5 DEF Mirrored, Ledger!Mirror
<1>7. e \in Ledger!BookEntry /\ e.node # e.peer /\ e.peer = c.target
  BY <1>5 DEF Ledger!BookEntry, Gift
<1> HIDE DEF e
<1>8. /\ central' = [central EXCEPT ![n] = None] /\ answer' = [answer EXCEPT ![n] = None]
      /\ UNCHANGED <<inflight, attempts, tab5, serverBook>>
  BY <1>1 DEF Proceed
<1>9. Follows \/ StandsAlone
  <2>1. CASE serverBook[x] = Mirrored(n, c)
    <3>1. serverBook[x] # None
      BY <1>5, <2>1, BookAssumption DEF Mirrored, Ledger!BookEntry, Gift
    <3> QED
      BY <1>3, <1>4, <1>6, <1>8, <2>1, <3>1 DEF Follows
  <2>2. CASE serverBook[x] = None /\ c.target \in tab5
    BY <1>3, <1>4, <1>7, <1>8, <2>2 DEF StandsAlone
  <2> QED
    BY <1>4, <2>1, <2>2
<1>10. \A y \in ExchangeId : clientBook'[y] = IF y = x THEN e ELSE clientBook[y]
  BY <1>3 DEF BookInv
<1>11. ASSUME NEW m \in Node, central'[m] # None PROVE CentralBooked(m, central[m], answer[m])'
  <2>1. m # n /\ central'[m] = central[m] /\ answer'[m] = answer[m]
    BY <1>8, <1>11 DEF LinkInv, NetInv, NetTyped
  <2>2. central[m].exchange # x /\ central[m].exchange \in ExchangeId
    BY <1>2, <1>11, <2>1 DEF LinkInv, Unique, NetInv, NetTyped, Central
  <2>3. CentralBooked(m, central[m], answer[m])
    BY <1>11, <2>1 DEF BookInv
  <2> QED
    BY <1>8, <1>10, <2>1, <2>2, <2>3 DEF CentralBooked
<1>12. \A y \in ExchangeId : y > attempts => serverBook[y] = None /\ clientBook'[y] = None
  <2>1. ASSUME NEW y \in ExchangeId, y > attempts PROVE y # x
    <3>1. y \in Nat /\ x \in Nat /\ attempts \in Nat
      BY <1>4, NetworkAssumption DEF LinkInv, NetInv, NetTyped
    <3> HIDE DEF x
    <3> QED
      BY <1>4, <2>1, <3>1
  <2> QED
    BY <1>10, <2>1 DEF BookInv
<1>13. clientBook' \in [ExchangeId -> Ledger!BookEntry \cup {None}]
  BY <1>3, <1>7 DEF BookInv
<1>14. ASSUME NEW r \in inflight PROVE clientBook'[r.exchange] = None
  <2>1. r.exchange # x
    BY <1>1, <1>2 DEF LinkInv, Unique, NetInv, RequestsKnown, Awaited
  <2>2. r.exchange \in ExchangeId /\ clientBook[r.exchange] = None
    BY ServedRequest DEF LinkInv, NetInv, BookInv
  <2> QED
    BY <1>10, <2>1, <2>2
<1> QED
  BY <1>3, <1>8, <1>9, <1>11, <1>12, <1>13, <1>14 DEF BookInv, CommitBooked

(* An ACK that a peripheral refuses fails for the central, but for a Tab5. *)
Refused(r) ==
  r.target \notin tab5 /\ central[r.client] # None /\ central[r.client].exchange = r.exchange =>
    ~answer'[r.client].ok

LEMMA WriteRefused ==
  ASSUME NetInv, NEW r \in inflight, Respond(r, r.target \in tab5, None)
  PROVE  Refused(r)
<1>1. r.client \in Node /\ answer \in [Node -> Answer \cup {None}]
  BY ServedRequest DEF NetInv, NetTyped
<1> QED
  BY <1>1 DEF Respond, Refused

(* Only a first acknowledgement books.  One that is repeated would find    *)
(* the exchange booked already, and there is no second one on the way.     *)
LEMMA WriteBooks ==
  ASSUME LinkInv, BookInv, NEW r \in inflight, ServeWrite(r)
  PROVE  LET p == r.target  f == r.body
         IN  \/ Acknowledge(p, r.client, f)
             \/ /\ UNCHANGED book /\ LastsUncommitted(p)
                /\ f.kind = "ACK" => Refused(r)
<1> DEFINE p == r.target  f == r.body  s == session[p]  t == session'[p]
<1>1. /\ p \in Node /\ f.exchange = r.exchange /\ session \in [Node -> Session \cup {None}]
  BY ServedRequest DEF LinkInv, NetInv, IInv, TypeOK, Unique, ServeWrite
<1>2. Live(p) # None => Live(p) = s /\ s # None /\ s \in Session
  BY <1>1 DEF Live
<1>3. WriteOk(p, r.client, f) \/ (WriteError(p, r.client, f) /\ Refused(r))
  BY WriteRefused DEF ServeWrite, LinkInv
<1> HIDE DEF p, f, s, t
<1>4. CASE Begin(p, r.client, f)
  <2>1. f.kind = "DATA" /\ t = NewSession(r.client, f.exchange, Pushed(EmptyAssembler, f))
        /\ UNCHANGED book
    BY <1>1, <1>4 DEF Begin, MayBegin, t
  <2>2. ~t.committed
    BY <2>1 DEF NewSession
  <2> QED
    BY <2>1, <2>2 DEF LastsUncommitted, f, t, p
<1>5. CASE Continue(p, r.client, f) \/ RefusePacket(p, r.client, f)
  <2>1. /\ f.kind = "DATA" /\ s # None /\ s \in Session /\ UNCHANGED book
        /\ t = [s EXCEPT !.incoming = Pushed(s.incoming, f)]
    BY <1>1, <1>2, <1>5 DEF Continue, RefusePacket, Leased, MayAppend, t
  <2>2. t.committed = s.committed /\ t.exchange = s.exchange
    BY <2>1 DEF Session
  <2> QED
    BY <2>1, <2>2 DEF LastsUncommitted, f, s, t, p
<1>6. CASE AcceptProfile(p, r.client, f)
  <2>1. /\ f.kind = "DATA" /\ s # None /\ s \in Session /\ UNCHANGED book /\ Live(p) = s
    BY <1>2, <1>6 DEF AcceptProfile, Leased, MayAppend
  <2> DEFINE w == WithReply(s, OwnProfile(p))
  <2>0. PICK o, g : session' = [session EXCEPT ![p] =
                      [WithReply(Live(p), OwnProfile(p)) EXCEPT !.peer = o, !.outgoingGift = g]]
    BY <1>6 DEF AcceptProfile
  <2>2. t = [w EXCEPT !.peer = o, !.outgoingGift = g]
    BY <1>1, <2>0, <2>1 DEF t
  <2>3. w \in Session /\ w.committed = s.committed /\ w.exchange = s.exchange
    <3>1. OwnProfile(p) \in Packet
      BY <1>1, OwnProfileType
    <3>2. w \in Session
      BY <2>1, <3>1, WithReplyType DEF w
    <3> QED
      BY <2>1, <3>2 DEF WithReply, Session
  <2> HIDE DEF w
  <2>4. t.committed = s.committed /\ t.exchange = s.exchange
    BY <2>2, <2>3 DEF Session
  <2> QED
    BY <2>1, <2>4 DEF LastsUncommitted, f, s, t, p
<1>7. CASE AcceptGift(p, r.client, f)
  <2>1. /\ f.kind = "DATA" /\ s # None /\ s \in Session /\ UNCHANGED book /\ Live(p) = s
    BY <1>2, <1>7 DEF AcceptGift, Leased, MayAppend
  <2> DEFINE w == WithReply(s, s.outgoingGift)
  <2>0. PICK o : session' = [session EXCEPT ![p] =
                   [WithReply(Live(p), Live(p).outgoingGift) EXCEPT !.incomingGift = o]]
    BY <1>7 DEF AcceptGift
  <2>2. t = [w EXCEPT !.incomingGift = o]
    BY <1>1, <2>0, <2>1 DEF t
  <2>3. w \in Session /\ w.committed = s.committed /\ w.exchange = s.exchange
    <3>1. s.outgoingGift \in Packet \cup {None}
      BY <2>1 DEF Session, Packet
    <3>2. w \in Session
      BY <2>1, <3>1, WithReplyType
    <3> QED
      BY <2>1, <3>2 DEF WithReply, Session
  <2> HIDE DEF w
  <2>4. t.committed = s.committed /\ t.exchange = s.exchange
    BY <2>2, <2>3 DEF Session
  <2> QED
    BY <2>1, <2>4 DEF LastsUncommitted, f, s, t, p
<1>8. CASE SelectFragment(p, r.client, f)
  <2>1. /\ f.kind = "SELECT" /\ s # None /\ s \in Session /\ UNCHANGED book
        /\ t = [s EXCEPT !.selected = f.index]
    BY <1>1, <1>2, <1>8 DEF SelectFragment, Leased, MaySelect, Selected, t
  <2>2. t.committed = s.committed /\ t.exchange = s.exchange
    BY <2>1 DEF Session
  <2> QED
    BY <2>1, <2>2 DEF LastsUncommitted, f, s, t, p
<1>9. ~AcknowledgeAgain(p, r.client, f)
  <2>1. ASSUME AcknowledgeAgain(p, r.client, f) PROVE FALSE
    <3>1. s # None /\ s.exchange = r.exchange /\ s.committed
      BY <1>1, <1>2, <2>1 DEF AcknowledgeAgain, Leased
    <3>2. serverBook[r.exchange] = None /\ CommitBooked(s)
      BY <1>1 DEF BookInv, s
    <3> QED
      BY <3>1, <3>2 DEF CommitBooked
  <2> QED
    BY <2>1
<1>10. CASE RefuseWrite(p, r.client, f) /\ Refused(r)
  <2>1. t = Live(p) /\ UNCHANGED book
    BY <1>1, <1>10 DEF RefuseWrite, Expire, t
  <2> QED
    BY <1>2, <1>10, <2>1 DEF LastsUncommitted, f, s, t, p
<1> QED
  BY <1>3, <1>4, <1>5, <1>6, <1>7, <1>8, <1>9, <1>10 DEF WriteOk, WriteError, f, p

LEMMA ServeBooks ==
  ASSUME LinkInv, BookInv, NEW r \in inflight, Serve(r)
  PROVE  \/ ServeWrite(r) /\ Acknowledge(r.target, r.client, r.body)
         \/ /\ UNCHANGED books /\ \A p \in Node : LastsUncommitted(p)
            /\ r.body.kind = "ACK" => Refused(r)
<1> DEFINE p == r.target
<1>1. /\ p \in Node /\ session \in [Node -> Session \cup {None}]
      /\ \A m \in Node \ {p} : session'[m] = session[m]
  BY ServedRequest, ServeServed DEF LinkInv, NetInv, IInv, TypeOK
<1>2. ASSUME LastsUncommitted(p) PROVE \A m \in Node : LastsUncommitted(m)
  BY <1>1, <1>2 DEF LastsUncommitted
<1> HIDE DEF p
<1>3. CASE Expire(p) /\ (ServeInfo(r) \/ ServeRead(r))
  <2>1. session'[p] = Live(p)
    BY <1>1, <1>3 DEF Expire
  <2>2. LastsUncommitted(p)
    BY <2>1 DEF Live, LastsUncommitted
  <2>3. /\ UNCHANGED clientBook /\ UNCHANGED serverBook
        /\ r.body = Info \/ r.body = ReadTx
    BY <1>3 DEF ServeInfo, ServeRead, Taken
  <2>4. UNCHANGED books
    BY <2>3 DEF books
  <2>5. r.body.kind # "ACK"
    BY <2>3 DEF Info, ReadTx
  <2> QED
    BY <1>2, <2>2, <2>4, <2>5
<1>4. CASE ReadFragment(p, r.client) /\ ServeRead(r)
  <2> DEFINE s == session[p]
  <2>1. s # None /\ s \in Session
        /\ session' = [session EXCEPT ![p] = [s EXCEPT !.read = @ \cup {s.selected}]]
    BY <1>1, <1>4 DEF ReadFragment, MayRead, Live
  <2>2. session'[p] = [s EXCEPT !.read = @ \cup {s.selected}]
    BY <1>1, <2>1
  <2> HIDE DEF s
  <2>3. session'[p].committed = s.committed /\ session'[p].exchange = s.exchange
    BY <2>1, <2>2 DEF Session
  <2>4. LastsUncommitted(p)
    BY <2>1, <2>3 DEF LastsUncommitted, s
  <2>5. r.body.kind # "ACK" /\ UNCHANGED books
    BY <1>4 DEF ServeRead, ReadTx, Taken, books
  <2> QED
    BY <1>2, <2>4, <2>5
<1>5. CASE ServeWrite(r)
  <2>1. CASE Acknowledge(p, r.client, r.body)
    BY <1>5, <2>1 DEF p
  <2>2. CASE UNCHANGED book /\ LastsUncommitted(p) /\ (r.body.kind = "ACK" => Refused(r))
    <3>1. UNCHANGED books
      BY <1>5, <2>2 DEF ServeWrite, Taken, book, books
    <3> QED
      BY <1>2, <2>2, <3>1
  <2> QED
    BY <1>5, <2>1, <2>2, WriteBooks DEF p
<1>6. ServeInfo(r) => Expire(p)
  BY DEF ServeInfo, p
<1>7. ServeRead(r) => ReadFragment(p, r.client) \/ Expire(p)
  BY DEF ServeRead, RefuseRead, p
<1> QED
  BY <1>3, <1>4, <1>5, <1>6, <1>7 DEF Serve

LEMMA AckRequest ==
  ASSUME NEW c \in Central
  PROVE  Request(c).kind = "ACK" <=> c.stage = "Ack"
<1>1. CASE c.stage \in {"SendProfile", "SendGift"}
  BY <1>1 DEF Request, Data
<1>2. CASE c.stage \in {"ReadProfile", "ReadGift"}
  BY <1>2 DEF Request, Select, ReadTx
<1>3. CASE c.stage \in {"Info", "Ack"}
  BY <1>3 DEF Request, Info, Ack
<1> QED
  BY <1>1, <1>2, <1>3 DEF Central, Stage

LEMMA ServeBooked ==
  ASSUME LinkInv, BookInv, NEW r \in inflight, Serve(r)
  PROVE  BookInv' /\ (UNCHANGED books \/ Settles)
<1> DEFINE p == r.target  x == r.exchange
<1>1. /\ p \in Node /\ r.client \in Node /\ p # r.client /\ x \in ExchangeId
      /\ UNCHANGED <<central, attempts, tab5>> /\ inflight' = inflight \ {r} /\ x <= attempts
  BY ServedRequest, ServeAnswers, ServeTouches DEF LinkInv, NetInv, RequestsKnown
<1>2. \A n \in Node : n # r.client \/ ~Waits(r) => answer'[n] = answer[n]
  BY ServeHands
<1>3. ASSUME UNCHANGED books, \A q \in Node : LastsUncommitted(q),
             r.body.kind = "ACK" => Refused(r)
      PROVE  BookInv'
  <2>1. ASSUME NEW n \in Node, central[n] # None PROVE CentralBooked(n, central[n], answer'[n])
    <3>1. CentralBooked(n, central[n], answer[n])
      BY <2>1 DEF BookInv
    <3>2. CASE n # r.client \/ ~Waits(r)
      BY <1>2, <3>1, <3>2
    <3>3. CASE n = r.client /\ Waits(r)
      <4>1. central[n] \in Central /\ r.body = Request(central[n]) /\ r.target = central[n].target
        BY <3>3, AwaitedRequest
      <4>2. central[n].stage = "Ack" => ~answer'[n].ok \/ central[n].target \in tab5
        BY <1>3, <3>3, <4>1, AckRequest DEF Refused, Waits
      <4> QED
        BY <3>1, <4>2 DEF CentralBooked
    <3> QED
      BY <3>2, <3>3
  <2>2. UNCHANGED <<serverBook, clientBook>>
    BY <1>3 DEF books
  <2>3. \A q \in Node : CommitBooked(session[q])'
    BY <1>3, <2>2 DEF BookInv, CommitBooked, LastsUncommitted
  <2> QED
    BY <1>1, <2>1, <2>2, <2>3 DEF BookInv, CentralBooked
<1>4. ASSUME ServeWrite(r), Acknowledge(p, r.client, r.body)
      PROVE  BookInv' /\ Settles
  <2> DEFINE s == session[p]  e == Booked(p, s)
  <2>1. Live(p) # None
    BY <1>4 DEF Acknowledge, Leased
  <2>2. Live(p) = s /\ s # None /\ s \in Session /\ Sound(p, s) /\ SessionTrue(p, s)
    BY <1>1, <2>1, LiveSound DEF LinkInv, NetInv, Truthful
  <2>3. /\ s.client = r.client /\ s.exchange = x /\ s.incomingGift # None
        /\ r.body.kind = "ACK"
        /\ exchangeCount' = [exchangeCount EXCEPT ![p] = @ + 1]
        /\ session' = [session EXCEPT ![p] = Committed(s)]
    <3>1. r.body.exchange = x
      BY <1>4 DEF LinkInv, Unique, ServeWrite
    <3> QED
      BY <1>4, <2>2, <3>1 DEF Acknowledge, Leased, MayAck, Record
  <2>4. exchangeCount'[p] # exchangeCount[p]
    BY <1>1, <2>3 DEF LinkInv, NetInv, IInv, TypeOK
  <2>5. serverBook' = [serverBook EXCEPT ![x] = e] /\ clientBook' = clientBook
    BY <1>4, <2>4 DEF ServeWrite, Taken
  <2>6. /\ s.peer \in Profile /\ s.peer.node = r.client /\ s.outgoingGift \in Gift
        /\ s.incomingGift \in Gift /\ s.reply = s.outgoingGift
    BY <2>2, <2>3, PacketAssumption DEF Sound, WellFormed, Session, SessionTrue
  <2>7. e \in Ledger!BookEntry /\ e.node # e.peer
    BY <1>1, <2>6 DEF Booked, Ledger!BookEntry, Gift
  <2>8. serverBook[x] = None /\ clientBook[x] = None
    BY <1>1 DEF BookInv
  <2>9. Waits(r) => e = Mirrored(r.client, central[r.client])
                    /\ central[r.client].stage = "Ack" /\ central[r.client].waiting
    <3> DEFINE c == central[r.client]
    <3>1. ASSUME Waits(r)
          PROVE  e = Mirrored(r.client, c) /\ c.stage = "Ack" /\ c.waiting
      <4>1. c \in Central /\ r.target = c.target /\ r.body = Request(c) /\ c.waiting
        BY <3>1, AwaitedRequest
      <4>2. c.stage = "Ack"
        BY <2>3, <4>1, AckRequest
      <4>3. GiftsAgree(c, s, answer[r.client])
        BY <1>1, <3>1, <4>1 DEF LinkInv, Linked, Waits
      <4>4. s.incomingGift = c.sent /\ c.received = s.reply
        BY <2>2, <2>3, <3>1, <4>2, <4>3 DEF GiftsAgree, Waits
      <4> HIDE DEF s, c
      <4> QED
        BY <2>6, <4>1, <4>2, <4>4 DEF Booked, Mirrored
    <3> QED
      BY <3>1
  <2> HIDE DEF e, s
  <2>10. Settles
    BY <1>1, <2>5, <2>7, <2>8 DEF Settles
  <2>11. \A y \in ExchangeId : serverBook'[y] = IF y = x THEN e ELSE serverBook[y]
    BY <2>5 DEF BookInv
  <2>12. e # None
    BY <2>7, BookAssumption
  <2>13. ASSUME NEW n \in Node, central[n] # None
         PROVE  CentralBooked(n, central[n], answer[n])'
    <3>1. CentralBooked(n, central[n], answer[n]) /\ central[n] \in Central
      BY <2>13 DEF BookInv, LinkInv, NetInv, NetTyped
    <3>2. CASE central[n].exchange = x
      <4>1. n = r.client /\ Waits(r)
        BY <2>13, <3>2 DEF LinkInv, Unique, Waits
      <4> QED
        BY <1>1, <2>5, <2>9, <2>11, <2>12, <3>1, <3>2, <4>1 DEF CentralBooked
    <3>3. CASE central[n].exchange # x
      <4>1. answer'[n] = answer[n]
        BY <1>2, <3>3 DEF Waits
      <4>2. central[n].exchange \in ExchangeId
        BY <3>1 DEF Central
      <4> QED
        BY <1>1, <2>5, <2>11, <3>1, <3>3, <4>1, <4>2 DEF CentralBooked
    <3> QED
      BY <3>2, <3>3
  <2>14. \A y \in ExchangeId : y > attempts => serverBook'[y] = None /\ clientBook[y] = None
    <3>1. ASSUME NEW y \in ExchangeId, y > attempts PROVE y # x
      <4>1. y \in Nat /\ x \in Nat /\ attempts \in Nat
        BY <1>1, NetworkAssumption DEF LinkInv, NetInv, NetTyped
      <4> HIDE DEF x
      <4> QED
        BY <1>1, <3>1, <4>1
    <3> QED
      BY <2>11, <3>1 DEF BookInv
  <2>15. \A q \in inflight \ {r} : serverBook'[q.exchange] = None /\ clientBook[q.exchange] = None
    <3>1. ASSUME NEW q \in inflight, q # r
          PROVE  /\ q.exchange # x /\ q.exchange \in ExchangeId
                 /\ serverBook[q.exchange] = None /\ clientBook[q.exchange] = None
      BY <3>1, ServedRequest DEF LinkInv, NetInv, Unique, BookInv
    <3> QED
      BY <2>11, <3>1
  <2>16. \A q \in Node : CommitBooked(session[q])'
    <3>1. ASSUME NEW q \in Node PROVE CommitBooked(session[q])'
      <4>1. session[q] # None => session[q].exchange \in ExchangeId
        BY DEF LinkInv, NetInv, IInv, TypeOK, Session
      <4>2. CommitBooked(session[q])
        BY DEF BookInv
      <4>3. CASE q = p
        <5>1. session'[q].exchange = x
          BY <1>1, <2>2, <2>3, <4>3 DEF Committed, LinkInv, NetInv, IInv, TypeOK, Session
        <5> QED
          BY <1>1, <2>11, <2>12, <5>1 DEF CommitBooked
      <4>4. CASE q # p
        <5>1. session'[q] = session[q]
          BY <2>3, <4>4 DEF LinkInv, NetInv, IInv, TypeOK
        <5> QED
          BY <2>11, <2>12, <4>1, <4>2, <5>1 DEF CommitBooked
      <4> QED
        BY <4>3, <4>4
    <3> QED
      BY <3>1
  <2>17. serverBook' \in [ExchangeId -> Ledger!BookEntry \cup {None}]
    BY <2>5, <2>7 DEF BookInv
  <2> QED
    BY <1>1, <2>5, <2>10, <2>13, <2>14, <2>15, <2>16, <2>17 DEF BookInv
<1> QED
  BY <1>3, <1>4, ServeBooks

(* A step books nothing, or makes one entry.                               *)
LEMMA BookStep ==
  ASSUME LinkInv, BookInv, [NetNext]_netvars
  PROVE  BookInv' /\ (UNCHANGED books \/ Settles \/ Follows \/ StandsAlone)
<1>1. CASE NetTick
  <2>1. UNCHANGED <<central, answer, attempts, tab5, books, inflight>>
    BY <1>1 DEF NetTick, link
  <2>2. ASSUME NEW p \in Node PROVE LastsUncommitted(p)
    <3>1. session[p] \in Session \cup {None}
      BY DEF LinkInv, NetInv, IInv, TypeOK
    <3>2. session'[p] = IF session[p] = None THEN None
                        ELSE [session[p] EXCEPT !.timer = Elapse(@)]
      BY <1>1 DEF NetTick, Tick
    <3> QED
      BY <3>1, <3>2 DEF LastsUncommitted, Session
  <2> QED
    BY <2>1, <2>2, FadingBooked
<1>2. ASSUME NEW n \in Node,
             \/ EnterPeripheral(n) \/ StopAdvertising(n) \/ LeaveWhenIdle(n)
             \/ Tab5LeavesWhenIdle(n) \/ Tab5Quits(n) \/ FailedSlot(n) \/ PowerOff(n)
             \/ NetExpire(n) \/ Tab5Disconnected(n)
      PROVE  BookInv' /\ UNCHANGED books
  <2>1. UNCHANGED <<central, answer, attempts, tab5, books, inflight>>
    BY <1>2 DEF EnterPeripheral, StopAdvertising, LeaveWhenIdle, Tab5LeavesWhenIdle, Tab5Quits,
       FailedSlot, PowerOff, NetExpire, Tab5Disconnected, link
  <2>2. \/ session' = session \/ session' = [session EXCEPT ![n] = None]
        \/ session' = [session EXCEPT ![n] = Live(n)]
    BY <1>2 DEF EnterPeripheral, StopAdvertising, LeaveWhenIdle, Tab5LeavesWhenIdle, Tab5Quits,
       FailedSlot, PowerOff, NetExpire, Tab5Disconnected, Enable, DisableIfIdle, Shutdown,
       Expire, vars
  <2>3. ASSUME NEW p \in Node PROVE LastsUncommitted(p)
    <3>1. session \in [Node -> Session \cup {None}]
      BY DEF LinkInv, NetInv, IInv, TypeOK
    <3>2. session'[p] = None \/ session'[p] = session[p]
      BY <2>2, <3>1 DEF Live
    <3> QED
      BY <3>2 DEF LastsUncommitted
  <2> QED
    BY <2>1, <2>3, FadingBooked
<1>3. ASSUME NEW n \in Node, NEW p \in Node, Connect(n, p)
      PROVE  BookInv' /\ UNCHANGED books
  BY <1>3, ConnectBooked
<1>4. ASSUME NEW n \in Node, CentralStep(n) \/ Abort(n)
      PROVE  BookInv' /\ (UNCHANGED books \/ Follows \/ StandsAlone)
  <2>1. CASE Send(n)
    BY <2>1, SendBooked
  <2>2. CASE OnAck(n)
    BY <2>2, OnAckBooked
  <2>3. ASSUME ~Send(n), ~OnAck(n) PROVE BookInv' /\ UNCHANGED books
    <3>1. UNCHANGED clientBook /\ central[n] # None
      BY <1>4, <2>3
         DEF CentralStep, Abort, Failed, OnInfo, Tab5OnInfo, Tab5OnFirstData, OnSent, OnSelected,
         OnFragment, OnProfile, OnGift, LastFragment, Answered, LinkInv, NetInv, AnswersKnown
    <3>2. Goes(n)
      BY <1>4, <2>3, CentralGoes
    <3> QED
      BY <3>1, <3>2, GoesBooked
  <2> QED
    BY <2>1, <2>2, <2>3
<1>5. ASSUME NEW r \in inflight, Serve(r)
      PROVE  BookInv' /\ (UNCHANGED books \/ Settles)
  BY <1>5, ServeBooked
<1>6. CASE UNCHANGED netvars \/ \E r \in inflight : LoseRequest(r)
  <2>1. /\ UNCHANGED <<central, answer, attempts, tab5, books>> /\ inflight' \subseteq inflight
        /\ session' = session
    BY <1>6 DEF LoseRequest, Taken, netvars, vars, link, books
  <2>2. \A p \in Node : LastsUncommitted(p)
    BY <2>1 DEF LastsUncommitted
  <2> QED
    BY <2>1, <2>2, FadingBooked
<1> QED
  BY <1>1, <1>2, <1>3, <1>4, <1>5, <1>6 DEF NetNext

(* BookInv: an exchange whose ACK has not been served is in neither book;  *)
(* once on_ack has committed it, the peripheral's record is there, and the *)
(* central's, still to come, can only be its mirror image.  A central that *)
(* hears its ACK succeed has been recorded by a CLI peripheral; one whose  *)
(* peer is a Tab5, which acknowledges also what it refuses, may not.       *)
THEOREM BooksInvariant == NetSpec => [](LinkInv /\ BookInv)
<1>1. NetInit => LinkInv /\ BookInv
  <2>1. NetInit => BookInv
    BY DEF NetInit, Init, BookInv, CommitBooked
  <2> QED
    BY <2>1, InitNetInv
       DEF NetInit, Init, LinkInv, Truthful, Unique, Linked, GiftIntegrity
<1>2. (LinkInv /\ BookInv) /\ [NetNext]_netvars => (LinkInv /\ BookInv)'
  BY LinkInvKept, BookStep
<1> QED
  BY <1>1, <1>2, PTL DEF NetSpec

(* Nothing makes a device a Tab5.                                          *)
LEMMA FleetKept ==
  ASSUME NetInv, [NetNext]_netvars
  PROVE  tab5' = tab5
<1>1. CASE NetTick
  BY <1>1 DEF NetTick
<1>2. ASSUME NEW n \in Node,
             \/ EnterPeripheral(n) \/ StopAdvertising(n) \/ LeaveWhenIdle(n)
             \/ Tab5LeavesWhenIdle(n) \/ Tab5Quits(n) \/ FailedSlot(n) \/ PowerOff(n)
             \/ NetExpire(n) \/ Tab5Disconnected(n)
      PROVE  tab5' = tab5
  BY <1>2 DEF EnterPeripheral, StopAdvertising, LeaveWhenIdle, Tab5LeavesWhenIdle, Tab5Quits,
     FailedSlot, PowerOff, NetExpire, Tab5Disconnected
<1>3. ASSUME NEW n \in Node, NEW p \in Node, Connect(n, p)
      PROVE  tab5' = tab5
  BY <1>3 DEF Connect
<1>4. ASSUME NEW n \in Node, CentralStep(n) \/ Abort(n)
      PROVE  tab5' = tab5
  BY <1>4, CentralProgress DEF Send, OnAck, Settled, Progress, Proceed
<1>5. ASSUME NEW r \in inflight, Serve(r) \/ LoseRequest(r)
      PROVE  tab5' = tab5
  BY <1>5, ServeTouches DEF LoseRequest, Taken
<1>6. CASE UNCHANGED netvars
  BY <1>6 DEF netvars
<1> QED
  BY <1>1, <1>2, <1>3, <1>4, <1>5, <1>6 DEF NetNext

(* The ledger is kept (README.md, the protocol's ACK).  The peripheral     *)
(* books an exchange first and once, as two different devices; the central *)
(* books it afterwards or never, and once; and both say the same of who    *)
(* gave what.  A central may book alone only if its peer is a Tab5         *)
(* (on_server_write of m5stack/src/main.cpp refuses in silence), and then  *)
(* the peer never books that exchange.  All this holds whatever the link   *)
(* loses or delays, and whichever of the two gives up at any moment.       *)
THEOREM LedgerRefined == NetSpec => LedgerKept
<1>1. NetInit => Ledger!TradeInit
  BY NetworkAssumption DEF NetInit, Ledger!TradeInit, Trades
<1>2. LinkInv /\ BookInv /\ [NetNext]_netvars => [Ledger!TradeNext]_<<Trades, tab5>>
  <2> SUFFICES ASSUME LinkInv, BookInv, [NetNext]_netvars
               PROVE  Ledger!TradeNext \/ UNCHANGED <<Trades, tab5>>
    OBVIOUS
  <2>1. \A y \in ExchangeId : /\ Trades[y].first = serverBook[y]
                              /\ Trades[y].second = clientBook[y]
    BY DEF Trades
  <2>2. tab5' = tab5
    BY FleetKept DEF LinkInv
  <2>3. CASE UNCHANGED books
    BY <2>2, <2>3 DEF books, Trades
  <2>4. CASE Settles
    <3>1. PICK x \in ExchangeId, e \in Ledger!BookEntry :
             /\ serverBook[x] = None /\ clientBook[x] = None /\ e.node # e.peer
             /\ serverBook' = [serverBook EXCEPT ![x] = e] /\ clientBook' = clientBook
      BY <2>4 DEF Settles
    <3>2. Trades' = [Trades EXCEPT ![x].first = e]
      BY <3>1 DEF Trades, BookInv
    <3>3. Ledger!Settle(x)
      BY <2>1, <3>1, <3>2 DEF Ledger!Settle, Ledger!Open
    <3> QED
      BY <2>2, <3>3 DEF Ledger!TradeNext
  <2>5. CASE Follows
    <3>1. PICK x \in ExchangeId :
             /\ serverBook[x] # None /\ clientBook[x] = None
             /\ clientBook' = [clientBook EXCEPT ![x] = Ledger!Mirror(serverBook[x])]
             /\ serverBook' = serverBook
      BY <2>5 DEF Follows
    <3>2. Trades' = [Trades EXCEPT ![x].second = Ledger!Mirror(Trades[x].first)]
      BY <2>1, <3>1 DEF Trades, BookInv
    <3>3. Ledger!Follow(x)
      BY <2>1, <3>1, <3>2 DEF Ledger!Follow
    <3> QED
      BY <2>2, <3>3 DEF Ledger!TradeNext
  <2>6. CASE StandsAlone
    <3>1. PICK x \in ExchangeId, e \in Ledger!BookEntry :
             /\ serverBook[x] = None /\ clientBook[x] = None
             /\ e.node # e.peer /\ e.peer \in tab5
             /\ clientBook' = [clientBook EXCEPT ![x] = e] /\ serverBook' = serverBook
      BY <2>6 DEF StandsAlone
    <3>2. Trades' = [Trades EXCEPT ![x].second = e]
      BY <3>1 DEF Trades, BookInv
    <3>3. Ledger!Alone(x)
      BY <2>1, <3>1, <3>2 DEF Ledger!Alone, Ledger!Open
    <3> QED
      BY <2>2, <3>3 DEF Ledger!TradeNext
  <2> QED
    BY <2>3, <2>4, <2>5, <2>6, BookStep
<1> QED
  BY <1>1, <1>2, BooksInvariant, PTL DEF NetSpec, LedgerKept, Ledger!TradeSpec
=============================================================================
