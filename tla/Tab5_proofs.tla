---------------------------- MODULE Tab5_proofs ----------------------------
(***************************************************************************)
(* Theorems about Tab5, for any peers, clients, durations and clock: its   *)
(* roles, and that its state machine is the CLI's (PortsTheCli).           *)
(***************************************************************************)
EXTENDS Tab5, TLAPS

-----------------------------------------------------------------------------
(* Who has a lease, by a session or by a connection, is served, an entry   *)
(* past its deadline too: what a sweep has not found yet may look ahead    *)
(* again once the clock has wrapped.                                       *)
Served == session # None \/ DOMAIN connections # {} => enabled

(* Before the Central role the service is off and nothing is advertised,   *)
(* whatever the callbacks of clients left over do.                         *)
Alone ==
  /\ at \in {"Top", "Scan", "Scanning", "Connect", "Exchange"} => ~enabled
  /\ at \in {"Top", "Shut", "Start", "Scan", "Scanning", "Connect", "Exchange"} => ~advertising
  /\ at = "Exchange" => own = OwnProfile

RolesInv == Served /\ Alone

-----------------------------------------------------------------------------
(* The state's methods. *)

(* A sweep takes leases away and gives none.                               *)
LEMMA Sweeps ==
  /\ Live # None => Live = session
  /\ DOMAIN LiveConnections \subseteq DOMAIN connections
  /\ \A c : DOMAIN Without(c, LiveConnections) \subseteq DOMAIN connections
BY DEF Live, LiveConnections, Without

LEMMA HoldServed ==
  ASSUME Served, NEW s, Hold(s), s # None => Live # None
  PROVE  Served' /\ UNCHANGED <<enabled, sentence>>
<1>1. /\ session' = s /\ connections' = LiveConnections
      /\ UNCHANGED <<enabled, sentence>>
  BY DEF Hold, Leave
<1> QED
  BY <1>1, Sweeps DEF Served

LEMMA ExpireServed ==
  ASSUME Served, Expire
  PROVE  Served' /\ UNCHANGED <<enabled, sentence>>
BY HoldServed DEF Expire

(* A request finds somebody to serve only while the service is enabled.    *)
LEMMA WriteServed ==
  ASSUME Served, NEW c, NEW f, Write(c, f)
  PROVE  Served' /\ UNCHANGED enabled /\ (~enabled => UNCHANGED sentence)
<1>1. CASE Begin(c, f)
  BY <1>1 DEF Begin, Begins, Leave, Served
<1>2. CASE AppendFragment(c, f)
  BY <1>2, HoldServed DEF AppendFragment, Leased
<1>3. CASE HandlePacket(c, f)
  <2>1. enabled /\ Live # None
    BY <1>3 DEF HandlePacket, Leased
  <2>2. \E s : Hold(s)
    BY <1>3 DEF HandlePacket
  <2> QED
    BY <2>1, <2>2, HoldServed
<1>4. CASE Select(c, f)
  BY <1>4, HoldServed DEF Select, Leased
<1>5. CASE Acknowledge(c, f)
  <2>1. enabled /\ UNCHANGED enabled
    BY <1>5 DEF Acknowledge, Leased, Record
  <2> QED
    BY <2>1 DEF Served
<1>6. CASE Unserved(c, f)
  BY <1>6, ExpireServed DEF Unserved
<1> QED
  BY <1>1, <1>2, <1>3, <1>4, <1>5, <1>6 DEF Write

LEMMA ReadServed ==
  ASSUME Served, NEW c, Read(c)
  PROVE  Served' /\ UNCHANGED <<enabled, sentence>>
<1>1. CASE Reads(c)
  <2>1. PICK s : Hold(s)
    BY <1>1 DEF Read
  <2> QED
    BY <1>1, <2>1, HoldServed DEF Reads
<1>2. CASE ~Reads(c)
  BY <1>2, ExpireServed DEF Read
<1> QED
  BY <1>1, <1>2

LEMMA ConnectedServed ==
  ASSUME Served, NEW c, Connected(c)
  PROVE  Served' /\ UNCHANGED <<enabled, sentence>>
<1>1. /\ UNCHANGED <<enabled, sentence>> /\ session' = Live
      /\ ~enabled => connections' = LiveConnections
  BY DEF Connected, Leave
<1> QED
  BY <1>1, Sweeps DEF Served

LEMMA DisconnectedServed ==
  ASSUME Served, NEW c, Disconnected(c)
  PROVE  Served' /\ UNCHANGED <<enabled, sentence>>
<1>1. /\ UNCHANGED <<enabled, sentence>>
      /\ DOMAIN connections' \subseteq DOMAIN connections
      /\ session' = None \/ session' = session
  BY DEF Disconnected, Without
<1> QED
  BY <1>1 DEF Served

LEMMA ShutdownServed ==
  ASSUME Shutdown
  PROVE  Served' /\ ~enabled' /\ UNCHANGED sentence
BY DEF Shutdown, Served

LEMMA DisabledServed ==
  ASSUME Served, DisableIfIdle
  PROVE  Served' /\ UNCHANGED sentence
<1>1. /\ enabled' = (enabled /\ ~Idle) /\ session' = Live /\ connections' = LiveConnections
      /\ UNCHANGED sentence
  BY DEF DisableIfIdle, Leave
<1>2. ASSUME Idle PROVE session' = None /\ DOMAIN connections' = {}
  <2>1. Live = None /\ LiveConnections = <<>>
    BY <1>2 DEF Idle
  <2> QED
    BY <1>1, <2>1
<1>3. CASE Idle
  BY <1>1, <1>2, <1>3 DEF Served
<1>4. CASE ~Idle
  <2>1. enabled => enabled'
    BY <1>1, <1>4
  <2> QED
    BY <1>1, <2>1, Sweeps DEF Served
<1> QED
  BY <1>3, <1>4

LEMMA RecordCentralServed ==
  ASSUME Served, NEW p, NEW sent, NEW received, RecordCentral(p, sent, received)
  PROVE  Served' /\ UNCHANGED enabled
<1>1. UNCHANGED enabled /\ connections' = LiveConnections /\ session' = Live
  BY DEF RecordCentral, Record
<1> QED
  BY <1>1, Sweeps DEF Served

-----------------------------------------------------------------------------
(* The loop and the callbacks. *)

LEMMA LoopRoles ==
  ASSUME RolesInv,
         \/ Rest \/ EnterPeripheral \/ EnterCentral \/ StopAdvertising \/ ShutState
         \/ Peripheral \/ Central \/ TouchRun \/ TouchRole \/ SlotOver
  PROVE  RolesInv'
<1>0. Served
  BY DEF RolesInv
<1>1. CASE Rest \/ EnterCentral \/ StopAdvertising \/ TouchRun \/ TouchRole \/ SlotOver
  <2>1. UNCHANGED statevars
    BY <1>1 DEF Rest, EnterCentral, StopAdvertising, TouchRun, TouchRole, Touched, SlotOver
  <2>2. UNCHANGED <<enabled, session, connections, sentence>>
    BY <2>1 DEF statevars
  <2>3. CASE Rest \/ TouchRun \/ TouchRole \/ SlotOver
    BY <2>2, <2>3 DEF Rest, TouchRun, TouchRole, Touched, SlotOver,
       RolesInv, Served, Alone, OwnProfile, Missing
  <2>4. CASE EnterCentral
    BY <2>2, <2>4 DEF EnterCentral, RolesInv, Served, Alone
  <2>5. CASE StopAdvertising
    BY <2>2, <2>5 DEF StopAdvertising, RolesInv, Served, Alone
  <2> QED
    BY <1>1, <2>3, <2>4, <2>5
<1>2. CASE EnterPeripheral
  BY <1>2 DEF EnterPeripheral, Enable, RolesInv, Served, Alone
<1>3. CASE ShutState
  <2>1. Served' /\ ~enabled'
    BY <1>3, ShutdownServed DEF ShutState
  <2> QED
    BY <1>3, <2>1 DEF ShutState, RolesInv, Alone
<1>4. CASE Peripheral
  <2>1. CASE Advertise
    BY <2>1 DEF Advertise, statevars, RolesInv, Served, Alone
  <2>2. CASE AdvertiseFails \/ Quit
    <3>1. Served' /\ at' = "Stop"
      BY <2>2, ShutdownServed DEF AdvertiseFails, Quit
    <3> QED
      BY <3>1 DEF RolesInv, Alone
  <2>3. CASE Serve
    <3>1. Served' /\ at = "Serve" /\ at' = at
      BY <1>0, <2>3, ExpireServed DEF Serve, loop
    <3> QED
      BY <3>1 DEF RolesInv, Alone
  <2>4. CASE LeaveWhenIdle
    <3>1. Served' /\ at' = "Stop"
      BY <1>0, <2>4, DisabledServed DEF LeaveWhenIdle
    <3> QED
      BY <3>1 DEF RolesInv, Alone
  <2> QED
    BY <1>4, <2>1, <2>2, <2>3, <2>4 DEF Peripheral
<1>5. CASE Central
  <2>1. CASE ScanAgain \/ ScanSlotOver \/ ScanReturns \/ ExchangeFails
    BY <2>1 DEF ScanAgain, ScanSlotOver, ScanReturns, ExchangeFails, statevars,
       RolesInv, Served, Alone
  <2>2. CASE Connect
    BY <2>2 DEF Connect, statevars, RolesInv, Served, Alone, OwnProfile, Missing
  <2>3. CASE Identify
    BY <2>3 DEF Identify, statevars, RolesInv, Served, Alone, OwnProfile, Missing
  <2>4. CASE ExchangeRecords
    <3>1. Served' /\ at' = "Stop"
      BY <1>0, <2>4, RecordCentralServed DEF ExchangeRecords
    <3> QED
      BY <3>1 DEF RolesInv, Alone
  <2> QED
    BY <1>5, <2>1, <2>2, <2>3, <2>4 DEF Central
<1> QED
  BY <1>1, <1>2, <1>3, <1>4, <1>5

LEMMA CallbackRoles ==
  ASSUME RolesInv, Callback
  PROVE  RolesInv'
<1>1. PICK c : \/ ClientConnects(c) \/ ClientLeaves(c) \/ ClientReads(c)
               \/ \E f : ClientWrites(c, f)
  BY DEF Callback
<1>2. UNCHANGED <<at, own, advertising>>
  BY <1>1 DEF ClientConnects, ClientLeaves, ClientReads, ClientWrites, loop
<1>3. ASSUME Served', UNCHANGED enabled, ~enabled => UNCHANGED sentence
      PROVE  RolesInv'
  BY <1>2, <1>3 DEF RolesInv, Alone, OwnProfile, Missing
<1>4. Served
  BY DEF RolesInv
<1> QED
  BY <1>1, <1>3, <1>4, ConnectedServed, DisconnectedServed, ReadServed, WriteServed
     DEF ClientConnects, ClientLeaves, ClientReads, ClientWrites

LEMMA RolesKept == RolesInv /\ [Next]_vars => RolesInv'
<1> SUFFICES ASSUME RolesInv, [Next]_vars PROVE RolesInv'
  OBVIOUS
<1>1. CASE UNCHANGED vars
  BY <1>1 DEF vars, statevars, loop, RolesInv, Served, Alone, OwnProfile, Missing
<1>2. CASE Tick
  BY <1>2 DEF Tick, loop, RolesInv, Served, Alone, OwnProfile, Missing
<1> QED
  BY <1>1, <1>2, LoopRoles, CallbackRoles DEF Next

(* A lease is served, and the Central role is alone with the book, in      *)
(* whatever order the loop, the buttons and the callbacks come.            *)
THEOREM RolesInvariant == Spec => []RolesInv
<1>1. Init => RolesInv
  BY DEF Init, StateInit, RolesInv, Served, Alone
<1> QED
  BY <1>1, RolesKept, PTL DEF Spec

(* Whoever holds a lease, of a connection or of a session, finds the       *)
(* service enabled until it is over: disable_if_idle looks at both under   *)
(* the one mutex, and shutdown takes both away.                            *)
THEOREM LeasesServed == Spec => []LeaseServed
<1>1. RolesInv => LeaseServed
  <2> SUFFICES ASSUME RolesInv PROVE LeaseServed
    OBVIOUS
  <2>1. DOMAIN connections = {} => LiveConnections = <<>>
    BY DEF LiveConnections
  <2> QED
    BY <2>1, Sweeps DEF RolesInv, Served, LeaseServed
<1> QED
  BY <1>1, RolesInvariant, PTL

(* While the loop scans, connects and exchanges as Central, no request of  *)
(* a client left over from the Peripheral role changes the book, so the    *)
(* profile the partner was offered stays true until record_central.        *)
THEOREM CentralIsAlone == Spec => []CentralAlone
<1>1. RolesInv => CentralAlone
  BY DEF RolesInv, Served, Alone, CentralAlone
<1> QED
  BY <1>1, RolesInvariant, PTL
-----------------------------------------------------------------------------
(* The clock. *)

LEMMA HalfClock == Half \in Nat /\ Half >= 2 /\ Clock \in Nat /\ Clock = 2 * Half
BY Tab5Assumption DEF Half

(* What is left of a deadline: nothing exactly when it is reached.         *)
LEMMA RemainingReached ==
  ASSUME now \in Time, NEW d \in Time
  PROVE  /\ Remaining(d) \in Nat
         /\ Remaining(d) = 0 <=> Reached(now, d)
<1>1. CASE now >= d
  <2>1. (now - d) % Clock = now - d
    BY <1>1, HalfClock DEF Time
  <2>2. now # d => (d - now) % Clock = d - now + Clock
    BY <1>1, HalfClock DEF Time
  <2> QED
    BY <1>1, <2>1, <2>2, HalfClock DEF Time, Remaining, Reached
<1>2. CASE now < d
  <2>1. (now - d) % Clock = now - d + Clock
    BY <1>2, HalfClock DEF Time
  <2>2. (d - now) % Clock = d - now
    BY <1>2, HalfClock DEF Time
  <2> QED
    BY <1>2, <2>1, <2>2, HalfClock DEF Time, Remaining, Reached
<1> QED
  BY <1>1, <1>2, HalfClock DEF Time

(* A deadline set now leaves the time it was set for.                      *)
LEMMA RemainingAfter ==
  ASSUME now \in Time, NEW t \in 1 .. Half - 1
  PROVE  /\ After(t) \in Time
         /\ Remaining(After(t)) = t
<1>1. CASE now + t < Clock
  <2>1. (now + t) % Clock = now + t
    BY <1>1, HalfClock DEF Time
  <2>2. (now - (now + t)) % Clock = Clock - t /\ ((now + t) - now) % Clock = t
    BY HalfClock DEF Time
  <2> QED
    BY <1>1, <2>1, <2>2, HalfClock DEF Time, Remaining, Reached, After
<1>2. CASE now + t >= Clock
  <2>1. (now + t) % Clock = now + t - Clock
    BY <1>2, HalfClock DEF Time
  <2>2. (now - (now + t - Clock)) % Clock = Clock - t /\ ((now + t - Clock) - now) % Clock = t
    BY HalfClock DEF Time
  <2> QED
    BY <1>2, <2>1, <2>2, HalfClock DEF Time, Remaining, Reached, After
<1> QED
  BY <1>1, <1>2, HalfClock DEF Time

(* A unit of time takes one off it, unless the deadline is so old that it  *)
(* would look ahead again.                                                 *)
LEMMA RemainingTicks ==
  ASSUME now \in Time, NEW d \in Time, ~Old(d), now' = (now + 1) % Clock
  PROVE  /\ now' \in Time
         /\ Remaining(d)' = Cli!Elapse(Remaining(d))
<1>1. PICK a \in Time : a = (now - d) % Clock
  BY HalfClock DEF Time
<1>2. /\ a # Half - 1
      /\ now' \in Time
      /\ a = IF now >= d THEN now - d ELSE now - d + Clock
      /\ now' = IF now = Clock - 1 THEN 0 ELSE now + 1
  BY <1>1, HalfClock DEF Time, Old
<1>3. (now' - d) % Clock = IF a = Clock - 1 THEN 0 ELSE a + 1
  <2>1. CASE now' >= d
    <3>1. (now' - d) % Clock = now' - d
      BY <1>2, <2>1, HalfClock DEF Time
    <3> QED
      BY <1>2, <2>1, <3>1, HalfClock DEF Time
  <2>2. CASE now' < d
    <3>1. (now' - d) % Clock = now' - d + Clock
      BY <1>2, <2>2, HalfClock DEF Time
    <3> QED
      BY <1>2, <2>2, <3>1, HalfClock DEF Time
  <2> QED
    BY <1>2, <2>1, <2>2, HalfClock DEF Time
<1>4. (d - now) % Clock = IF a = 0 THEN 0 ELSE Clock - a
  <2>1. CASE now > d
    <3>1. (d - now) % Clock = d - now + Clock
      BY <2>1, HalfClock DEF Time
    <3> QED
      BY <1>2, <2>1, <3>1, HalfClock DEF Time
  <2>2. CASE now <= d
    <3>1. (d - now) % Clock = d - now
      BY <2>2, HalfClock DEF Time
    <3> QED
      BY <1>2, <2>2, <3>1, HalfClock DEF Time
  <2> QED
    BY <2>1, <2>2, HalfClock DEF Time
<1>5. (d - now') % Clock = IF a = Clock - 1 THEN 0 ELSE Clock - a - 1
  <2>1. CASE now' > d
    <3>1. (d - now') % Clock = d - now' + Clock
      BY <1>2, <2>1, HalfClock DEF Time
    <3> QED
      BY <1>2, <2>1, <3>1, HalfClock DEF Time
  <2>2. CASE now' <= d
    <3>1. (d - now') % Clock = d - now'
      BY <1>2, <2>2, HalfClock DEF Time
    <3> QED
      BY <1>2, <2>2, <3>1, HalfClock DEF Time
  <2> QED
    BY <1>2, <2>1, <2>2, HalfClock DEF Time
<1>6. Remaining(d) = IF a < Half THEN 0 ELSE Clock - a
  BY <1>1, <1>4, HalfClock DEF Time, Remaining, Reached
<1>7. Remaining(d)' = IF a + 1 < Half \/ a = Clock - 1 THEN 0 ELSE Clock - a - 1
  BY <1>2, <1>3, <1>5, HalfClock DEF Time, Remaining, Reached
<1> QED
  BY <1>2, <1>6, <1>7, HalfClock DEF Time, Cli!Elapse
-----------------------------------------------------------------------------
(* Types. *)

Sound(s) ==
  /\ s.peer # None => s.outgoingGift # None
  /\ s.incomingGift # None => s.peer # None

IsLease(s) == s \in Session \cup {None} /\ (s # None => Sound(s))

StateTyped ==
  /\ now \in Time /\ enabled \in BOOLEAN
  /\ IsLease(session)
  /\ recent \in [Peer -> Time \cup {None}]
  /\ log \in Seq(Cli!LogEntry)

LEMMA LeaseOf ==
  ASSUME now \in Time, NEW s \in Session
  PROVE  /\ Lease(s) \in Cli!Session /\ Lease(s) # None /\ s # None
         /\ Lease(s) = [client |-> s.client, exchange |-> s.exchange,
                        timer |-> Remaining(s.deadline), incoming |-> s.incoming,
                        peer |-> s.peer, outgoingGift |-> s.outgoingGift,
                        incomingGift |-> s.incomingGift, reply |-> s.reply,
                        selected |-> s.selected, read |-> s.read,
                        committed |-> s.committed]
<1>1. s # None /\ s.deadline \in Time
  BY DataAssumption DEF Session
<1>2. Remaining(s.deadline) \in Nat
  BY <1>1, RemainingReached
<1>3. Lease(s) \in Cli!Session
  BY <1>1, <1>2 DEF Lease, Session, Cli!Session
<1> QED
  BY <1>1, <1>3, DataAssumption DEF Lease

LEMMA LiveLease ==
  ASSUME StateTyped
  PROVE  /\ IsLease(Live) /\ (Live # None => Live = session)
         /\ Lease(Live) = Cli!Live(Self)
<1>1. CASE session = None
  <2>1. Live = None /\ Lease(session) = None
    BY <1>1 DEF Live, Lease
  <2> QED
    BY <2>1 DEF IsLease, Lease, Cli!Live, Only
<1>2. CASE session # None
  <2>1. session \in Session /\ now \in Time /\ session.deadline \in Time
    BY <1>2 DEF StateTyped, IsLease, Session
  <2>2. /\ Lease(session) # None
        /\ Lease(session).timer = 0 <=> Reached(now, session.deadline)
    BY <2>1, LeaseOf, RemainingReached
  <2>3. Cli!Live(Self) = IF Reached(now, session.deadline) THEN None ELSE Lease(session)
    BY <2>2 DEF Cli!Live, Only
  <2> QED
    BY <1>2, <2>3 DEF Live, Lease, StateTyped, IsLease
<1> QED
  BY <1>1, <1>2

(* A lease taken, or taken further, without another change to the book.    *)
Sets(s) ==
  /\ Only(Lease(session))' = [Only(Lease(session)) EXCEPT ![Self] = Lease(s)]
  /\ Cli!book' = Cli!book
  /\ StateTyped'

LEMMA LeaveSets ==
  ASSUME StateTyped, NEW s, IsLease(s), NEW held, Leave(s, held), enabled' \in BOOLEAN
  PROVE  Sets(s)
<1>1. /\ session' = s /\ recent' = LiveRecent
      /\ now' = now /\ sentence' = sentence /\ log' = log
  BY DEF Leave
<1>2. LiveRecent \in [Peer -> Time \cup {None}]
  BY DEF StateTyped, LiveRecent
<1>3. StateTyped'
  BY <1>1, <1>2 DEF StateTyped, IsLease, Sound
<1>4. Lease(session)' = Lease(s)
  BY <1>1 DEF Lease, Remaining
<1>5. Cooling' = Cooling
  <2>1. ASSUME NEW p \in Peer
        PROVE  /\ recent[p] # None => (Remaining(recent[p]) = 0 <=> Reached(now, recent[p]))
               /\ recent'[p] = IF recent[p] # None /\ Reached(now, recent[p]) THEN None
                               ELSE recent[p]
    BY <1>1, RemainingReached DEF StateTyped, LiveRecent
  <2> QED
    BY <1>1, <2>1 DEF Cooling, Remaining
<1>6. Only(Lease(session))' = [Only(Lease(session)) EXCEPT ![Self] = Lease(s)]
  BY <1>4 DEF Only
<1>7. Cli!book' = Cli!book
  BY <1>1, <1>5 DEF Cli!book, Only, Complete
<1> QED
  BY <1>3, <1>6, <1>7 DEF Sets
-----------------------------------------------------------------------------
(* Requests. *)

LEMMA RequestTyped ==
  ASSUME NEW f \in Cli!Requests
  PROVE  /\ f.kind \in {"DATA", "SELECT", "ACK"} /\ f.exchange \in ExchangeId
         /\ f.kind = "DATA" => f.packet \in Cli!Packet /\ f.seq \in Nat
         /\ f.kind = "SELECT" => f.index \in Nat
<1>1. CASE f \in Cli!Fragments
  <2>1. PICK p \in Inputs : \E x \in ExchangeId, i \in 0 .. Cli!FrameCount(p) - 1 :
                              f = Cli!Data(x, p, i)
    BY <1>1 DEF Cli!Fragments
  <2>2. p \in Cli!Packet
    BY DataAssumption
  <2>3. Cli!FrameCount(p) \in Nat
    BY Tab5Assumption DEF Cli!FrameCount
  <2> QED
    BY <2>1, <2>2, <2>3 DEF Cli!Data
<1>2. CASE f \notin Cli!Fragments
  BY <1>2, Tab5Assumption DEF Cli!Requests, Cli!Select, Cli!Ack
<1> QED
  BY <1>1, <1>2

LEMMA PushTyped ==
  ASSUME NEW f, f.packet \in Cli!Packet, f.seq \in Nat
  PROVE  /\ Cli!EmptyAssembler \in Cli!Assembler
         /\ \A a : Cli!Pushed(a, f) \in Cli!Assembler
<1>1. Cli!FrameCount(f.packet) \in Nat
  BY Tab5Assumption DEF Cli!FrameCount
<1> QED
  BY <1>1 DEF Cli!Pushed, Cli!Assembler, Cli!EmptyAssembler

LEMMA SameLease ==
  ASSUME StateTyped, NEW c, NEW f
  PROVE  /\ Cli!MayBegin(Self, f) <=> Begins(f)
         /\ Cli!Leased(Self, c, f) <=> Leased(c, f)
         /\ Cli!MayRead(Self, c) <=> Reads(c)
<1>1. Only(enabled)[Self] = enabled /\ Cli!Live(Self) = Lease(Live)
  BY LiveLease DEF Only
<1>2. CASE Live = None
  <2>1. Lease(Live) = None
    BY <1>2 DEF Lease
  <2> QED
    BY <1>1, <1>2, <2>1 DEF Cli!MayBegin, Cli!Leased, Cli!MayRead, Begins, Leased, Reads
<1>3. CASE Live # None
  <2>1. Live \in Session /\ now \in Time
    BY <1>3, LiveLease DEF IsLease, StateTyped
  <2>2. /\ Lease(Live) # None
        /\ Lease(Live).client = Live.client /\ Lease(Live).exchange = Live.exchange
        /\ Lease(Live).selected = Live.selected
    BY <2>1, LeaseOf
  <2> QED
    BY <1>1, <1>3, <2>2 DEF Cli!MayBegin, Cli!Leased, Cli!MayRead, Begins, Leased, Reads
<1> QED
  BY <1>2, <1>3

LEMMA SameRequest ==
  ASSUME StateTyped, Live # None, NEW f
  PROVE  /\ Cli!MayAppend(Cli!Live(Self), f) <=> Appends(f)
         /\ Cli!MaySelect(Cli!Live(Self), f) <=> Selects(f)
         /\ Cli!MayAck(Cli!Live(Self), f) <=> Acks(f)
         /\ Cli!AckRecordable(Self, Cli!Live(Self)) <=> Recordable
<1>1. /\ Live \in Session /\ now \in Time
      /\ Cli!Live(Self) = Lease(Live)
  BY LiveLease DEF IsLease, StateTyped
<1> DEFINE s == Lease(Live)
<1>2. /\ s.peer = Live.peer /\ s.incoming = Live.incoming /\ s.read = Live.read
      /\ s.reply = Live.reply /\ s.outgoingGift = Live.outgoingGift
      /\ s.incomingGift = Live.incomingGift /\ s.committed = Live.committed
  BY <1>1, LeaseOf
<1> HIDE DEF s
<1>3. Cli!ReplyFrames(s) = Cli!ReplyFrames(Live)
  BY <1>2 DEF Cli!ReplyFrames
<1>4. Cli!AllRead(s) <=> AllRead(Live)
  BY <1>2, <1>3 DEF Cli!AllRead, AllRead
<1>5. Cli!MayAppend(s, f) <=> Appends(f)
  BY <1>2, <1>4 DEF Cli!MayAppend, Appends
<1>6. Cli!MaySelect(s, f) <=> Selects(f)
  BY <1>2, <1>3 DEF Cli!MaySelect, Selects
<1>7. Cli!MayAck(s, f) <=> Acks(f)
  BY <1>2, <1>4 DEF Cli!MayAck, Acks
<1>8. Cli!AckRecordable(Self, s) <=> Recordable
  <2>1. Only(sentence)[Self] = sentence
    BY DEF Only
  <2> QED
    BY <1>2, <2>1 DEF Cli!AckRecordable, Cli!RecordAllowed, Cli!SlotFree, Recordable,
       RecordAllowed, SlotFree
<1> QED
  BY <1>1, <1>5, <1>6, <1>7, <1>8 DEF s

LEMMA SameCooldown ==
  ASSUME StateTyped, NEW p \in Peer
  PROVE  Cli!CoolingDown(Self, p) <=> CoolingDown(p)
<1>1. Only(Cooling)[Self][p] = IF recent[p] = None THEN 0 ELSE Remaining(recent[p])
  BY DEF Only, Cooling
<1>2. recent[p] # None => /\ Remaining(recent[p]) \in Nat
                          /\ Remaining(recent[p]) = 0 <=> Reached(now, recent[p])
  BY RemainingReached DEF StateTyped
<1> QED
  BY <1>1, <1>2 DEF Cli!CoolingDown, CoolingDown

-----------------------------------------------------------------------------
(* Each method does a handler's step. *)

LEMMA ExpirePorts ==
  ASSUME StateTyped, Expire
  PROVE  Cli!Expire(Self) /\ StateTyped'
<1>1. Sets(Live)
  BY LiveLease, LeaveSets DEF Expire, Hold, StateTyped
<1>2. Only(enabled)' = Only(enabled)
  BY DEF Expire, Hold, Only
<1> QED
  BY <1>1, <1>2, LiveLease DEF Sets, Cli!Expire

LEMMA BeginPorts ==
  ASSUME StateTyped, NEW c \in Client, NEW f \in Cli!Requests, Begin(c, f)
  PROVE  Cli!Begin(Self, c, f) /\ StateTyped'
<1>1. /\ Begins(f) /\ f.packet \in Cli!Packet /\ f.seq \in Nat /\ f.exchange \in ExchangeId
      /\ now \in Time
  BY RequestTyped DEF Begin, Begins, StateTyped
<1> DEFINE a == Cli!Pushed(Cli!EmptyAssembler, f)
<1>2. a \in Cli!Assembler
  BY <1>1, PushTyped
<1>3. After(Timeout) \in Time /\ Remaining(After(Timeout)) = Timeout
  BY <1>1, RemainingAfter, Tab5Assumption
<1>4. NewSession(c, f) = [client |-> c, exchange |-> f.exchange, deadline |-> After(Timeout),
        incoming |-> a, peer |-> None, outgoingGift |-> None, incomingGift |-> None,
        reply |-> None, selected |-> None, read |-> {}, committed |-> FALSE]
  BY DEF NewSession
<1> HIDE DEF a
<1>5. NewSession(c, f) \in Session /\ IsLease(NewSession(c, f))
  BY <1>1, <1>2, <1>3, <1>4 DEF Session, IsLease, Sound
<1>6. Lease(NewSession(c, f)) = Cli!NewSession(c, f.exchange, a)
  BY <1>1, <1>3, <1>4, <1>5, LeaseOf DEF Cli!NewSession
<1>7. Sets(NewSession(c, f)) /\ Only(enabled)' = Only(enabled)
  BY <1>5, LeaveSets DEF Begin, StateTyped, Only
<1> QED
  BY <1>1, <1>6, <1>7, SameLease DEF Sets, Cli!Begin, a

(* A lease taken further by its client.                                    *)
LEMMA AppendPorts ==
  ASSUME StateTyped, NEW c \in Client, NEW f \in Cli!Requests, AppendFragment(c, f)
  PROVE  Cli!Continue(Self, c, f) /\ StateTyped'
<1> DEFINE a == Cli!Pushed(Live.incoming, f)
           s == [Live EXCEPT !.incoming = a]
<1>1. /\ Leased(c, f) /\ Appends(f) /\ ~Cli!Finished(a) /\ Hold(s)
      /\ f.packet \in Cli!Packet /\ f.seq \in Nat
  BY RequestTyped DEF AppendFragment, Appends
<1>2. a \in Cli!Assembler
  BY <1>1, PushTyped
<1>3. Live # None /\ Live \in Session /\ now \in Time /\ Cli!Live(Self) = Lease(Live)
  BY <1>1, LiveLease DEF Leased, IsLease, StateTyped
<1>4. s \in Session /\ IsLease(s)
  BY <1>2, <1>3, LiveLease DEF Session, IsLease, Sound
<1>5. Lease(s) = [Lease(Live) EXCEPT !.incoming = a] /\ Lease(Live).incoming = Live.incoming
  BY <1>3, <1>4, LeaseOf DEF Session
<1>6. Sets(s) /\ Only(enabled)' = Only(enabled)
  BY <1>1, <1>4, LeaveSets DEF Hold, StateTyped, Only
<1> QED
  BY <1>1, <1>3, <1>5, <1>6, SameLease, SameRequest DEF Sets, Cli!Continue
(* What a lease's packets decode to is a packet, or none.                  *)
LEMMA DecodedTyped ==
  ASSUME NEW a \in Cli!Assembler, NEW p \in Cli!Decoded(a)
  PROVE  p \in Cli!Packet \cup {None}
BY DataAssumption DEF Cli!Decoded, Cli!Assembler

LEMMA SameWelcome ==
  ASSUME StateTyped, Live # None, NEW p \in Cli!Packet \cup {None}
  PROVE  Cli!Welcome(Self, Cli!Live(Self), p) <=> Welcome(p)
<1>1. /\ Live \in Session /\ now \in Time
      /\ Cli!Live(Self) = Lease(Live) /\ Lease(Live).peer = Live.peer
  BY LiveLease, LeaseOf DEF IsLease, StateTyped
<1>2. CASE p = None
  BY <1>2 DEF Cli!Welcome, Welcome
<1>3. CASE p \in Cli!Profile
  <2>1. Cli!CoolingDown(Self, p.node) <=> CoolingDown(p.node)
    BY <1>3, SameCooldown DEF Cli!Profile
  <2>2. p.type = "Profile" /\ p # None
    BY <1>3, DataAssumption DEF Cli!Profile, Cli!Packet
  <2> QED
    BY <1>1, <2>1, <2>2 DEF Cli!Welcome, Cli!ProfileWelcome, Cli!GiftWelcome, Welcome
<1>4. CASE p \in Cli!Gift
  <2>1. p.type = "Gift" /\ p # None
    BY <1>4, DataAssumption DEF Cli!Gift, Cli!Packet
  <2>2. Cli!SlotFree(Self, p.phrase) <=> SlotFree(p.phrase)
    BY DEF Cli!SlotFree, SlotFree, Only
  <2> QED
    BY <1>1, <2>1, <2>2 DEF Cli!Welcome, Cli!ProfileWelcome, Cli!GiftWelcome, Welcome
<1> QED
  BY <1>2, <1>3, <1>4 DEF Cli!Packet

(* Leases are equal when their fields are.                                 *)
LEMMA SameFields ==
  ASSUME NEW s \in Cli!Session, NEW l \in Cli!Session,
         s.client = l.client, s.exchange = l.exchange, s.timer = l.timer,
         s.incoming = l.incoming, s.peer = l.peer, s.outgoingGift = l.outgoingGift,
         s.incomingGift = l.incomingGift, s.reply = l.reply, s.selected = l.selected,
         s.read = l.read, s.committed = l.committed
  PROVE  s = l
BY DEF Cli!Session

(* The lease of the CLI is known by its fields.                            *)
LEMMA LeaseIs ==
  ASSUME now \in Time, NEW s \in Session, NEW w \in Cli!Session,
         w.client = s.client, w.exchange = s.exchange, w.timer = Remaining(s.deadline),
         w.incoming = s.incoming, w.peer = s.peer, w.outgoingGift = s.outgoingGift,
         w.incomingGift = s.incomingGift, w.reply = s.reply, w.selected = s.selected,
         w.read = s.read, w.committed = s.committed
  PROVE  w = Lease(s)
<1>1. /\ Lease(s) \in Cli!Session
      /\ Lease(s).client = s.client /\ Lease(s).exchange = s.exchange
      /\ Lease(s).timer = Remaining(s.deadline) /\ Lease(s).incoming = s.incoming
      /\ Lease(s).peer = s.peer /\ Lease(s).outgoingGift = s.outgoingGift
      /\ Lease(s).incomingGift = s.incomingGift /\ Lease(s).reply = s.reply
      /\ Lease(s).selected = s.selected /\ Lease(s).read = s.read
      /\ Lease(s).committed = s.committed
  BY LeaseOf
<1> QED
  BY <1>1, SameFields

(* The lease a Profile leads to, or a Gift.                                *)
LEMMA ProfileAnswered ==
  ASSUME StateTyped, Live # None, NEW p \in Cli!Profile, Live.peer = None,
         NEW phrase \in Cli!Choices(Self, p.missing), NEW s,
         s = [WithReply(Live, OwnProfile) EXCEPT
                !.peer = p,
                !.outgoingGift = [type |-> "Gift", round |-> p.node, phrase |-> phrase]]
  PROVE  /\ IsLease(s)
         /\ Lease(s) = [Cli!WithReply(Cli!Live(Self), Cli!OwnProfile(Self)) EXCEPT
                          !.peer = p, !.outgoingGift = Cli!GiftFor(p, phrase)]
<1> DEFINE g == [type |-> "Gift", round |-> p.node, phrase |-> phrase]
<1>1. /\ Live \in Session /\ now \in Time /\ Cli!Live(Self) = Lease(Live)
      /\ Live.incomingGift # None => Live.peer # None
  BY LiveLease DEF IsLease, StateTyped, Sound
<1>2. g \in Cli!Gift /\ g = Cli!GiftFor(p, phrase) /\ g # None
  <2>1. phrase \in Cli!Phrase \cup {None}
    BY Tab5Assumption DEF Cli!Choices, Cli!Profile, Cli!Phrase
  <2>2. g \in Cli!Gift
    BY <2>1 DEF Cli!Gift, Cli!Profile
  <2> QED
    BY <2>2, DataAssumption DEF Cli!Packet, Cli!GiftFor
<1>3. OwnProfile \in Cli!Packet /\ OwnProfile = Cli!OwnProfile(Self)
  <2>1. Missing \in SUBSET Slot /\ Missing = Cli!Missing(Self)
    BY DEF Missing, Cli!Missing, Only
  <2> QED
    BY <2>1, Tab5Assumption DEF OwnProfile, Cli!OwnProfile, Cli!Profile, Cli!Packet
<1> DEFINE mine == OwnProfile
<1> HIDE DEF g, mine
<1>4. s = [Live EXCEPT !.reply = mine, !.read = {}, !.selected = None,
                       !.incoming = Cli!EmptyAssembler, !.peer = p, !.outgoingGift = g]
  BY DEF WithReply, g, mine
<1>5. Cli!EmptyAssembler \in Cli!Assembler
  BY DEF Cli!EmptyAssembler, Cli!Assembler
<1>6. mine \in Cli!Packet
  BY <1>3 DEF mine
<1>7. s \in Session /\ s.peer # None /\ s.outgoingGift # None
  <2>1. p # None
    BY DataAssumption DEF Cli!Packet
  <2> QED
    BY <1>1, <1>2, <1>4, <1>5, <1>6, <2>1 DEF Session
<1>8. IsLease(s)
  BY <1>7 DEF IsLease, Sound
<1>10. [Cli!WithReply(Lease(Live), mine) EXCEPT !.peer = p, !.outgoingGift = g] = Lease(s)
  <2> DEFINE w == [Cli!WithReply(Lease(Live), mine) EXCEPT !.peer = p, !.outgoingGift = g]
  <2>1. s.client = Live.client /\ s.exchange = Live.exchange /\ s.deadline = Live.deadline
    BY <1>1, <1>4 DEF Session
  <2>2. /\ s.incoming = Cli!EmptyAssembler /\ s.read = {} /\ s.committed = Live.committed
        /\ s.reply = mine /\ s.selected = None
        /\ s.peer = p /\ s.outgoingGift = g /\ s.incomingGift = Live.incomingGift
    BY <1>1, <1>4 DEF Session
  <2>3. PICK l \in Cli!Session :
          /\ l = Lease(Live)
          /\ l.client = Live.client /\ l.exchange = Live.exchange
          /\ l.timer = Remaining(Live.deadline) /\ l.peer = Live.peer
          /\ l.outgoingGift = Live.outgoingGift /\ l.incomingGift = Live.incomingGift
          /\ l.committed = Live.committed
    BY <1>1, LeaseOf
  <2>4. /\ w \in Cli!Session
        /\ w.client = l.client /\ w.exchange = l.exchange /\ w.timer = l.timer
        /\ w.incoming = Cli!EmptyAssembler /\ w.read = {} /\ w.committed = l.committed
        /\ w.reply = mine /\ w.selected = None
        /\ w.peer = p /\ w.outgoingGift = g /\ w.incomingGift = l.incomingGift
    BY <1>2, <1>5, <1>6, <2>3 DEF Cli!WithReply, Cli!Session
  <2> HIDE DEF w
  <2>5. /\ w.client = s.client /\ w.exchange = s.exchange /\ w.timer = Remaining(s.deadline)
        /\ w.incoming = s.incoming /\ w.peer = s.peer /\ w.outgoingGift = s.outgoingGift
        /\ w.incomingGift = s.incomingGift /\ w.reply = s.reply
        /\ w.selected = s.selected /\ w.read = s.read /\ w.committed = s.committed
    BY <2>1, <2>2, <2>3, <2>4
  <2>6. w = Lease(s)
    BY <1>1, <1>7, <2>4, <2>5, LeaseIs
  <2> QED
    BY <2>3, <2>6 DEF w
<1> QED
  BY <1>1, <1>2, <1>3, <1>8, <1>10 DEF mine, g

LEMMA GiftAnswered ==
  ASSUME StateTyped, Live # None, NEW p \in Cli!Gift, Live.peer # None, NEW s,
         s = [WithReply(Live, Live.outgoingGift) EXCEPT !.incomingGift = p]
  PROVE  /\ IsLease(s)
         /\ Lease(s) = [Cli!WithReply(Cli!Live(Self), Cli!Live(Self).outgoingGift) EXCEPT
                          !.incomingGift = p]
<1>1. /\ Live \in Session /\ now \in Time /\ Cli!Live(Self) = Lease(Live)
      /\ Live.outgoingGift # None
  BY LiveLease DEF IsLease, StateTyped, Sound
<1>2. Live.outgoingGift \in Cli!Gift /\ Lease(Live).outgoingGift = Live.outgoingGift
  BY <1>1, LeaseOf DEF Session
<1> DEFINE g == Live.outgoingGift
<1> HIDE DEF g
<1>3. s = [Live EXCEPT !.reply = g, !.read = {}, !.selected = None,
                       !.incoming = Cli!EmptyAssembler, !.incomingGift = p]
  BY DEF WithReply, g
<1>4. Cli!EmptyAssembler \in Cli!Assembler /\ g \in Cli!Packet
  BY <1>2 DEF Cli!EmptyAssembler, Cli!Assembler, Cli!Packet, g
<1>5. s \in Session /\ s.peer # None /\ s.outgoingGift # None
  BY <1>1, <1>3, <1>4 DEF Session
<1>6. IsLease(s)
  BY <1>5 DEF IsLease, Sound
<1>8. [Cli!WithReply(Lease(Live), g) EXCEPT !.incomingGift = p] = Lease(s)
  <2> DEFINE w == [Cli!WithReply(Lease(Live), g) EXCEPT !.incomingGift = p]
  <2>1. s.client = Live.client /\ s.exchange = Live.exchange /\ s.deadline = Live.deadline
    BY <1>1, <1>3 DEF Session
  <2>2. /\ s.incoming = Cli!EmptyAssembler /\ s.read = {} /\ s.committed = Live.committed
        /\ s.reply = g /\ s.selected = None
        /\ s.peer = Live.peer /\ s.outgoingGift = Live.outgoingGift /\ s.incomingGift = p
    BY <1>1, <1>3 DEF Session
  <2>3. PICK l \in Cli!Session :
          /\ l = Lease(Live)
          /\ l.client = Live.client /\ l.exchange = Live.exchange
          /\ l.timer = Remaining(Live.deadline) /\ l.peer = Live.peer
          /\ l.outgoingGift = Live.outgoingGift /\ l.incomingGift = Live.incomingGift
          /\ l.committed = Live.committed
    BY <1>1, LeaseOf
  <2>4. /\ w \in Cli!Session
        /\ w.client = l.client /\ w.exchange = l.exchange /\ w.timer = l.timer
        /\ w.incoming = Cli!EmptyAssembler /\ w.read = {} /\ w.committed = l.committed
        /\ w.reply = g /\ w.selected = None
        /\ w.peer = l.peer /\ w.outgoingGift = l.outgoingGift /\ w.incomingGift = p
    BY <1>4, <2>3 DEF Cli!WithReply, Cli!Session
  <2> HIDE DEF w
  <2>5. /\ w.client = s.client /\ w.exchange = s.exchange /\ w.timer = Remaining(s.deadline)
        /\ w.incoming = s.incoming /\ w.peer = s.peer /\ w.outgoingGift = s.outgoingGift
        /\ w.incomingGift = s.incomingGift /\ w.reply = s.reply
        /\ w.selected = s.selected /\ w.read = s.read /\ w.committed = s.committed
    BY <2>1, <2>2, <2>3, <2>4
  <2>6. w = Lease(s)
    BY <1>1, <1>5, <2>4, <2>5, LeaseIs
  <2> QED
    BY <2>3, <2>6 DEF w
<1> QED
  BY <1>1, <1>2, <1>6, <1>8 DEF g

LEMMA HandlePorts ==
  ASSUME StateTyped, NEW c \in Client, NEW f \in Cli!Requests, HandlePacket(c, f)
  PROVE  /\ Cli!AcceptProfile(Self, c, f) \/ Cli!AcceptGift(Self, c, f)
            \/ Cli!RefusePacket(Self, c, f)
         /\ StateTyped'
<1> DEFINE a == Cli!Pushed(Live.incoming, f)
<1>1. /\ Leased(c, f) /\ Appends(f) /\ Cli!Finished(a)
      /\ f.packet \in Cli!Packet /\ f.seq \in Nat
  BY RequestTyped DEF HandlePacket, Appends
<1>2. PICK p \in Cli!Decoded(a) : IF Welcome(p) THEN \E s \in Answered(p) : Hold(s)
                                  ELSE Hold([Live EXCEPT !.incoming = a])
  BY DEF HandlePacket
<1>3. a \in Cli!Assembler
  BY <1>1, PushTyped
<1>4. /\ Live # None /\ Live \in Session /\ now \in Time
      /\ Cli!Live(Self) = Lease(Live) /\ Lease(Live).incoming = Live.incoming
      /\ Lease(Live).peer = Live.peer
  BY <1>1, LiveLease, LeaseOf DEF Leased, IsLease, StateTyped
<1>5. p \in Cli!Packet \cup {None}
  BY <1>2, <1>3, DecodedTyped
<1>6. Cli!Welcome(Self, Cli!Live(Self), p) <=> Welcome(p)
  BY <1>4, <1>5, SameWelcome
<1>7. Cli!Leased(Self, c, f) /\ Cli!MayAppend(Cli!Live(Self), f)
  BY <1>1, <1>4, SameLease, SameRequest
<1>8. ASSUME NEW s, IsLease(s), Hold(s)
      PROVE  Sets(s) /\ Only(enabled)' = Only(enabled)
  BY <1>8, LeaveSets DEF Hold, StateTyped, Only
<1> HIDE DEF a
<1>9. CASE ~Welcome(p)
  <2> DEFINE s == [Live EXCEPT !.incoming = a]
  <2>1. s \in Session /\ IsLease(s)
    BY <1>3, <1>4, LiveLease DEF Session, IsLease, Sound
  <2>2. Lease(s) = [Lease(Live) EXCEPT !.incoming = a]
    BY <1>4, <2>1, LeaseOf DEF Session
  <2>3. Sets(s) /\ Only(enabled)' = Only(enabled)
    BY <1>2, <1>8, <1>9, <2>1
  <2> HIDE DEF s
  <2> QED
    BY <1>1, <1>2, <1>4, <1>6, <1>7, <1>9, <2>2, <2>3 DEF Sets, Cli!RefusePacket, a
<1>10. CASE Welcome(p) /\ Live.peer = None
  <2>1. PICK phrase \in Cli!Choices(Self, p.missing) :
          Hold([WithReply(Live, OwnProfile) EXCEPT
                  !.peer = p,
                  !.outgoingGift = [type |-> "Gift", round |-> p.node, phrase |-> phrase]])
    BY <1>2, <1>10 DEF Answered
  <2>2. PICK s : s = [WithReply(Live, OwnProfile) EXCEPT
                  !.peer = p,
                  !.outgoingGift = [type |-> "Gift", round |-> p.node, phrase |-> phrase]]
    OBVIOUS
  <2>3. p \in Cli!Profile
    BY <1>5, <1>10 DEF Welcome, Cli!Packet, Cli!Gift
  <2>4. /\ IsLease(s)
        /\ Lease(s) = [Cli!WithReply(Cli!Live(Self), Cli!OwnProfile(Self)) EXCEPT
                         !.peer = p, !.outgoingGift = Cli!GiftFor(p, phrase)]
    BY <1>4, <1>10, <2>2, <2>3, ProfileAnswered
  <2>5. Sets(s) /\ Only(enabled)' = Only(enabled)
    BY <1>8, <2>1, <2>2, <2>4
  <2>6. Cli!AcceptProfile(Self, c, f)
    <3>1. /\ Cli!Pushed(Cli!Live(Self).incoming, f) = a
          /\ Cli!Live(Self).peer = None /\ Cli!Finished(a)
      BY <1>1, <1>4, <1>10 DEF a
    <3>2. Only(Lease(session))' = [Only(Lease(session)) EXCEPT ![Self] =
            [Cli!WithReply(Cli!Live(Self), Cli!OwnProfile(Self)) EXCEPT
               !.peer = p, !.outgoingGift = Cli!GiftFor(p, phrase)]]
      BY <2>4, <2>5 DEF Sets
    <3>3. UNCHANGED <<Only(enabled), Cli!book>>
      BY <2>5 DEF Sets
    <3> QED
      BY <1>2, <1>6, <1>7, <1>10, <3>1, <3>2, <3>3 DEF Cli!AcceptProfile
  <2> QED
    BY <2>5, <2>6 DEF Sets
<1>11. CASE Welcome(p) /\ Live.peer # None
  <2>1. PICK s : s = [WithReply(Live, Live.outgoingGift) EXCEPT !.incomingGift = p]
    OBVIOUS
  <2>2. Hold(s)
    BY <1>2, <1>11, <2>1 DEF Answered
  <2>3. p \in Cli!Gift
    BY <1>5, <1>11 DEF Welcome, Cli!Packet, Cli!Profile
  <2>4. /\ IsLease(s)
        /\ Lease(s) = [Cli!WithReply(Cli!Live(Self), Cli!Live(Self).outgoingGift) EXCEPT
                         !.incomingGift = p]
    BY <1>4, <1>11, <2>1, <2>3, GiftAnswered
  <2>5. Sets(s) /\ Only(enabled)' = Only(enabled)
    BY <1>8, <2>2, <2>4
  <2>6. Cli!AcceptGift(Self, c, f)
    BY <1>1, <1>2, <1>4, <1>6, <1>7, <1>11, <2>4, <2>5 DEF Sets, Cli!AcceptGift, a
  <2> QED
    BY <2>5, <2>6 DEF Sets
<1> QED
  BY <1>9, <1>10, <1>11
(* Any other request of the lease's client takes it further by one field.  *)
LEMMA SelectPorts ==
  ASSUME StateTyped, NEW c \in Client, NEW f \in Cli!Requests, Select(c, f)
  PROVE  Cli!SelectFragment(Self, c, f) /\ StateTyped'
<1> DEFINE s == [Live EXCEPT !.selected = f.index]
<1>1. Leased(c, f) /\ Selects(f) /\ Hold(s) /\ f.index \in Nat
  BY RequestTyped DEF Select, Selects
<1>2. Live # None /\ Live \in Session /\ now \in Time /\ Cli!Live(Self) = Lease(Live)
  BY <1>1, LiveLease DEF Leased, IsLease, StateTyped
<1>3. s \in Session /\ IsLease(s)
  BY <1>1, <1>2, LiveLease DEF Session, IsLease, Sound
<1>4. Lease(s) = [Lease(Live) EXCEPT !.selected = f.index]
  BY <1>2, <1>3, LeaseOf DEF Session
<1>5. Sets(s) /\ Only(enabled)' = Only(enabled)
  BY <1>1, <1>3, LeaveSets DEF Hold, StateTyped, Only
<1> HIDE DEF s
<1> QED
  BY <1>1, <1>2, <1>4, <1>5, SameLease, SameRequest DEF Sets, Cli!SelectFragment, Cli!Selected

LEMMA ReadPorts ==
  ASSUME StateTyped, NEW c \in Client, Read(c)
  PROVE  Cli!Read(Self, c) /\ StateTyped'
<1>1. CASE ~Reads(c)
  BY <1>1, ExpirePorts, SameLease DEF Read, Cli!Read, Cli!RefuseRead
<1>2. CASE Reads(c)
  <2>1. Hold([Live EXCEPT !.read = @ \cup {Live.selected}]) /\ Live # None /\ Live.selected # None
    BY <1>2 DEF Read, Reads
  <2>2. /\ Live \in Session /\ now \in Time /\ Cli!Live(Self) = Lease(Live)
        /\ Live.selected \in Nat /\ Live.read \in SUBSET Nat
    BY <2>1, LiveLease DEF IsLease, StateTyped, Session
  <2>3. PICK r \in SUBSET Nat : r = Live.read \cup {Live.selected}
    BY <2>2
  <2> DEFINE s == [Live EXCEPT !.read = r]
  <2>4. s \in Session /\ IsLease(s) /\ Hold(s)
    <3>1. Hold(s)
      BY <2>1, <2>3
    <3>2. s \in Session
      BY <2>2 DEF Session
    <3>3. s.peer = Live.peer /\ s.outgoingGift = Live.outgoingGift
          /\ s.incomingGift = Live.incomingGift
      BY <2>2 DEF Session
    <3> QED
      BY <2>1, <3>1, <3>2, <3>3, LiveLease DEF IsLease, Sound
  <2>6. /\ Lease(s) = [Lease(Live) EXCEPT !.read = r]
        /\ Lease(Live).read = Live.read /\ Lease(Live).selected = Live.selected
    BY <2>2, <2>4, LeaseOf DEF Session
  <2>7. Sets(s) /\ Only(enabled)' = Only(enabled)
    BY <2>4, LeaveSets DEF Hold, StateTyped, Only
  <2> HIDE DEF s
  <2>8. Cli!ReadFragment(Self, c)
    BY <1>2, <2>2, <2>3, <2>6, <2>7, SameLease DEF Sets, Cli!ReadFragment
  <2> QED
    BY <2>7, <2>8 DEF Sets, Cli!Read
<1> QED
  BY <1>1, <1>2

(* What the methods refuse or repeat, the handlers do.                     *)
LEMMA UnservedPorts ==
  ASSUME StateTyped, NEW c \in Client, NEW f \in Cli!Requests, Unserved(c, f)
  PROVE  /\ Cli!AcknowledgeAgain(Self, c, f) \/ Cli!RefuseWrite(Self, c, f)
         /\ StateTyped'
<1>1. Cli!Expire(Self) /\ StateTyped'
  BY ExpirePorts DEF Unserved
<1>2. CASE Leased(c, f) /\ Acks(f) /\ Live.committed
  <2>1. /\ Live # None /\ Live = session /\ Live \in Session /\ now \in Time
        /\ Cli!Live(Self) = Lease(session)
    BY <1>2, LiveLease DEF Leased, IsLease, StateTyped
  <2>2. Lease(session).committed = session.committed
    BY <2>1, LeaseOf
  <2>3. Cli!Leased(Self, c, f) /\ Cli!MayAck(Cli!Live(Self), f) /\ Cli!Live(Self).committed
    BY <1>2, <2>1, <2>2, SameLease, SameRequest
  <2>4. [Only(Lease(session)) EXCEPT ![Self] = Lease(session)] = Only(Lease(session))
    BY DEF Only
  <2>5. UNCHANGED Cli!vars
    BY <1>1, <2>1, <2>4 DEF Cli!Expire, Cli!vars, Cli!book
  <2> QED
    BY <1>1, <2>3, <2>5 DEF Cli!AcknowledgeAgain
<1>3. CASE Leased(c, f) /\ ~(Acks(f) /\ Live.committed)
  <2>1. Live # None /\ Live \in Session /\ now \in Time /\ Cli!Live(Self) = Lease(Live)
    BY <1>3, LiveLease DEF Leased, IsLease, StateTyped
  <2>2. Lease(Live).committed = Live.committed
    BY <2>1, LeaseOf
  <2>3. ~Begins(f) /\ ~Appends(f) /\ ~Selects(f) /\ (Acks(f) => ~Live.committed /\ ~Recordable)
    BY <1>3 DEF Unserved
  <2>4. ~Cli!Serves(Self, c, f)
    BY <2>1, <2>2, <2>3, SameLease, SameRequest DEF Cli!Serves
  <2> QED
    BY <1>1, <2>4 DEF Cli!RefuseWrite
<1>4. CASE ~Leased(c, f)
  <2>1. ~Cli!Serves(Self, c, f)
    BY <1>4, SameLease DEF Cli!Serves, Unserved
  <2> QED
    BY <1>1, <2>1 DEF Cli!RefuseWrite
<1> QED
  BY <1>2, <1>3, <1>4

-----------------------------------------------------------------------------
(* The record. *)

LEMMA Logged ==
  ASSUME log \in Seq(Cli!LogEntry), Len(log) < MaxExchanges, NEW e \in Cli!LogEntry,
         log' = <<e>> \o log
  PROVE  /\ log' \in Seq(Cli!LogEntry) /\ Len(log') = Len(log) + 1
         /\ Cli!Truncated(<<e>> \o log) = log'
<1>1. <<e>> \o log \in Seq(Cli!LogEntry) /\ Len(<<e>> \o log) = Len(log) + 1
  OBVIOUS
<1>2. ~(Len(<<e>> \o log) > MaxExchanges + 1)
  BY <1>1, Tab5Assumption
<1> QED
  BY <1>1, <1>2 DEF Cli!Truncated

(* A record enters book, sentence and cooldowns as record_exchange enters  *)
(* it.                                                                     *)
LEMMA RecordPorts ==
  ASSUME StateTyped, Len(log) < MaxExchanges,
         NEW p \in Cli!Profile, NEW sent \in Cli!Gift, NEW received \in Cli!Gift,
         RecordAllowed(p, sent, received), Record(p, sent, received)
  PROVE  /\ Cli!Record(Self, p, sent, received)
         /\ UNCHANGED <<now, enabled>>
         /\ recent' \in [Peer -> Time \cup {None}] /\ log' \in Seq(Cli!LogEntry)
         /\ Len(log') = Len(log) + 1
<1> DEFINE e == [sequence |-> Len(log) + 1, peer |-> p.node,
                 sent |-> sent.phrase, received |-> received.phrase]
<1>1. /\ e \in Cli!LogEntry /\ p.node \in Peer
      /\ received.phrase # None => received.phrase.slot \in Slot
  BY DEF StateTyped, Cli!Profile, Cli!Gift, Cli!Phrase, Cli!LogEntry
<1>2. /\ log' = <<e>> \o log /\ log \in Seq(Cli!LogEntry) /\ UNCHANGED <<now, enabled>>
      /\ now \in Time
  BY DEF Record, StateTyped
<1> HIDE DEF e
<1>3. /\ log' \in Seq(Cli!LogEntry) /\ Len(log') = Len(log) + 1
      /\ Cli!Truncated(<<e>> \o log) = log'
  BY <1>1, <1>2, Logged
<1>4. Only(log)' = [Only(log) EXCEPT ![Self] = Cli!Truncated(<<e>> \o @)]
  BY <1>3 DEF Only
<1>5. Only(Len(log))' = [Only(Len(log)) EXCEPT ![Self] = @ + 1]
  BY <1>3 DEF Only
<1>6. Only(sentence)' = [Only(sentence) EXCEPT ![Self] = Cli!Accept(Self, p, received.phrase)]
  BY DEF Record, Cli!Accept, Only
<1>7. /\ recent' = [LiveRecent EXCEPT ![p.node] =
                     IF Cooldown = 0 THEN None ELSE After(Cooldown)]
      /\ LiveRecent \in [Peer -> Time \cup {None}]
      /\ Cooldown # 0 => After(Cooldown) \in Time /\ Remaining(After(Cooldown)) = Cooldown
  BY <1>2, Tab5Assumption, RemainingAfter DEF Record, LiveRecent, StateTyped
<1>8. recent' \in [Peer -> Time \cup {None}]
  BY <1>7
<1>9. Cooling' = [Cooling EXCEPT ![p.node] = Cooldown]
  <2>1. ASSUME NEW q \in Peer
        PROVE  /\ recent[q] # None => (Remaining(recent[q]) = 0 <=> Reached(now, recent[q]))
               /\ recent'[q] = IF q = p.node THEN IF Cooldown = 0 THEN None ELSE After(Cooldown)
                               ELSE IF recent[q] # None /\ Reached(now, recent[q]) THEN None
                               ELSE recent[q]
    BY <1>1, <1>2, <1>7, RemainingReached DEF StateTyped, LiveRecent
  <2>2. \A q \in Peer : (IF recent'[q] = None THEN 0 ELSE Remaining(recent'[q]))
                       = IF q = p.node THEN Cooldown ELSE Cooling[q]
    BY <1>1, <1>7, <2>1, DataAssumption DEF Cooling
  <2>3. Cooling' = [q \in Peer |-> IF recent'[q] = None THEN 0 ELSE Remaining(recent'[q])]
    BY <1>2 DEF Cooling, Remaining
  <2> QED
    BY <1>1, <2>2, <2>3 DEF Cooling
<1>10. Only(Cooling)' = [Only(Cooling) EXCEPT ![Self][p.node] = Cooldown]
  BY <1>9 DEF Only
<1>11. Complete => Complete'
  <2>1. received.phrase # None => sentence[received.phrase.slot] = None
    BY DEF RecordAllowed, SlotFree
  <2>2. Complete => received.phrase = None
    BY <1>1, <2>1 DEF Complete
  <2>3. received.phrase = None => sentence' = sentence
    BY DEF Record
  <2> QED
    BY <2>2, <2>3 DEF Complete
<1> DEFINE post == Cli!MustPost(Self, \A k \in Slot : Only(sentence)'[Self][k] # None)
<1>12. Only(Complete)' = [Only(Complete) EXCEPT ![Self] = @ \/ post]
  <2>1. Only(Complete)[Self] = Complete
    BY DEF Only
  <2>2. (\A k \in Slot : Only(sentence)'[Self][k] # None) <=> Complete'
    BY DEF Only, Complete
  <2>3. (Complete \/ post) <=> Complete'
    BY <1>11, <2>1, <2>2 DEF Cli!MustPost
  <2>4. (Complete \/ post) = Complete'
    BY <2>3 DEF Complete
  <2> HIDE DEF post
  <2>5. [Only(Complete) EXCEPT ![Self] = @ \/ post] = [n \in {Self} |-> Complete \/ post]
    BY DEF Only
  <2> QED
    BY <2>4, <2>5 DEF Only
<1> HIDE DEF post
<1>13. Only(0)' = [Only(0) EXCEPT ![Self] = IF post /\ Self \in {} THEN @ + 1 ELSE @]
  BY DEF Only
<1>14. Only(Len(log))[Self] = Len(log)
  BY DEF Only
<1>15. Cli!Record(Self, p, sent, received)
  BY <1>4, <1>5, <1>6, <1>10, <1>12, <1>13, <1>14 DEF Cli!Record, post, e
<1> QED
  BY <1>2, <1>3, <1>8, <1>15
(* The acknowledgement.                                                    *)
LEMMA AcknowledgePorts ==
  ASSUME StateTyped, Len(log) < MaxExchanges,
         NEW c \in Client, NEW f \in Cli!Requests, Acknowledge(c, f)
  PROVE  Cli!Acknowledge(Self, c, f) /\ StateTyped'
<1> DEFINE s == [Live EXCEPT !.committed = TRUE, !.deadline = After(Grace)]
<1>1. /\ Leased(c, f) /\ Acks(f) /\ ~Live.committed /\ Recordable
      /\ Record(Live.peer, Live.outgoingGift, Live.incomingGift)
      /\ session' = s
  BY DEF Acknowledge
<1>2. /\ Live # None /\ Live \in Session /\ now \in Time /\ Cli!Live(Self) = Lease(Live)
      /\ Sound(Live)
  BY <1>1, LiveLease DEF Leased, IsLease, StateTyped
<1>3. /\ Live.peer \in Cli!Profile /\ Live.outgoingGift \in Cli!Gift
      /\ Live.incomingGift \in Cli!Gift
  BY <1>1, <1>2 DEF Acks, Sound, Session
<1>4. /\ Cli!Record(Self, Live.peer, Live.outgoingGift, Live.incomingGift)
      /\ UNCHANGED <<now, enabled>>
      /\ recent' \in [Peer -> Time \cup {None}] /\ log' \in Seq(Cli!LogEntry)
  BY <1>1, <1>3, RecordPorts DEF Recordable
<1>5. After(Grace) \in Time /\ Remaining(After(Grace)) = Grace
  BY <1>2, Tab5Assumption, RemainingAfter
<1>6. s \in Session /\ IsLease(s)
  BY <1>2, <1>5 DEF Session, IsLease, Sound
<1>7. PICK l \in Cli!Session :
        /\ l = Lease(Live)
        /\ l.client = Live.client /\ l.exchange = Live.exchange
        /\ l.incoming = Live.incoming /\ l.peer = Live.peer
        /\ l.outgoingGift = Live.outgoingGift /\ l.incomingGift = Live.incomingGift
        /\ l.reply = Live.reply /\ l.selected = Live.selected /\ l.read = Live.read
        /\ l.committed = Live.committed
  BY <1>2, LeaseOf
<1> DEFINE w == Cli!Committed(l)
<1>13. /\ w \in Cli!Session /\ w.timer = Grace /\ w.committed = TRUE
       /\ w.client = l.client /\ w.exchange = l.exchange
       /\ w.incoming = l.incoming /\ w.peer = l.peer
       /\ w.outgoingGift = l.outgoingGift /\ w.incomingGift = l.incomingGift
       /\ w.reply = l.reply /\ w.selected = l.selected /\ w.read = l.read
  <2>1. Grace \in Nat
    BY Tab5Assumption, HalfClock
  <2> QED
    BY <2>1 DEF Cli!Committed, Cli!Session
<1>14. /\ s.deadline = After(Grace) /\ s.committed = TRUE
       /\ s.client = Live.client /\ s.exchange = Live.exchange
       /\ s.incoming = Live.incoming /\ s.peer = Live.peer
       /\ s.outgoingGift = Live.outgoingGift /\ s.incomingGift = Live.incomingGift
       /\ s.reply = Live.reply /\ s.selected = Live.selected /\ s.read = Live.read
  BY <1>2 DEF Session
<1> HIDE DEF w
<1>15. w = Lease(s)
  <2> HIDE DEF s
  <2>1. /\ w.client = s.client /\ w.exchange = s.exchange /\ w.timer = Remaining(s.deadline)
        /\ w.incoming = s.incoming /\ w.peer = s.peer /\ w.outgoingGift = s.outgoingGift
        /\ w.incomingGift = s.incomingGift /\ w.reply = s.reply
        /\ w.selected = s.selected /\ w.read = s.read /\ w.committed = s.committed
    BY <1>5, <1>7, <1>13, <1>14
  <2> QED
    BY <1>2, <1>6, <1>13, <2>1, LeaseIs
<1> HIDE DEF s
<1>8. Lease(session)' = Lease(s)
  BY <1>1, <1>4 DEF Lease, Remaining
<1>9. Only(Lease(session))' = [Only(Lease(session)) EXCEPT ![Self] = Cli!Committed(Lease(Live))]
  BY <1>7, <1>8, <1>15 DEF Only, w
<1>10. Only(enabled)' = Only(enabled)
  BY <1>4 DEF Only
<1>11. StateTyped'
  BY <1>1, <1>4, <1>6 DEF StateTyped, IsLease, Sound
<1>12. /\ Cli!Leased(Self, c, f) /\ Cli!MayAck(Cli!Live(Self), f)
       /\ Cli!AckRecordable(Self, Cli!Live(Self))
  BY <1>1, <1>2, SameLease, SameRequest
<1> QED
  BY <1>1, <1>2, <1>4, <1>7, <1>9, <1>10, <1>11, <1>12 DEF Cli!Acknowledge

LEMMA WritePorts ==
  ASSUME StateTyped, NEW c \in Client, NEW f \in Cli!Requests,
         f.kind = "ACK" => Len(log) < MaxExchanges, Write(c, f)
  PROVE  Cli!Write(Self, c, f) /\ StateTyped'
<1>1. Cli!Bounded(Self, f)
  BY DEF Cli!Bounded, Only
<1>2. CASE Begin(c, f)
  BY <1>1, <1>2, BeginPorts DEF Cli!Write, Cli!WriteOk
<1>3. CASE AppendFragment(c, f)
  BY <1>1, <1>3, AppendPorts DEF Cli!Write, Cli!WriteOk
<1>4. CASE HandlePacket(c, f)
  BY <1>1, <1>4, HandlePorts DEF Cli!Write, Cli!WriteOk, Cli!WriteError
<1>5. CASE Select(c, f)
  BY <1>1, <1>5, SelectPorts DEF Cli!Write, Cli!WriteOk
<1>6. CASE Acknowledge(c, f)
  <2>1. f.kind = "ACK"
    BY <1>6 DEF Acknowledge, Acks
  <2> QED
    BY <1>1, <1>6, <2>1, AcknowledgePorts DEF Cli!Write, Cli!WriteOk
<1>7. CASE Unserved(c, f)
  BY <1>1, <1>7, UnservedPorts DEF Cli!Write, Cli!WriteOk, Cli!WriteError
<1> QED
  BY <1>2, <1>3, <1>4, <1>5, <1>6, <1>7 DEF Write

-----------------------------------------------------------------------------
(* Roles, connections and time. *)

LEMMA EnablePorts ==
  ASSUME StateTyped, Enable
  PROVE  Cli!Enable(Self) /\ StateTyped'
<1>1. StateTyped'
  BY DEF StateTyped, Enable, IsLease, Sound
<1>2. Only(enabled)' = [Only(enabled) EXCEPT ![Self] = TRUE]
  BY DEF Enable, Only
<1>3. Lease(session)' = Lease(session) /\ Cooling' = Cooling /\ Complete' = Complete
  BY DEF Enable, Lease, Remaining, Cooling, Complete
<1>4. Only(Lease(session))' = Only(Lease(session)) /\ Cli!book' = Cli!book
  BY <1>3 DEF Enable, Cli!book, Only
<1> QED
  BY <1>1, <1>2, <1>4 DEF Cli!Enable

LEMMA ShutdownPorts ==
  ASSUME StateTyped, Shutdown
  PROVE  Cli!Shutdown(Self) /\ StateTyped'
<1>1. StateTyped'
  BY DEF StateTyped, Shutdown, IsLease, Sound
<1>2. Only(enabled)' = [Only(enabled) EXCEPT ![Self] = FALSE]
  BY DEF Shutdown, Only
<1>3. Lease(session)' = None /\ Cooling' = Cooling /\ Complete' = Complete
  BY DEF Shutdown, Lease, Remaining, Cooling, Complete
<1>4. /\ Only(Lease(session))' = [Only(Lease(session)) EXCEPT ![Self] = None]
      /\ Cli!book' = Cli!book
  BY <1>3 DEF Shutdown, Cli!book, Only
<1> QED
  BY <1>1, <1>2, <1>4 DEF Cli!Shutdown

LEMMA DisablePorts ==
  ASSUME StateTyped, Idle, DisableIfIdle
  PROVE  Cli!DisableIfIdle(Self) /\ StateTyped'
<1>1. /\ enabled' = FALSE /\ Leave(Live, LiveConnections) /\ Live = None
  BY DEF DisableIfIdle, Idle, StateTyped
<1>2. Sets(Live) /\ Lease(Live) = Cli!Live(Self) /\ Cli!Live(Self) = None
  BY <1>1, LiveLease, LeaveSets DEF Lease
<1>3. Only(enabled)' = [Only(enabled) EXCEPT ![Self] = @ /\ Cli!Live(Self) # None]
  BY <1>1, <1>2 DEF Only
<1> QED
  BY <1>2, <1>3 DEF Sets, Cli!DisableIfIdle

LEMMA ConnectedPorts ==
  ASSUME StateTyped, NEW c, Connected(c)
  PROVE  Cli!Expire(Self) /\ StateTyped'
<1>1. PICK held : Leave(Live, held)
  BY DEF Connected
<1>2. enabled' = enabled
  BY DEF Connected
<1>3. Sets(Live) /\ Only(enabled)' = Only(enabled)
  BY <1>1, <1>2, LiveLease, LeaveSets DEF StateTyped, Only
<1> QED
  BY <1>3, LiveLease DEF Sets, Cli!Expire

(* The session dropped with its connection is one of the steps of Tab5     *)
(* that are not the CLI's.                                                 *)
LEMMA DisconnectedPorts ==
  ASSUME StateTyped, NEW c \in Client, ClientLeaves(c)
  PROVE  (Dropped \/ UNCHANGED Cli!vars) /\ StateTyped'
<1>1. /\ UNCHANGED <<now, enabled, recent, sentence, log>>
      /\ session' = IF session # None /\ session.client = c THEN None ELSE session
      /\ c \in links /\ links' = links \ {c}
  BY DEF ClientLeaves, Disconnected
<1>2. StateTyped'
  BY <1>1 DEF StateTyped, IsLease, Sound
<1>3. CASE session # None /\ session.client = c
  BY <1>1, <1>2, <1>3 DEF Dropped
<1>4. CASE ~(session # None /\ session.client = c)
  <2>1. session' = session
    BY <1>1, <1>4
  <2>2. Lease(session)' = Lease(session) /\ Cooling' = Cooling /\ Complete' = Complete
    BY <1>1, <2>1 DEF Lease, Remaining, Cooling, Complete
  <2>3. UNCHANGED Cli!vars
    BY <1>1, <2>2 DEF Cli!vars, Only
  <2> QED
    BY <1>2, <2>3
<1> QED
  BY <1>3, <1>4

LEMMA TickPorts ==
  ASSUME StateTyped, Tick
  PROVE  Cli!Tick /\ StateTyped'
<1>1. /\ now' = (now + 1) % Clock /\ now \in Time
      /\ UNCHANGED <<enabled, session, recent, sentence, log>>
      /\ SweptInTime
  BY DEF Tick, StateTyped
<1>2. now' \in Time
  BY <1>1, HalfClock DEF Time
<1>3. StateTyped'
  BY <1>1, <1>2 DEF StateTyped, IsLease, Sound
<1>4. Lease(session)' = IF Lease(session) = None THEN None
                        ELSE [Lease(session) EXCEPT !.timer = Cli!Elapse(@)]
  <2>1. CASE session = None
    BY <1>1, <2>1 DEF Lease
  <2>2. CASE session # None
    <3>1. session \in Session /\ session.deadline \in Time
      BY <2>2 DEF StateTyped, IsLease, Session
    <3>2. Remaining(session.deadline)' = Cli!Elapse(Remaining(session.deadline))
      <4>1. PICK d \in Time : d = session.deadline
        BY <3>1
      <4>2. Remaining(d)' = Cli!Elapse(Remaining(d))
        BY <1>1, <2>2, <4>1, RemainingTicks DEF SweptInTime
      <4> QED
        BY <1>1, <4>1, <4>2 DEF Remaining
    <3>3. /\ Lease(session) # None
          /\ Lease(session) =
               [client |-> session.client, exchange |-> session.exchange,
                timer |-> Remaining(session.deadline), incoming |-> session.incoming,
                peer |-> session.peer, outgoingGift |-> session.outgoingGift,
                incomingGift |-> session.incomingGift, reply |-> session.reply,
                selected |-> session.selected, read |-> session.read,
                committed |-> session.committed]
      BY <1>1, <3>1, LeaseOf
    <3>4. Lease(session)' =
               [client |-> session.client, exchange |-> session.exchange,
                timer |-> Remaining(session.deadline)', incoming |-> session.incoming,
                peer |-> session.peer, outgoingGift |-> session.outgoingGift,
                incomingGift |-> session.incomingGift, reply |-> session.reply,
                selected |-> session.selected, read |-> session.read,
                committed |-> session.committed]
      BY <1>1, <2>2 DEF Lease
    <3> QED
      BY <3>2, <3>3, <3>4
  <2> QED
    BY <2>1, <2>2
<1>5. Cooling' = [p \in Peer |-> Cli!Elapse(Cooling[p])]
  <2>1. ASSUME NEW p \in Peer
        PROVE  (IF recent[p] = None THEN 0 ELSE Remaining(recent[p]))' = Cli!Elapse(Cooling[p])
    <3>1. CASE recent[p] = None
      BY <1>1, <3>1 DEF Cooling, Cli!Elapse
    <3>2. CASE recent[p] # None
      <4>1. PICK d \in Time : d = recent[p]
        BY <3>2 DEF StateTyped
      <4>2. Remaining(d)' = Cli!Elapse(Remaining(d))
        BY <1>1, <3>2, <4>1, RemainingTicks DEF SweptInTime
      <4>3. recent'[p] = d /\ Remaining(recent[p])' = Remaining(d)'
        BY <1>1, <4>1 DEF Remaining
      <4> QED
        BY <3>2, <4>1, <4>2, <4>3 DEF Cooling
    <3> QED
      BY <3>1, <3>2
  <2> QED
    BY <2>1 DEF Cooling
<1>6. Only(Lease(session))' =
        [n \in {Self} |-> IF Only(Lease(session))[n] = None THEN None
                          ELSE [Only(Lease(session))[n] EXCEPT !.timer = Cli!Elapse(@)]]
  BY <1>4 DEF Only
<1>7. Only(Cooling)' = [n \in {Self} |-> [p \in Peer |-> Cli!Elapse(Only(Cooling)[n][p])]]
  BY <1>5 DEF Only
<1>8. /\ Only(enabled)' = Only(enabled) /\ Only(sentence)' = Only(sentence)
      /\ Only(log)' = Only(log) /\ Only(Len(log))' = Only(Len(log))
      /\ Only(Complete)' = Only(Complete) /\ Only(0)' = Only(0)
  BY <1>1 DEF Only, Complete
<1> QED
  BY <1>3, <1>6, <1>7, <1>8 DEF Cli!Tick

-----------------------------------------------------------------------------
(* The loop's own record, the other step that is not the CLI's peripheral. *)

PortInv == RolesInv /\ StateTyped /\ partner \in Peer \cup {None}

LEMMA CentralRecordTyped ==
  ASSUME PortInv, ExchangeRecords
  PROVE  CentralRecord /\ StateTyped'
<1>1. PICK p \in Inputs :
        /\ p.type = "Profile" /\ p.node = partner
        /\ \E given \in Cli!Choices(Self, p.missing),
             taken \in {None} \cup Cli!Choices(partner, own.missing) :
               RecordCentral(p, [type |-> "Gift", round |-> p.node, phrase |-> given],
                                [type |-> "Gift", round |-> own.node, phrase |-> taken])
  BY DEF ExchangeRecords
<1>2. PICK given \in Cli!Choices(Self, p.missing),
          taken \in {None} \cup Cli!Choices(partner, own.missing) :
        RecordCentral(p, [type |-> "Gift", round |-> p.node, phrase |-> given],
                         [type |-> "Gift", round |-> own.node, phrase |-> taken])
  BY <1>1
<1>3. /\ at = "Exchange" /\ at' = "Stop" /\ partner \in Peer /\ Len(log) < MaxExchanges
      /\ own = OwnProfile /\ StateTyped
  BY DEF ExchangeRecords, PortInv, RolesInv, Alone
<1>4. p \in Cli!Profile
  BY <1>1, DataAssumption DEF Cli!Packet, Cli!Gift
<1> DEFINE sent == [type |-> "Gift", round |-> p.node, phrase |-> given]
           received == [type |-> "Gift", round |-> own.node, phrase |-> taken]
<1>5. sent \in Cli!Gift /\ received \in Cli!Gift
  <2>1. given \in Cli!Phrase \cup {None}
    BY <1>2, <1>4, Tab5Assumption DEF Cli!Choices, Cli!Phrase, Cli!Profile
  <2>2. own.missing \subseteq Slot /\ own.node = Self
    BY <1>3 DEF OwnProfile, Missing
  <2>3. taken \in Cli!Phrase \cup {None}
    BY <1>2, <1>3, <2>2 DEF Cli!Choices, Cli!Phrase
  <2> QED
    BY <1>4, <2>1, <2>2, <2>3, Tab5Assumption DEF Cli!Gift, Cli!Profile
<1> HIDE DEF sent, received
<1>6. RecordAllowed(p, sent, received) /\ Record(p, sent, received) /\ session' = Live
  BY <1>2 DEF RecordCentral, sent, received
<1>7. /\ UNCHANGED <<now, enabled>>
      /\ recent' \in [Peer -> Time \cup {None}] /\ log' \in Seq(Cli!LogEntry)
      /\ Len(log') = Len(log) + 1
  BY <1>3, <1>4, <1>5, <1>6, RecordPorts
<1>8. StateTyped'
  BY <1>3, <1>6, <1>7, LiveLease DEF StateTyped, IsLease, Sound
<1> QED
  BY <1>3, <1>7, <1>8 DEF CentralRecord

LEMMA UnchangedPorts ==
  ASSUME StateTyped, UNCHANGED statevars
  PROVE  UNCHANGED Cli!vars /\ StateTyped'
<1>1. UNCHANGED <<now, enabled, session, recent, sentence, log>>
  BY DEF statevars
<1>2. StateTyped'
  BY <1>1 DEF StateTyped, IsLease, Sound
<1>3. Lease(session)' = Lease(session) /\ Cooling' = Cooling /\ Complete' = Complete
  BY <1>1 DEF Lease, Remaining, Cooling, Complete
<1> QED
  BY <1>1, <1>2, <1>3 DEF Cli!vars, Only

PortStep == Cli!Next \/ Dropped \/ CentralRecord \/ UNCHANGED Cli!vars

LEMMA LoopPorts ==
  ASSUME PortInv,
         \/ Rest \/ EnterPeripheral \/ EnterCentral \/ StopAdvertising \/ ShutState
         \/ Peripheral \/ Central \/ TouchRun \/ TouchRole \/ SlotOver
  PROVE  PortStep /\ StateTyped' /\ partner' \in Peer \cup {None}
<1>1. StateTyped /\ partner \in Peer \cup {None}
  BY DEF PortInv
<1>2. Cli!Enable(Self) \/ Cli!Shutdown(Self) \/ Cli!DisableIfIdle(Self) \/ Cli!Expire(Self)
        => PortStep
  BY DEF PortStep, Cli!Next
<1>3. CASE Rest \/ EnterCentral \/ StopAdvertising \/ TouchRun \/ TouchRole \/ SlotOver
           \/ Advertise \/ ScanAgain \/ ScanSlotOver \/ ScanReturns \/ Connect \/ Identify
           \/ ExchangeFails
  <2>1. UNCHANGED statevars /\ partner' \in Peer \cup {None}
    BY <1>1, <1>3 DEF Rest, EnterCentral, StopAdvertising, TouchRun, TouchRole, Touched, SlotOver,
       Advertise, ScanAgain, ScanSlotOver, ScanReturns, Connect, Identify, ExchangeFails
  <2> QED
    BY <1>1, <2>1, UnchangedPorts DEF PortStep
<1>4. CASE EnterPeripheral
  BY <1>1, <1>2, <1>4, EnablePorts DEF EnterPeripheral
<1>5. CASE ShutState \/ AdvertiseFails \/ Quit
  BY <1>1, <1>2, <1>5, ShutdownPorts DEF ShutState, AdvertiseFails, Quit
<1>6. CASE Serve
  BY <1>1, <1>2, <1>6, ExpirePorts DEF Serve, loop
<1>7. CASE LeaveWhenIdle
  BY <1>1, <1>2, <1>7, DisablePorts DEF LeaveWhenIdle
<1>8. CASE ExchangeRecords
  BY <1>8, CentralRecordTyped DEF ExchangeRecords, PortStep
<1> QED
  BY <1>3, <1>4, <1>5, <1>6, <1>7, <1>8 DEF Peripheral, Central

LEMMA CallbackPorts ==
  ASSUME PortInv, Callback
  PROVE  PortStep /\ StateTyped' /\ partner' \in Peer \cup {None}
<1>1. StateTyped /\ partner \in Peer \cup {None}
  BY DEF PortInv
<1>2. PICK c \in Client : \/ ClientConnects(c) \/ ClientLeaves(c) \/ ClientReads(c)
                         \/ \E f \in Cli!Requests : ClientWrites(c, f)
  BY DEF Callback
<1>3. partner' = partner
  BY <1>2 DEF ClientConnects, ClientLeaves, ClientReads, ClientWrites, loop
<1>4. CASE ClientConnects(c)
  BY <1>1, <1>3, <1>4, ConnectedPorts DEF ClientConnects, PortStep, Cli!Next
<1>5. CASE ClientLeaves(c)
  BY <1>1, <1>3, <1>5, DisconnectedPorts DEF PortStep
<1>6. CASE ClientReads(c)
  BY <1>1, <1>3, <1>6, ReadPorts DEF ClientReads, PortStep, Cli!Next
<1>7. CASE \E f \in Cli!Requests : ClientWrites(c, f)
  <2>1. PICK f \in Cli!Requests : ClientWrites(c, f)
    BY <1>7
  <2>2. Cli!Write(Self, c, f) /\ StateTyped'
    BY <1>1, <2>1, WritePorts DEF ClientWrites
  <2> QED
    BY <1>1, <1>3, <2>2 DEF PortStep, Cli!Next
<1> QED
  BY <1>2, <1>4, <1>5, <1>6, <1>7

LEMMA PortSteps ==
  ASSUME PortInv, [Next]_vars
  PROVE  PortStep /\ StateTyped' /\ partner' \in Peer \cup {None}
<1>1. StateTyped /\ partner \in Peer \cup {None}
  BY DEF PortInv
<1>2. CASE UNCHANGED vars
  BY <1>1, <1>2, UnchangedPorts DEF vars, loop, PortStep
<1>3. CASE Tick
  BY <1>1, <1>3, TickPorts DEF Tick, loop, PortStep, Cli!Next
<1> QED
  BY <1>2, <1>3, LoopPorts, CallbackPorts DEF Next

LEMMA InitPorts == Init => PortInv /\ Cli!Init
<1> SUFFICES ASSUME Init PROVE PortInv /\ Cli!Init
  OBVIOUS
<1>1. StateInit /\ partner = None
  BY DEF Init
<1>2. RolesInv
  BY DEF Init, StateInit, RolesInv, Served, Alone
<1>3. StateTyped
  <2>1. now \in Time /\ enabled = FALSE /\ session = None
    BY <1>1, HalfClock DEF StateInit, Time
  <2>2. enabled \in BOOLEAN
    BY <2>1
  <2>3. recent \in [Peer -> Time \cup {None}] /\ log = <<>>
    BY <1>1 DEF StateInit
  <2>4. log \in Seq(Cli!LogEntry)
    BY <2>3
  <2> QED
    BY <2>1, <2>2, <2>3, <2>4 DEF StateTyped, IsLease
<1>4. Cli!Init
  <2>1. Lease(session) = None /\ Cooling = [p \in Peer |-> 0] /\ Len(log) = 0
    BY <1>1 DEF StateInit, Lease, Cooling
  <2>2. ~Complete
    BY <1>1, Tab5Assumption DEF StateInit, Complete
  <2>3. Complete = FALSE
    BY <2>2 DEF Complete
  <2>4. Only(enabled) = [n \in {Self} |-> FALSE] /\ Only(Complete) = [n \in {Self} |-> FALSE]
    BY <1>1, <2>3 DEF StateInit, Only
  <2>5. /\ Only(Lease(session)) = [n \in {Self} |-> None]
        /\ Only(Cooling) = [n \in {Self} |-> [p \in Peer |-> 0]]
        /\ Only(Len(log)) = [n \in {Self} |-> 0] /\ Only(0) = [n \in {Self} |-> 0]
    BY <2>1 DEF Only
  <2>6. /\ Only(sentence) = [n \in {Self} |-> [k \in Slot |-> None]]
        /\ Only(log) = [n \in {Self} |-> <<>>]
    BY <1>1 DEF StateInit, Only
  <2> QED
    BY <2>4, <2>5, <2>6 DEF Cli!Init
<1> QED
  BY <1>1, <1>2, <1>3, <1>4 DEF PortInv

(* Whatever loop and callbacks do, the firmware's state keeps its types,   *)
(* its clock and deadlines their range, and a lease that has a peer the    *)
(* gift for it, which write() and record_central() take for granted.       *)
THEOREM PortInvariant == Spec => []PortInv
<1>1. PortInv /\ [Next]_vars => PortInv'
  <2> SUFFICES ASSUME PortInv, [Next]_vars PROVE PortInv'
    OBVIOUS
  <2>1. RolesInv'
    BY RolesKept DEF PortInv
  <2> QED
    BY <2>1, PortSteps DEF PortInv
<1> QED
  BY <1>1, InitPorts, PTL DEF Spec

(* The machine of exchange_state.cpp is the machine of state.rs: over any  *)
(* clock that wraps, as long as each deadline is swept before it is half   *)
(* the clock's range old, a method does what the handler does, or nothing, *)
(* but for a session dropped with its connection and the record of the     *)
(* Central role.                                                           *)
THEOREM PortsTheCli == Spec => PortOfCli
<1>1. Init => Cli!Init
  BY InitPorts
<1>2. PortInv /\ [Next]_vars => [Cli!Next \/ Dropped \/ CentralRecord]_(Cli!vars)
  BY PortSteps DEF PortStep
<1> QED
  BY <1>1, <1>2, PortInvariant, PTL DEF Spec, PortOfCli
=============================================================================
