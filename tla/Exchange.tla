------------------------------ MODULE Exchange ------------------------------
(***************************************************************************)
(* Devices in role Auto exchanging over BLE: the State of every device     *)
(* (ExchangeState), the role it plays (Radio::run), the connecting side's  *)
(* `exchange' of cli/src/ble.rs and the link between them.  Some devices   *)
(* may be a Tab5 (m5stack/src/main.cpp).  Its actions are named for it; it *)
(* acknowledges also the writes it refuses; and its service has connection *)
(* leases, which only make it serve longer: the module Tab5 has them.      *)
(*                                                                         *)
(* A central has one request outstanding.  The request travels, is served  *)
(* or lost, and the answer may be lost too.  The central's timeout drops   *)
(* the exchange at any of these moments, while its last request may still  *)
(* be queued at the peripheral and be served later.                        *)
(***************************************************************************)
EXTENDS ExchangeState, FiniteSets

CONSTANTS
  Fleets,    \* which of the devices may be a Tab5
  PowerLoss  \* bound: the devices whose Bluetooth may be switched off

ASSUME NetworkAssumption ==
  /\ Node = Peer /\ Node = Client /\ ExchangeId \subseteq Nat
  /\ PowerLoss \subseteq Node /\ Fleets \subseteq SUBSET (Node \ PowerLoss)

VARIABLES
  tab5,         \* one of Fleets: the devices that are a Tab5
  role,         \* "Central", "Peripheral" or "Draining"
  central,      \* the exchange the central of each node is in, or None
  inflight,     \* requests on their way
  answer,       \* the answer on its way to each central, or None
  attempts,     \* exchange numbers drawn so far
  clientBook,   \* history: what the central side recorded in each exchange
  serverBook    \* history: what the peripheral side recorded in it

link == <<inflight, answer>>
books == <<clientBook, serverBook>>
netvars == <<vars, role, central, link, attempts, tab5, books>>

-----------------------------------------------------------------------------
(* The central's progress through `exchange': what it asks for next.       *)

Stage == {"Info", "SendProfile", "ReadProfile", "SendGift", "ReadGift", "Ack"}

Central ==
  [target : Node, exchange : ExchangeId, stage : Stage, step : Nat,
   waiting : BOOLEAN, own : Profile \cup {None}, peer : Profile \cup {None},
   sent : Gift \cup {None}, received : Gift \cup {None},
   incoming : Assembler]

Connected(p, x) ==
  [target |-> p, exchange |-> x, stage |-> "Info", step |-> 0, waiting |-> FALSE,
   own |-> None, peer |-> None, sent |-> None, received |-> None,
   incoming |-> EmptyAssembler]

(* A Tab5 sends the first fragment before it asks who the peer is.         *)
Tab5Connected(n, p, x) ==
  [Connected(p, x) EXCEPT !.stage = "SendProfile", !.own = OwnProfile(n)]

Info == [kind |-> "INFO"]
ReadTx == [kind |-> "READ"]

(* read_packet asks for each fragment twice: SELECT, then READ.            *)
Request(c) ==
  CASE c.stage = "Info" -> Info
    [] c.stage = "SendProfile" -> Data(c.exchange, c.own, c.step)
    [] c.stage = "SendGift" -> Data(c.exchange, c.sent, c.step)
    [] c.stage \in {"ReadProfile", "ReadGift"} ->
         IF c.step % 2 = 0 THEN Select(c.exchange, c.step \div 2) ELSE ReadTx
    [] c.stage = "Ack" -> Ack(c.exchange)

EnterStage(c, stage) ==
  [c EXCEPT !.stage = stage, !.step = 0, !.waiting = FALSE, !.incoming = EmptyAssembler]

NextStep(c) == [c EXCEPT !.step = @ + 1, !.waiting = FALSE]

-----------------------------------------------------------------------------
(* Roles.  Radio::run alternates them; a failed slot stops everything      *)
(* (stop_activity) before the other role starts.                           *)

EnterPeripheral(n) ==
  /\ role[n] = "Central" /\ central[n] = None
  /\ Enable(n)
  /\ role' = [role EXCEPT ![n] = "Peripheral"]
  /\ UNCHANGED <<central, link, attempts, tab5, books>>

StopAdvertising(n) ==
  /\ role[n] = "Peripheral" /\ n \notin tab5
  /\ role' = [role EXCEPT ![n] = "Draining"]
  /\ UNCHANGED <<vars, central, link, attempts, tab5, books>>

LeaveWithoutDrain(n) ==
  /\ role[n] = "Draining"
  /\ UNCHANGED vars
  /\ role' = [role EXCEPT ![n] = "Central"]
  /\ UNCHANGED <<central, link, attempts, tab5, books>>

(* The 50 ms poll for an idle service.                                     *)
LeaveWhenIdle(n) ==
  /\ role[n] = "Draining"
  /\ DisableIfIdle(n)
  /\ role' = [role EXCEPT ![n] = IF Live(n) = None THEN "Central" ELSE @]
  /\ UNCHANGED <<central, link, attempts, tab5, books>>

(* A Tab5 advertises until it is idle.                                     *)
Tab5LeavesWhenIdle(n) ==
  /\ n \in tab5 /\ role[n] = "Peripheral"
  /\ DisableIfIdle(n)
  /\ role' = [role EXCEPT ![n] = IF Live(n) = None THEN "Central" ELSE @]
  /\ UNCHANGED <<central, link, attempts, tab5, books>>

(* The stop button, or an advertisement that does not start, ends the role *)
(* of a Tab5 without waiting for anybody.                                  *)
Tab5Quits(n) ==
  /\ n \in tab5 /\ role[n] = "Peripheral"
  /\ Shutdown(n)
  /\ role' = [role EXCEPT ![n] = "Central"]
  /\ UNCHANGED <<central, link, attempts, tab5, books>>

FailedSlot(n) ==
  /\ n \in PowerLoss
  /\ role[n] # "Central"
  /\ Shutdown(n)
  /\ role' = [role EXCEPT ![n] = "Central"]
  /\ UNCHANGED <<central, link, attempts, tab5, books>>

(* StateUpdate{is_powered: false} shuts the State down in any role.        *)
PowerOff(n) ==
  /\ n \in PowerLoss
  /\ Shutdown(n)
  /\ UNCHANGED <<role, central, link, attempts, tab5, books>>

-----------------------------------------------------------------------------
(* The central's side. *)

(* Only an advertising peer is found by the scan and connected to.         *)
Connect(n, p) ==
  /\ role[n] = "Central" /\ central[n] = None
  /\ n # p /\ role[p] = "Peripheral"
  /\ attempts + 1 \in ExchangeId
  /\ attempts' = attempts + 1
  /\ central' = [central EXCEPT ![n] =
       IF n \in tab5 THEN Tab5Connected(n, p, attempts + 1) ELSE Connected(p, attempts + 1)]
  /\ UNCHANGED <<vars, role, link, tab5, books>>

Send(n) ==
  /\ central[n] # None /\ ~central[n].waiting
  /\ inflight' = inflight \cup
       {[client |-> n, target |-> central[n].target,
         exchange |-> central[n].exchange, body |-> Request(central[n])]}
  /\ central' = [central EXCEPT ![n].waiting = TRUE]
  /\ UNCHANGED <<vars, role, answer, attempts, tab5, books>>

ProceedKeepingAnswer(n, c) ==
  /\ central' = [central EXCEPT ![n] = c]
  /\ UNCHANGED <<role, inflight, answer, attempts, tab5, serverBook>>

Proceed(n, c) ==
  /\ central' = [central EXCEPT ![n] = c]
  /\ answer' = [answer EXCEPT ![n] = None]
  /\ UNCHANGED <<role, inflight, attempts, tab5, serverBook>>

AbortOnlyAnswered(n) ==
  /\ central[n] # None /\ answer[n] # None
  /\ Proceed(n, None)
  /\ UNCHANGED <<vars, clientBook>>

(* An error at any await, or the exchange's timeout, drops the exchange.   *)
Abort(n) ==
  /\ central[n] # None /\ central[n].waiting
  /\ Proceed(n, None)
  /\ UNCHANGED <<vars, clientBook>>

Answered(n, stage) ==
  /\ answer[n] # None
  /\ central[n].stage = stage

Failed(n) ==
  /\ answer[n] # None /\ ~answer[n].ok
  /\ Proceed(n, None)
  /\ UNCHANGED <<vars, clientBook>>

Tab5OnFirstData(n) ==
  /\ n \in tab5 /\ Answered(n, "SendProfile") /\ answer[n].ok /\ central[n].step = 0
  /\ Proceed(n, EnterStage(central[n], "Info"))
  /\ UNCHANGED <<vars, clientBook>>

Tab5OnInfo(n) ==
  /\ n \in tab5 /\ Answered(n, "Info") /\ answer[n].ok
  /\ Proceed(n, IF CoolingDown(n, central[n].target) THEN None
                ELSE NextStep(EnterStage(central[n], "SendProfile")))
  /\ UNCHANGED <<vars, clientBook>>

(* The identity decides whether to go on, then the own Profile is taken.   *)
OnInfo(n) ==
  /\ n \notin tab5 /\ Answered(n, "Info") /\ answer[n].ok
  /\ Proceed(n, IF CoolingDown(n, central[n].target) THEN None
                ELSE [EnterStage(central[n], "SendProfile") EXCEPT
                        !.own = OwnProfile(n)])
  /\ UNCHANGED <<vars, clientBook>>

OnSent(n, stage, packet, next) ==
  LET c == central[n]
  IN  /\ Answered(n, stage) /\ answer[n].ok
      /\ n \in tab5 /\ stage = "SendProfile" => c.step > 0
      /\ Proceed(n, IF c.step + 1 < FrameCount(packet) THEN NextStep(c)
                    ELSE EnterStage(c, next))
      /\ UNCHANGED <<vars, clientBook>>

(* A fragment must be of this exchange and the next of its packet.         *)
Fits(c, f) == f.exchange = c.exchange /\ CanPush(c.incoming, f)

OnSelected(n, stage) ==
  /\ Answered(n, stage) /\ answer[n].ok /\ central[n].step % 2 = 0
  /\ Proceed(n, NextStep(central[n]))
  /\ UNCHANGED <<vars, clientBook>>

ProfileFits(n, p) == p # None /\ p.type = "Profile" /\ p.node = central[n].target

GiftFits(n, p) ==
  /\ p # None /\ p.type = "Gift"
  /\ p.round = n
  /\ p.phrase # None => p.phrase.slot \in central[n].own.missing

OnFragment(n, stage) ==
  LET c == central[n]  f == answer[n].fragment  inc == Pushed(c.incoming, f)
  IN  /\ Answered(n, stage) /\ answer[n].ok /\ c.step % 2 = 1
      /\ ~(Fits(c, f) /\ Finished(inc))
      /\ Proceed(n, IF Fits(c, f) THEN [NextStep(c) EXCEPT !.incoming = inc] ELSE None)
      /\ UNCHANGED <<vars, clientBook>>

LastFragment(n, stage) ==
  /\ Answered(n, stage) /\ answer[n].ok /\ central[n].step % 2 = 1
  /\ Fits(central[n], answer[n].fragment)
  /\ Finished(Pushed(central[n].incoming, answer[n].fragment))

Reply(n) == Pushed(central[n].incoming, answer[n].fragment).packet

OnProfile(n) ==
  /\ LastFragment(n, "ReadProfile")
  /\ IF ProfileFits(n, Reply(n))
     THEN \E phrase \in Choices(n, Reply(n).missing) :
            Proceed(n, [EnterStage(central[n], "SendGift") EXCEPT
                          !.peer = Reply(n), !.sent = GiftFor(Reply(n), phrase)])
     ELSE Proceed(n, None)
  /\ UNCHANGED <<vars, clientBook>>

OnGift(n) ==
  /\ LastFragment(n, "ReadGift")
  /\ Proceed(n, IF GiftFits(n, Reply(n))
                THEN [EnterStage(central[n], "Ack") EXCEPT !.received = Reply(n)]
                ELSE None)
  /\ UNCHANGED <<vars, clientBook>>

(* The answered acknowledgement makes the central record the exchange too. *)
Recordable(n) ==
  RecordAllowed(n, central[n].peer, central[n].sent, central[n].received)

Settled(n) ==
  LET c == central[n]
  IN  /\ Proceed(n, None)
      /\ IF Recordable(n)
         THEN /\ Record(n, c.peer, c.sent, c.received)
              /\ UNCHANGED <<enabled, session>>
              /\ clientBook' = [clientBook EXCEPT ![c.exchange] =
                   [node |-> n, peer |-> c.peer.node,
                    sent |-> c.sent.phrase, received |-> c.received.phrase]]
         ELSE UNCHANGED <<vars, clientBook>>

OnAckAnyAnswer(n) == Answered(n, "Ack") /\ Settled(n)
OnAck(n) == Answered(n, "Ack") /\ answer[n].ok /\ Settled(n)

CentralStep(n) ==
  \/ Send(n)
  \/ Failed(n)
  \/ OnInfo(n) \/ Tab5OnInfo(n) \/ Tab5OnFirstData(n)
  \/ OnSent(n, "SendProfile", central[n].own, "ReadProfile")
  \/ OnSent(n, "SendGift", central[n].sent, "ReadGift")
  \/ OnSelected(n, "ReadProfile")
  \/ OnSelected(n, "ReadGift")
  \/ OnFragment(n, "ReadProfile")
  \/ OnFragment(n, "ReadGift")
  \/ OnProfile(n)
  \/ OnGift(n)
  \/ OnAck(n)

-----------------------------------------------------------------------------
(* The peripheral's side.  The stack hands the requests of one client over *)
(* in the order they were sent; serving one is a single locked handler.    *)

Oldest(r) ==
  \A q \in inflight :
    q.client = r.client /\ q.target = r.target => r.exchange <= q.exchange

(* An answer nobody waits for any more is dropped.                         *)
Respond(r, ok, fragment) ==
  answer' = LET c == central[r.client]
            IN  IF c # None /\ c.exchange = r.exchange
                THEN [answer EXCEPT ![r.client] = [ok |-> ok, fragment |-> fragment]]
                ELSE answer

Taken(r) ==
  /\ r \in inflight /\ Oldest(r)
  /\ inflight' = inflight \ {r}
  /\ UNCHANGED <<role, central, attempts, tab5, clientBook>>

ServeInfo(r) ==
  /\ Taken(r) /\ r.body = Info
  /\ Expire(r.target)
  /\ Respond(r, enabled[r.target] \/ r.target \in tab5, None)
  /\ UNCHANGED serverBook

(* A refused READ shows at a Tab5 too: as a value without a header.        *)
ServeRead(r) ==
  /\ Taken(r) /\ r.body = ReadTx
  /\ LET p == r.target  s == Live(p)
     IN  \/ /\ ReadFragment(p, r.client)
            /\ Respond(r, TRUE, Data(s.exchange, s.reply, s.selected))
         \/ RefuseRead(p, r.client) /\ Respond(r, FALSE, None)
  /\ UNCHANGED serverBook

(* The history of an acknowledgement that is recorded.                     *)
Booked(p, s) ==
  [node |-> p, peer |-> s.peer.node,
   sent |-> s.outgoingGift.phrase, received |-> s.incomingGift.phrase]

(* on_server_write of a Tab5 only prints that it refused, and the stack    *)
(* acknowledges the write like any other.                                  *)
ServeWrite(r) ==
  LET p == r.target
  IN  /\ Taken(r) /\ r.body \notin {Info, ReadTx}
      /\ \/ WriteOk(p, r.client, r.body) /\ Respond(r, TRUE, None)
         \/ WriteError(p, r.client, r.body) /\ Respond(r, p \in tab5, None)
      /\ serverBook' =
           IF exchangeCount'[p] = exchangeCount[p] THEN serverBook
           ELSE [serverBook EXCEPT ![r.exchange] = Booked(p, session[p])]

Serve(r) == ServeInfo(r) \/ ServeRead(r) \/ ServeWrite(r)

(* The link breaks.  An answer that never arrives is one Abort precedes.   *)
LoseRequest(r) ==
  /\ Taken(r)
  /\ UNCHANGED <<vars, answer, serverBook>>

(* A Tab5 is told when a connection ends and drops what its client held.   *)
Tab5Disconnected(p) ==
  /\ p \in tab5 /\ session[p] # None
  /\ LET x == session[p].exchange  c == central[session[p].client]
     IN  /\ c # None => c.exchange # x
         /\ \A r \in inflight : r.exchange # x
  /\ session' = [session EXCEPT ![p] = None]
  /\ UNCHANGED <<enabled, book, role, central, link, attempts, tab5, books>>

-----------------------------------------------------------------------------

NetInit ==
  /\ Init /\ tab5 \in Fleets
  /\ role = [n \in Node |-> "Central"]
  /\ central = [n \in Node |-> None]
  /\ inflight = {}
  /\ answer = [n \in Node |-> None]
  /\ attempts = 0
  /\ clientBook = [x \in ExchangeId |-> None]
  /\ serverBook = [x \in ExchangeId |-> None]

NetTick == Tick /\ UNCHANGED <<role, central, link, attempts, tab5, books>>
NetExpire(n) == Expire(n) /\ UNCHANGED <<role, central, link, attempts, tab5, books>>

NetNext ==
  \/ NetTick
  \/ \E n \in Node :
       \/ EnterPeripheral(n)
       \/ StopAdvertising(n)
       \/ LeaveWhenIdle(n)
       \/ Tab5LeavesWhenIdle(n)
       \/ Tab5Quits(n)
       \/ Tab5Disconnected(n)
       \/ FailedSlot(n)
       \/ PowerOff(n)
       \/ NetExpire(n)
       \/ \E p \in Node : Connect(n, p)
       \/ CentralStep(n)
       \/ Abort(n)
  \/ \E r \in inflight : Serve(r) \/ LoseRequest(r)

NetSpec == NetInit /\ [][NetNext]_netvars

-----------------------------------------------------------------------------
(* Properties. *)

(* Every variable stays in its domain, and each central has at most one    *)
(* request of its current exchange on the way.                             *)
NetTypeOK ==
  /\ TypeOK /\ tab5 \in Fleets
  /\ role \in [Node -> {"Central", "Peripheral", "Draining"}]
  /\ central \in [Node -> Central \cup {None}]
  /\ \A r \in inflight :
       /\ r.client # r.target /\ r.exchange <= attempts
       /\ central[r.client] # None /\ central[r.client].exchange = r.exchange =>
            central[r.client].waiting /\ answer[r.client] = None
  /\ \A n \in Node :
       answer[n] # None => central[n] # None /\ central[n].waiting
  /\ attempts \in Nat

(* A device is never both sides at once: while its central is in an        *)
(* exchange its service refuses everybody and holds no lease.              *)
RoleExclusion ==
  \A n \in Node :
    central[n] # None => ~enabled[n] /\ session[n] = None

(* What the central read before its awaits holds to the end of them: when  *)
(* the acknowledgement is answered, what its Profile offered to take is    *)
(* still missing, so that nothing is lost on one side for a filled slot,   *)
(* and the peer, whose cooldown was looked at first of all, has not been   *)
(* met in between.                                                         *)
CentralChecksHold ==
  \A n \in Node :
    central[n] # None /\ central[n].stage = "Ack" =>
      Recordable(n) /\ ~CoolingDown(n, central[n].peer.node)

(* A phrase is filed under the device whose deck it comes from, never the  *)
(* own one.                                                                *)
GiftIntegrity ==
  \A n \in Node, k \in Slot :
    sentence[n][k] # None =>
      /\ sentence[n][k].source # n
      /\ sentence[n][k].deck = sentence[n][k].source

(* The trade of the ledger that each exchange is.                          *)
Trades == [x \in ExchangeId |-> [first |-> serverBook[x], second |-> clientBook[x]]]

Ledger == INSTANCE GiftLedger WITH
  Trader <- Node, TradeId <- ExchangeId, Goods <- Phrase \cup {None},
  Nothing <- None, trade <- Trades, silent <- tab5

(* The two books of an exchange are settled as GiftLedger promises: the    *)
(* peripheral first, the central afterwards or never, with the same gifts  *)
(* seen from the other side, each once; and only a central whose peer is a *)
(* Tab5 may be alone with its entry, which is then the last.               *)
LedgerKept == Ledger!TradeSpec

(* "待受側は…ACKを確認して双方の交換を確定し、接続側はACKへの書込応答を受けて  *)
(* 同じ交換を確定します" (cli/README.md): what the central settles on the    *)
(* answer to its ACK is what the peripheral has settled.                   *)
CentralNeverAlone ==
  \A x \in ExchangeId : clientBook[x] # None => serverBook[x] # None

(* No entry is not an entry.                                               *)
ASSUME BookAssumption == None \notin Ledger!BookEntry

-----------------------------------------------------------------------------
(* Fairness: time passes, the event loop sweeps expired leases, the drain  *)
(* polls, a running central goes on, and its timeout ends what hangs.      *)
Fairness ==
  /\ WF_netvars(NetTick)
  /\ \A n \in Node :
       /\ WF_netvars(NetExpire(n))
       /\ WF_netvars(LeaveWhenIdle(n))
       /\ WF_netvars(CentralStep(n))
       /\ WF_netvars(Abort(n))

FairSpec == NetSpec /\ Fairness

(* The lease of an exchange ends, whatever became of its central: a        *)
(* vanished or refused client does not keep the service.                   *)
LeaseEnds ==
  \A n \in Node, x \in ExchangeId :
    (session[n] # None /\ session[n].exchange = x)
      ~> (session[n] = None \/ session[n].exchange # x)

(* The drain ends: a service that stopped advertising becomes idle and the *)
(* device takes the other role.                                            *)
DrainEnds == \A n \in Node : role[n] = "Draining" ~> role[n] # "Draining"

(* A central leaves every exchange it enters, answered or not.             *)
CentralReturns == \A n \in Node : central[n] # None ~> central[n] = None
=============================================================================
