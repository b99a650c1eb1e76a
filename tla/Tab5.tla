-------------------------------- MODULE Tab5 --------------------------------
(***************************************************************************)
(* The Tab5, m5stack/src/main.cpp: the loop that takes the roles in turn   *)
(* on one task, while the Bluetooth stack's task calls back with the       *)
(* connections and requests of its clients, both on one ExchangeState.     *)
(*                                                                         *)
(* The loop's blocking calls are steps of `at'.  What the peer says in an  *)
(* exchange of the Central role is a Profile of Inputs and any gift that   *)
(* the checks of exchange_with let pass.                                   *)
(***************************************************************************)
EXTENDS Tab5State

CONSTANTS
  Roles,        \* settings of the role button to begin with
  MaxTouches,   \* bound: touches of the buttons
  MaxConnects   \* bound: connections of clients

VARIABLES
  mode, active,  \* role_mode_, active_role_
  running,
  at,            \* where the loop is
  due,           \* role_change_requested_, or slot_deadline_ is reached
  own, partner,  \* of exchange_with: the profile offered, the node it read
  advertising,
  links,         \* clients connected to this device
  fresh,         \* those that have not begun an exchange
  touches, connects

loop == <<mode, active, running, at, due, own, partner, advertising>>
clients == <<links, fresh, connects>>
vars == <<statevars, loop, clients, touches>>

Other(role) == IF role = "Central" THEN "Peripheral" ELSE "Central"

-----------------------------------------------------------------------------
(* loop_once. *)

Rest ==
  /\ at = "Top" /\ ~running
  /\ active' = "Auto"
  /\ UNCHANGED <<statevars, mode, running, at, due, own, partner, advertising, clients, touches>>

Wanted ==
  IF mode # "Auto" THEN {mode}
  ELSE IF active = "Auto" THEN {"Central", "Peripheral"} ELSE {active}

EnterPeripheral ==
  /\ at = "Top" /\ running /\ "Peripheral" \in Wanted
  /\ active' = "Peripheral" /\ at' = "Start" /\ due' = FALSE
  /\ Enable
  /\ UNCHANGED <<mode, running, own, partner, advertising, clients, touches>>

EnterCentral ==
  /\ at = "Top" /\ running /\ "Central" \in Wanted
  /\ active' = "Central" /\ at' = "Scan" /\ due' = FALSE
  /\ UNCHANGED <<statevars, mode, running, own, partner, advertising, clients, touches>>

(* stop_radio_activity. *)
StopAdvertising ==
  /\ at = "Stop"
  /\ at' = "Shut" /\ advertising' = FALSE
  /\ UNCHANGED <<statevars, mode, active, running, due, own, partner, clients, touches>>

ShutState ==
  /\ at = "Shut"
  /\ Shutdown
  /\ at' = "Top"
  /\ active' = IF mode = "Auto" THEN Other(active) ELSE mode
  /\ UNCHANGED <<mode, running, due, own, partner, advertising, clients, touches>>

-----------------------------------------------------------------------------
(* peripheral_slot. *)

Advertise ==
  /\ at = "Start"
  /\ at' = "Serve" /\ advertising' = TRUE
  /\ UNCHANGED <<statevars, mode, active, running, due, own, partner, clients, touches>>

AdvertiseFails ==
  /\ at = "Start"
  /\ at' = "Stop"
  /\ Shutdown
  /\ UNCHANGED <<mode, active, running, due, own, partner, advertising, clients, touches>>

Serve ==
  /\ at = "Serve"
  /\ Expire
  /\ UNCHANGED <<loop, clients, touches>>

LeaveWhenIdle ==
  /\ at = "Serve" /\ due /\ Idle
  /\ DisableIfIdle
  /\ at' = "Stop"
  /\ UNCHANGED <<mode, active, running, due, own, partner, advertising, clients, touches>>

Quit ==
  /\ at = "Serve" /\ ~running
  /\ Shutdown
  /\ at' = "Stop"
  /\ UNCHANGED <<mode, active, running, due, own, partner, advertising, clients, touches>>

-----------------------------------------------------------------------------
(* central_slot and exchange_with: one exchange at most.                   *)

ScanAgain ==
  /\ at = "Scan" /\ running /\ ~due
  /\ at' = "Scanning"
  /\ UNCHANGED <<statevars, mode, active, running, due, own, partner, advertising, clients, touches>>

ScanSlotOver ==
  /\ at = "Scan" /\ (due \/ ~running)
  /\ at' = "Stop"
  /\ UNCHANGED <<statevars, mode, active, running, due, own, partner, advertising, clients, touches>>

ScanReturns ==
  /\ at = "Scanning"
  /\ at' \in {"Scan", "Connect"}
  /\ UNCHANGED <<statevars, mode, active, running, due, own, partner, advertising, clients, touches>>

Connect ==
  /\ at = "Connect"
  /\ at' = "Exchange" /\ own' = OwnProfile /\ partner' = None
  /\ UNCHANGED <<statevars, mode, active, running, due, advertising, clients, touches>>

Identify ==
  /\ at = "Exchange" /\ partner = None
  /\ partner' \in {p \in Peer \ {Self} : ~CoolingDown(p)}
  /\ UNCHANGED <<statevars, mode, active, running, at, due, own, advertising, clients, touches>>

ExchangeFails ==
  /\ at \in {"Connect", "Exchange"}
  /\ at' = "Stop" /\ own' = None /\ partner' = None
  /\ UNCHANGED <<statevars, mode, active, running, due, advertising, clients, touches>>

(* The gifts of the exchange the partner asked for and answered with.      *)
ExchangeRecords ==
  /\ at = "Exchange" /\ partner # None /\ Len(log) < MaxExchanges
  /\ \E p \in {q \in Inputs : q.type = "Profile"} :
       /\ p.node = partner
       /\ \E given \in Cli!Choices(Self, p.missing),
            taken \in {None} \cup Cli!Choices(partner, own.missing) :
              RecordCentral(p, [type |-> "Gift", round |-> p.node, phrase |-> given],
                               [type |-> "Gift", round |-> own.node, phrase |-> taken])
  /\ at' = "Stop" /\ own' = None /\ partner' = None
  /\ UNCHANGED <<mode, active, running, due, advertising, clients, touches>>

-----------------------------------------------------------------------------
(* update_ui: the buttons are looked at where the loop passes it.          *)

Touched ==
  /\ at \in {"Top", "Serve", "Scanning"} /\ touches < MaxTouches
  /\ touches' = touches + 1 /\ due' = TRUE
  /\ UNCHANGED <<statevars, active, at, own, partner, advertising, clients>>

TouchRun == Touched /\ running' = ~running /\ UNCHANGED mode

TouchRole ==
  /\ Touched
  /\ mode' = CASE mode = "Auto" -> "Central"
               [] mode = "Central" -> "Peripheral"
               [] mode = "Peripheral" -> "Auto"
  /\ UNCHANGED running

(* The slot's deadline, where the loop compares it.                        *)
SlotOver ==
  /\ at \in {"Serve", "Scan"} /\ ~due
  /\ due' = TRUE
  /\ UNCHANGED <<statevars, mode, active, running, at, own, partner, advertising, clients, touches>>

-----------------------------------------------------------------------------
(* The callbacks.  A client begins one exchange in a connection, as both   *)
(* implementations do; links outlive the role.                             *)

ClientConnects(c) ==
  /\ advertising /\ c \notin links /\ connects < MaxConnects
  /\ links' = links \cup {c} /\ fresh' = fresh \cup {c} /\ connects' = connects + 1
  /\ Connected(c)
  /\ UNCHANGED <<loop, touches>>

ClientLeaves(c) ==
  /\ c \in links
  /\ links' = links \ {c} /\ fresh' = fresh \ {c}
  /\ Disconnected(c)
  /\ UNCHANGED <<loop, connects, touches>>

ClientWrites(c, f) ==
  /\ c \in links
  /\ Begins(f) => c \in fresh
  /\ f.kind = "ACK" => Len(log) < MaxExchanges
  /\ fresh' = IF Begins(f) THEN fresh \ {c} ELSE fresh
  /\ Write(c, f)
  /\ UNCHANGED <<loop, links, connects, touches>>

ClientReads(c) ==
  /\ c \in links
  /\ Read(c)
  /\ UNCHANGED <<loop, clients, touches>>

(* The loop comes to a sweep long before a deadline is half the clock's    *)
(* range old: 20 ms while it serves.  In the Central role nothing sweeps   *)
(* but an exchange that succeeds.                                          *)
Old(deadline) == (now - deadline) % Clock = Half - 1
SweptInTime ==
  /\ session # None => ~Old(session.deadline)
  /\ \A c \in DOMAIN connections : ~Old(connections[c])
  /\ \A p \in Peer : recent[p] # None => ~Old(recent[p])

Tick ==
  /\ SweptInTime
  /\ now' = (now + 1) % Clock
  /\ UNCHANGED <<enabled, session, connections, recent, sentence, log, loop, clients, touches>>

-----------------------------------------------------------------------------

Init ==
  /\ StateInit
  /\ mode \in Roles
  /\ active \in IF mode = "Auto" THEN {"Central", "Peripheral"} ELSE {mode}
  /\ running = TRUE /\ at = "Top" /\ due = FALSE
  /\ own = None /\ partner = None /\ advertising = FALSE
  /\ links = {} /\ fresh = {} /\ connects = 0 /\ touches = 0

Central ==
  ScanAgain \/ ScanSlotOver \/ ScanReturns \/ Connect \/ Identify
  \/ ExchangeFails \/ ExchangeRecords

Peripheral == Advertise \/ AdvertiseFails \/ Serve \/ LeaveWhenIdle \/ Quit

Callback ==
  \E c \in Client :
    \/ ClientConnects(c) \/ ClientLeaves(c) \/ ClientReads(c)
    \/ \E f \in Cli!Requests : ClientWrites(c, f)

Next ==
  \/ Rest \/ EnterPeripheral \/ EnterCentral \/ StopAdvertising \/ ShutState
  \/ Peripheral \/ Central
  \/ TouchRun \/ TouchRole \/ SlotOver
  \/ Callback \/ Tick

Spec == Init /\ [][Next]_vars

(* Time passes, and the serving loop sweeps and looks whether it may leave. *)
FairSpec ==
  Spec /\ WF_vars(Tick) /\ WF_vars(Serve) /\ WF_vars(LeaveWhenIdle) /\ WF_vars(Quit)

-----------------------------------------------------------------------------
(* Properties. *)

(* The firmware's state machine does what the CLI's does: under the        *)
(* wrapping clock, with its sweeps and its leases, each step is a step of  *)
(* ExchangeState or none, but for the two the CLI's peripheral has not:    *)
(* a session dropped with its connection, a record of the Central role.    *)
Dropped ==
  /\ session # None /\ session' = None
  /\ session.client \in links \ links'
  /\ UNCHANGED <<enabled, recent, sentence, log>>
CentralRecord == at = "Exchange" /\ at' = "Stop" /\ Len(log') = Len(log) + 1
PortOfCli == Cli!Init /\ [][Cli!Next \/ Dropped \/ CentralRecord]_(Cli!vars)

(* Whoever was promised the service, by a connection lease or by a session *)
(* (main.cpp:447, "先頭DATAで交換を確保"), finds it enabled until that is    *)
(* over, whatever the role's timer does.                                   *)
LeaseServed == Live # None \/ LiveConnections # <<>> => enabled

(* In the Central role no client of an earlier role touches the book: the  *)
(* profile offered to the partner is true until the exchange is recorded,  *)
(* which nothing then refuses.                                             *)
CentralAlone ==
  /\ at \in {"Scan", "Scanning", "Connect", "Exchange"} =>
       ~enabled /\ session = None /\ ~advertising
  /\ at = "Exchange" => own = OwnProfile

(* "交換中の役割変更は交換完了またはタイムアウトまで待ちます" (README): and    *)
(* then it comes, once no more clients connect.                            *)
RoleChangeComes == (at = "Serve" /\ due) ~> (at # "Serve")
=============================================================================
