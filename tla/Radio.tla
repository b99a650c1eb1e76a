------------------------------- MODULE Radio -------------------------------
(***************************************************************************)
(* Radio of cli/src/ble.rs with run_radio of main.rs: how one device       *)
(* initializes Bluetooth, takes its roles, and what it leaves switched on  *)
(* in the Bluetooth host.  Every await is a step of `at': there the        *)
(* operating system's call may fail or time out, power may go, and a       *)
(* signal may drop the future for good and run the cleanup instead.        *)
(*                                                                         *)
(* The State is reduced to `enabled' and to whether a client has its lease *)
(* (Exchange has the rest); an exchange to its link and its timeout.       *)
(***************************************************************************)
EXTENDS Integers

CONSTANTS
  Modes,            \* the --role settings to consider
  Windows,          \* durations of a role (role_run_duration)
  ExchangeTimeout,
  Faults,           \* the host calls that may fail: see Fault
  MaxCallers        \* bound: clients connected to the peripheral at once

Fault == {"Init", "StartAdv", "StopAdv", "StartScan", "StopScan", "Disconnect", "Events", "Power"}

(* config.validate: a role lasts at least as long as an exchange may.      *)
ASSUME RadioAssumption ==
  /\ Modes \subseteq {"Auto", "Central", "Peripheral"}
  /\ ExchangeTimeout \in Nat \ {0}
  /\ Windows \subseteq Nat /\ \A w \in Windows : w >= ExchangeTimeout
  /\ Faults \subseteq Fault /\ MaxCallers \in Nat

VARIABLES
  mode, role,
  at,           \* the await the run is at
  left,         \* time left of the role
  timer,        \* time left of the exchange
  found,        \* what the scan ended with
  after,        \* what follows stop_activity: "Retry", "Exit"
  failed,       \* stop_activity has collected an error
  handle,       \* connected.is_some()
  scanning,     \* the flag of the same name
  advertising, hostScan, linkUp,  \* what the host does for this process
  abandoned,        \* history: a disconnect failed or was interrupted
  powered, powerLost,             \* adapter power; its loss is not yet delivered
  listening,    \* serve_events: "None" before there is a server, "Runs", "Ended"
  enabled, leased,                \* of the State
  callers       \* clients connected that have not begun a session

past == <<mode, abandoned>>
control == <<role, at, left, timer, found, after, failed>>
owned == <<handle, scanning>>
host == <<advertising, hostScan, linkUp>>
power == <<powered, powerLost>>
service == <<enabled, leased>>
vars == <<past, control, owned, host, power, listening, service, callers>>

Awaits == {"InitAdapter", "InitServer", "InitPower",
           "StartAdv", "Advertise", "StopAdv", "Drain", "Poll", "StartScan", "Scan",
           "StopScan", "Rest", "Exchange", "Disconnect", "Backoff",
           "CleanLink", "CleanScan", "CleanAdv"}

Other(r) == IF r = "Central" THEN "Peripheral" ELSE "Central"

Goto(step) == at' = step

(* An await that returns and changes nothing else.                         *)
Passes(from, to) ==
  /\ at = from
  /\ Goto(to)
  /\ UNCHANGED <<past, role, left, timer, found, after, failed, owned, host, power,
                 listening, service, callers>>

-----------------------------------------------------------------------------
(* stop_activity begins: the State is shut down, and `disconnect' takes    *)
(* the handle before its first await.                                      *)
StopActivity(next) ==
  /\ Goto("CleanLink")
  /\ after' = next
  /\ failed' = FALSE
  /\ handle' = FALSE
  /\ found' = IF handle THEN "Peer" ELSE "None"
  /\ enabled' = FALSE /\ leased' = FALSE

(* An error ends the slot; a fixed role ends with it.                      *)
SlotFails == StopActivity(IF mode = "Auto" THEN "Retry" ELSE "Exit")

(* The role is over.                                                       *)
SlotEndsSameRole ==
  /\ Goto("Choose")
  /\ UNCHANGED role
SlotEnds ==
  /\ Goto("Choose")
  /\ role' = IF mode = "Auto" THEN Other(role) ELSE role

(* The top of the loops of run, central_forever and peripheral_forever.    *)
Choose ==
  /\ at = "Choose"
  /\ IF mode = "Auto" /\ listening # "Runs"
     THEN StopActivity("Exit") /\ UNCHANGED <<role, left, timer, scanning>>
     ELSE /\ \E w \in Windows : left' = w
          /\ Goto(IF role = "Peripheral" THEN "StartAdv" ELSE "Search")
          /\ UNCHANGED <<role, timer, found, after, failed, owned, service>>
  /\ UNCHANGED <<past, host, power, listening, callers>>

-----------------------------------------------------------------------------
(* initialize, within 20 s: the adapter to scan with, unless the role is   *)
(* Peripheral; the server and its events, unless it is Central.  An        *)
(* adapter that is off is refused, a server is waited for.                 *)

InitAdapter ==
  powered /\ Passes("InitAdapter", IF mode = "Auto" THEN "InitServer" ELSE "Choose")

InitServer ==
  /\ at = "InitServer"
  /\ Goto("InitPower")
  /\ listening' = "Runs"
  /\ UNCHANGED <<past, role, left, timer, found, after, failed, owned, host, power, service,
                 callers>>

AddService == powered /\ Passes("InitPower", "Choose")

InitFails ==
  /\ at \in {"InitAdapter", "InitServer", "InitPower"}
  /\ "Init" \in Faults \/ (~powered /\ at # "InitServer")
  /\ StopActivity("Exit")
  /\ UNCHANGED <<past, role, left, timer, scanning, host, power, listening, callers>>

-----------------------------------------------------------------------------
(* Peripheral. *)

StartAdvertising ==
  /\ at = "StartAdv"
  /\ powered
  /\ advertising' = TRUE
  /\ enabled' = TRUE
  /\ Goto("Advertise")
  /\ UNCHANGED <<past, role, left, timer, found, after, failed, owned, hostScan,
                 linkUp, power, listening, leased, callers>>

(* A call that timed out may have taken effect.                            *)
StartAdvertisingFails ==
  /\ at = "StartAdv"
  /\ ~powered \/ "StartAdv" \in Faults
  /\ advertising' \in {advertising, powered}
  /\ SlotFails
  /\ UNCHANGED <<past, role, left, timer, scanning, hostScan, linkUp, power, listening, callers>>

(* A fixed Peripheral advertises on, and looks whether its events arrive.  *)
AdvertisingEnds ==
  /\ at = "Advertise"
  /\ IF mode = "Auto"
     THEN left = 0 /\ Goto("StopAdv")
          /\ UNCHANGED <<found, after, failed, handle, service>>
     ELSE listening # "Runs" /\ StopActivity("Exit")
  /\ UNCHANGED <<past, role, left, timer, scanning, host, power, listening, callers>>

StopAdvertising ==
  /\ at = "StopAdv"
  /\ advertising' = FALSE
  /\ Goto("Drain")
  /\ UNCHANGED <<past, role, left, timer, found, after, failed, owned, hostScan,
                 linkUp, power, listening, service, callers>>

StopAdvertisingFails ==
  /\ at = "StopAdv"
  /\ "StopAdv" \in Faults
  /\ SlotFails
  /\ UNCHANGED <<past, role, left, timer, scanning, host, power, listening, callers>>

DrainEnds == Passes("Drain", "Poll")

PollUnchecked ==
  /\ at = "Poll"
  /\ SlotEnds
  /\ UNCHANGED <<past, left, timer, found, after, failed, owned, host, power, listening,
                 service, callers>>

(* disable_if_idle *)
Poll ==
  /\ at = "Poll"
  /\ ~leased
  /\ enabled' = FALSE
  /\ SlotEnds
  /\ UNCHANGED <<past, left, timer, found, after, failed, owned, host, power, listening,
                 leased, callers>>

-----------------------------------------------------------------------------
(* Central. *)

(* The slot's loop: `scanning' is set before the call is awaited.          *)
Search ==
  /\ at = "Search"
  /\ IF left = 0
     THEN SlotEnds /\ UNCHANGED owned
     ELSE Goto("StartScan") /\ scanning' = TRUE /\ UNCHANGED <<role, handle>>
  /\ UNCHANGED <<past, left, timer, found, after, failed, host, power, listening, service,
                 callers>>

StartScan ==
  /\ at = "StartScan"
  /\ powered
  /\ hostScan' = TRUE
  /\ Goto("Scan")
  /\ UNCHANGED <<past, role, left, timer, found, after, failed, owned, advertising, linkUp,
                 power, listening, service, callers>>

(* The call, or the subscription to its events before it, is refused.      *)
StartScanRefused ==
  /\ at = "StartScan"
  /\ ~powered \/ "StartScan" \in Faults
  /\ scanning' = FALSE
  /\ SlotFails
  /\ UNCHANGED <<past, role, left, timer, host, power, listening, callers>>

StartScanForgotten ==
  /\ at = "StartScan"
  /\ "StartScan" \in Faults
  /\ hostScan' \in {hostScan, powered}
  /\ scanning' = FALSE
  /\ SlotFails
  /\ UNCHANGED <<past, role, left, timer, advertising, linkUp, power, listening, callers>>
StartScanTimedOut ==
  /\ at = "StartScan"
  /\ "StartScan" \in Faults
  /\ hostScan' \in {hostScan, powered}
  /\ SlotFails
  /\ UNCHANGED <<past, role, left, timer, scanning, advertising, linkUp, power, listening,
                 callers>>

(* The scan finds a peer, its time is over, or it reports an error: the    *)
(* scan is stopped first in each case.                                     *)
ScanEnds ==
  /\ at = "Scan"
  /\ \/ found' = "Peer"
     \/ left = 0 /\ found' = "None"
     \/ found' = "Error"
  /\ Goto("StopScan")
  /\ UNCHANGED <<past, role, left, timer, after, failed, owned, host, power, listening,
                 service, callers>>

(* A peer is connected to only if the exchange can end within the role.    *)
BeginExchange ==
  IF left < ExchangeTimeout
  THEN Goto("Rest") /\ UNCHANGED <<role, timer, after, failed, found, handle, service>>
  ELSE /\ Goto("Exchange")
       /\ handle' = TRUE
       /\ timer' = ExchangeTimeout
       /\ UNCHANGED <<role, after, failed, found, service>>

StopScan ==
  /\ at = "StopScan"
  /\ scanning' = FALSE
  /\ hostScan' = FALSE
  /\ \/ found = "Peer" /\ BeginExchange
     \/ found = "None" /\ SlotEnds /\ UNCHANGED <<timer, after, failed, found, handle, service>>
     \/ found = "Error" /\ SlotFails /\ UNCHANGED <<role, timer>>
  /\ UNCHANGED <<past, left, advertising, linkUp, power, listening, callers>>

StopScanFails ==
  /\ at = "StopScan"
  /\ "StopScan" \in Faults
  /\ SlotFails
  /\ UNCHANGED <<past, role, left, timer, scanning, host, power, listening, callers>>

RestEnds ==
  /\ at = "Rest" /\ left = 0
  /\ SlotEnds
  /\ UNCHANGED <<past, left, timer, found, after, failed, owned, host, power, listening,
                 service, callers>>

LinkComesUp ==
  /\ at = "Exchange" /\ powered
  /\ linkUp' = TRUE
  /\ UNCHANGED <<past, control, owned, advertising, hostScan, power, listening, service, callers>>

(* However the exchange ended, `disconnect' takes the handle and awaits.   *)
ExchangeEnds ==
  /\ at = "Exchange"
  /\ handle' = FALSE
  /\ found' \in {"Peer", "Error"}
  /\ Goto("Disconnect")
  /\ UNCHANGED <<past, role, left, timer, after, failed, scanning, host, power, listening,
                 service, callers>>

Disconnect ==
  /\ at = "Disconnect"
  /\ linkUp' = FALSE
  /\ Goto(IF found = "Error" THEN "Backoff" ELSE "Search")
  /\ UNCHANGED <<past, role, left, timer, found, after, failed, owned, advertising, hostScan,
                 power, listening, service, callers>>

DisconnectFails ==
  /\ at = "Disconnect" /\ linkUp
  /\ "Disconnect" \in Faults
  /\ SlotFails
  /\ abandoned' = TRUE
  /\ UNCHANGED <<mode, role, left, timer, scanning, host, power, listening, callers>>

BackoffEnds == Passes("Backoff", "Search")

-----------------------------------------------------------------------------
(* stop_activity goes on.  Every part is tried, whichever of them failed.  *)

CleanLink ==
  /\ at = "CleanLink"
  /\ \/ linkUp' = (linkUp /\ found # "Peer") /\ UNCHANGED <<failed, abandoned>>
     \/ /\ found = "Peer" /\ linkUp /\ "Disconnect" \in Faults
        /\ failed' = TRUE /\ abandoned' = TRUE /\ UNCHANGED linkUp
  /\ Goto("CleanScan")
  /\ UNCHANGED <<mode, role, left, timer, found, after, owned, advertising, hostScan, power,
                 listening, service, callers>>

CleanScan ==
  /\ at = "CleanScan"
  /\ \/ scanning /\ scanning' = FALSE /\ hostScan' = FALSE /\ UNCHANGED failed
     \/ ~scanning /\ UNCHANGED <<scanning, hostScan, failed>>
     \/ scanning /\ "StopScan" \in Faults /\ failed' = TRUE /\ UNCHANGED <<scanning, hostScan>>
  /\ Goto("CleanAdv")
  /\ UNCHANGED <<past, role, left, timer, found, after, handle, advertising, linkUp, power,
                 listening, service, callers>>

(* After the last part the run goes on, or ends; an error of stop_activity *)
(* ends it too, and run_radio then cleans up once more.                    *)
UntilClean(wrong) ==
  IF after = "Exit" /\ ~wrong
  THEN /\ Goto("Stopped") /\ listening' = "Ended"
       /\ UNCHANGED <<role, after, failed, found, handle, service>>
  ELSE IF wrong
       THEN StopActivity("Exit") /\ UNCHANGED <<role, listening>>
       ELSE SlotEnds /\ UNCHANGED <<after, failed, found, handle, listening, service>>
Cleaned(wrong) ==
  IF after = "Exit"
  THEN /\ Goto("Stopped") /\ failed' = wrong /\ listening' = "Ended"
       /\ UNCHANGED <<role, after, found, handle, service>>
  ELSE IF wrong
       THEN StopActivity("Exit") /\ UNCHANGED <<role, listening>>
       ELSE SlotEnds /\ UNCHANGED <<after, failed, found, handle, listening, service>>

CleanAdv ==
  /\ at = "CleanAdv"
  /\ \/ /\ advertising' = FALSE
        /\ Cleaned(failed)
     \/ /\ listening # "None" /\ "StopAdv" \in Faults
        /\ UNCHANGED advertising
        /\ Cleaned(TRUE)
  /\ UNCHANGED <<past, left, timer, scanning, hostScan, linkUp, power, callers>>

(* run_radio: the signal drops the future of run wherever it waits.        *)
Signal ==
  /\ at \in Awaits
  /\ at \in {"CleanLink", "CleanScan", "CleanAdv"} => after = "Retry"
  /\ StopActivity("Exit")
  /\ abandoned' = (abandoned \/ at \in {"Disconnect", "CleanLink"})
  /\ UNCHANGED <<mode, role, left, timer, scanning, host, power, listening, callers>>

-----------------------------------------------------------------------------
(* Time, power, the clients of the service, and its event loop. *)

(* `timeout' ends an exchange before more time passes.                     *)
TickLate ==
  /\ left > 0
  /\ left' = left - 1
  /\ timer' = IF at = "Exchange" THEN timer - 1 ELSE timer
  /\ UNCHANGED <<past, role, at, found, after, failed, owned, host, power, listening, service,
                 callers>>
Tick ==
  /\ left > 0
  /\ at = "Exchange" => timer > 0
  /\ left' = left - 1
  /\ timer' = IF at = "Exchange" THEN timer - 1 ELSE timer
  /\ UNCHANGED <<past, role, at, found, after, failed, owned, host, power, listening, service,
                 callers>>

(* The host drops everything; the State learns of it through the events.   *)
PowerOff ==
  /\ "Power" \in Faults /\ powered
  /\ powered' = FALSE /\ powerLost' = (listening = "Runs")
  /\ advertising' = FALSE /\ hostScan' = FALSE /\ linkUp' = FALSE
  /\ callers' = 0
  /\ UNCHANGED <<past, control, owned, listening, service>>

PowerOn ==
  /\ ~powered
  /\ powered' = TRUE
  /\ UNCHANGED <<past, control, owned, host, powerLost, listening, service, callers>>

PowerEvent ==
  /\ powerLost /\ listening = "Runs"
  /\ powerLost' = FALSE
  /\ enabled' = FALSE /\ leased' = FALSE
  /\ UNCHANGED <<past, control, owned, host, powered, listening, callers>>

EventsEnd ==
  /\ "Events" \in Faults /\ listening = "Runs"
  /\ listening' = "Ended"
  /\ UNCHANGED <<past, control, owned, host, power, service, callers>>

ClientConnects ==
  /\ advertising /\ callers < MaxCallers
  /\ callers' = callers + 1
  /\ UNCHANGED <<past, control, owned, host, power, listening, service>>

(* A connected client begins its session, at any time, or gives up.        *)
ClientBegins ==
  /\ callers > 0
  /\ callers' = callers - 1
  /\ leased' = (leased \/ (enabled /\ listening = "Runs"))
  /\ UNCHANGED <<past, control, owned, host, power, listening, enabled>>

(* Its lease runs out (LeaseEnds of Exchange).                             *)
LeaseEnds ==
  /\ leased
  /\ leased' = FALSE
  /\ UNCHANGED <<past, control, owned, host, power, listening, enabled, callers>>

-----------------------------------------------------------------------------

Init ==
  /\ mode \in Modes
  /\ role \in IF mode = "Auto" THEN {"Central", "Peripheral"} ELSE {mode}
  /\ at = (IF mode = "Peripheral" THEN "InitServer" ELSE "InitAdapter")
  /\ left = 0 /\ timer = 0 /\ found = "None"
  /\ after = "Retry" /\ failed = FALSE
  /\ handle = FALSE /\ scanning = FALSE
  /\ advertising = FALSE /\ hostScan = FALSE /\ linkUp = FALSE
  /\ powered = TRUE /\ powerLost = FALSE /\ listening = "None"
  /\ enabled = FALSE /\ leased = FALSE /\ callers = 0 /\ abandoned = FALSE

Initialize == InitAdapter \/ InitServer \/ AddService \/ InitFails

PeripheralStep ==
  \/ StartAdvertising \/ StartAdvertisingFails \/ AdvertisingEnds
  \/ StopAdvertising \/ StopAdvertisingFails \/ DrainEnds \/ Poll

CentralStep ==
  \/ Search \/ StartScan \/ StartScanRefused \/ StartScanTimedOut \/ ScanEnds
  \/ StopScan \/ StopScanFails \/ RestEnds
  \/ ExchangeEnds \/ Disconnect \/ DisconnectFails \/ BackoffEnds

CleanStep == CleanLink \/ CleanScan \/ CleanAdv

Run == Initialize \/ Choose \/ PeripheralStep \/ CentralStep \/ CleanStep

Clients == ClientConnects \/ ClientBegins \/ LeaseEnds

Host == LinkComesUp \/ PowerOff \/ PowerOn \/ PowerEvent \/ EventsEnd

Next == Run \/ Signal \/ Tick \/ Host \/ Clients

Spec == Init /\ [][Next]_vars

(* Time passes, every awaited call returns or times out, events are        *)
(* delivered, clients begin or leave, and a lease runs out.                *)
FairSpec ==
  /\ Spec
  /\ WF_vars(Run) /\ WF_vars(Tick) /\ WF_vars(PowerEvent)
  /\ WF_vars(ClientBegins) /\ WF_vars(LeaseEnds)

-----------------------------------------------------------------------------
(* Properties. *)

Cleaning == {"CleanLink", "CleanScan", "CleanAdv"}

RadioTypeOK ==
  /\ mode \in Modes /\ role \in {"Central", "Peripheral"}
  /\ at \in Awaits \cup {"Choose", "Search", "Stopped"}
  /\ left \in Nat /\ timer \in 0 .. ExchangeTimeout
  /\ found \in {"None", "Peer", "Error"} /\ after \in {"Retry", "Exit"}
  /\ callers \in 0 .. MaxCallers /\ listening \in {"None", "Runs", "Ended"}
  /\ {failed, handle, scanning, advertising, hostScan, linkUp, powered, powerLost, enabled,
      leased, abandoned} \subseteq BOOLEAN

(* "Do not start another role until previous radio operations are          *)
(* stopped" (run): the host advertises or scans only while the run is in   *)
(* that very operation or is stopping it, the service answers only in the  *)
(* Peripheral role, and a link outlives its exchange only where a          *)
(* disconnect failed or a signal interrupted it.                           *)
NoLeftovers ==
  /\ advertising => at \in {"StartAdv", "Advertise", "StopAdv", "Stopped"} \cup Cleaning
  /\ hostScan => at \in {"Scan", "StopScan", "Stopped"} \cup Cleaning
  /\ enabled => at \in {"Advertise", "StopAdv", "Drain", "Poll"}
  /\ linkUp => at \in {"Exchange", "Disconnect", "Stopped"} \cup Cleaning \/ abandoned

(* A process that reports a clean end leaves nothing running, wherever the *)
(* signal or the error caught it, but for such a link.                     *)
CleanStop ==
  at = "Stopped" /\ ~failed =>
    ~advertising /\ ~hostScan /\ (linkUp => abandoned)

(* "自分が開始したスキャン・広告・接続を終了処理で停止します" (README): a link is  *)
(* held only by its exchange and by what ends it, unless an error is       *)
(* reported at the end.                                                    *)
LinkReleased ==
  linkUp => at \in {"Exchange", "Disconnect"} \cup Cleaning \/ (at = "Stopped" /\ failed)

(* "固定役割では広告またはスキャンを継続" (README): a fixed Peripheral that  *)
(* has power serves, now or later, unless it stops.                        *)
FixedRoleServes ==
  mode = "Peripheral" /\ <>[]powered => []<>(enabled \/ at = "Stopped")
=============================================================================
