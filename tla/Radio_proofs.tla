---------------------------- MODULE Radio_proofs ----------------------------
(***************************************************************************)
(* That the radio leaves nothing switched on behind, for any roles, times, *)
(* faults and clients.                                                     *)
(*                                                                         *)
(* The process never asks the host what it does: it knows what it may have *)
(* started from the place the run is at, from `scanning' and from the      *)
(* handle of its link.  The invariant says that this knowledge covers what *)
(* the host does, at every await a fault, a loss of power or a signal may  *)
(* find the run at; the cleanup then stops it or reports that it could not.*)
(***************************************************************************)
EXTENDS Radio, TLAPS

(* RadioTypeOK, one flag at a time.                                        *)
Flags ==
  /\ failed \in BOOLEAN /\ handle \in BOOLEAN /\ scanning \in BOOLEAN
  /\ advertising \in BOOLEAN /\ hostScan \in BOOLEAN /\ linkUp \in BOOLEAN
  /\ powered \in BOOLEAN /\ powerLost \in BOOLEAN /\ enabled \in BOOLEAN
  /\ leased \in BOOLEAN /\ abandoned \in BOOLEAN
Values ==
  /\ mode \in Modes /\ role \in {"Central", "Peripheral"}
  /\ at \in Awaits \cup {"Choose", "Search", "Stopped"}
  /\ left \in Nat /\ timer \in 0 .. ExchangeTimeout
  /\ found \in {"None", "Peer", "Error"} /\ after \in {"Retry", "Exit"}
  /\ callers \in 0 .. MaxCallers /\ listening \in {"None", "Runs", "Ended"}

(* Advertising is known by the place; past the cleanup, only an error has  *)
(* left it on.                                                             *)
AdvertisingKnown ==
  /\ advertising => at \in {"Advertise", "StopAdv", "Stopped"} \cup Cleaning
  /\ advertising /\ at = "Stopped" => failed

(* A scan is known by `scanning', which is set before the scan is started  *)
(* and reset after it was stopped or refused.                              *)
ScanKnown ==
  /\ at \in {"StartScan", "Scan", "StopScan"} => scanning
  /\ hostScan => scanning
  /\ hostScan => at \in {"Scan", "StopScan", "Stopped"} \cup Cleaning
  /\ hostScan /\ at \in {"CleanAdv", "Stopped"} => failed

(* A link is known by the handle; stop_activity takes it (`found' is then  *)
(* "Peer") before it awaits the disconnect.                                *)
LinkKnown ==
  /\ at = "Exchange" => handle
  /\ linkUp => \/ at \in {"Exchange", "Disconnect"}
               \/ at = "CleanLink" /\ found = "Peer"
               \/ abandoned

(* The service is enabled from the start of advertising to the end of the  *)
(* last session.                                                           *)
ServiceKnown == enabled => at \in {"Advertise", "StopAdv", "Drain", "Poll"}

RadioInv ==
  /\ Flags /\ Values /\ AdvertisingKnown /\ ScanKnown /\ LinkKnown /\ ServiceKnown

-----------------------------------------------------------------------------

LEMMA TypeAgrees == Flags /\ Values => RadioTypeOK
BY DEF Flags, Values, RadioTypeOK

LEMMA InitRadioInv == Init => RadioInv
<1> SUFFICES ASSUME Init PROVE RadioInv
  OBVIOUS
<1>1. ~failed /\ ~handle /\ ~scanning /\ ~advertising /\ ~hostScan /\ ~linkUp /\ ~enabled
  BY DEF Init
<1>2. Flags
  BY DEF Init, Flags
<1>3. Values
  BY RadioAssumption DEF Init, Values, Awaits
<1> QED
  BY <1>1, <1>2, <1>3 DEF Init, RadioInv, AdvertisingKnown, ScanKnown, LinkKnown, ServiceKnown

(* Initialization: nothing is switched on yet.                             *)
LEMMA InitializeKeeps ==
  ASSUME RadioInv, Initialize
  PROVE  RadioInv'
<1> USE DEF RadioInv, Cleaning, past, control, owned, host, power, service, Goto, StopActivity,
     SlotFails, SlotEnds
<1>1. CASE InitAdapter
  BY <1>1, RadioAssumption DEF Flags, Values, AdvertisingKnown, ScanKnown, LinkKnown,
     ServiceKnown, Awaits, Other, InitAdapter, Passes
<1>2. CASE InitServer
  BY <1>2, RadioAssumption DEF Flags, Values, AdvertisingKnown, ScanKnown, LinkKnown,
     ServiceKnown, Awaits, Other, InitServer
<1>3. CASE AddService
  BY <1>3, RadioAssumption DEF Flags, Values, AdvertisingKnown, ScanKnown, LinkKnown,
     ServiceKnown, Awaits, Other, AddService, Passes
<1>4. CASE InitFails
  BY <1>4, RadioAssumption DEF Flags, Values, AdvertisingKnown, ScanKnown, LinkKnown,
     ServiceKnown, Awaits, Other, InitFails
<1> QED
  BY <1>1, <1>2, <1>3, <1>4 DEF Initialize

(* The Peripheral's slot: advertising and the service.                     *)
LEMMA PeripheralKeeps ==
  ASSUME RadioInv, PeripheralStep
  PROVE  RadioInv'
<1> USE DEF RadioInv, Cleaning, past, control, owned, host, power, service, Goto, StopActivity,
     SlotFails, SlotEnds
<1>1. CASE StartAdvertising
  BY <1>1, RadioAssumption DEF Flags, Values, AdvertisingKnown, ScanKnown, LinkKnown,
     ServiceKnown, Awaits, Other, StartAdvertising
<1>2. CASE StartAdvertisingFails
  BY <1>2, RadioAssumption DEF Flags, Values, AdvertisingKnown, ScanKnown, LinkKnown,
     ServiceKnown, Awaits, Other, StartAdvertisingFails
<1>3. CASE AdvertisingEnds
  <2>1. Flags'
    BY <1>3 DEF Flags, AdvertisingEnds
  <2>2. Values'
    BY <1>3, RadioAssumption DEF Values, Awaits, Other, AdvertisingEnds
  <2>3. AdvertisingKnown' /\ ServiceKnown'
    BY <1>3 DEF AdvertisingKnown, ServiceKnown, AdvertisingEnds
  <2>4. ScanKnown' /\ LinkKnown'
    BY <1>3 DEF Flags, ScanKnown, LinkKnown, AdvertisingEnds
  <2> QED
    BY <2>1, <2>2, <2>3, <2>4
<1>4. CASE StopAdvertising
  <2>1. Flags'
    BY <1>4 DEF Flags, StopAdvertising
  <2>2. Values'
    BY <1>4, RadioAssumption DEF Values, Awaits, Other, StopAdvertising
  <2>3. AdvertisingKnown' /\ ServiceKnown'
    BY <1>4 DEF AdvertisingKnown, ServiceKnown, StopAdvertising
  <2>4. ScanKnown' /\ LinkKnown'
    BY <1>4 DEF Flags, ScanKnown, LinkKnown, StopAdvertising
  <2> QED
    BY <2>1, <2>2, <2>3, <2>4
<1>5. CASE StopAdvertisingFails
  BY <1>5, RadioAssumption DEF Flags, Values, AdvertisingKnown, ScanKnown, LinkKnown,
     ServiceKnown, Awaits, Other, StopAdvertisingFails
<1>6. CASE DrainEnds
  BY <1>6, RadioAssumption DEF Flags, Values, AdvertisingKnown, ScanKnown, LinkKnown,
     ServiceKnown, Awaits, Other, DrainEnds, Passes
<1>7. CASE Poll
  <2>1. Flags'
    BY <1>7 DEF Flags, Poll
  <2>2. Values'
    BY <1>7, RadioAssumption DEF Values, Awaits, Other, Poll
  <2>3. AdvertisingKnown' /\ ServiceKnown'
    BY <1>7 DEF AdvertisingKnown, ServiceKnown, Poll
  <2>4. ScanKnown' /\ LinkKnown'
    BY <1>7 DEF Flags, ScanKnown, LinkKnown, Poll
  <2> QED
    BY <2>1, <2>2, <2>3, <2>4
<1> QED
  BY <1>1, <1>2, <1>3, <1>4, <1>5, <1>6, <1>7 DEF PeripheralStep

(* The Central's slot: the scan and the link.                              *)
LEMMA CentralKeeps ==
  ASSUME RadioInv, CentralStep
  PROVE  RadioInv'
<1> USE DEF RadioInv, Cleaning, past, control, owned, host, power, service, Goto, StopActivity,
     SlotFails, SlotEnds
<1>1. CASE Search
  <2>1. Flags'
    BY <1>1 DEF Flags, Search
  <2>2. Values'
    BY <1>1, RadioAssumption DEF Values, Awaits, Other, Search
  <2>3. AdvertisingKnown' /\ ServiceKnown'
    BY <1>1 DEF AdvertisingKnown, ServiceKnown, Search
  <2>4. ScanKnown' /\ LinkKnown'
    BY <1>1 DEF Flags, ScanKnown, LinkKnown, Search
  <2> QED
    BY <2>1, <2>2, <2>3, <2>4
<1>2. CASE StartScan
  BY <1>2, RadioAssumption DEF Flags, Values, AdvertisingKnown, ScanKnown, LinkKnown,
     ServiceKnown, Awaits, Other, StartScan
<1>3. CASE StartScanRefused
  BY <1>3, RadioAssumption DEF Flags, Values, AdvertisingKnown, ScanKnown, LinkKnown,
     ServiceKnown, Awaits, Other, StartScanRefused
<1>4. CASE StartScanTimedOut
  BY <1>4, RadioAssumption DEF Flags, Values, AdvertisingKnown, ScanKnown, LinkKnown,
     ServiceKnown, Awaits, Other, StartScanTimedOut
<1>5. CASE ScanEnds
  BY <1>5, RadioAssumption DEF Flags, Values, AdvertisingKnown, ScanKnown, LinkKnown,
     ServiceKnown, Awaits, Other, ScanEnds
<1>6. CASE StopScan
  <2>1. Flags'
    BY <1>6 DEF Flags, StopScan, BeginExchange
  <2>2. Values'
    BY <1>6, RadioAssumption DEF Values, Awaits, Other, StopScan, BeginExchange
  <2>3. AdvertisingKnown' /\ ServiceKnown'
    BY <1>6 DEF AdvertisingKnown, ServiceKnown, StopScan, BeginExchange
  <2>4. ScanKnown' /\ LinkKnown'
    BY <1>6 DEF Flags, ScanKnown, LinkKnown, StopScan, BeginExchange
  <2> QED
    BY <2>1, <2>2, <2>3, <2>4
<1>7. CASE StopScanFails
  BY <1>7, RadioAssumption DEF Flags, Values, AdvertisingKnown, ScanKnown, LinkKnown,
     ServiceKnown, Awaits, Other, StopScanFails
<1>8. CASE RestEnds
  BY <1>8, RadioAssumption DEF Flags, Values, AdvertisingKnown, ScanKnown, LinkKnown,
     ServiceKnown, Awaits, Other, RestEnds
<1>9. CASE ExchangeEnds
  <2>1. Flags'
    BY <1>9 DEF Flags, ExchangeEnds
  <2>2. Values'
    BY <1>9, RadioAssumption DEF Values, Awaits, Other, ExchangeEnds
  <2>3. AdvertisingKnown' /\ ServiceKnown'
    BY <1>9 DEF AdvertisingKnown, ServiceKnown, ExchangeEnds
  <2>4. ScanKnown' /\ LinkKnown'
    BY <1>9 DEF Flags, ScanKnown, LinkKnown, ExchangeEnds
  <2> QED
    BY <2>1, <2>2, <2>3, <2>4
<1>10. CASE Disconnect
  <2>1. Flags'
    BY <1>10 DEF Flags, Disconnect
  <2>2. Values'
    BY <1>10, RadioAssumption DEF Values, Awaits, Other, Disconnect
  <2>3. AdvertisingKnown' /\ ServiceKnown'
    BY <1>10 DEF AdvertisingKnown, ServiceKnown, Disconnect
  <2>4. ScanKnown' /\ LinkKnown'
    BY <1>10 DEF Flags, ScanKnown, LinkKnown, Disconnect
  <2> QED
    BY <2>1, <2>2, <2>3, <2>4
<1>11. CASE DisconnectFails
  BY <1>11, RadioAssumption DEF Flags, Values, AdvertisingKnown, ScanKnown, LinkKnown,
     ServiceKnown, Awaits, Other, DisconnectFails
<1>12. CASE BackoffEnds
  BY <1>12, RadioAssumption DEF Flags, Values, AdvertisingKnown, ScanKnown, LinkKnown,
     ServiceKnown, Awaits, Other, BackoffEnds, Passes
<1> QED
  BY <1>1, <1>2, <1>3, <1>4, <1>5, <1>6, <1>7, <1>8, <1>9, <1>10, <1>11, <1>12 DEF CentralStep

(* stop_activity: what was known to be on is off, or an error is noted.    *)
LEMMA CleanKeeps ==
  ASSUME RadioInv, CleanStep
  PROVE  RadioInv'
<1> USE DEF RadioInv, Cleaning, past, control, owned, host, power, service, Goto, StopActivity,
     SlotFails, SlotEnds
<1>1. CASE CleanLink
  <2>1. Flags'
    BY <1>1 DEF Flags, CleanLink
  <2>2. Values'
    BY <1>1, RadioAssumption DEF Values, Awaits, Other, CleanLink
  <2>3. AdvertisingKnown' /\ ServiceKnown'
    BY <1>1 DEF AdvertisingKnown, ServiceKnown, CleanLink
  <2>4. ScanKnown' /\ LinkKnown'
    BY <1>1 DEF Flags, ScanKnown, LinkKnown, CleanLink
  <2> QED
    BY <2>1, <2>2, <2>3, <2>4
<1>2. CASE CleanScan
  <2>1. Flags'
    BY <1>2 DEF Flags, CleanScan
  <2>2. Values'
    BY <1>2, RadioAssumption DEF Values, Awaits, Other, CleanScan
  <2>3. AdvertisingKnown' /\ ServiceKnown'
    BY <1>2 DEF AdvertisingKnown, ServiceKnown, CleanScan
  <2>4. ScanKnown' /\ LinkKnown'
    BY <1>2 DEF Flags, ScanKnown, LinkKnown, CleanScan
  <2> QED
    BY <2>1, <2>2, <2>3, <2>4
<1>3. CASE CleanAdv
  <2>1. Flags'
    BY <1>3 DEF Flags, CleanAdv, Cleaned
  <2>2. Values'
    BY <1>3, RadioAssumption DEF Values, Awaits, Other, CleanAdv, Cleaned
  <2>3. AdvertisingKnown' /\ ServiceKnown'
    BY <1>3 DEF AdvertisingKnown, ServiceKnown, CleanAdv, Cleaned
  <2>4. ScanKnown' /\ LinkKnown'
    BY <1>3 DEF Flags, ScanKnown, LinkKnown, CleanAdv, Cleaned
  <2> QED
    BY <2>1, <2>2, <2>3, <2>4
<1> QED
  BY <1>1, <1>2, <1>3 DEF CleanStep

(* A slot is chosen, and the signal, which finds the run at any await.     *)
LEMMA OthersKeep ==
  ASSUME RadioInv, Choose \/ Signal \/ Tick
  PROVE  RadioInv'
<1> USE DEF RadioInv, Cleaning, past, control, owned, host, power, service, Goto, StopActivity,
     SlotFails, SlotEnds
<1>1. CASE Choose
  <2>1. Flags'
    BY <1>1 DEF Flags, Choose
  <2>2. Values'
    BY <1>1, RadioAssumption DEF Values, Awaits, Other, Choose
  <2>3. AdvertisingKnown' /\ ServiceKnown'
    BY <1>1 DEF AdvertisingKnown, ServiceKnown, Choose
  <2>4. ScanKnown' /\ LinkKnown'
    BY <1>1 DEF Flags, ScanKnown, LinkKnown, Choose
  <2> QED
    BY <2>1, <2>2, <2>3, <2>4
<1>2. CASE Signal
  <2>1. Flags'
    BY <1>2 DEF Flags, Signal
  <2>2. Values'
    BY <1>2, RadioAssumption DEF Values, Awaits, Other, Signal
  <2>3. AdvertisingKnown' /\ ServiceKnown'
    BY <1>2 DEF AdvertisingKnown, ServiceKnown, Signal
  <2>4. ScanKnown' /\ LinkKnown'
    BY <1>2 DEF Flags, ScanKnown, LinkKnown, Signal
  <2> QED
    BY <2>1, <2>2, <2>3, <2>4
<1>3. CASE Tick
  BY <1>3, RadioAssumption DEF Flags, Values, AdvertisingKnown, ScanKnown, LinkKnown,
     ServiceKnown, Awaits, Other, Tick
<1> QED
  BY <1>1, <1>2, <1>3

(* The host and the clients.                                               *)
LEMMA HostKeeps ==
  ASSUME RadioInv, Host \/ Clients
  PROVE  RadioInv'
<1> USE DEF RadioInv, Cleaning, past, control, owned, host, power, service, Goto, StopActivity,
     SlotFails, SlotEnds
<1>1. CASE LinkComesUp
  BY <1>1, RadioAssumption DEF Flags, Values, AdvertisingKnown, ScanKnown, LinkKnown,
     ServiceKnown, Awaits, Other, LinkComesUp
<1>2. CASE PowerOff
  <2>1. Flags'
    BY <1>2 DEF Flags, PowerOff
  <2>2. Values'
    BY <1>2, RadioAssumption DEF Values, Awaits, Other, PowerOff
  <2>3. AdvertisingKnown' /\ ServiceKnown'
    BY <1>2 DEF AdvertisingKnown, ServiceKnown, PowerOff
  <2>4. ScanKnown' /\ LinkKnown'
    BY <1>2 DEF Flags, ScanKnown, LinkKnown, PowerOff
  <2> QED
    BY <2>1, <2>2, <2>3, <2>4
<1>3. CASE PowerOn
  BY <1>3, RadioAssumption DEF Flags, Values, AdvertisingKnown, ScanKnown, LinkKnown,
     ServiceKnown, Awaits, Other, PowerOn
<1>4. CASE PowerEvent
  <2>1. Flags'
    BY <1>4 DEF Flags, PowerEvent
  <2>2. Values'
    BY <1>4, RadioAssumption DEF Values, Awaits, Other, PowerEvent
  <2>3. AdvertisingKnown' /\ ServiceKnown'
    BY <1>4 DEF AdvertisingKnown, ServiceKnown, PowerEvent
  <2>4. ScanKnown' /\ LinkKnown'
    BY <1>4 DEF Flags, ScanKnown, LinkKnown, PowerEvent
  <2> QED
    BY <2>1, <2>2, <2>3, <2>4
<1>5. CASE EventsEnd
  BY <1>5, RadioAssumption DEF Flags, Values, AdvertisingKnown, ScanKnown, LinkKnown,
     ServiceKnown, Awaits, Other, EventsEnd
<1>6. CASE ClientConnects
  BY <1>6, RadioAssumption DEF Flags, Values, AdvertisingKnown, ScanKnown, LinkKnown,
     ServiceKnown, Awaits, Other, ClientConnects
<1>7. CASE ClientBegins
  BY <1>7, RadioAssumption DEF Flags, Values, AdvertisingKnown, ScanKnown, LinkKnown,
     ServiceKnown, Awaits, Other, ClientBegins
<1>8. CASE LeaseEnds
  <2>1. Flags'
    BY <1>8 DEF Flags, LeaseEnds
  <2>2. Values'
    BY <1>8, RadioAssumption DEF Values, Awaits, Other, LeaseEnds
  <2>3. AdvertisingKnown' /\ ServiceKnown'
    BY <1>8 DEF AdvertisingKnown, ServiceKnown, LeaseEnds
  <2>4. ScanKnown' /\ LinkKnown'
    BY <1>8 DEF Flags, ScanKnown, LinkKnown, LeaseEnds
  <2> QED
    BY <2>1, <2>2, <2>3, <2>4
<1> QED
  BY <1>1, <1>2, <1>3, <1>4, <1>5, <1>6, <1>7, <1>8 DEF Host, Clients

LEMMA RadioNextKeeps == RadioInv /\ [Next]_vars => RadioInv'
<1> SUFFICES ASSUME RadioInv, [Next]_vars PROVE RadioInv'
  OBVIOUS
<1>1. CASE Run
  BY <1>1, InitializeKeeps, OthersKeep, PeripheralKeeps, CentralKeeps, CleanKeeps DEF Run
<1>2. CASE Signal \/ Tick
  BY <1>2, OthersKeep
<1>3. CASE Host \/ Clients
  BY <1>3, HostKeeps
<1>4. CASE UNCHANGED vars
  BY <1>4 DEF vars, past, control, owned, host, power, service, RadioInv, Flags, Values,
     AdvertisingKnown, ScanKnown, LinkKnown, ServiceKnown
<1> QED
  BY <1>1, <1>2, <1>3, <1>4 DEF Next

(* The inductive invariant.                                                *)
THEOREM RadioInvariant == Spec => []RadioInv
BY InitRadioInv, RadioNextKeeps, PTL DEF Spec

(* RadioTypeOK: the timer of an exchange never runs below zero, and the    *)
(* clients stay within their number.                                       *)
THEOREM RadioTypeCorrect == Spec => []RadioTypeOK
<1>1. RadioInv => RadioTypeOK
  BY TypeAgrees DEF RadioInv
<1> QED
  BY <1>1, RadioInvariant, PTL

(* The flags by which stop_activity() goes cover everything that is on,    *)
(* and they are all down where run() begins a role.                        *)
LEMMA KnownLeavesNothing == RadioInv => NoLeftovers
BY DEF RadioInv, NoLeftovers, AdvertisingKnown, ScanKnown, LinkKnown, ServiceKnown, Cleaning

(* NoLeftovers: no role is begun ("Do not start another role until         *)
(* previous radio operations are stopped", run) while anything of the last *)
(* one is still on in the host.                                            *)
THEOREM RadioLeavesNothing == Spec => []NoLeftovers
BY KnownLeavesNothing, RadioInvariant, PTL

(* The same flags are down where cleanup() has returned without an error.  *)
LEMMA KnownStopsClean == RadioInv => CleanStop
BY DEF RadioInv, CleanStop, AdvertisingKnown, ScanKnown, LinkKnown, Cleaning

(* CleanStop: an end that is reported as clean leaves nothing running.     *)
THEOREM RadioStopsClean == Spec => []CleanStop
BY KnownStopsClean, RadioInvariant, PTL
=============================================================================
