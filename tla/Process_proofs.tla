---------------------------- MODULE Process_proofs ----------------------------
(***************************************************************************)
(* That the tabs, the viewer and main() agree on one setup, for any tabs,  *)
(* configurations and submissions, and whatever the radio does meanwhile;  *)
(* that the radio within the process is the Radio; and that the page shows *)
(* what the radio does.                                                    *)
(*                                                                         *)
(* The setup passes from a tab's request to the viewer under its lock, and *)
(* to the channel after it; main() takes it from the channel and compares  *)
(* nothing.  What holds it together is the sender: it is there until one   *)
(* request has taken it, and what is in the channel is that request's.     *)
(***************************************************************************)
EXTENDS Process, Radio_proofs

-----------------------------------------------------------------------------
(* What the checks of Config promise each other.  The Web Viewer lets a    *)
(* setup pass before main() has it, and the radio counts on the times that *)
(* were checked when the process began.                                    *)

(* A setup puts nothing into the configuration but what it was checked     *)
(* for: it leaves all times, limits and the URL alone.                     *)
LEMMA AppliedFields ==
  ASSUME NEW c \in Config, NEW s \in SetupRequest
  PROVE  /\ ApplyTo(s, c) \in Config
         /\ ApplyTo(s, c).name = s.name /\ ApplyTo(s, c).deck = s.deck
         /\ \A k \in {"rssiThreshold", "roleMin", "roleMax", "exchangeTimeout", "drain",
                      "cooldown", "webPort", "postUrl"} : ApplyTo(s, c)[k] = c[k]
<1>1. ApplyTo(s, c) = [c EXCEPT !.name = s.name, !.deck = s.deck]
  BY DEF ApplyTo
<1>2. s.name \in Nat /\ s.deck \in Deck
  BY DEF SetupRequest
<1> QED
  BY <1>1, <1>2 DEF Config

LEMMA FromConfigType ==
  ASSUME NEW c \in Config PROVE FromConfig(c) \in SetupRequest
BY DEF FromConfig, SetupRequest, Config

(* The second validate of main() refuses nothing that api_start accepted.  *)
THEOREM AcceptedIsAllowed ==
  ASSUME NEW c \in Config, NEW s \in SetupRequest, ConfigAllowed(c), SetupAllowed(s)
  PROVE  ConfigAllowed(ApplyTo(s, c))
<1>1. NameAllowed(ApplyTo(s, c).name) /\ DeckAllowed(ApplyTo(s, c).deck)
  BY AppliedFields DEF SetupAllowed
<1>2. /\ ApplyTo(s, c).rssiThreshold = c.rssiThreshold
      /\ ApplyTo(s, c).roleMin = c.roleMin /\ ApplyTo(s, c).roleMax = c.roleMax
      /\ ApplyTo(s, c).exchangeTimeout = c.exchangeTimeout
      /\ ApplyTo(s, c).drain = c.drain /\ ApplyTo(s, c).cooldown = c.cooldown
      /\ ApplyTo(s, c).webPort = c.webPort /\ ApplyTo(s, c).postUrl = c.postUrl
  BY DEF ApplyTo, Config
<1> QED
  BY <1>1, <1>2 DEF ConfigAllowed

(* What the page offers at first is a setup api_start would accept.        *)
THEOREM OfferedIsAllowed ==
  ASSUME NEW c \in Config, ConfigAllowed(c)
  PROVE  SetupAllowed(FromConfig(c))
BY DEF SetupAllowed, ConfigAllowed, FromConfig

(* A setup is shown again as it was given.                                 *)
THEOREM AppliedIsOffered ==
  ASSUME NEW c \in Config, NEW s \in SetupRequest
  PROVE  FromConfig(ApplyTo(s, c)) = s
<1>1. ApplyTo(s, c).name = s.name /\ ApplyTo(s, c).deck = s.deck
  BY AppliedFields
<1> QED
  BY <1>1 DEF FromConfig, SetupRequest

(* However a role's duration is drawn, and however often it is extended,   *)
(* an exchange fits into it: the assumption of Radio on its windows.       *)
THEOREM ExchangeFits ==
  ASSUME NEW c \in Config, ConfigAllowed(c), NEW d \in Nat, MayLast(c, d)
  PROVE  d >= c.exchangeTimeout
<1>1. PICK more \in 0 .. d : (more + 1) * c.roleMin <= d
  BY DEF MayLast
<1>2. c.roleMin \in Nat /\ c.exchangeTimeout \in Nat /\ c.roleMin >= c.exchangeTimeout
  BY DEF ConfigAllowed, Config
<1>3. (more + 1) * c.roleMin = more * c.roleMin + c.roleMin
  BY <1>1, <1>2
<1>4. more * c.roleMin \in Nat
  BY <1>1, <1>2
<1> QED
  BY <1>1, <1>2, <1>3, <1>4

-----------------------------------------------------------------------------
(* The setup. *)

Steps == {"Launch", "Setup", "Radio", "Closing", "Dropping", "Ended"}

PageTypeOK ==
  /\ main \in Steps /\ web \in BOOLEAN /\ config \in Config /\ viewer \in Meta
  /\ channel \in SetupRequest \cup {None}
  /\ tab \in [Tab -> [at : {"Idle", "Posted", "Taken", "Accepted", "Failed"},
                      setup : SetupRequest \cup {None}]]

(* A request under way or accepted has a setup, and it was checked before  *)
(* the sender was taken.                                                   *)
SetupChecked ==
  \A b \in Tab :
    /\ tab[b].at # "Idle" => tab[b].setup \in SetupRequest
    /\ Winner(b) => SetupAllowed(tab[b].setup) /\ tab[b].setup = viewer.setup

(* The sender is taken once.                                               *)
OneSender ==
  /\ viewer.sender => \A b \in Tab : ~Winner(b)
  /\ \A b, c \in Tab : Winner(b) /\ Winner(c) => b = c

(* The channel holds the setup that was accepted.                          *)
ChannelHolds ==
  channel # None => \E b \in Tab : tab[b].at = "Accepted" /\ tab[b].setup = channel

RunsAsAccepted ==
  web /\ main = "Radio" =>
    \E b \in Tab : tab[b].at = "Accepted" /\ FromConfig(config) = tab[b].setup

(* Requests come only to a server, which main() waits for at its end.      *)
ServerOutlives ==
  /\ main \in {"Launch", "Dropping", "Ended"} \/ ~web => InFlight = {}
  /\ main = "Setup" => ConfigAllowed(config)
  /\ \A b \in Tab : tab[b].at # "Failed"

PageInv ==
  /\ PageTypeOK /\ SetupChecked /\ OneSender /\ ChannelHolds /\ RunsAsAccepted /\ ServerOutlives

-----------------------------------------------------------------------------

LEMMA InitPageInv == ProcessInit => PageInv
<1> SUFFICES ASSUME ProcessInit PROVE PageInv
  OBVIOUS
<1>1. PageTypeOK
  BY ProcessAssumption, FromConfigType DEF ProcessInit, PageTypeOK, Steps, Meta, NoRequest
<1>2. \A b \in Tab : tab[b].at = "Idle"
  BY DEF ProcessInit, NoRequest
<1> QED
  BY <1>1, <1>2 DEF PageInv, ProcessInit, SetupChecked, OneSender, ChannelHolds,
     RunsAsAccepted, ServerOutlives, Winner, InFlight

-----------------------------------------------------------------------------
(* The requests. *)

(* What a request's handler does to the tabs.                              *)
LEMMA TabAtType ==
  ASSUME PageTypeOK, NEW b \in Tab, TabAt(b, "Taken") \/ TabAt(b, "Accepted")
  PROVE  /\ tab'[b].setup = tab[b].setup
         /\ \A c \in Tab \ {b} : tab'[c] = tab[c]
         /\ tab' \in [Tab -> [at : {"Idle", "Posted", "Taken", "Accepted", "Failed"},
                             setup : SetupRequest \cup {None}]]
BY DEF PageTypeOK, TabAt

LEMMA PostKeeps ==
  ASSUME PageInv, NEW b \in Tab, Post(b)
  PROVE  PageInv'
<1>1. PICK s \in Asks[b] : tab' = [tab EXCEPT ![b] = [at |-> "Posted", setup |-> s]]
  BY DEF Post
<1>2. s \in SetupRequest
  BY ProcessAssumption
<1>3. /\ tab'[b] = [at |-> "Posted", setup |-> s]
      /\ \A c \in Tab \ {b} : tab'[c] = tab[c]
      /\ tab[b].at = "Idle"
  BY <1>1 DEF Post, PageInv, PageTypeOK
<1>4. UNCHANGED <<main, web, config, channel, viewer>> /\ web /\ main = "Setup"
  BY DEF Post
<1>5. PageTypeOK'
  BY <1>1, <1>2, <1>4 DEF PageInv, PageTypeOK
<1>6. SetupChecked' /\ OneSender'
  BY <1>2, <1>3, <1>4 DEF PageInv, SetupChecked, OneSender, Winner
<1>7. ChannelHolds' /\ RunsAsAccepted'
  BY <1>3, <1>4 DEF PageInv, ChannelHolds, RunsAsAccepted
<1>8. ServerOutlives'
  BY <1>3, <1>4 DEF PageInv, ServerOutlives
<1> QED
  BY <1>5, <1>6, <1>7, <1>8 DEF PageInv

LEMMA RefuseKeeps ==
  ASSUME PageInv, NEW b \in Tab, Refuse(b)
  PROVE  PageInv'
<1>1. /\ tab' = [tab EXCEPT ![b] = NoRequest]
      /\ UNCHANGED <<main, web, config, channel, viewer>>
      /\ tab[b].at = "Posted"
  BY DEF Refuse
<1>2. /\ tab'[b] = NoRequest
      /\ \A c \in Tab \ {b} : tab'[c] = tab[c]
  BY <1>1 DEF PageInv, PageTypeOK
<1>3. PageTypeOK'
  BY <1>1 DEF PageInv, PageTypeOK, NoRequest
<1>4. SetupChecked' /\ OneSender'
  BY <1>1, <1>2 DEF PageInv, SetupChecked, OneSender, Winner, NoRequest
<1>5. ChannelHolds' /\ RunsAsAccepted'
  BY <1>1, <1>2 DEF PageInv, ChannelHolds, RunsAsAccepted
<1>6. InFlight' \subseteq InFlight
  BY <1>2 DEF InFlight, NoRequest
<1>7. ServerOutlives'
  BY <1>1, <1>2, <1>6 DEF PageInv, ServerOutlives, NoRequest
<1> QED
  BY <1>3, <1>4, <1>5, <1>7 DEF PageInv

(* The first to find the sender: nobody has won before.                    *)
LEMMA TakeSenderKeeps ==
  ASSUME PageInv, NEW b \in Tab, TakeSender(b)
  PROVE  PageInv'
<1>1. /\ tab[b].at = "Posted" /\ SetupAllowed(tab[b].setup) /\ viewer.sender
      /\ viewer' = [viewer EXCEPT !.sender = FALSE, !.setup = tab[b].setup,
                                  !.phase = "starting"]
      /\ TabAt(b, "Taken")
      /\ UNCHANGED <<main, web, config, channel>>
  BY DEF TakeSender
<1>2. tab[b].setup \in SetupRequest
  BY <1>1 DEF PageInv, SetupChecked
<1>3. /\ tab'[b].at = "Taken" /\ tab'[b].setup = tab[b].setup
      /\ \A c \in Tab \ {b} : tab'[c] = tab[c]
  BY <1>1, TabAtType DEF TabAt, PageInv, PageTypeOK
<1>4. ~viewer'.sender /\ viewer'.setup = tab[b].setup /\ viewer' \in Meta
  BY <1>1, <1>2 DEF PageInv, PageTypeOK, Meta
<1>5. \A c \in Tab : ~Winner(c)
  BY <1>1 DEF PageInv, OneSender
<1>6. PageTypeOK'
  BY <1>1, <1>4, TabAtType DEF PageInv, PageTypeOK
<1>7. SetupChecked' /\ OneSender'
  BY <1>1, <1>2, <1>3, <1>4, <1>5 DEF PageInv, SetupChecked, OneSender, Winner
<1>8. ChannelHolds' /\ RunsAsAccepted'
  BY <1>1, <1>3, <1>5 DEF PageInv, ChannelHolds, RunsAsAccepted, Winner
<1>9. InFlight' = InFlight /\ (\A c \in Tab : tab'[c].at # "Failed")
  BY <1>1, <1>3 DEF InFlight, PageInv, ServerOutlives
<1>10. ServerOutlives'
  BY <1>1, <1>9 DEF PageInv, ServerOutlives
<1> QED
  BY <1>6, <1>7, <1>8, <1>10 DEF PageInv

(* The receiver is still there, for main waits for this very request.      *)
LEMMA SendSetupKeeps ==
  ASSUME PageInv, NEW b \in Tab, SendSetup(b)
  PROVE  PageInv'
<1>1. tab[b].at = "Taken" /\ UNCHANGED <<main, web, config, viewer>>
  BY DEF SendSetup
<1>2. main \notin {"Dropping", "Ended"}
  BY <1>1 DEF PageInv, ServerOutlives, InFlight
<1>3. TabAt(b, "Accepted") /\ channel' = tab[b].setup
  BY <1>2 DEF SendSetup
<1>4. tab[b].setup \in SetupRequest /\ Winner(b)
  BY <1>1 DEF PageInv, SetupChecked, Winner
<1>5. /\ tab'[b].at = "Accepted" /\ tab'[b].setup = tab[b].setup
      /\ \A c \in Tab \ {b} : tab'[c] = tab[c]
  BY <1>3, TabAtType DEF TabAt, PageInv, PageTypeOK
<1>6. PageTypeOK'
  BY <1>1, <1>3, <1>4, TabAtType DEF PageInv, PageTypeOK
<1>7. SetupChecked' /\ OneSender'
  BY <1>1, <1>4, <1>5 DEF PageInv, SetupChecked, OneSender, Winner
<1>8. ChannelHolds'
  BY <1>3, <1>5 DEF ChannelHolds
<1>9. RunsAsAccepted'
  BY <1>1, <1>5 DEF PageInv, RunsAsAccepted
<1>10. InFlight' \subseteq InFlight /\ (\A c \in Tab : tab'[c].at # "Failed")
  BY <1>5 DEF InFlight, PageInv, ServerOutlives
<1>11. ServerOutlives'
  BY <1>1, <1>10 DEF PageInv, ServerOutlives
<1> QED
  BY <1>6, <1>7, <1>8, <1>9, <1>11 DEF PageInv

-----------------------------------------------------------------------------
(* main() and the radio. *)

(* A step that leaves the page alone, the viewer's phase, role and error   *)
(* excepted.                                                               *)
LEMMA PageKept ==
  ASSUME PageInv, UNCHANGED <<web, config, channel, tab>>,
         viewer' \in Meta, viewer'.setup = viewer.setup, viewer'.sender = viewer.sender,
         main' \in Steps,
         main' = main \/ main' = "Closing"
         \/ (main' \in {"Dropping", "Ended"} /\ InFlight = {})
         \/ (main' = "Setup" /\ ConfigAllowed(config))
         \/ (main' = "Radio" /\ ~web)
  PROVE  PageInv'
<1>1. PageTypeOK'
  BY DEF PageInv, PageTypeOK
<1>2. SetupChecked' /\ OneSender' /\ ChannelHolds' /\ RunsAsAccepted'
  BY DEF PageInv, SetupChecked, OneSender, ChannelHolds, RunsAsAccepted, Winner
<1>3. ServerOutlives'
  BY DEF PageInv, ServerOutlives, InFlight
<1> QED
  BY <1>1, <1>2, <1>3 DEF PageInv

LEMMA MainKeeps ==
  ASSUME PageInv, Launch \/ SignalInSetup \/ RadioEnds \/ ServerEnds \/ RuntimeEnds
  PROVE  PageInv'
<1>1. viewer \in Meta /\ UNCHANGED <<web, config, page>>
  BY DEF PageInv, PageTypeOK, Launch, SignalInSetup, RadioEnds, ServerEnds, RuntimeEnds
<1>2. \/ main' = "Closing"
      \/ main' \in {"Dropping", "Ended"} /\ InFlight = {}
      \/ main' = "Setup" /\ ConfigAllowed(config)
      \/ main' = "Radio" /\ ~web
  BY DEF Launch, SignalInSetup, RadioEnds, ServerEnds, RuntimeEnds, MainAt, PageInv,
     ServerOutlives
<1> QED
  BY <1>1, <1>2, PageKept DEF page, Steps

(* What was accepted passes the second check.                              *)
LEMMA SetupArrivesKeeps ==
  ASSUME PageInv, SetupArrives
  PROVE  PageInv'
<1>1. PICK b \in Tab : tab[b].at = "Accepted" /\ tab[b].setup = channel
  BY DEF PageInv, ChannelHolds, SetupArrives
<1>2. SetupAllowed(channel) /\ channel \in SetupRequest
  BY <1>1 DEF PageInv, SetupChecked, Winner
<1>3. config \in Config /\ ConfigAllowed(config)
  BY DEF PageInv, PageTypeOK, ServerOutlives, SetupArrives
<1>4. config' = ApplyTo(channel, config)
  BY DEF SetupArrives
<1>5. ConfigAllowed(config') /\ config' \in Config /\ FromConfig(config') = channel
  BY <1>2, <1>3, <1>4, AcceptedIsAllowed, AppliedFields, AppliedIsOffered
<1>6. /\ main' = "Radio"
      /\ viewer' = [viewer EXCEPT !.phase = "running", !.error = FALSE, !.role = "Init"]
      /\ UNCHANGED <<web, channel, tab>> /\ main = "Setup"
  BY <1>5 DEF SetupArrives, MainAt
<1>7. viewer' \in Meta /\ viewer'.setup = viewer.setup /\ viewer'.sender = viewer.sender
  BY <1>6 DEF PageInv, PageTypeOK, Meta
<1>8. PageTypeOK'
  BY <1>5, <1>6, <1>7 DEF PageInv, PageTypeOK, Steps
<1>9. SetupChecked' /\ OneSender' /\ ChannelHolds'
  BY <1>6, <1>7 DEF PageInv, SetupChecked, OneSender, ChannelHolds, Winner
<1>10. RunsAsAccepted'
  BY <1>1, <1>5, <1>6 DEF RunsAsAccepted
<1>11. InFlight' = InFlight
  BY <1>6 DEF InFlight
<1>12. ServerOutlives'
  BY <1>6, <1>11 DEF PageInv, ServerOutlives
<1> QED
  BY <1>8, <1>9, <1>10, <1>12 DEF PageInv

(* The radio tells the viewer nothing of the setup.                        *)
LEMMA ReportKeeps ==
  ASSUME viewer \in Meta
  PROVE  Report \in Meta /\ Report.setup = viewer.setup /\ Report.sender = viewer.sender
<1> DEFINE Marks == [viewer EXCEPT !.phase = "stopped", !.role = "none"]
<1>1. Report \in {Marks, [viewer EXCEPT !.error = TRUE], Shows("Peripheral"), Shows("Drain"),
                  Shows("Central"), viewer}
  BY DEF Report
<1>2. \A v \in {Marks, [viewer EXCEPT !.error = TRUE], Shows("Peripheral"), Shows("Drain"),
                 Shows("Central"), viewer} :
        v \in Meta /\ v.setup = viewer.setup /\ v.sender = viewer.sender
  BY DEF Meta, Shows
<1> QED
  BY <1>1, <1>2

LEMMA RadioKeeps ==
  ASSUME PageInv, UNCHANGED <<main, web, config, channel, tab>>,
         viewer' = IF web THEN Report ELSE viewer
  PROVE  PageInv'
<1>1. viewer \in Meta /\ main \in Steps
  BY DEF PageInv, PageTypeOK
<1>2. viewer' \in Meta /\ viewer'.setup = viewer.setup /\ viewer'.sender = viewer.sender
  BY <1>1, ReportKeeps
<1> QED
  BY <1>1, <1>2, PageKept

-----------------------------------------------------------------------------

LEMMA NextKeeps == PageInv /\ [ProcessNext]_pvars => PageInv'
<1> SUFFICES ASSUME PageInv, [ProcessNext]_pvars PROVE PageInv'
  OBVIOUS
<1>1. CASE \E b \in Tab : Post(b) \/ Handle(b)
  BY <1>1, PostKeeps, RefuseKeeps, TakeSenderKeeps, SendSetupKeeps DEF Handle
<1>2. CASE Main \/ SignalInSetup
  BY <1>2, MainKeeps, SetupArrivesKeeps DEF Main
<1>3. CASE During(Run) \/ During(Signal) \/ During(Tick) \/ During(Host) \/ During(Clients)
  BY <1>3, RadioKeeps DEF During
<1>4. CASE UNCHANGED pvars
  <2>1. viewer \in Meta /\ main \in Steps
    BY DEF PageInv, PageTypeOK
  <2> QED
    BY <1>4, <2>1, PageKept DEF pvars, page
<1> QED
  BY <1>1, <1>2, <1>3, <1>4 DEF ProcessNext

(* The inductive invariant.                                                *)
THEOREM PageInvariant == ProcessSpec => []PageInv
BY InitPageInv, NextKeeps, PTL DEF ProcessSpec

(* SetupAgreed: the page shows, and the radio runs with, the setup of the  *)
(* one tab that was told it is accepted.                                   *)
THEOREM SetupAlwaysAgreed == ProcessSpec => []SetupAgreed
<1>1. PageInv => SetupAgreed
  BY DEF PageInv, SetupAgreed, SetupChecked, OneSender, RunsAsAccepted
<1> QED
  BY <1>1, PageInvariant, PTL

(* "CLIへ設定を渡せませんでした" is never answered: no request that took the   *)
(* sender finds the receiver gone.                                         *)
THEOREM NeverUndelivered == ProcessSpec => [](\A b \in Tab : tab[b].at # "Failed")
<1>1. PageInv => \A b \in Tab : tab[b].at # "Failed"
  BY DEF PageInv, ServerOutlives
<1> QED
  BY <1>1, PageInvariant, PTL

-----------------------------------------------------------------------------
(* The radio within the process: between the steps of main() and of the    *)
(* handlers it is the Radio, and what holds of that holds here.            *)

LEMMA ProcessStepsRadio == [ProcessNext]_pvars => [Next]_vars
BY DEF ProcessNext, Post, Handle, Refuse, TakeSender, SendSetup, Main, Launch, SetupArrives,
   RadioEnds, ServerEnds, RuntimeEnds, SignalInSetup, During, Next, pvars

(* However requests, main() and the radio interleave, the radio takes the  *)
(* steps of its own specification and no other.                            *)
THEOREM ProcessRunsRadio == ProcessSpec => Spec
<1>1. ProcessInit => Init
  BY DEF ProcessInit
<1> QED
  BY <1>1, ProcessStepsRadio, PTL DEF ProcessSpec, Spec

(* RadioInv also holds in the whole process: main() only begins run_radio  *)
(* and drops nothing of it, so the flags cleanup() goes by are right       *)
(* there too.                                                              *)
THEOREM ProcessRadioInvariant == ProcessSpec => []RadioInv
BY ProcessRunsRadio, RadioInvariant

(* ProcessTypeOK: every value stays in its type, whatever is submitted.    *)
THEOREM ProcessTypeCorrect == ProcessSpec => []ProcessTypeOK
<1>1. RadioInv /\ PageInv => ProcessTypeOK
  BY TypeAgrees DEF RadioInv, PageInv, PageTypeOK, ProcessTypeOK, Steps
<1> QED
  BY <1>1, ProcessRadioInvariant, PageInvariant, PTL

(* NoLeftovers, with a web server and its tabs beside the radio: nothing   *)
(* of the last role is on when the next begins.                            *)
THEOREM ProcessLeavesNothing == ProcessSpec => []NoLeftovers
BY KnownLeavesNothing, ProcessRadioInvariant, PTL

(* CleanStop: a process that ends the radio without an error has stopped   *)
(* what it had started.                                                    *)
THEOREM ProcessStopsClean == ProcessSpec => []CleanStop
BY KnownStopsClean, ProcessRadioInvariant, PTL

-----------------------------------------------------------------------------
(* What the page shows.  The viewer hears of the radio only at the start   *)
(* of a slot, of the drain and of a cleanup; between them, what is shown   *)
(* stays true because the radio moves within the slot.                     *)

InitAt == {"InitAdapter", "InitServer", "InitPower"}
PeripheralAt == {"StartAdv", "Advertise", "StopAdv"}
DrainAt == {"Drain", "Poll"}
CentralAt == {"Search", "StartScan", "Scan", "StopScan", "Rest", "Exchange", "Disconnect",
              "Backoff"}

(* The radio has not moved before main() runs it.                          *)
NotBefore == main \in {"Launch", "Setup"} => at \in InitAt /\ after = "Retry"

(* While the page says that the radio runs, no exit has begun, the role    *)
(* shown is the one of the place the run is at, or in a cleanup the one    *)
(* whose operations are being stopped, and an error is shown from a        *)
(* cleanup to the next slot.                                               *)
ShownAsRun ==
  web /\ main = "Radio" /\ viewer.phase = "running" =>
    /\ after = "Retry" /\ at # "Stopped"
    /\ at \in PeripheralAt => viewer.role = "Peripheral"
    /\ at \in DrainAt => viewer.role = "Drain"
    /\ at \in CentralAt => viewer.role = "Central"
    /\ at \in Cleaning =>
         /\ viewer.error
         /\ advertising => viewer.role = "Peripheral"
         /\ hostScan => viewer.role = "Central"
         /\ linkUp => viewer.role = "Central" \/ abandoned
    /\ viewer.error => at \in Cleaning \cup {"Choose"}

ShownInv == NotBefore /\ ShownAsRun

(* The moves of a run that has not begun to exit.                          *)
Moves ==
  \/ at' \in {at, "CleanLink"}
  \/ at \in InitAt /\ at' \in InitAt \cup {"Choose"}
  \/ at = "Choose" /\ at' \in {"StartAdv", "Search"}
  \/ at \in PeripheralAt /\ at' \in PeripheralAt
  \/ at = "StopAdv" /\ at' = "Drain"
  \/ at \in DrainAt /\ at' \in DrainAt \cup {"Choose"}
  \/ at \in CentralAt /\ at' \in CentralAt \cup {"Choose"}
  \/ at \in Cleaning /\ at' \in Cleaning \cup {"Choose"}

(* Only its own place switches an operation on.                            *)
SwitchesOn ==
  /\ advertising' => advertising \/ at = "StartAdv"
  /\ hostScan' => hostScan \/ at = "StartScan"
  /\ linkUp' => linkUp \/ at = "Exchange"
  /\ abandoned => abandoned'

LEMMA RadioMoves ==
  ASSUME RadioInv, Next, after = "Retry"
  PROVE  Moves /\ SwitchesOn /\ (after' = "Retry" \/ at' = "CleanLink")
<1> USE DEF Moves, SwitchesOn, InitAt, PeripheralAt, DrainAt, CentralAt, Cleaning, past, control,
     owned, host, Goto, StopActivity, SlotFails, SlotEnds, Passes
<1>1. CASE Initialize \/ Choose
  BY <1>1 DEF Initialize, InitAdapter, InitServer, AddService, InitFails, Choose
<1>2. CASE PeripheralStep
  BY <1>2 DEF PeripheralStep, StartAdvertising, StartAdvertisingFails, AdvertisingEnds,
     StopAdvertising, StopAdvertisingFails, DrainEnds, Poll
<1>3. CASE CentralStep
  <2>1. Moves /\ (after' = "Retry" \/ at' = "CleanLink")
    BY <1>3 DEF CentralStep, Search, StartScan, StartScanRefused, StartScanTimedOut, ScanEnds,
       StopScan, StopScanFails, BeginExchange, RestEnds, ExchangeEnds, Disconnect,
       DisconnectFails, BackoffEnds
  <2>2. SwitchesOn
    BY <1>3 DEF CentralStep, Search, StartScan, StartScanRefused, StartScanTimedOut, ScanEnds,
       StopScan, StopScanFails, RestEnds, ExchangeEnds, Disconnect, DisconnectFails,
       BackoffEnds
  <2> QED
    BY <2>1, <2>2
<1>4. CASE CleanStep
  <2>1. Moves /\ (after' = "Retry" \/ at' = "CleanLink")
    BY <1>4 DEF CleanStep, CleanLink, CleanScan, CleanAdv, Cleaned
  <2>2. CASE CleanLink
    <3>1. linkUp' => linkUp
      BY <2>2 DEF CleanLink
    <3>2. abandoned => abandoned'
      BY <2>2 DEF CleanLink
    <3> QED
      BY <2>1, <2>2, <3>1, <3>2 DEF CleanLink
  <2>3. CASE CleanScan
    BY <2>1, <2>3 DEF CleanScan
  <2>4. CASE CleanAdv
    <3>1. advertising' => advertising
      BY <2>4 DEF CleanAdv
    <3>2. UNCHANGED <<hostScan, linkUp, abandoned>>
      BY <2>4 DEF CleanAdv
    <3> QED
      BY <2>1, <3>1, <3>2
  <2> QED
    BY <1>4, <2>2, <2>3, <2>4 DEF CleanStep
<1>5. CASE Signal
  BY <1>5 DEF Signal
<1>6. CASE Tick \/ Host \/ Clients
  BY <1>6 DEF Tick, Host, LinkComesUp, PowerOff, PowerOn, PowerEvent, EventsEnd,
     Clients, ClientConnects, ClientBegins, LeaseEnds
<1> QED
  BY <1>1, <1>2, <1>3, <1>4, <1>5, <1>6 DEF Next, Run

(* What the report makes of the viewer.                                    *)
LEMMA ReportFields ==
  ASSUME viewer \in Meta, viewer' = Report
  PROVE  /\ viewer'.phase = IF after' = "Exit" /\ at' = "CleanLink" THEN "stopped"
                            ELSE viewer.phase
         /\ after' = "Retry" /\ Enters("CleanLink") => viewer'.role = viewer.role /\ viewer'.error
         /\ Enters("StartAdv") => viewer'.role = "Peripheral" /\ ~viewer'.error
         /\ Enters("Drain") => viewer'.role = "Drain" /\ ~viewer'.error
         /\ at = "Choose" /\ Enters("Search") => viewer'.role = "Central" /\ ~viewer'.error
         /\ \/ at' = at
            \/ at' \notin {"CleanLink", "StartAdv", "Drain", "Search"}
            \/ at # "Choose" /\ at' = "Search"
            => viewer' = viewer \/ (after' = "Exit" /\ at' = "CleanLink")
<1>1. CASE after' = "Exit" /\ at' = "CleanLink"
  <2>1. viewer' = [viewer EXCEPT !.phase = "stopped", !.role = "none"]
    BY <1>1 DEF Report, Enters
  <2> QED
    BY <1>1, <2>1 DEF Meta, Enters
<1>2. CASE after' = "Retry" /\ Enters("CleanLink")
  <2>1. viewer' = [viewer EXCEPT !.error = TRUE]
    BY <1>2 DEF Report, Enters
  <2> QED
    BY <1>2, <2>1 DEF Meta, Enters
<1>3. CASE Enters("StartAdv")
  <2>1. viewer' = Shows("Peripheral")
    BY <1>3 DEF Report, Enters
  <2> QED
    BY <1>3, <2>1 DEF Meta, Enters, Shows
<1>4. CASE Enters("Drain")
  <2>1. viewer' = Shows("Drain")
    BY <1>4 DEF Report, Enters
  <2> QED
    BY <1>4, <2>1 DEF Meta, Enters, Shows
<1>5. CASE at = "Choose" /\ Enters("Search")
  <2>1. viewer' = Shows("Central")
    BY <1>5 DEF Report, Enters
  <2> QED
    BY <1>5, <2>1 DEF Meta, Enters, Shows
<1>6. CASE /\ ~(after' = "Exit" /\ at' = "CleanLink")
           /\ ~(after' = "Retry" /\ Enters("CleanLink"))
           /\ ~Enters("StartAdv") /\ ~Enters("Drain") /\ ~(at = "Choose" /\ Enters("Search"))
  <2>1. viewer' = viewer
    BY <1>6 DEF Report
  <2> QED
    BY <1>6, <2>1
<1> QED
  BY <1>1, <1>2, <1>3, <1>4, <1>5, <1>6

LEMMA ReportShows ==
  ASSUME RadioInv, RadioInv', ShownAsRun, viewer \in Meta, Next, web, main = "Radio",
         viewer' = Report, UNCHANGED <<main, web>>
  PROVE  ShownAsRun'
<1> SUFFICES ASSUME viewer'.phase = "running" PROVE ShownAsRun'
  BY DEF ShownAsRun
<1>1. viewer.phase = "running" /\ ~(after' = "Exit" /\ at' = "CleanLink")
  BY ReportFields
<1>2. after = "Retry" /\ at # "Stopped"
  BY <1>1 DEF ShownAsRun
<1>3. Moves /\ SwitchesOn /\ (after' = "Retry" \/ at' = "CleanLink")
  BY <1>2, RadioMoves
<1>4. after' = "Retry"
  BY <1>1, <1>3 DEF RadioInv, Values
<1>5. at' # "Stopped"
  BY <1>2, <1>3 DEF Moves, InitAt, PeripheralAt, DrainAt, CentralAt, Cleaning
<1>6. CASE at' = "CleanLink"
  BY <1>1, <1>2, <1>3, <1>4, <1>6, ReportFields DEF ShownAsRun, Enters, RadioInv,
     AdvertisingKnown, ScanKnown, LinkKnown, SwitchesOn, InitAt, PeripheralAt, DrainAt,
     CentralAt, Cleaning
<1>7. CASE at' # "CleanLink"
  BY <1>1, <1>2, <1>3, <1>4, <1>5, <1>7, ReportFields DEF ShownAsRun, Enters, SwitchesOn,
     Moves, InitAt, PeripheralAt, DrainAt, CentralAt, Cleaning
<1> QED
  BY <1>6, <1>7

LEMMA InitShownInv == ProcessInit => ShownInv
BY DEF ProcessInit, Init, ShownInv, NotBefore, ShownAsRun, InitAt

LEMMA DuringShows ==
  ASSUME RadioInv, RadioInv', PageInv, ShownInv, NEW step, step => Next, During(step)
  PROVE  ShownInv'
<1>1. main = "Radio" /\ Next /\ UNCHANGED <<main, web>> /\ viewer \in Meta
  BY DEF During, PageInv, PageTypeOK
<1>2. ShownAsRun'
  <2>1. CASE web
    BY <1>1, <2>1, ReportShows DEF During, ShownInv
  <2>2. CASE ~web
    BY <1>1, <2>2 DEF ShownAsRun
  <2> QED
    BY <2>1, <2>2, <1>1 DEF PageInv, PageTypeOK
<1> QED
  BY <1>1, <1>2 DEF ShownInv, NotBefore

(* A step of main() or of a handler.                                       *)
LEMMA OthersShow ==
  ASSUME RadioInv, PageInv, ShownInv, UNCHANGED vars,
         \/ \E b \in Tab : Post(b) \/ Handle(b)
         \/ Main \/ SignalInSetup
         \/ UNCHANGED <<main, web, viewer>>
  PROVE  ShownInv'
<1> USE DEF vars, past, control, host
<1>1. viewer \in Meta
  BY DEF PageInv, PageTypeOK
<1>2. CASE UNCHANGED <<main, web, viewer>>
  BY <1>2 DEF ShownInv, NotBefore, ShownAsRun
<1>3. CASE \E b \in Tab : Post(b) \/ Refuse(b) \/ SendSetup(b)
  BY <1>2, <1>3 DEF Post, Refuse, SendSetup
<1>4. CASE \E b \in Tab : TakeSender(b)
  <2>1. viewer'.phase = "starting" /\ UNCHANGED <<main, web>>
    BY <1>1, <1>4 DEF TakeSender, Meta
  <2> QED
    BY <2>1 DEF ShownInv, NotBefore, ShownAsRun
<1>5. CASE SetupArrives
  <2>1. at \in InitAt /\ after = "Retry" /\ (linkUp => abandoned)
    BY <1>5 DEF SetupArrives, ShownInv, NotBefore, RadioInv, LinkKnown, InitAt
  <2>2. main' = "Radio" => ~viewer'.error
    BY <1>1, <1>5 DEF SetupArrives, MainAt, Meta
  <2>3. main' \notin {"Launch", "Setup"}
    BY <1>5 DEF SetupArrives, MainAt
  <2> QED
    BY <2>1, <2>2, <2>3 DEF ShownInv, NotBefore, ShownAsRun, InitAt, PeripheralAt, DrainAt,
       CentralAt, Cleaning
<1>6. CASE Launch \/ RadioEnds \/ ServerEnds \/ RuntimeEnds \/ SignalInSetup
  BY <1>6 DEF Launch, RadioEnds, ServerEnds, RuntimeEnds, SignalInSetup, MainAt, page, ShownInv,
     NotBefore, ShownAsRun
<1> QED
  BY <1>2, <1>3, <1>4, <1>5, <1>6 DEF Handle, Main

LEMMA NextShows ==
  RadioInv /\ RadioInv' /\ PageInv /\ ShownInv /\ [ProcessNext]_pvars => ShownInv'
<1> SUFFICES ASSUME RadioInv, RadioInv', PageInv, ShownInv, [ProcessNext]_pvars
             PROVE  ShownInv'
  OBVIOUS
<1>1. CASE During(Run) \/ During(Signal) \/ During(Tick) \/ During(Host) \/ During(Clients)
  BY <1>1, DuringShows DEF Next
<1>2. CASE (\E b \in Tab : Post(b) \/ Handle(b)) \/ Main \/ SignalInSetup
  <2>1. UNCHANGED vars
    BY <1>2 DEF Post, Handle, Refuse, TakeSender, SendSetup, Main, Launch, SetupArrives,
       RadioEnds, ServerEnds, RuntimeEnds, SignalInSetup
  <2> QED
    BY <1>2, <2>1, OthersShow
<1>3. CASE UNCHANGED pvars
  BY <1>3, OthersShow DEF pvars, page
<1> QED
  BY <1>1, <1>2, <1>3 DEF ProcessNext

(* ShownTruly: the role the page shows is the one the Bluetooth host is    *)
(* used in, and an error is shown until the next slot begins, at every     *)
(* await and in every cleanup.                                             *)
THEOREM ProcessShownTruly == ProcessSpec => []ShownTruly
<1>1. RadioInv /\ ShownInv => ShownTruly
  BY DEF RadioInv, AdvertisingKnown, ScanKnown, LinkKnown, ServiceKnown, ShownInv, ShownAsRun,
     ShownTruly, PeripheralAt, DrainAt, CentralAt, Cleaning
<1>2. ProcessSpec => []ShownInv
  BY InitShownInv, NextShows, ProcessRadioInvariant, PageInvariant, PTL DEF ProcessSpec
<1> QED
  BY <1>1, <1>2, ProcessRadioInvariant, PTL
=============================================================================
