------------------------------- MODULE Process -------------------------------
(***************************************************************************)
(* The process of a device: main() of cli/src/main.rs around the Radio,    *)
(* and with --web the Web Viewer of cli/src/web.rs, whose request handlers *)
(* run beside it.  A browser hands a setup over, main waits for it, runs   *)
(* the radio and reports to the viewer, and at the end the web server      *)
(* finishes the requests it has begun.                                     *)
(***************************************************************************)
EXTENDS Radio, Config

CONSTANTS
  Tab,      \* browser tabs that show the page
  Given,    \* configurations of the command line to consider
  Asks,     \* what each tab may submit
  None

(* Windows are durations the configurations allow; Radio always drains.    *)
ASSUME ProcessAssumption ==
  /\ Given \subseteq Config /\ Asks \in [Tab -> SUBSET SetupRequest] /\ None \notin SetupRequest
  /\ \A c \in Given :
       ConfigAllowed(c) =>
         /\ c.exchangeTimeout = ExchangeTimeout /\ c.drain > 0
         /\ \A w \in Windows : MayLast(c, w)

VARIABLES
  main,     \* where main() is
  web,      \* --web was given
  config,
  channel,  \* the setup in the oneshot channel, or None
  viewer,   \* ViewerMeta
  tab       \* each tab's request to /api/start

page == <<channel, viewer, tab>>
pvars == <<vars, main, web, config, page>>

Meta ==
  [phase : {"setup", "starting", "running", "stopped"},
   role : {"none", "Init", "Central", "Peripheral", "Drain"}, error : BOOLEAN,
   setup : SetupRequest, sender : BOOLEAN]

-----------------------------------------------------------------------------
(* api_start.  A tab has one request under way, and offers the form only   *)
(* while it has seen the phase "setup" (app.js).  Bound: none is posted     *)
(* after main has left "Setup"; its handler may come later still.          *)

NoRequest == [at |-> "Idle", setup |-> None]

TabAt(b, step) == tab' = [tab EXCEPT ![b].at = step]

InFlight == {b \in Tab : tab[b].at \in {"Posted", "Taken"}}

Post(b) ==
  /\ web /\ main = "Setup"
  /\ tab[b].at = "Idle"
  /\ \E s \in Asks[b] : tab' = [tab EXCEPT ![b] = [at |-> "Posted", setup |-> s]]
  /\ UNCHANGED <<vars, main, web, config, channel, viewer>>

(* 400 or 409: the tab may try again.                                      *)
RefuseNoting(b) ==
  /\ tab[b].at = "Posted"
  /\ ~SetupAllowed(tab[b].setup) \/ ~viewer.sender
  /\ tab' = [tab EXCEPT ![b] = NoRequest]
  /\ viewer' = [viewer EXCEPT !.setup = tab[b].setup]
  /\ UNCHANGED <<vars, main, web, config, channel>>
Refuse(b) ==
  /\ tab[b].at = "Posted"
  /\ ~SetupAllowed(tab[b].setup) \/ ~viewer.sender
  /\ tab' = [tab EXCEPT ![b] = NoRequest]
  /\ UNCHANGED <<vars, main, web, config, channel, viewer>>

(* Under the viewer's lock ...                                             *)
TakeSender(b) ==
  /\ tab[b].at = "Posted"
  /\ SetupAllowed(tab[b].setup) /\ viewer.sender
  /\ viewer' = [viewer EXCEPT !.sender = FALSE, !.setup = tab[b].setup, !.phase = "starting"]
  /\ TabAt(b, "Taken")
  /\ UNCHANGED <<vars, main, web, config, channel>>

(* ... and after it: 200, or 500 when main has dropped the receiver.       *)
SendSetup(b) ==
  /\ tab[b].at = "Taken"
  /\ IF main \in {"Dropping", "Ended"}
     THEN TabAt(b, "Failed") /\ UNCHANGED channel
     ELSE TabAt(b, "Accepted") /\ channel' = tab[b].setup
  /\ UNCHANGED <<vars, main, web, config, viewer>>

-----------------------------------------------------------------------------
(* main() *)

MainAt(step) == main' = step

(* The port of the page may be taken.                                      *)
Launch ==
  /\ main = "Launch"
  /\ IF ConfigAllowed(config)
     THEN IF web THEN MainAt("Setup") \/ MainAt("Ended") ELSE MainAt("Radio")
     ELSE MainAt("Ended")
  /\ UNCHANGED <<vars, web, config, page>>

(* The radio is made and attached, and run begins.                         *)
SetupArrives ==
  /\ main = "Setup" /\ channel # None
  /\ config' = ApplyTo(channel, config)
  /\ IF ConfigAllowed(config')
     THEN /\ MainAt("Radio")
          /\ viewer' = [viewer EXCEPT !.phase = "running", !.error = FALSE, !.role = "Init"]
     ELSE MainAt("Dropping") /\ UNCHANGED viewer
  /\ UNCHANGED <<vars, web, channel, tab>>

SignalInSetup ==
  /\ main = "Setup"
  /\ MainAt("Closing")
  /\ UNCHANGED <<vars, web, config, page>>

RadioEnds ==
  /\ main = "Radio" /\ at = "Stopped"
  /\ MainAt(IF web THEN "Closing" ELSE "Dropping")
  /\ UNCHANGED <<vars, web, config, page>>

(* WebServer::shutdown waits for the requests that were begun.             *)
ServerEnds ==
  /\ main = "Closing" /\ InFlight = {}
  /\ MainAt("Dropping")
  /\ UNCHANGED <<vars, web, config, page>>

(* main has returned.  The runtime waits for a blocking task: a sentence   *)
(* that is being posted (Plaza) is followed to its end.                    *)
RuntimeEnds ==
  /\ main = "Dropping"
  /\ MainAt("Ended")
  /\ UNCHANGED <<vars, web, config, page>>

-----------------------------------------------------------------------------
(* The radio at work, and what it tells the viewer.                        *)

Enters(step) == at # step /\ at' = step

ShowsBesideError(name) == [viewer EXCEPT !.role = name]
Shows(name) == [viewer EXCEPT !.role = name, !.error = FALSE]

(* report_role at the start of a slot and of the drain, set_error when a   *)
(* slot fails, set_stopped when the cleanup begins.                        *)
Report ==
  CASE after' = "Exit" /\ at' = "CleanLink" -> [viewer EXCEPT !.phase = "stopped", !.role = "none"]
    [] after' = "Retry" /\ Enters("CleanLink") -> [viewer EXCEPT !.error = TRUE]
    [] Enters("StartAdv") -> Shows("Peripheral")
    [] Enters("Drain") -> Shows("Drain")
    [] at = "Choose" /\ Enters("Search") -> Shows("Central")
    [] OTHER -> viewer

During(step) ==
  /\ main = "Radio"
  /\ step
  /\ viewer' = IF web THEN Report ELSE viewer
  /\ UNCHANGED <<main, web, config, channel, tab>>

-----------------------------------------------------------------------------

ProcessInit ==
  /\ Init
  /\ main = "Launch" /\ web \in BOOLEAN /\ config \in Given
  /\ channel = None
  /\ viewer = [phase |-> "setup", role |-> "none", error |-> FALSE,
               setup |-> FromConfig(config), sender |-> TRUE]
  /\ tab = [b \in Tab |-> NoRequest]

Handle(b) == Refuse(b) \/ TakeSender(b) \/ SendSetup(b)

Main == Launch \/ SetupArrives \/ RadioEnds \/ ServerEnds \/ RuntimeEnds

ProcessNext ==
  \/ \E b \in Tab : Post(b) \/ Handle(b)
  \/ Main \/ SignalInSetup
  \/ During(Run) \/ During(Signal) \/ During(Tick) \/ During(Host) \/ During(Clients)

ProcessSpec == ProcessInit /\ [][ProcessNext]_pvars

(* While the radio runs, its awaits return and time passes; what clients   *)
(* began, their leases and events go on.  main goes on, and every handler.  *)
ProcessFairSpec ==
  /\ ProcessSpec
  /\ WF_pvars(Main) /\ \A b \in Tab : WF_pvars(Handle(b))
  /\ WF_pvars(During(Run)) /\ WF_pvars(During(Tick))
  /\ WF_pvars(During(PowerEvent \/ ClientBegins \/ LeaseEnds))

-----------------------------------------------------------------------------
(* Properties. *)

ProcessTypeOK ==
  /\ RadioTypeOK
  /\ main \in {"Launch", "Setup", "Radio", "Closing", "Dropping", "Ended"}
  /\ web \in BOOLEAN /\ config \in Config /\ viewer \in Meta
  /\ channel \in SetupRequest \cup {None}
  /\ tab \in [Tab -> [at : {"Idle", "Posted", "Taken", "Accepted", "Failed"},
                      setup : SetupRequest \cup {None}]]

(* "設定が確定するまでBLEは初期化されません" (cli/README.md): with the viewer   *)
(* the radio runs with the setup of the one tab that was told it is        *)
(* accepted, and the page shows this setup from then on, however requests  *)
(* of several tabs interleave.                                             *)
Winner(b) == tab[b].at \in {"Taken", "Accepted"}
SetupAgreed ==
  /\ \A b \in Tab : Winner(b) => viewer.setup = tab[b].setup
  /\ \A b, c \in Tab : Winner(b) /\ Winner(c) => b = c
  /\ web /\ main = "Radio" =>
       \E b \in Tab : tab[b].at = "Accepted" /\ FromConfig(config) = tab[b].setup

(* A setup that was taken is accepted, although it is sent after the lock  *)
(* is released and a signal may end main's wait for it in between, and it  *)
(* is run with unless a signal ends the process first: nothing that        *)
(* api_start lets pass is refused by main afterwards, and "CLIへ設定を渡せ   *)
(* ませんでした" (web.rs) is never the answer.                               *)
AcceptedRuns ==
  (\E b \in Tab : tab[b].at = "Taken") ~>
    /\ \E b \in Tab : tab[b].at = "Accepted"
    /\ viewer.phase = "running" \/ main = "Closing"

(* The page shows the role the Bluetooth host is really used in, and an    *)
(* error from the failure of a slot until the next slot begins.            *)
ShownTruly ==
  web /\ main = "Radio" /\ viewer.phase = "running" =>
    /\ advertising => viewer.role = "Peripheral"
    /\ enabled => viewer.role \in {"Peripheral", "Drain"}
    /\ hostScan => viewer.role = "Central"
    /\ linkUp => viewer.role = "Central" \/ abandoned
    /\ at \in Cleaning => viewer.error
    /\ viewer.error => at \in Cleaning \cup {"Choose"}

(* In role Auto both roles are tried again and again until the radio       *)
(* stops, whatever fails and however long clients hold the service.        *)
RolesAlternate ==
  mode = "Auto" =>
    \A r \in {"Central", "Peripheral"} :
      main = "Radio" ~> (at = "Stopped" \/ (at = "Choose" /\ role = r))

(* "Ctrl+CまたはSIGTERMで終了します" (cli/README.md): after a signal or a     *)
(* fatal error the process ends, whatever hangs or fails and whoever still *)
(* talks to the page.                                                      *)
EndsOnSignal == (main = "Closing" \/ after = "Exit") ~> main = "Ended"
=============================================================================
