------------------------------- MODULE Gallery -------------------------------
(***************************************************************************)
(* The gallery of the plaza on a Tab5 (m5stack/tab5_hiroba.ino with        *)
(* GalleryRotation): it asks the image server for its latest jobs, shows   *)
(* a picture that is new at once, and lets the others come round.  Every   *)
(* request blocks the one loop, and may fail.                              *)
(*                                                                         *)
(* The code keeps times of a wrapping millisecond clock and subtracts      *)
(* them.  Here a time is what has passed since, modulo Clock.              *)
(***************************************************************************)
EXTENDS Integers, Sequences, FiniteSets

CONSTANTS
  Poll, Retry, Rotate,  \* POLL_MS, and the 3 s and 10 s of select
  Clock,                \* 2^32, narrowed
  Slow,                 \* how long a request may block
  Latest,               \* how many jobs latest.json lists
  MaxJobs,              \* bound: jobs of the server
  Broken                \* pictures that cannot be had: missing, or too large

ASSUME GalleryAssumption ==
  /\ {Poll, Retry, Rotate, Slow, Latest, MaxJobs} \subseteq Nat \ {0}
  /\ Retry < Rotate /\ Rotate + 2 * Slow + 1 < Clock
  /\ Broken \subseteq 1 .. MaxJobs

VARIABLES
  jobs,      \* of the server, by number: "queued", "drawn", or "blank" with no picture
  at,        \* where the loop is
  polled, rotated,       \* lastPoll, last_rotate_
  now,                   \* `now' of the loop
  items,                 \* numbers of the pictures to show, newest first
  latest, index, retry,  \* of the rotation
  selected, shown        \* shown: what is on the screen, 0 for nothing

times == <<polled, rotated, now>>
rotation == <<latest, index, retry>>
vars == <<jobs, at, times, items, rotation, selected, shown>>

Later(age, t) == (age + t) % Clock

-----------------------------------------------------------------------------
(* The image server (Plaza).  A thread queues its job after the lock under *)
(* which the job was numbered, so any of them may be drawn next.           *)

Submit ==
  /\ Len(jobs) < MaxJobs
  /\ jobs' = Append(jobs, "queued")
  /\ UNCHANGED <<at, times, items, rotation, selected, shown>>

Draw ==
  /\ \E i \in DOMAIN jobs :
       /\ jobs[i] = "queued"
       /\ \E outcome \in {"drawn", "blank"} : jobs' = [jobs EXCEPT ![i] = outcome]
  /\ UNCHANGED <<at, times, items, rotation, selected, shown>>

(* Those of the latest jobs that are done and have a picture.              *)
Drawn == {i \in DOMAIN jobs : jobs[i] = "drawn" /\ i > Len(jobs) - Latest}
Pictures ==
  [k \in 1 .. Cardinality(Drawn) |->
     CHOOSE i \in Drawn : Cardinality({j \in Drawn : j >= i}) = k]

-----------------------------------------------------------------------------
(* loop() *)

Top ==
  /\ at = "Top"
  /\ now' = 0
  /\ IF polled >= Poll
     THEN at' = "Fetch" /\ polled' = 0
     ELSE at' = "Select" /\ UNCHANGED polled
  /\ UNCHANGED <<jobs, rotated, items, rotation, selected, shown>>

(* ensureWifi and fetchLatest: it fails, or the list is taken over.        *)
Fetch ==
  /\ at = "Fetch" /\ at' = "Select"
  /\ items' \in {items, Pictures}
  /\ \E t \in {0, Slow} :
       polled' = Later(polled, t) /\ rotated' = Later(rotated, t) /\ now' = Later(now, t)
  /\ UNCHANGED <<jobs, rotation, selected, shown>>

(* GalleryRotation::select *)
Passed(time) == Later(rotated - now, 0) >= time

Arrived == items # <<>> /\ items[1] # latest
RetryDue == items # <<>> /\ ~Arrived /\ retry /\ Passed(Retry)
NextDue == Len(items) > 1 /\ ~Arrived /\ ~RetryDue /\ Passed(Rotate)

(* The index counts from 0.                                                *)
Shows(i, again) ==
  /\ at = "Select" /\ at' = "Show"
  /\ index' = i /\ selected' = i /\ retry' = again
  /\ rotated' = now

ShowArrival ==
  /\ Arrived /\ Shows(0, FALSE) /\ latest' = items[1]
  /\ UNCHANGED <<jobs, polled, now, items, shown>>

ShowRetryStale ==
  /\ RetryDue /\ Shows(index, FALSE)
  /\ UNCHANGED <<jobs, polled, now, items, latest, shown>>
ShowRetry ==
  /\ RetryDue /\ Shows(index % Len(items), FALSE)
  /\ UNCHANGED <<jobs, polled, now, items, latest, shown>>

ShowNext ==
  /\ NextDue /\ Shows((index + 1) % Len(items), retry)
  /\ UNCHANGED <<jobs, polled, now, items, latest, shown>>

ShowNothing ==
  /\ at = "Select" /\ at' = "Delay"
  /\ ~(Arrived \/ RetryDue \/ NextDue)
  /\ UNCHANGED <<jobs, times, items, rotation, selected, shown>>

(* show: the picture is fetched and drawn ...                              *)
Succeeds(i) ==
  /\ at = "Show" /\ at' = "Delay"
  /\ items[selected + 1] = i /\ i \notin Broken
  /\ shown' = i
  /\ \E t \in {0, Slow} :
       polled' = Later(polled, t) /\ rotated' = Later(rotated, t) /\ now' = Later(now, t)
  /\ UNCHANGED <<jobs, items, rotation, selected>>

(* ... or not: the time of the failure is taken anew.                      *)
FailsForgotten ==
  /\ at = "Show" /\ at' = "Delay"
  /\ \E t \in {0, Slow} : polled' = Later(polled, t) /\ now' = Later(now, t)
  /\ rotated' = 0
  /\ UNCHANGED <<jobs, items, rotation, selected, shown>>
Fails ==
  /\ at = "Show" /\ at' = "Delay"
  /\ \E t \in {0, Slow} : polled' = Later(polled, t) /\ now' = Later(now, t)
  /\ rotated' = 0 /\ retry' = TRUE
  /\ UNCHANGED <<jobs, items, latest, index, selected, shown>>

(* The loop goes round until a unit of time has passed: before, it would   *)
(* do nothing.                                                             *)
Delay ==
  /\ at = "Delay" /\ at' = "Top"
  /\ polled' = Later(polled, 1) /\ rotated' = Later(rotated, 1) /\ now' = Later(now, 1)
  /\ UNCHANGED <<jobs, items, rotation, selected, shown>>

-----------------------------------------------------------------------------

(* setup() has waited for the network.                                     *)
Init ==
  /\ jobs = <<>>
  /\ at = "Top" /\ polled \in {0, Slow} /\ rotated = polled /\ now = 0
  /\ items = <<>>
  /\ latest = -1 /\ index = 0 /\ retry = FALSE
  /\ selected = 0 /\ shown = 0

Loop ==
  \/ Top \/ Fetch
  \/ ShowArrival \/ ShowRetry \/ ShowNext \/ ShowNothing
  \/ (\E i \in 1 .. MaxJobs : Succeeds(i)) \/ Fails
  \/ Delay

Next == Submit \/ Draw \/ Loop

Spec == Init /\ [][Next]_vars

(* The loop runs, and a picture that can be had is not always missed.      *)
FairSpec ==
  /\ Spec
  /\ WF_vars(Loop)
  /\ \A i \in 1 .. MaxJobs : SF_vars(Succeeds(i))

-----------------------------------------------------------------------------
(* Properties. *)

(* What is to be shown is one of the listed pictures, although the list    *)
(* that the index was taken from may have become shorter since: jobs that  *)
(* are not done push pictures off latest.json.                             *)
SelectedListed == at = "Show" => selected + 1 \in DOMAIN items

(* "新しい完成があれば ... 取って左に描き" (tab5_hiroba.ino): a picture that  *)
(* is new to the rotation reaches the screen, whichever requests fail on   *)
(* the way, unless a newer one takes its place or the list loses it.       *)
Newest(i) == items # <<>> /\ items[1] = i
ArrivalShown(i) == Newest(i) /\ latest # i ~> (shown = i \/ ~Newest(i))

(* "新着が無い間は、直近の完成分を 10 秒ごとに順番に見せる" (tab5_hiroba.ino):   *)
(* of several pictures each that stays on the list, and can be had, comes  *)
(* round for ever.  A picture left alone on the list need not: a screen    *)
(* that shows one the list has lost goes on showing it.                    *)
Listed(i) == \E k \in DOMAIN items : items[k] = i
RotationGoesOn ==
  \A i \in (1 .. MaxJobs) \ Broken : <>[](Listed(i) /\ Len(items) > 1) => []<>(shown = i)

(* What the screen owes to its pictures.                                   *)
PicturesShown == RotationGoesOn /\ \A i \in (1 .. MaxJobs) \ Broken : ArrivalShown(i)
=============================================================================
