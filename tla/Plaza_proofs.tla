---------------------------- MODULE Plaza_proofs ----------------------------
(***************************************************************************)
(* Theorems about Plaza, for any devices, numbers of attempts, times and   *)
(* faults.  A job is followed from the thread that adds it to its end, in  *)
(* memory and in the file.                                                 *)
(***************************************************************************)
EXTENDS Plaza, FiniteSetTheorems, SequenceTheorems, TLAPS

-----------------------------------------------------------------------------
(* What the variables hold. *)

PostRequest ==
  [device : Device, attempt : 0 .. Attempts, step : {"Add", "Put", "Answer"},
   id : Nat \cup {None}, wait : 0 .. Latency]

WorkerState ==
  [phase : {"Idle", "Generate", "Drawn", "Undrawn", "Failed", "Dead"}, id : Nat \cup {None}]

PlazaTyped ==
  /\ tries \in [Device -> 0 .. Attempts]
  /\ client \in [Device -> Post]
  /\ requests \subseteq PostRequest
  /\ jobs \in Seq(Job) /\ disk \in Seq(Job) \cup {None}
  /\ queue \in Seq(Nat)
  /\ worker \in WorkerState

(* Nobody tries more often than it may, or waits longer than its timeout.  *)
Scheduled ==
  \A d \in Device :
    LET c == client[d]
    IN  /\ c.phase \in {"Connect", "Await", "Sleep"} => c.attempt \in 1 .. tries[d]
        /\ c.phase = "Connect" => c.timer <= ConnectTimeout
        /\ c.phase = "Await" => c.timer <= IoTimeout
        /\ c.phase = "Sleep" => c.attempt < tries[d] /\ c.timer <= Pause(c.attempt)

(* The numbers in use are of jobs the store has; the file holds some first *)
(* of them.                                                                *)
NumbersKnown ==
  /\ ~up => jobs = <<>> /\ requests = {}
  /\ \A r \in requests :
       r.step # "Add" => r.id \in DOMAIN jobs /\ jobs[r.id].device = r.device
  /\ \A k \in DOMAIN queue : queue[k] \in DOMAIN jobs
  /\ worker.phase # "Idle" => worker.id \in DOMAIN jobs
  /\ up /\ disk # None =>
       \A i \in DOMAIN disk : i \in DOMAIN jobs /\ disk[i].device = jobs[i].device

(* A picture is drawn before anybody is told of it.                        *)
Shows(i, d) == i \in DOMAIN pictures /\ pictures[i] = d

TrulyShown(js) ==
  \A i \in DOMAIN js : js[i].status = "done" /\ js[i].image => Shows(i, js[i].device)

PicturesTrue ==
  /\ TrulyShown(jobs)
  /\ disk # None => TrulyShown(disk)
  /\ worker.phase = "Drawn" => Shows(worker.id, jobs[worker.id].device)

PlazaInv == PlazaTyped /\ Scheduled /\ NumbersKnown /\ PicturesTrue

(* Each job is on the way in one place, and there it is not final.         *)
OneWay ==
  /\ \A r, q \in requests : r.step = "Put" /\ q.step = "Put" /\ r.id = q.id => r = q
  /\ \A r \in requests, k \in DOMAIN queue : r.step = "Put" => r.id # queue[k]
  /\ \A i, k \in DOMAIN queue : queue[i] = queue[k] => i = k

OnTheWay ==
  \/ torn
  \/ /\ \A r \in requests : r.step = "Put" => jobs[r.id].status = "queued"
     /\ \A k \in DOMAIN queue : jobs[queue[k]].status = "queued"
     /\ worker.phase # "Idle" => jobs[worker.id].status = "working"

(* The file is what the next start needs, unless a write did not complete. *)
FileRestores ==
  /\ lost => torn
  /\ up /\ ~torn => Restores(disk, jobs)
  /\ ~up /\ ~lost => disk # None

JobsInv == PlazaInv /\ OneWay /\ OnTheWay /\ FileRestores /\ AnsweredJobKept

(* How long a post may still take until its last request is served.        *)
Spans(span) ==
  /\ span \in [Nat -> Nat]
  /\ Dedup > Latency
  /\ \A k \in 1 .. Attempts : span[k] > ConnectTimeout + Latency
  /\ \A k \in 1 .. Attempts - 1 :
       /\ span[k] >= ConnectTimeout + IoTimeout + Pause(k) + span[k + 1]
       /\ Dedup >= IoTimeout + Pause(k) + span[k + 1]


(* The time until then; freshness has to last longer.                      *)
Outlasts(f, span, c, most) ==
  /\ c.phase = "Connect" => f > c.timer + Latency
  /\ c.phase = "Connect" /\ c.attempt < most =>
       f >= c.timer + IoTimeout + Pause(c.attempt) + span[c.attempt + 1]
  /\ c.phase = "Await" /\ c.attempt < most =>
       f >= c.timer + Pause(c.attempt) + span[c.attempt + 1]
  /\ c.phase = "Sleep" => f >= c.timer + span[c.attempt + 1]

(* What is left of a job's freshness outlasts its device's post.           *)
Patient(f, d, span) ==
  /\ \A r \in requests : r.step = "Add" /\ r.device = d => f > r.wait
  /\ Outlasts(f, span, client[d], tries[d])

StaysFresh(span) ==
  lost \/ \A i \in DOMAIN Known : Patient(Known[i].fresh, Known[i].device, span)

(* Nothing is known of a device that has not connected yet.                *)
Unheard(d) ==
  \/ client[d].phase = "Idle"
  \/ client[d].phase = "Connect" /\ client[d].attempt = 1

Heard(d) ==
  \/ \E r \in requests : r.device = d
  \/ \E i \in DOMAIN jobs : jobs[i].device = d
  \/ disk # None /\ \E i \in DOMAIN disk : disk[i].device = d

UnheardUnknown == \A d \in Device : Unheard(d) => ~Heard(d)

OneJobInv(span) == JobsInv /\ UnheardUnknown /\ StaysFresh(span) /\ OneJobPerPost

-----------------------------------------------------------------------------
(* What a store of jobs becomes. *)

LEMMA JobOfStore ==
  ASSUME NEW js \in Seq(Job), NEW i \in DOMAIN js
  PROVE  js[i] \in Job
BY ElementOfSeq, LenProperties

LEMMA RestartedJobs ==
  ASSUME NEW js \in Seq(Job)
  PROVE  /\ Restarted(js) \in Seq(Job) /\ DOMAIN Restarted(js) = DOMAIN js
         /\ \A i \in DOMAIN js :
              /\ Restarted(js)[i].device = js[i].device /\ Restarted(js)[i].image = js[i].image
              /\ Restarted(js)[i].fresh = js[i].fresh /\ Final(Restarted(js)[i])
              /\ Final(js[i]) => Restarted(js)[i] = js[i]
              /\ Restarted(js)[i].status = "done" => Restarted(js)[i] = js[i]
<1>1. /\ Len(js) \in Nat /\ DOMAIN js = 1 .. Len(js) /\ \A i \in 1 .. Len(js) : js[i] \in Job
  BY ElementOfSeq, LenProperties
<1>2. \A i \in 1 .. Len(js) : Restarted(js)[i] \in Job
  BY <1>1 DEF Restarted, Job
<1>3. Restarted(js) \in [1 .. Len(js) -> Job]
  BY <1>1, <1>2 DEF Restarted
<1>4. Restarted(js) \in Seq(Job)
  BY <1>1, <1>3, SeqDef
<1> QED
  BY <1>1, <1>4 DEF Restarted, Final, Job

LEMMA AgedJobs ==
  ASSUME NEW js \in Seq(Job)
  PROVE  /\ Aged(js) \in Seq(Job) /\ DOMAIN Aged(js) = DOMAIN js
         /\ \A i \in DOMAIN js :
              /\ Aged(js)[i].device = js[i].device /\ Aged(js)[i].image = js[i].image
              /\ Aged(js)[i].status = js[i].status /\ Aged(js)[i].fresh = Elapse(js[i].fresh)
              /\ js[i].fresh \in 0 .. Dedup
<1>1. /\ Len(js) \in Nat /\ DOMAIN js = 1 .. Len(js) /\ \A i \in 1 .. Len(js) : js[i] \in Job
  BY ElementOfSeq, LenProperties
<1>2. \A i \in 1 .. Len(js) : js[i].fresh \in 0 .. Dedup /\ Elapse(js[i].fresh) \in 0 .. Dedup
  BY <1>1, PlazaAssumption DEF Elapse, Job
<1>3. \A i \in 1 .. Len(js) : Aged(js)[i] \in Job
  BY <1>1, <1>2 DEF Aged, Job
<1>4. Aged(js) \in [1 .. Len(js) -> Job]
  BY <1>1, <1>3 DEF Aged
<1>5. Aged(js) \in Seq(Job)
  BY <1>1, <1>4, SeqDef
<1> QED
  BY <1>1, <1>2, <1>5 DEF Aged, Job

LEMMA UpdatedJobs ==
  ASSUME jobs \in Seq(Job), NEW id \in DOMAIN jobs, NEW image \in BOOLEAN,
         NEW status \in {"queued", "working", "done", "error"}
  PROVE  LET js == Updated(id, status, image)
         IN  /\ js \in Seq(Job) /\ DOMAIN js = DOMAIN jobs
             /\ js[id].status = status /\ js[id].image = image
             /\ js[id].device = jobs[id].device /\ js[id].fresh = jobs[id].fresh
             /\ \A i \in DOMAIN jobs \ {id} : js[i] = jobs[i]
<1> DEFINE js == Updated(id, status, image)
<1>1. /\ Len(jobs) \in Nat /\ DOMAIN jobs = 1 .. Len(jobs)
      /\ \A i \in 1 .. Len(jobs) : jobs[i] \in Job
  BY ElementOfSeq, LenProperties
<1>2. js[id] = [jobs[id] EXCEPT !.status = status, !.image = image]
  BY DEF Updated
<1>3. DOMAIN js = DOMAIN jobs /\ \A i \in DOMAIN jobs \ {id} : js[i] = jobs[i]
  BY DEF Updated
<1>4. js[id] \in Job
  BY <1>1, <1>2 DEF Job
<1>5. js \in [1 .. Len(jobs) -> Job]
  BY <1>1, <1>3, <1>4 DEF Updated
<1>6. js \in Seq(Job)
  BY <1>1, <1>5, SeqDef
<1> QED
  BY <1>1, <1>2, <1>3, <1>6 DEF Job

LEMMA AppendedJob ==
  ASSUME jobs \in Seq(Job), NEW d \in Device
  PROVE  LET js == Append(jobs, NewJob(d))
         IN  /\ NewJob(d) \in Job /\ js \in Seq(Job)
             /\ Len(js) \in Nat /\ Len(js) \notin DOMAIN jobs
             /\ DOMAIN js = DOMAIN jobs \cup {Len(js)}
             /\ js[Len(js)] = NewJob(d) /\ \A i \in DOMAIN jobs : js[i] = jobs[i]
<1>1. NewJob(d) \in Job
  BY PlazaAssumption DEF NewJob, Job
<1>2. Len(jobs) \in Nat /\ DOMAIN jobs = 1 .. Len(jobs)
  BY LenProperties
<1> DEFINE js == Append(jobs, NewJob(d))
<1>3. /\ js \in Seq(Job) /\ Len(js) = Len(jobs) + 1
      /\ js[Len(jobs) + 1] = NewJob(d) /\ \A i \in 1 .. Len(jobs) : js[i] = jobs[i]
  BY <1>1, AppendProperties
<1>4. DOMAIN js = 1 .. Len(js)
  BY <1>3, LenProperties
<1> QED
  BY <1>1, <1>2, <1>3, <1>4

(* A write that is cut short leaves some first jobs, or nothing readable.  *)
LEMMA CutJobs ==
  ASSUME NEW js \in Seq(Job), NEW file \in Cut(js), file # None
  PROVE  /\ file \in Seq(Job)
         /\ \A i \in DOMAIN file : i \in DOMAIN js /\ file[i] = js[i]
<1>1. PICK k \in 0 .. Len(js) - 1 : file = SubSeq(js, 1, k)
  BY DEF Cut
<1>2. Len(js) \in Nat /\ DOMAIN js = 1 .. Len(js) /\ \A i \in 1 .. Len(js) : js[i] \in Job
  BY ElementOfSeq, LenProperties
<1>3. k \in Int /\ k <= Len(js) /\ \A i \in 1 .. k : js[i] \in Job
  BY <1>1, <1>2
<1>4. /\ file \in Seq(Job) /\ Len(file) = IF 1 <= k THEN k - 1 + 1 ELSE 0
      /\ \A i \in 1 .. k - 1 + 1 : file[i] = js[1 + i - 1]
  BY <1>1, <1>3, SubSeqProperties
<1>5. DOMAIN file = 1 .. Len(file)
  BY <1>4, LenProperties
<1> QED
  BY <1>1, <1>2, <1>3, <1>4, <1>5

(* The file holds some first of the saved jobs, or is the one it was.      *)
LEMMA SavedFile ==
  ASSUME NEW js \in Seq(Job), Save(js) \/ SaveRaises(js)
  PROVE  /\ jobs' = js /\ UNCHANGED lost
         /\ \/ disk' \in {disk, None}
            \/ /\ disk' \in Seq(Job)
               /\ \A i \in DOMAIN disk' : i \in DOMAIN js /\ disk'[i] = js[i]
<1>1. CASE Save(js)
  BY <1>1 DEF Save
<1>2. CASE SaveRaises(js)
  BY <1>2, CutJobs DEF SaveRaises
<1> QED
  BY <1>1, <1>2

LEMMA SavedJobs ==
  ASSUME PlazaInv, up, NEW js \in Seq(Job), Save(js) \/ SaveRaises(js),
         \A i \in DOMAIN jobs : i \in DOMAIN js /\ js[i].device = jobs[i].device
  PROVE  /\ jobs' = js /\ UNCHANGED lost
         /\ disk' \in Seq(Job) \cup {None}
         /\ disk' # None =>
              \A i \in DOMAIN disk' : i \in DOMAIN js /\ disk'[i].device = js[i].device
BY SavedFile DEF PlazaInv, PlazaTyped, NumbersKnown

-----------------------------------------------------------------------------
(* Types, numbers and pictures. *)

LEMMA PauseType == \A k \in Nat : Pause(k) \in Nat
<1> SUFFICES ASSUME NEW k \in Nat PROVE 2 ^ k \in Nat
  BY DEF Pause
<1>1. IsFiniteSet(1 .. k) /\ Cardinality(1 .. k) = k
  BY FS_Interval
<1>2. IsFiniteSet(SUBSET (1 .. k)) /\ Cardinality(SUBSET (1 .. k)) = 2 ^ k
  BY <1>1, FS_SUBSET
<1> QED
  BY <1>2, FS_CardinalityType

(* A device's post goes on; the server may be handed a request.            *)
LEMMA TrackPosts ==
  ASSUME PlazaTyped, Scheduled, NEW d \in Device, Track(d)
  PROVE  /\ client' \in [Device -> Post] /\ Scheduled'
         /\ UNCHANGED <<tries, store, server>>
         /\ \A e \in Device \ {d} : client'[e] = client[e]
         /\ \/ UNCHANGED requests
            \/ /\ up /\ Arrive(d)
               /\ \E q \in PostRequest : /\ requests' = requests \cup {q}
                                         /\ q.step = "Add" /\ q.device = d /\ q.wait = Latency
<1> DEFINE c == client[d]
<1>1. /\ c \in Post /\ tries[d] \in 0 .. Attempts /\ client \in [Device -> Post]
      /\ ConnectTimeout \in Nat /\ IoTimeout \in Nat /\ Polls \in Nat /\ Attempts \in Nat
      /\ Latency \in Nat
  BY PlazaAssumption DEF PlazaTyped
<1>2. PICK post : Change(d, post) /\ UNCHANGED <<store, server>>
                  /\ post \in Post
                  /\ LET p == post
                     IN  /\ p.phase \in {"Connect", "Await", "Sleep"} => p.attempt \in 1 .. tries[d]
                         /\ p.phase = "Connect" => p.timer <= ConnectTimeout
                         /\ p.phase = "Await" => p.timer <= IoTimeout
                         /\ p.phase = "Sleep" =>
                              p.attempt < tries[d] /\ p.timer <= Pause(p.attempt)
  <2>1. CASE Complete(d)
    <3> DEFINE p == [NoPost EXCEPT !.phase = "Connect", !.attempt = 1,
                              !.timer = ConnectTimeout, !.shown = "sending"]
    <3>1. Change(d, p) /\ UNCHANGED <<store, server>> /\ tries[d] > 0
      BY <2>1 DEF Complete
    <3>2. 1 \in 1 .. tries[d] /\ 1 \in 0 .. Attempts /\ 0 \in 0 .. Polls
      BY <1>1, <3>1
    <3>3. NoPost \in Post
      BY <1>1, <3>2 DEF NoPost, Post
    <3>4. p \in Post
      BY <1>1, <3>2, <3>3 DEF Post
    <3>5. p.phase = "Connect" /\ p.attempt = 1 /\ p.timer = ConnectTimeout
      BY <3>3 DEF Post
    <3> HIDE DEF p
    <3> QED
      BY <1>1, <3>1, <3>2, <3>4, <3>5
  <2>2. CASE Arrive(d)
    <3> DEFINE p == [c EXCEPT !.phase = "Await", !.timer = IoTimeout]
    <3>1. Change(d, p) /\ UNCHANGED <<store, server>> /\ c.phase = "Connect"
      BY <2>2 DEF Arrive
    <3>2. /\ p \in Post /\ p.phase = "Await" /\ p.timer = IoTimeout /\ p.attempt = c.attempt
      BY <1>1 DEF Post
    <3> HIDE DEF p
    <3> QED
      BY <1>1, <3>1, <3>2 DEF Scheduled
  <2>3. CASE AttemptFails(d) /\ c.attempt < tries[d]
    <3> DEFINE p == [c EXCEPT !.phase = "Sleep", !.timer = Pause(c.attempt)]
    <3>1. Change(d, p) /\ UNCHANGED <<store, server>> /\ c.phase \in {"Connect", "Await"}
      BY <2>3 DEF AttemptFails
    <3>2. c.attempt \in 0 .. Attempts /\ Pause(c.attempt) \in Nat
      BY <1>1, PauseType DEF Post
    <3>3. /\ p \in Post /\ p.phase = "Sleep" /\ p.timer = Pause(c.attempt)
          /\ p.attempt = c.attempt
      BY <1>1, <3>2 DEF Post
    <3> HIDE DEF p
    <3> QED
      BY <1>1, <2>3, <3>1, <3>2, <3>3 DEF Scheduled
  <2>4. CASE AttemptFails(d) /\ ~(c.attempt < tries[d])
    <3> DEFINE p == [c EXCEPT !.phase = "Over", !.timer = 0, !.shown = "failed"]
    <3>1. Change(d, p) /\ UNCHANGED <<store, server>>
      BY <2>4 DEF AttemptFails
    <3>2. p \in Post /\ p.phase = "Over"
      BY <1>1 DEF Post
    <3> HIDE DEF p
    <3> QED
      BY <3>1, <3>2
  <2>5. CASE Retry(d)
    <3> DEFINE p == [c EXCEPT !.phase = "Connect", !.timer = ConnectTimeout, !.attempt = @ + 1]
    <3>1. Change(d, p) /\ UNCHANGED <<store, server>> /\ c.phase = "Sleep"
      BY <2>5 DEF Retry
    <3>2. c.attempt \in 1 .. tries[d] /\ c.attempt < tries[d]
      BY <3>1 DEF Scheduled
    <3>3. c.attempt + 1 \in 1 .. tries[d] /\ c.attempt + 1 \in 0 .. Attempts
      BY <1>1, <3>2
    <3>4. /\ p \in Post /\ p.phase = "Connect" /\ p.timer = ConnectTimeout
          /\ p.attempt = c.attempt + 1
      BY <1>1, <3>3 DEF Post
    <3> HIDE DEF p
    <3> QED
      BY <1>1, <3>1, <3>3, <3>4
  <2>6. CASE PollAnswered(d)
    <3>1. PICK p : /\ Change(d, p) /\ UNCHANGED <<store, server>>
                   /\ c.id \in DOMAIN jobs /\ c.polls > 0 /\ c.phase = "Poll"
                   /\ p = [c EXCEPT !.polls = @ - 1, !.shown = jobs[c.id].status,
                                    !.phase = IF Final(jobs[c.id]) THEN "Over" ELSE @]
      BY <2>6 DEF PollAnswered
    <3>2. jobs[c.id].status \in {"queued", "working", "done", "error"}
      BY <3>1, JobOfStore DEF PlazaTyped, Job
    <3>3. c.polls - 1 \in 0 .. Polls
      BY <1>1, <3>1 DEF Post
    <3>4. p \in Post /\ p.phase \in {"Over", "Poll"}
      BY <1>1, <3>1, <3>2, <3>3 DEF Post
    <3> QED
      BY <3>1, <3>4
  <2>7. CASE PollFails(d)
    <3> DEFINE p == [c EXCEPT !.polls = @ - 1]
    <3>1. Change(d, p) /\ UNCHANGED <<store, server>> /\ c.polls > 0 /\ c.phase = "Poll"
      BY <2>7 DEF PollFails
    <3>2. c.polls - 1 \in 0 .. Polls
      BY <1>1, <3>1 DEF Post
    <3>3. p \in Post /\ p.phase = "Poll"
      BY <1>1, <3>1, <3>2 DEF Post
    <3> QED
      BY <3>1, <3>3
  <2>8. CASE PollsEnd(d)
    <3> DEFINE p == [c EXCEPT !.phase = "Over", !.shown = "timeout"]
    <3>1. Change(d, p) /\ UNCHANGED <<store, server>>
      BY <2>8 DEF PollsEnd
    <3>2. p \in Post /\ p.phase = "Over"
      BY <1>1 DEF Post
    <3> HIDE DEF p
    <3> QED
      BY <3>1, <3>2
  <2> QED
    BY <2>1, <2>2, <2>3, <2>4, <2>5, <2>6, <2>7, <2>8 DEF Track
<1>3. \A e \in Device : client'[e] = IF e = d THEN post ELSE client[e]
  BY <1>1, <1>2 DEF Change
<1>4. client' \in [Device -> Post]
  BY <1>1, <1>2 DEF Change
<1>5. UNCHANGED tries
  BY <1>2 DEF Change
<1>6. Scheduled'
  BY <1>2, <1>3, <1>5 DEF Scheduled
<1>7. CASE Arrive(d)
  <2>1. PICK q : /\ q = [device |-> d, attempt |-> c.attempt, step |-> "Add",
                         id |-> None, wait |-> Latency]
                 /\ requests' = requests \cup {q} /\ up
    BY <1>7 DEF Arrive
  <2>2. q \in PostRequest
    BY <1>1, <2>1 DEF PostRequest, Post
  <2> QED
    BY <1>2, <1>3, <1>4, <1>5, <1>6, <1>7, <2>1, <2>2
<1>8. ASSUME ~Arrive(d) PROVE UNCHANGED requests
  BY <1>8 DEF Track, Complete, AttemptFails, Retry, PollAnswered, PollFails, PollsEnd
<1> QED
  BY <1>2, <1>3, <1>4, <1>5, <1>6, <1>7, <1>8

LEMMA TrackPlaza ==
  ASSUME PlazaInv, NEW d \in Device, Track(d)
  PROVE  PlazaInv'
<1>1. /\ client' \in [Device -> Post] /\ Scheduled'
      /\ UNCHANGED <<tries, jobs, disk, up, queue, worker, pictures>>
      /\ requests' = requests \/ /\ up
                                 /\ \E q \in PostRequest : /\ requests' = requests \cup {q}
                                                           /\ q.step = "Add"
  BY TrackPosts DEF PlazaInv, store, server
<1> QED
  BY <1>1 DEF PlazaInv, PlazaTyped, NumbersKnown, PicturesTrue, TrulyShown, Shows

(* Once the jobs are known to be truly shown, so is what is saved of them. *)
LEMMA SavedTruly ==
  ASSUME PicturesTrue, UNCHANGED pictures,
         NEW js \in Seq(Job), Save(js) \/ SaveRaises(js), TrulyShown(js)
  PROVE  /\ TrulyShown(jobs)' /\ (disk' # None => TrulyShown(disk)')
BY SavedFile DEF PicturesTrue, TrulyShown, Shows

(* A request that goes on to its next step.                                *)
LEMMA MovedRequest ==
  ASSUME PlazaTyped, NEW r \in requests, NEW step \in {"Put", "Answer"}, NEW id \in Nat,
         Moved(r, step, id)
  PROVE  \E q \in PostRequest : /\ requests' = (requests \ {r}) \cup {q}
                                /\ q.step = step /\ q.id = id
                                /\ q.device = r.device /\ q.attempt = r.attempt
<1> DEFINE q == [r EXCEPT !.step = step, !.id = id, !.wait = 0]
<1>1. r \in PostRequest /\ 0 \in 0 .. Latency
  BY PlazaAssumption DEF PlazaTyped
<1>2. /\ q \in PostRequest /\ q.step = step /\ q.id = id
      /\ q.device = r.device /\ q.attempt = r.attempt
  BY <1>1 DEF PostRequest
<1>3. requests' = (requests \ {r}) \cup {q}
  BY DEF Moved
<1> QED
  BY <1>2, <1>3

(* Of some numbers up to n one is the last.                                *)
LEMMA LastExists ==
  ASSUME NEW n \in Nat, NEW T \in SUBSET (1 .. n), T # {}
  PROVE  \E i \in T : \A k \in T : k <= i
<1> DEFINE R == OpToRel(<, Nat)
           D == {n - i : i \in T}
<1>1. IsWellFoundedOn(R, Nat)
  BY NatLessThanWellFounded
<1>2. D \subseteq Nat /\ D # {}
  <2>1. \A i \in T : n - i \in Nat
    OBVIOUS
  <2> QED
    BY <2>1
<1>3. \A a, b \in Nat : a < b => <<a, b>> \in R
  BY DEF OpToRel
<1> HIDE DEF R
<1>4. PICK x \in D : \A y \in D : ~(<<y, x>> \in R)
  <2> HIDE DEF D
  <2> QED
    BY <1>1, <1>2, WFMin
<1>5. PICK i \in T : x = n - i
  BY <1>4
<1>6. \A k \in T : ~(n - k < n - i)
  <2>1. ASSUME NEW k \in T PROVE ~(n - k < n - i)
    <3>1. n - k \in D /\ n - k \in Nat /\ n - i \in Nat
      BY <1>2, <1>5
    <3> QED
      BY <1>3, <1>4, <1>5, <3>1
  <2> QED
    BY <2>1
<1> QED
  BY <1>6

LEMMA NewestOf ==
  ASSUME jobs \in Seq(Job), NEW ids \in SUBSET DOMAIN jobs, ids # {}
  PROVE  Newest(ids) \in ids
<1>1. Len(jobs) \in Nat /\ DOMAIN jobs = 1 .. Len(jobs)
  BY LenProperties
<1>2. \E i \in ids : \A k \in ids : k <= i
  BY <1>1, LastExists
<1> QED
  BY <1>2 DEF Newest

LEMMA QueueTail ==
  ASSUME queue \in Seq(Nat), queue # <<>>
  PROVE  /\ Tail(queue) \in Seq(Nat) /\ Len(queue) \in Nat \ {0} /\ DOMAIN queue = 1 .. Len(queue)
         /\ DOMAIN Tail(queue) = 1 .. Len(queue) - 1 /\ Head(queue) = queue[1]
         /\ \A k \in 1 .. Len(queue) - 1 : Tail(queue)[k] = queue[k + 1]
<1>1. /\ Tail(queue) \in Seq(Nat) /\ Len(Tail(queue)) = Len(queue) - 1
      /\ \A k \in 1 .. Len(Tail(queue)) : Tail(queue)[k] = queue[k + 1]
  BY HeadTailProperties
<1>2. Len(queue) \in Nat \ {0} /\ DOMAIN queue = 1 .. Len(queue)
  BY EmptySeq, LenProperties
<1>3. DOMAIN Tail(queue) = 1 .. Len(Tail(queue))
  BY <1>1, LenProperties
<1> QED
  BY <1>1, <1>2, <1>3

LEMMA EmptyStore ==
  ASSUME NEW js \in Seq(Job), DOMAIN js = {}
  PROVE  js = <<>>
BY EmptySeq, LenProperties

LEMMA NumbersNat == jobs \in Seq(Job) => DOMAIN jobs \subseteq Nat
BY LenProperties

LEMMA AddSteps ==
  ASSUME PlazaTyped, NEW r \in requests, Add(r)
  PROVE  /\ UNCHANGED <<tries, client, server>>
         /\ \/ \E i \in Equal(r.device) : Moved(r, "Answer", i) /\ UNCHANGED store
            \/ /\ Equal(r.device) = {}
               /\ \E js : /\ js = Append(jobs, NewJob(r.device))
                          /\ \/ Save(js) /\ Moved(r, "Put", Len(js))
                             \/ SaveRaises(js) /\ requests' = requests \ {r}
<1>1. Equal(r.device) \in SUBSET DOMAIN jobs
  BY DEF Equal
<1>2. Equal(r.device) # {} => Newest(Equal(r.device)) \in Equal(r.device)
  BY <1>1, NewestOf DEF PlazaTyped
<1> QED
  BY <1>2 DEF Add

LEMMA AddPlaza ==
  ASSUME PlazaInv, NEW r \in requests, Add(r)
  PROVE  PlazaInv'
<1>1. /\ UNCHANGED <<tries, client, up, queue, worker, pictures>>
      /\ r \in PostRequest /\ r.device \in Device /\ jobs \in Seq(Job) /\ up
      /\ DOMAIN jobs \subseteq Nat
  BY AddSteps, NumbersNat DEF PlazaInv, PlazaTyped, PostRequest, server, NumbersKnown
<1>2. ASSUME NEW i \in Equal(r.device), Moved(r, "Answer", i), UNCHANGED store
      PROVE  PlazaInv'
  <2>1. i \in DOMAIN jobs /\ jobs[i].device = r.device
    BY <1>2 DEF Equal
  <2>2. PICK q \in PostRequest : /\ requests' = (requests \ {r}) \cup {q}
                                 /\ q.id = i /\ q.device = r.device
    BY <1>1, <1>2, <2>1, MovedRequest DEF PlazaInv
  <2>3. UNCHANGED <<jobs, disk>>
    BY <1>2 DEF store
  <2> QED
    BY <1>1, <2>1, <2>2, <2>3
       DEF PlazaInv, PlazaTyped, Scheduled, NumbersKnown, PicturesTrue, TrulyShown, Shows
<1>3. ASSUME NEW js, js = Append(jobs, NewJob(r.device)),
             \/ Save(js) /\ Moved(r, "Put", Len(js))
             \/ SaveRaises(js) /\ requests' = requests \ {r}
      PROVE  PlazaInv'
  <2>1. /\ js \in Seq(Job) /\ Len(js) \in Nat
        /\ DOMAIN js = DOMAIN jobs \cup {Len(js)}
        /\ js[Len(js)] = NewJob(r.device) /\ \A i \in DOMAIN jobs : js[i] = jobs[i]
    BY <1>1, <1>3, AppendedJob
  <2>2. /\ jobs' = js /\ disk' \in Seq(Job) \cup {None}
        /\ disk' # None =>
             \A i \in DOMAIN disk' : i \in DOMAIN js /\ disk'[i].device = js[i].device
    BY <1>1, <1>3, <2>1, SavedJobs
  <2>3. \/ requests' = requests \ {r}
        \/ \E q \in PostRequest : /\ requests' = (requests \ {r}) \cup {q}
                                  /\ q.id = Len(js) /\ q.device = r.device
    BY <1>1, <1>3, <2>1, MovedRequest DEF PlazaInv
  <2>4. TrulyShown(js)
    <3>1. js[Len(js)].status # "done"
      BY <2>1 DEF NewJob
    <3>2. \A i \in DOMAIN jobs :
            jobs[i].status = "done" /\ jobs[i].image => Shows(i, jobs[i].device)
      BY DEF PlazaInv, PicturesTrue, TrulyShown
    <3> QED
      BY <2>1, <3>1, <3>2 DEF TrulyShown
  <2>5. TrulyShown(jobs)' /\ (disk' # None => TrulyShown(disk)')
    BY <1>1, <1>3, <2>1, <2>4, SavedTruly DEF PlazaInv
  <2>6. PlazaTyped'
    BY <1>1, <2>1, <2>2, <2>3 DEF PlazaInv, PlazaTyped
  <2>7. NumbersKnown'
    <3>1. js[Len(js)].device = r.device
      BY <2>1 DEF NewJob
    <3> QED
      BY <1>1, <2>1, <2>2, <2>3, <3>1 DEF PlazaInv, NumbersKnown
  <2>8. PicturesTrue'
    BY <1>1, <2>1, <2>2, <2>5 DEF PlazaInv, PicturesTrue, NumbersKnown, Shows
  <2> QED
    BY <1>1, <2>6, <2>7, <2>8 DEF PlazaInv, Scheduled
<1> QED
  BY <1>2, <1>3, AddSteps DEF PlazaInv

LEMMA PutPlaza ==
  ASSUME PlazaInv, NEW r \in requests, Put(r)
  PROVE  PlazaInv'
<1>1. /\ UNCHANGED <<tries, client, jobs, disk, up, worker, pictures>>
      /\ r.step = "Put" /\ queue' = Append(queue, r.id)
  BY DEF Put, store
<1>2. /\ r.id \in DOMAIN jobs /\ jobs[r.id].device = r.device /\ r.id \in Nat /\ up
      /\ queue \in Seq(Nat)
  BY <1>1, NumbersNat DEF PlazaInv, NumbersKnown, PlazaTyped
<1>3. PICK q \in PostRequest : /\ requests' = (requests \ {r}) \cup {q}
                               /\ q.id = r.id /\ q.device = r.device
  BY <1>2, MovedRequest DEF Put, PlazaInv
<1>4. queue' \in Seq(Nat) /\ \A k \in DOMAIN queue' : queue'[k] \in DOMAIN jobs
  <2>1. /\ queue' \in Seq(Nat) /\ Len(queue') = Len(queue) + 1 /\ Len(queue) \in Nat
        /\ \A i \in 1 .. Len(queue) : queue'[i] = queue[i] /\ queue'[Len(queue) + 1] = r.id
    BY <1>1, <1>2, AppendProperties, LenProperties
  <2>2. DOMAIN queue = 1 .. Len(queue) /\ DOMAIN queue' = 1 .. Len(queue')
    BY <1>2, <2>1, LenProperties
  <2>3. \A i \in 1 .. Len(queue) : queue'[i] \in DOMAIN jobs
    BY <2>1, <2>2 DEF PlazaInv, NumbersKnown
  <2>4. queue'[Len(queue) + 1] \in DOMAIN jobs
    BY <1>1, <1>2, AppendProperties
  <2> QED
    BY <2>1, <2>2, <2>3, <2>4
<1> QED
  BY <1>1, <1>2, <1>3, <1>4
     DEF PlazaInv, PlazaTyped, Scheduled, NumbersKnown, PicturesTrue, TrulyShown, Shows

LEMMA AnswerPlaza ==
  ASSUME PlazaInv, NEW r \in requests, Answer(r)
  PROVE  PlazaInv'
<1> DEFINE d == r.device  c == client[d]
<1>1. /\ requests' = requests \ {r} /\ UNCHANGED <<tries, jobs, disk, up, queue, worker, pictures>>
      /\ r.step = "Answer"
  <2>1. requests' = requests \ {r} /\ UNCHANGED <<store, server>> /\ r.step = "Answer"
    BY DEF Answer
  <2>2. UNCHANGED tries
    BY DEF Answer, Change
  <2> QED
    BY <2>1, <2>2 DEF store, server
<1>2. d \in Device /\ c \in Post /\ client \in [Device -> Post] /\ Polls \in Nat
  BY PlazaAssumption DEF PlazaInv, PlazaTyped, PostRequest
<1>3. CASE UNCHANGED client
  BY <1>1, <1>3
     DEF PlazaInv, PlazaTyped, Scheduled, NumbersKnown, PicturesTrue, TrulyShown, Shows
<1>4. CASE ~UNCHANGED client
  <2> DEFINE p == [c EXCEPT !.phase = "Poll", !.timer = 0, !.polls = Polls,
                            !.id = r.id, !.shown = "queued"]
  <2>1. client' = [client EXCEPT ![d] = p]
    BY <1>4 DEF Answer, Change
  <2> HIDE DEF c, d
  <2>2. r.id \in Nat
    BY <1>1, NumbersNat DEF PlazaInv, NumbersKnown, PlazaTyped
  <2>3. p \in Post /\ p.phase = "Poll"
    <3>1. Polls \in 0 .. Polls /\ 0 \in Nat /\ r.id \in Nat \cup {None}
      BY <1>2, <2>2
    <3>2. p.phase = "Poll"
      BY <1>2 DEF Post
    <3> QED
      BY <1>2, <3>1, <3>2 DEF Post
  <2> HIDE DEF p
  <2>4. /\ client' \in [Device -> Post]
        /\ \A e \in Device : client'[e] = IF e = d THEN p ELSE client[e]
    BY <1>2, <2>1, <2>3
  <2>5. Scheduled'
    BY <1>1, <2>3, <2>4 DEF PlazaInv, Scheduled
  <2> QED
    BY <1>1, <2>4, <2>5 DEF PlazaInv, PlazaTyped, NumbersKnown, PicturesTrue, TrulyShown, Shows
<1> QED
  BY <1>3, <1>4

(* The worker updates a job and saves the store, or fails to.              *)
LEMMA WorkerSaves ==
  ASSUME PlazaInv, NEW id \in DOMAIN jobs, NEW image \in BOOLEAN, NEW js,
         NEW status \in {"queued", "working", "done", "error"},
         js = Updated(id, status, image), Save(js) \/ SaveRaises(js),
         status = "done" /\ image => Shows(id, jobs[id].device),
         UNCHANGED <<tries, client, requests, up, pictures>>,
         queue' \in Seq(Nat), \A k \in DOMAIN queue' : queue'[k] \in DOMAIN jobs,
         worker' \in WorkerState, worker'.phase # "Drawn",
         worker'.phase # "Idle" => worker'.id \in DOMAIN jobs
  PROVE  PlazaInv'
<1>1. jobs \in Seq(Job)
  BY DEF PlazaInv, PlazaTyped
<1>2. /\ js \in Seq(Job) /\ DOMAIN js = DOMAIN jobs
      /\ js[id].status = status /\ js[id].image = image /\ js[id].device = jobs[id].device
      /\ \A i \in DOMAIN jobs \ {id} : js[i] = jobs[i]
  BY <1>1, UpdatedJobs
<1>4. \A i \in DOMAIN jobs : js[i].device = jobs[i].device
  BY <1>2
<1>0. up
  BY DEF PlazaInv, NumbersKnown
<1>3. /\ jobs' = js /\ disk' \in Seq(Job) \cup {None}
      /\ disk' # None =>
           \A i \in DOMAIN disk' : i \in DOMAIN js /\ disk'[i].device = js[i].device
  BY <1>0, <1>2, <1>4, SavedJobs
<1>5. TrulyShown(js)
  <2>1. \A i \in DOMAIN jobs : jobs[i].status = "done" /\ jobs[i].image => Shows(i, jobs[i].device)
    BY DEF PlazaInv, PicturesTrue, TrulyShown
  <2> QED
    BY <1>2, <2>1 DEF TrulyShown
<1>6. TrulyShown(jobs)' /\ (disk' # None => TrulyShown(disk)')
  BY <1>2, <1>5, SavedTruly DEF PlazaInv
<1>7. PlazaTyped' /\ Scheduled'
  BY <1>2, <1>3 DEF PlazaInv, PlazaTyped, Scheduled
<1>8. NumbersKnown'
  BY <1>0, <1>2, <1>3, <1>4 DEF PlazaInv, NumbersKnown
<1> QED
  BY <1>6, <1>7, <1>8 DEF PlazaInv, PicturesTrue

LEMMA WorkPlaza ==
  ASSUME PlazaInv, Work
  PROVE  PlazaInv'
<1>1. /\ jobs \in Seq(Job) /\ queue \in Seq(Nat) /\ worker \in WorkerState
      /\ DOMAIN jobs \subseteq Nat
  BY NumbersNat DEF PlazaInv, PlazaTyped
<1>2. CASE Begin
  <2> DEFINE id == Head(queue)
  <2>0. PICK image \in BOOLEAN : image = FALSE
    OBVIOUS
  <2>1. PICK js : /\ js = Updated(id, "working", image)
                  /\ Save(js) \/ SaveRaises(js)
                  /\ worker' = [phase |-> "Generate", id |-> id]
                     \/ worker' = [phase |-> "Dead", id |-> id]
    BY <1>2, <2>0 DEF Begin
  <2>2. queue # <<>> /\ queue' = Tail(queue) /\ UNCHANGED <<tries, client, requests, up, pictures>>
    BY <1>2 DEF Begin
  <2>3. /\ Tail(queue) \in Seq(Nat) /\ Len(queue) \in Nat \ {0} /\ DOMAIN queue = 1 .. Len(queue)
        /\ DOMAIN Tail(queue) = 1 .. Len(queue) - 1 /\ id = queue[1]
        /\ \A k \in 1 .. Len(queue) - 1 : Tail(queue)[k] = queue[k + 1]
    BY <1>1, <2>2, QueueTail
  <2>4. id \in DOMAIN jobs /\ \A k \in DOMAIN queue' : queue'[k] \in DOMAIN jobs
    BY <2>2, <2>3 DEF PlazaInv, NumbersKnown
  <2>5. worker' \in WorkerState /\ worker'.phase \in {"Generate", "Dead"} /\ worker'.id = id
    BY <1>1, <2>1, <2>4 DEF WorkerState
  <2> HIDE DEF id
  <2>6. queue' \in Seq(Nat) /\ UNCHANGED <<tries, client, requests, up, pictures>>
    BY <2>2, <2>3
  <2>7. worker'.phase # "Drawn" /\ worker'.id \in DOMAIN jobs
    BY <2>4, <2>5
  <2>8. PICK status \in {"queued", "working", "done", "error"} : status = "working"
    OBVIOUS
  <2>9. js = Updated(id, status, image)
    BY <2>1, <2>8
  <2>11. status = "done" /\ image => Shows(id, jobs[id].device)
    BY <2>8
  <2>10. Save(js) \/ SaveRaises(js)
    BY <2>1
  <2> QED
    BY <2>4, <2>5, <2>6, <2>7, <2>9, <2>10, <2>11, WorkerSaves
<1>3. CASE Generate
  <2>1. /\ worker.phase = "Generate" /\ UNCHANGED <<tries, client, requests, jobs, disk, up, queue>>
        /\ \/ WorkerAt("Drawn") /\ Drawn(worker.id)
           \/ WorkerAt("Undrawn") /\ UNCHANGED pictures
           \/ WorkerAt("Failed") /\ UNCHANGED pictures
    BY <1>3 DEF Generate, store
  <2>2. worker.id \in DOMAIN jobs
    BY <2>1 DEF PlazaInv, NumbersKnown
  <2>3. /\ worker' \in WorkerState /\ worker'.id = worker.id
        /\ worker'.phase \in {"Drawn", "Undrawn", "Failed"}
        /\ worker'.phase = "Drawn" => Drawn(worker.id)
        /\ worker'.phase # "Drawn" => UNCHANGED pictures
    BY <1>1, <2>1 DEF WorkerAt, WorkerState
  <2>4. PlazaTyped' /\ Scheduled' /\ NumbersKnown'
    BY <2>1, <2>2, <2>3 DEF PlazaInv, PlazaTyped, Scheduled, NumbersKnown
  <2>5. CASE UNCHANGED pictures /\ worker'.phase # "Drawn"
    BY <2>1, <2>4, <2>5 DEF PlazaInv, PicturesTrue, TrulyShown, Shows
  <2>6. CASE Drawn(worker.id)
    <3>1. /\ DOMAIN pictures' = DOMAIN pictures \cup {worker.id}
          /\ pictures'[worker.id] = jobs[worker.id].device
          /\ \A i \in DOMAIN pictures \ {worker.id} : pictures'[i] = pictures[i]
      BY <2>6 DEF Drawn
    <3>2. ASSUME NEW i \in DOMAIN jobs, NEW e \in Job, e.device = jobs[i].device,
                 e.status = "done" /\ e.image => Shows(i, e.device)
          PROVE  e.status = "done" /\ e.image => i \in DOMAIN pictures' /\ pictures'[i] = e.device
      BY <3>1, <3>2 DEF Shows
    <3>3. TrulyShown(jobs)'
      <4>1. \A i \in DOMAIN jobs : jobs[i] \in Job
        BY <1>1, JobOfStore
      <4> QED
        BY <2>1, <3>2, <4>1 DEF PlazaInv, PicturesTrue, TrulyShown, Shows
    <3>4. (disk # None => TrulyShown(disk))'
      <4>1. ASSUME disk # None, NEW i \in DOMAIN disk
            PROVE  i \in DOMAIN jobs /\ disk[i] \in Job /\ disk[i].device = jobs[i].device
        BY <4>1, <2>2, JobOfStore DEF PlazaInv, PlazaTyped, NumbersKnown
      <4> QED
        BY <2>1, <3>2, <4>1 DEF PlazaInv, PicturesTrue, TrulyShown, Shows
    <3> QED
      BY <2>1, <2>3, <2>4, <3>1, <3>3, <3>4 DEF PlazaInv, PicturesTrue, Shows
  <2> QED
    BY <2>3, <2>5, <2>6
<1>4. CASE Publish
  <2>1. PICK js : /\ js = Updated(worker.id, "done", worker.phase = "Drawn")
                  /\ Save(js) \/ SaveRaises(js)
                  /\ worker' = Idle \/ WorkerAt("Failed")
    BY <1>4 DEF Publish
  <2>2. /\ worker.phase \in {"Drawn", "Undrawn"}
        /\ UNCHANGED <<tries, client, requests, up, queue, pictures>>
    BY <1>4 DEF Publish
  <2>3. /\ worker.id \in DOMAIN jobs
        /\ worker.phase = "Drawn" => Shows(worker.id, jobs[worker.id].device)
    BY <2>2 DEF PlazaInv, NumbersKnown, PicturesTrue
  <2>4. /\ worker' \in WorkerState /\ worker'.phase \in {"Idle", "Failed"}
        /\ worker'.phase # "Idle" => worker'.id = worker.id
    BY <1>1, <2>1 DEF WorkerAt, WorkerState, Idle
  <2>5. queue' \in Seq(Nat) /\ \A k \in DOMAIN queue' : queue'[k] \in DOMAIN jobs
    BY <1>1, <2>2 DEF PlazaInv, NumbersKnown
  <2>6. PICK image \in BOOLEAN : image = (worker.phase = "Drawn")
    OBVIOUS
  <2> QED
    BY <2>1, <2>2, <2>3, <2>4, <2>5, <2>6, WorkerSaves
<1>5. CASE ReportError
  <2>1. PICK js : /\ js = Updated(worker.id, "error", jobs[worker.id].image)
                  /\ Save(js) \/ SaveRaises(js)
                  /\ worker' = Idle \/ WorkerAt("Dead")
    BY <1>5 DEF ReportError
  <2>2. worker.phase = "Failed" /\ UNCHANGED <<tries, client, requests, up, queue, pictures>>
    BY <1>5 DEF ReportError
  <2>3. worker.id \in DOMAIN jobs /\ jobs[worker.id].image \in BOOLEAN
    BY <1>1, <2>2, JobOfStore DEF PlazaInv, NumbersKnown, Job
  <2>4. /\ worker' \in WorkerState /\ worker'.phase \in {"Idle", "Dead"}
        /\ worker'.phase # "Idle" => worker'.id = worker.id
    BY <1>1, <2>1 DEF WorkerAt, WorkerState, Idle
  <2>5. queue' \in Seq(Nat) /\ \A k \in DOMAIN queue' : queue'[k] \in DOMAIN jobs
    BY <1>1, <2>2 DEF PlazaInv, NumbersKnown
  <2> QED
    BY <2>1, <2>2, <2>3, <2>4, <2>5, WorkerSaves
<1> QED
  BY <1>2, <1>3, <1>4, <1>5 DEF Work

(* What a thread or the worker may be writing: the jobs' numbers are their *)
(* devices', or the new one's, and pictures are truly shown.               *)
LEMMA WritingJobs ==
  ASSUME PlazaInv, NEW js \in Writing
  PROVE  /\ js \in Seq(Job) /\ TrulyShown(js)
         /\ \A i \in DOMAIN js :
              \/ i \in DOMAIN jobs /\ js[i].device = jobs[i].device
              \/ \E r \in requests : js[i].device = r.device
<1>1. /\ jobs \in Seq(Job) /\ queue \in Seq(Nat) /\ requests \subseteq PostRequest
      /\ \A i \in DOMAIN jobs :
           jobs[i].status = "done" /\ jobs[i].image => Shows(i, jobs[i].device)
  BY DEF PlazaInv, PlazaTyped, PicturesTrue, TrulyShown
<1>2. ASSUME NEW r \in requests, js = Append(jobs, NewJob(r.device))
      PROVE  /\ js \in Seq(Job) /\ TrulyShown(js)
             /\ \A i \in DOMAIN js :
                  \/ i \in DOMAIN jobs /\ js[i].device = jobs[i].device
                  \/ js[i].device = r.device
  <2>1. r.device \in Device
    BY <1>1 DEF PostRequest
  <2>2. /\ js \in Seq(Job) /\ DOMAIN js = DOMAIN jobs \cup {Len(js)}
        /\ js[Len(js)] = NewJob(r.device) /\ \A i \in DOMAIN jobs : js[i] = jobs[i]
    BY <1>1, <1>2, <2>1, AppendedJob
  <2>3. js[Len(js)].status # "done" /\ js[Len(js)].device = r.device
    BY <2>2 DEF NewJob
  <2> QED
    BY <1>1, <2>2, <2>3 DEF TrulyShown
<1>3. ASSUME NEW id \in DOMAIN jobs, NEW image \in BOOLEAN,
             NEW status \in {"queued", "working", "done", "error"},
             js = Updated(id, status, image),
             status = "done" /\ image => Shows(id, jobs[id].device)
      PROVE  /\ js \in Seq(Job) /\ TrulyShown(js)
             /\ \A i \in DOMAIN js : i \in DOMAIN jobs /\ js[i].device = jobs[i].device
  <2>1. /\ js \in Seq(Job) /\ DOMAIN js = DOMAIN jobs
        /\ js[id].status = status /\ js[id].image = image /\ js[id].device = jobs[id].device
        /\ \A i \in DOMAIN jobs \ {id} : js[i] = jobs[i]
    BY <1>1, <1>3, UpdatedJobs
  <2> QED
    BY <1>1, <1>3, <2>1 DEF TrulyShown
<1>4. CASE \E r \in requests : js = Append(jobs, NewJob(r.device))
  BY <1>2, <1>4
<1>5. CASE queue # <<>> /\ js = Updated(Head(queue), "working", FALSE)
  <2>1. Head(queue) = queue[1] /\ 1 \in DOMAIN queue
    BY <1>1, <1>5, QueueTail
  <2>2. Head(queue) \in DOMAIN jobs
    BY <2>1 DEF PlazaInv, NumbersKnown
  <2>3. PICK status \in {"queued", "working", "done", "error"} : status = "working"
    OBVIOUS
  <2>4. PICK image \in BOOLEAN : image = FALSE
    OBVIOUS
  <2> QED
    BY <1>3, <1>5, <2>2, <2>3, <2>4
<1>6. CASE /\ worker.phase \in {"Drawn", "Undrawn"}
           /\ js = Updated(worker.id, "done", worker.phase = "Drawn")
  <2>1. /\ worker.id \in DOMAIN jobs
        /\ worker.phase = "Drawn" => Shows(worker.id, jobs[worker.id].device)
    BY <1>6 DEF PlazaInv, NumbersKnown, PicturesTrue
  <2>2. PICK image \in BOOLEAN : image = (worker.phase = "Drawn")
    OBVIOUS
  <2> QED
    BY <1>3, <1>6, <2>1, <2>2
<1>7. CASE /\ worker.phase = "Failed"
           /\ js = Updated(worker.id, "error", jobs[worker.id].image)
  <2>1. worker.id \in DOMAIN jobs /\ jobs[worker.id].image \in BOOLEAN
    BY <1>1, <1>7, JobOfStore DEF PlazaInv, NumbersKnown, Job
  <2> QED
    BY <1>3, <1>7, <2>1
<1> QED
  BY <1>4, <1>5, <1>6, <1>7 DEF Writing

LEMMA CrashPlaza ==
  ASSUME PlazaInv, Crash
  PROVE  PlazaInv'
<1>1. /\ ~up' /\ jobs' = <<>> /\ queue' = <<>> /\ worker' = Idle /\ requests' = {}
      /\ UNCHANGED <<tries, client, pictures>>
      /\ disk' = disk \/ \E js \in Writing : disk' \in Cut(js)
  BY DEF Crash
<1>2. disk' = disk \/ (disk' # None => disk' \in Seq(Job) /\ TrulyShown(disk'))
  <2>1. ASSUME NEW js \in Writing, disk' \in Cut(js), disk' # None
        PROVE  disk' \in Seq(Job) /\ TrulyShown(disk')
    <3>1. js \in Seq(Job) /\ TrulyShown(js)
      BY WritingJobs
    <3>2. /\ disk' \in Seq(Job)
          /\ \A i \in DOMAIN disk' : i \in DOMAIN js /\ disk'[i] = js[i]
      BY <2>1, <3>1, CutJobs
    <3> QED
      BY <3>1, <3>2 DEF TrulyShown
  <2> QED
    BY <1>1, <2>1
<1>3. <<>> \in Seq(Job) /\ <<>> \in Seq(Nat) /\ DOMAIN <<>> = {} /\ Idle \in WorkerState
      /\ Idle.phase = "Idle"
  BY DEF Idle, WorkerState
<1>4. PlazaTyped' /\ Scheduled'
  BY <1>1, <1>2, <1>3 DEF PlazaInv, PlazaTyped, Scheduled
<1>5. NumbersKnown'
  BY <1>1, <1>3 DEF NumbersKnown
<1>6. PicturesTrue'
  BY <1>1, <1>2, <1>3 DEF PlazaInv, PicturesTrue, TrulyShown, Shows
<1> QED
  BY <1>4, <1>5, <1>6 DEF PlazaInv

LEMMA StartPlaza ==
  ASSUME PlazaInv, Start
  PROVE  PlazaInv'
<1>1. /\ ~up /\ disk # None /\ up' /\ jobs' = Restarted(disk)
      /\ UNCHANGED <<tries, client, requests, disk, queue, worker, pictures>>
  BY DEF Start
<1>2. /\ Restarted(disk) \in Seq(Job) /\ DOMAIN Restarted(disk) = DOMAIN disk
      /\ \A i \in DOMAIN disk :
           /\ Restarted(disk)[i].device = disk[i].device
           /\ Restarted(disk)[i].status = "done" => Restarted(disk)[i] = disk[i]
  BY <1>1, RestartedJobs DEF PlazaInv, PlazaTyped
<1>3. requests = {} /\ jobs = <<>> /\ DOMAIN jobs = {}
  BY <1>1 DEF PlazaInv, NumbersKnown
<1>4. PlazaTyped' /\ Scheduled'
  BY <1>1, <1>2 DEF PlazaInv, PlazaTyped, Scheduled
<1>5. NumbersKnown'
  BY <1>1, <1>2, <1>3 DEF PlazaInv, NumbersKnown
<1>6. TrulyShown(jobs)' /\ (disk # None => TrulyShown(disk))'
  BY <1>1, <1>2 DEF PlazaInv, PicturesTrue, TrulyShown, Shows
<1>7. worker'.phase # "Drawn"
  BY <1>1, <1>3 DEF PlazaInv, NumbersKnown
<1> QED
  BY <1>4, <1>5, <1>6, <1>7 DEF PlazaInv, PicturesTrue

(* What time does to the posts, the requests and the store.                *)
LEMMA TickSteps ==
  ASSUME PlazaTyped, Scheduled, Tick
  PROVE  /\ client' \in [Device -> Post] /\ Scheduled'
         /\ \A d \in Device : /\ client'[d].phase = client[d].phase
                              /\ client'[d].attempt = client[d].attempt
                              /\ client'[d].id = client[d].id /\ client'[d].shown = client[d].shown
                              /\ client'[d].timer = Elapse(client[d].timer)
         /\ requests' \subseteq PostRequest
         /\ \A q \in requests' : \E r \in requests :
              /\ q.step = r.step /\ q.id = r.id /\ q.device = r.device /\ q.attempt = r.attempt
              /\ q.wait = Elapse(r.wait)
         /\ requests = {} => requests' = {}
         /\ jobs' = Aged(jobs) /\ disk' = IF disk = None THEN None ELSE Aged(disk)
         /\ UNCHANGED <<tries, torn, lost, up, queue, worker, pictures>>
<1>1. /\ client' = [d \in Device |-> [client[d] EXCEPT !.timer = Elapse(@)]]
      /\ requests' = {[r EXCEPT !.wait = Elapse(@)] : r \in requests}
      /\ jobs' = Aged(jobs) /\ disk' = IF disk = None THEN None ELSE Aged(disk)
      /\ UNCHANGED <<tries, torn, lost, up, queue, worker, pictures>>
  BY DEF Tick, server
<1>2. ASSUME NEW d \in Device
      PROVE  /\ client'[d] \in Post
             /\ client'[d].phase = client[d].phase /\ client'[d].attempt = client[d].attempt
             /\ client'[d].id = client[d].id /\ client'[d].shown = client[d].shown
             /\ client'[d].timer = Elapse(client[d].timer) /\ client'[d].timer <= client[d].timer
  <2>1. client[d] \in Post /\ client'[d] = [client[d] EXCEPT !.timer = Elapse(@)]
    BY <1>1 DEF PlazaTyped
  <2>2. /\ client[d].timer \in Nat /\ Elapse(client[d].timer) \in Nat
        /\ Elapse(client[d].timer) <= client[d].timer
    BY <2>1 DEF Post, Elapse
  <2> HIDE DEF Elapse
  <2> QED
    BY <2>1, <2>2 DEF Post
<1>3. client' \in [Device -> Post]
  BY <1>1, <1>2
<1>4. ASSUME NEW r \in requests, NEW q, q = [r EXCEPT !.wait = Elapse(@)]
      PROVE  /\ q \in PostRequest /\ q.step = r.step /\ q.id = r.id /\ q.device = r.device
             /\ q.attempt = r.attempt /\ q.wait = Elapse(r.wait)
  <2>1. r \in PostRequest /\ r.wait \in 0 .. Latency /\ Latency \in Nat
    BY PlazaAssumption DEF PlazaTyped, PostRequest
  <2>2. Elapse(r.wait) \in 0 .. Latency
    BY <2>1 DEF Elapse
  <2> QED
    BY <1>4, <2>1, <2>2 DEF PostRequest
<1>5. Scheduled'
  <2>1. ASSUME NEW d \in Device
        PROVE  LET c == client'[d]
               IN  /\ c.phase \in {"Connect", "Await", "Sleep"} => c.attempt \in 1 .. tries[d]
                   /\ c.phase = "Connect" => c.timer <= ConnectTimeout
                   /\ c.phase = "Await" => c.timer <= IoTimeout
                   /\ c.phase = "Sleep" => c.attempt < tries[d] /\ c.timer <= Pause(c.attempt)
    <3>1. /\ client[d].timer \in Nat /\ client'[d].timer \in Nat /\ client[d].attempt \in Nat
          /\ ConnectTimeout \in Nat /\ IoTimeout \in Nat
      BY <1>2, PlazaAssumption DEF PlazaTyped, Post
    <3>2. Pause(client[d].attempt) \in Nat
      BY <3>1, PauseType
    <3> QED
      BY <1>2, <3>1, <3>2 DEF Scheduled
  <2> QED
    BY <1>1, <2>1 DEF Scheduled
<1> QED
  BY <1>1, <1>2, <1>3, <1>4, <1>5

LEMMA TickPlaza ==
  ASSUME PlazaInv, Tick
  PROVE  PlazaInv'
<1>1. /\ client' \in [Device -> Post] /\ Scheduled' /\ requests' \subseteq PostRequest
      /\ \A q \in requests' : \E r \in requests :
           q.step = r.step /\ q.id = r.id /\ q.device = r.device
      /\ requests = {} => requests' = {}
      /\ jobs' = Aged(jobs) /\ disk' = IF disk = None THEN None ELSE Aged(disk)
      /\ UNCHANGED <<tries, up, queue, worker, pictures>>
  BY TickSteps DEF PlazaInv
<1>2. /\ Aged(jobs) \in Seq(Job) /\ DOMAIN Aged(jobs) = DOMAIN jobs
      /\ \A i \in DOMAIN jobs :
           /\ Aged(jobs)[i].device = jobs[i].device /\ Aged(jobs)[i].status = jobs[i].status
           /\ Aged(jobs)[i].image = jobs[i].image
  BY AgedJobs DEF PlazaInv, PlazaTyped
<1>3. disk # None =>
        /\ Aged(disk) \in Seq(Job) /\ DOMAIN Aged(disk) = DOMAIN disk
        /\ \A i \in DOMAIN disk :
           /\ Aged(disk)[i].device = disk[i].device /\ Aged(disk)[i].status = disk[i].status
           /\ Aged(disk)[i].image = disk[i].image
  BY AgedJobs DEF PlazaInv, PlazaTyped
<1>4. PlazaTyped'
  BY <1>1, <1>2, <1>3 DEF PlazaInv, PlazaTyped
<1>5. NumbersKnown'
  <2>1. jobs = <<>> => Aged(jobs) = <<>>
    BY <1>2, EmptyStore DEF PlazaInv, PlazaTyped
  <2> QED
    BY <1>1, <1>2, <1>3, <2>1 DEF PlazaInv, NumbersKnown
<1>6. TrulyShown(jobs)'
  BY <1>1, <1>2 DEF PlazaInv, PicturesTrue, TrulyShown, Shows
<1>7. disk' # None => TrulyShown(disk)'
  BY <1>1, <1>3 DEF PlazaInv, PicturesTrue, TrulyShown, Shows
<1>8. worker'.phase = "Drawn" => Shows(worker.id, jobs[worker.id].device)'
  BY <1>1, <1>2 DEF PlazaInv, PicturesTrue, NumbersKnown, Shows
<1> QED
  BY <1>1, <1>4, <1>5, <1>6, <1>7, <1>8 DEF PlazaInv, PicturesTrue

LEMMA PlazaInvKept ==
  ASSUME PlazaInv, [Next]_vars
  PROVE  PlazaInv'
<1>1. CASE UNCHANGED vars
  BY <1>1 DEF vars, store, server, PlazaInv, PlazaTyped, Scheduled, NumbersKnown, PicturesTrue,
     TrulyShown, Shows
<1>2. Thread => PlazaInv'
  BY AddPlaza, PutPlaza, AnswerPlaza DEF Thread
<1> QED
  BY <1>1, <1>2, TrackPlaza, WorkPlaza, CrashPlaza, StartPlaza, TickPlaza DEF Next

LEMMA InitPlaza == Init => PlazaInv
<1> SUFFICES ASSUME Init PROVE PlazaInv
  OBVIOUS
<1>1. NoPost \in Post /\ NoPost.phase = "Idle"
  BY PlazaAssumption DEF NoPost, Post
<1>2. Idle \in WorkerState /\ Idle.phase = "Idle"
  BY DEF Idle, WorkerState
<1>3. PlazaTyped /\ Scheduled
  BY <1>1, <1>2, PlazaAssumption DEF Init, PlazaTyped, Scheduled
<1>4. NumbersKnown /\ PicturesTrue
  BY <1>2 DEF Init, NumbersKnown, PicturesTrue, TrulyShown
<1> QED
  BY <1>3, <1>4 DEF PlazaInv

(* The numbers that the threads, the queue, the worker and the file hold   *)
(* are of the same device's job as in memory, and every picture announced  *)
(* is drawn.                                                               *)
THEOREM PlazaInvariant == Spec => []PlazaInv
<1>1. PlazaInv /\ [Next]_vars => PlazaInv'
  BY PlazaInvKept
<1> QED
  BY <1>1, InitPlaza, PTL DEF Spec

(* A job that is done with a picture has the picture of its own sentence,  *)
(* in whatever order threads and worker run, whenever the server ends and  *)
(* whatever a write leaves of jobs.jsonl, though numbers are used again    *)
(* for other jobs then and old image files stay.                           *)
THEOREM PicturesShown == Spec => []PictureShown
<1>1. PlazaInv => PictureShown
  <2> SUFFICES ASSUME PlazaInv PROVE PictureShown
    OBVIOUS
  <2>1. CASE up
    BY <2>1 DEF PlazaInv, PicturesTrue, TrulyShown, Shows, PictureShown, Known
  <2>2. CASE ~up /\ disk # None
    <3>1. /\ DOMAIN Restarted(disk) = DOMAIN disk
          /\ \A i \in DOMAIN disk :
               Restarted(disk)[i].status = "done" => Restarted(disk)[i] = disk[i]
      BY <2>2, RestartedJobs DEF PlazaInv, PlazaTyped
    <3>2. Known = Restarted(disk)
      BY <2>2 DEF Known
    <3> QED
      BY <2>2, <3>1, <3>2 DEF PlazaInv, PicturesTrue, TrulyShown, Shows, PictureShown
  <2>3. CASE ~up /\ disk = None
    BY <2>3 DEF PictureShown, Known
  <2> QED
    BY <2>1, <2>2, <2>3
<1> QED
  BY <1>1, PlazaInvariant, PTL

-----------------------------------------------------------------------------
(* What becomes of the jobs a client can find. *)

LEMMA RestartedAgain ==
  ASSUME NEW js \in Seq(Job)
  PROVE  Restarted(Restarted(js)) = Restarted(js)
<1>1. /\ DOMAIN Restarted(js) = DOMAIN js
      /\ \A i \in DOMAIN js : Final(Restarted(js)[i])
  BY RestartedJobs
<1>2. Restarted(js) = [i \in DOMAIN js |-> Restarted(js)[i]]
  BY DEF Restarted
<1> QED
  BY <1>1, <1>2 DEF Restarted

LEMMA RestartedAged ==
  ASSUME NEW js \in Seq(Job)
  PROVE  Restarted(Aged(js)) = Aged(Restarted(js))
<1> DEFINE a == Restarted(Aged(js))  b == Aged(Restarted(js))
<1>1. /\ Aged(js) \in Seq(Job) /\ DOMAIN Aged(js) = DOMAIN js
      /\ Restarted(js) \in Seq(Job) /\ DOMAIN Restarted(js) = DOMAIN js
  BY AgedJobs, RestartedJobs
<1>2. DOMAIN a = DOMAIN js /\ DOMAIN b = DOMAIN js
  BY <1>1, AgedJobs, RestartedJobs
<1>3. ASSUME NEW i \in DOMAIN js PROVE a[i] = b[i]
  <2>1. js[i] \in Job
    BY JobOfStore
  <2>2. Aged(js)[i] = [js[i] EXCEPT !.fresh = Elapse(@)]
    BY DEF Aged
  <2>3. a[i] = IF Final(Aged(js)[i]) THEN Aged(js)[i] ELSE [Aged(js)[i] EXCEPT !.status = "error"]
    BY <1>1 DEF Restarted
  <2>4. b[i] = [Restarted(js)[i] EXCEPT !.fresh = Elapse(@)]
    BY <1>1 DEF Aged
  <2>5. Restarted(js)[i] = IF Final(js[i]) THEN js[i] ELSE [js[i] EXCEPT !.status = "error"]
    BY DEF Restarted
  <2> HIDE DEF a, b, Elapse
  <2>6. Final(Aged(js)[i]) <=> Final(js[i])
    BY <2>1, <2>2 DEF Final, Job
  <2>7. PICK t : t = Elapse(js[i].fresh)
    OBVIOUS
  <2>8. Aged(js)[i] = [js[i] EXCEPT !.fresh = t]
    BY <2>2, <2>7
  <2>9. CASE Final(js[i])
    BY <2>2, <2>3, <2>4, <2>5, <2>6, <2>9
  <2>10. CASE ~Final(js[i])
    <3>1. a[i] = [[js[i] EXCEPT !.fresh = t] EXCEPT !.status = "error"]
      BY <2>3, <2>6, <2>8, <2>10
    <3>2. Restarted(js)[i] = [js[i] EXCEPT !.status = "error"]
      BY <2>5, <2>10
    <3>3. b[i] = [[js[i] EXCEPT !.status = "error"] EXCEPT !.fresh = Elapse(js[i].fresh)]
      BY <2>1, <2>4, <3>2 DEF Job
    <3> QED
      BY <2>1, <2>7, <3>1, <3>3 DEF Job
  <2> QED
    BY <2>9, <2>10
<1>4. a = [i \in DOMAIN js |-> a[i]] /\ b = [i \in DOMAIN js |-> b[i]]
  BY <1>1 DEF Restarted, Aged
<1> HIDE DEF a, b
<1>5. \A i \in DOMAIN js : a[i] = b[i]
  BY <1>3
<1>6. [i \in DOMAIN js |-> a[i]] = [i \in DOMAIN js |-> b[i]]
  BY <1>5
<1>7. a = b
  BY ONLY <1>4, <1>6
<1> QED
  BY <1>7 DEF a, b

(* No job gets lost or changes its end.                                    *)
KnownKept ==
  /\ lost => lost'
  /\ torn => torn'
  /\ lost' \/ \A i \in DOMAIN Known : i \in DOMAIN Known' /\ Known'[i].device = Known[i].device
  /\ torn' \/ \A i \in DOMAIN Known :
                Final(Known[i]) => i \in DOMAIN Known' /\ Known'[i].status = Known[i].status

Kept == OneWay' /\ OnTheWay' /\ FileRestores' /\ KnownKept

LEMMA QuietStore ==
  ASSUME PlazaInv, FileRestores, UNCHANGED <<jobs, disk, torn, lost, up>>
  PROVE  FileRestores' /\ KnownKept
<1>1. Known' = Known
  BY DEF Known
<1> QED
  BY <1>1 DEF FileRestores, Restores, KnownKept, Final

(* A save keeps what its update keeps.                                     *)
LEMMA SavedStore ==
  ASSUME PlazaInv, FileRestores, up, UNCHANGED up, NEW js \in Seq(Job),
         Save(js) \/ SaveRaises(js),
         \A i \in DOMAIN jobs : i \in DOMAIN js /\ js[i].device = jobs[i].device,
         torn \/ \A i \in DOMAIN jobs : Final(jobs[i]) => js[i].status = jobs[i].status
  PROVE  FileRestores' /\ KnownKept
<1>1. /\ jobs' = js /\ UNCHANGED lost
      /\ (disk' = js /\ UNCHANGED torn) \/ torn'
  BY DEF Save, SaveRaises
<1>2. Known = jobs /\ Known' = js
  BY <1>1 DEF Known
<1>3. FileRestores'
  BY <1>1, StoreAssumption DEF FileRestores, Restores
<1> QED
  BY <1>1, <1>2, <1>3 DEF KnownKept

LEMMA TrackKept ==
  ASSUME JobsInv, NEW d \in Device, Track(d)
  PROVE  Kept
<1>1. /\ UNCHANGED <<jobs, disk, torn, lost, up, queue, worker>>
      /\ requests' = requests \/ \E q \in PostRequest : /\ requests' = requests \cup {q}
                                                        /\ q.step = "Add"
  BY TrackPosts DEF JobsInv, PlazaInv, store, server
<1>2. FileRestores' /\ KnownKept
  BY <1>1, QuietStore DEF JobsInv
<1>3. OneWay' /\ OnTheWay'
  BY <1>1 DEF JobsInv, OneWay, OnTheWay
<1> QED
  BY <1>2, <1>3 DEF Kept

LEMMA AddKept ==
  ASSUME JobsInv, NEW r \in requests, Add(r)
  PROVE  Kept
<1>1. /\ UNCHANGED <<up, queue, worker>> /\ PlazaTyped /\ PlazaInv
      /\ r.device \in Device /\ jobs \in Seq(Job) /\ up /\ DOMAIN jobs \subseteq Nat
  BY AddSteps, NumbersNat
     DEF JobsInv, PlazaInv, PlazaTyped, PostRequest, server, NumbersKnown
<1>2. ASSUME NEW i \in Equal(r.device), Moved(r, "Answer", i), UNCHANGED store
      PROVE  Kept
  <2>1. i \in Nat
    BY <1>1 DEF Equal
  <2>2. PICK q \in PostRequest : /\ requests' = (requests \ {r}) \cup {q} /\ q.step = "Answer"
    BY <1>1, <1>2, <2>1, MovedRequest
  <2>3. UNCHANGED <<jobs, disk, torn, lost>>
    BY <1>2 DEF store
  <2>4. FileRestores' /\ KnownKept
    BY <1>1, <2>3, QuietStore DEF JobsInv
  <2>5. OneWay' /\ OnTheWay'
    BY <1>1, <2>2, <2>3 DEF JobsInv, OneWay, OnTheWay
  <2> QED
    BY <2>4, <2>5 DEF Kept
<1>3. ASSUME NEW js, js = Append(jobs, NewJob(r.device)),
             \/ Save(js) /\ Moved(r, "Put", Len(js))
             \/ SaveRaises(js) /\ requests' = requests \ {r}
      PROVE  Kept
  <2>1. /\ js \in Seq(Job) /\ Len(js) \in Nat /\ Len(js) \notin DOMAIN jobs
        /\ DOMAIN js = DOMAIN jobs \cup {Len(js)}
        /\ js[Len(js)] = NewJob(r.device) /\ \A i \in DOMAIN jobs : js[i] = jobs[i]
    BY <1>1, <1>3, AppendedJob
  <2>2. jobs' = js /\ (torn' \/ UNCHANGED torn)
    BY <1>3 DEF Save, SaveRaises
  <2>3. \/ requests' = requests \ {r}
        \/ \E q \in PostRequest : requests' = (requests \ {r}) \cup {q} /\ q.id = Len(js)
    BY <1>1, <1>3, <2>1, MovedRequest
  <2>4. FileRestores' /\ KnownKept
    BY <1>1, <1>3, <2>1, SavedStore DEF JobsInv
  <2>5. OneWay'
    <3>1. /\ \A k \in DOMAIN queue : queue[k] # Len(js)
          /\ \A s \in requests : s.step = "Put" => s.id # Len(js)
      BY <1>1, <2>1 DEF PlazaInv, NumbersKnown
    <3>2. CASE requests' = requests \ {r}
      BY <1>1, <3>2 DEF JobsInv, OneWay
    <3>3. CASE requests' # requests \ {r}
      <4>1. PICK q \in PostRequest : requests' = (requests \ {r}) \cup {q} /\ q.id = Len(js)
        BY <2>3, <3>3
      <4> QED
        BY <1>1, <3>1, <4>1 DEF JobsInv, OneWay
    <3> QED
      BY <3>2, <3>3
  <2>6. js[Len(js)].status = "queued"
    BY <2>1 DEF NewJob
  <2>7. OnTheWay'
    BY <1>1, <2>1, <2>2, <2>3, <2>6 DEF JobsInv, PlazaInv, NumbersKnown, OnTheWay
  <2> QED
    BY <2>4, <2>5, <2>7 DEF Kept
<1> QED
  BY <1>1, <1>2, <1>3, AddSteps

LEMMA PutKept ==
  ASSUME JobsInv, NEW r \in requests, Put(r)
  PROVE  Kept
<1>1. /\ UNCHANGED <<jobs, disk, torn, lost, up, worker>>
      /\ r.step = "Put" /\ queue' = Append(queue, r.id)
  BY DEF Put, store
<1>2. /\ r.id \in DOMAIN jobs /\ r.id \in Nat /\ queue \in Seq(Nat)
  BY <1>1, NumbersNat DEF JobsInv, PlazaInv, NumbersKnown, PlazaTyped
<1>3. PICK q \in PostRequest : requests' = (requests \ {r}) \cup {q} /\ q.step = "Answer"
  BY <1>2, MovedRequest DEF Put, JobsInv, PlazaInv
<1>4. /\ Len(queue) \in Nat /\ DOMAIN queue = 1 .. Len(queue)
      /\ DOMAIN queue' = 1 .. Len(queue) + 1 /\ queue'[Len(queue) + 1] = r.id
      /\ \A k \in 1 .. Len(queue) : queue'[k] = queue[k]
  BY <1>1, <1>2, AppendProperties, LenProperties
<1>5. FileRestores' /\ KnownKept
  BY <1>1, QuietStore DEF JobsInv
<1>6. \A k \in DOMAIN queue' : \/ k \in DOMAIN queue /\ queue'[k] = queue[k]
                               \/ k \notin DOMAIN queue /\ k = Len(queue) + 1 /\ queue'[k] = r.id
  BY <1>4
<1> HIDE DEF Kept
<1>7. OneWay'
  BY <1>1, <1>3, <1>6 DEF JobsInv, OneWay
<1>8. OnTheWay'
  BY <1>1, <1>3, <1>6 DEF JobsInv, OnTheWay
<1> QED
  BY <1>5, <1>7, <1>8 DEF Kept

LEMMA AnswerKept ==
  ASSUME JobsInv, NEW r \in requests, Answer(r)
  PROVE  Kept
<1>1. UNCHANGED <<jobs, disk, torn, lost, up, queue, worker>> /\ requests' = requests \ {r}
  BY DEF Answer, store, server
<1>2. FileRestores' /\ KnownKept
  BY <1>1, QuietStore DEF JobsInv
<1>3. OneWay' /\ OnTheWay'
  BY <1>1 DEF JobsInv, OneWay, OnTheWay
<1> QED
  BY <1>2, <1>3 DEF Kept

LEMMA UpdateKept ==
  ASSUME PlazaInv, FileRestores, NEW id \in DOMAIN jobs, NEW image \in BOOLEAN, NEW js,
         NEW status \in {"queued", "working", "done", "error"},
         js = Updated(id, status, image), Save(js) \/ SaveRaises(js),
         torn \/ ~Final(jobs[id]), UNCHANGED up
  PROVE  /\ FileRestores' /\ KnownKept
         /\ jobs'[id].status = status /\ \A i \in DOMAIN jobs \ {id} : jobs'[i] = jobs[i]
         /\ torn' \/ (Save(js) /\ UNCHANGED torn)
<1>1. jobs \in Seq(Job) /\ up
  BY DEF PlazaInv, PlazaTyped, NumbersKnown
<1>2. /\ js \in Seq(Job) /\ DOMAIN js = DOMAIN jobs
      /\ js[id].status = status /\ js[id].image = image /\ js[id].device = jobs[id].device
      /\ \A i \in DOMAIN jobs \ {id} : js[i] = jobs[i]
  BY <1>1, UpdatedJobs
<1>3. \A i \in DOMAIN jobs : i \in DOMAIN js /\ js[i].device = jobs[i].device
  BY <1>2
<1>4. torn \/ \A i \in DOMAIN jobs : Final(jobs[i]) => js[i].status = jobs[i].status
  BY <1>2
<1>5. FileRestores' /\ KnownKept
  BY <1>1, <1>2, <1>3, <1>4, SavedStore
<1>6. jobs' = js /\ (torn' \/ (Save(js) /\ UNCHANGED torn))
  BY DEF Save, SaveRaises
<1> QED
  BY <1>2, <1>5, <1>6

LEMMA WorkKept ==
  ASSUME JobsInv, Work
  PROVE  Kept
<1>1. /\ jobs \in Seq(Job) /\ queue \in Seq(Nat) /\ worker \in WorkerState /\ PlazaInv
  BY DEF JobsInv, PlazaInv, PlazaTyped
<1>2. CASE Begin
  <2> DEFINE id == Head(queue)
  <2>0. PICK image \in BOOLEAN : image = FALSE
    OBVIOUS
  <2>1. PICK js : /\ js = Updated(id, "working", image)
                  /\ Save(js) \/ SaveRaises(js)
                  /\ worker' = [phase |-> "Generate", id |-> id]
                     \/ worker' = [phase |-> "Dead", id |-> id]
    BY <1>2, <2>0 DEF Begin
  <2>2. queue # <<>> /\ queue' = Tail(queue) /\ UNCHANGED <<requests, up>>
    BY <1>2 DEF Begin
  <2>3. /\ Tail(queue) \in Seq(Nat) /\ Len(queue) \in Nat \ {0} /\ DOMAIN queue = 1 .. Len(queue)
        /\ DOMAIN Tail(queue) = 1 .. Len(queue) - 1 /\ id = queue[1]
        /\ \A k \in 1 .. Len(queue) - 1 : Tail(queue)[k] = queue[k + 1]
    BY <1>1, <2>2, QueueTail
  <2>4. 1 \in DOMAIN queue /\ id = queue[1] /\ id \in DOMAIN jobs
    BY <1>1, <2>3 DEF PlazaInv, NumbersKnown
  <2>5. worker'.id = id
    BY <2>1
  <2> HIDE DEF id
  <2>6. torn \/ ~Final(jobs[id])
    BY <2>4 DEF JobsInv, OnTheWay, Final
  <2>7. PICK status \in {"queued", "working", "done", "error"} : status = "working"
    OBVIOUS
  <2>8. js = Updated(id, status, image) /\ (Save(js) \/ SaveRaises(js)) /\ UNCHANGED up
    BY <2>1, <2>2, <2>7
  <2>9. /\ FileRestores' /\ KnownKept /\ (torn' \/ UNCHANGED torn)
        /\ jobs'[id].status = status /\ \A i \in DOMAIN jobs \ {id} : jobs'[i] = jobs[i]
    BY <1>1, <2>4, <2>6, <2>8, UpdateKept DEF JobsInv
  <2>10. \A k \in DOMAIN queue' : /\ k + 1 \in DOMAIN queue /\ queue'[k] = queue[k + 1]
                                  /\ k \in Nat /\ k + 1 # 1
    BY <2>2, <2>3
  <2>11. OneWay'
    <3>1. \A i, k \in DOMAIN queue' : queue'[i] = queue'[k] => i + 1 = k + 1
      BY <2>10 DEF JobsInv, OneWay
    <3>2. \A i, k \in DOMAIN queue' : queue'[i] = queue'[k] => i = k
      BY <2>10, <3>1
    <3> QED
      BY <2>2, <2>10, <3>2 DEF JobsInv, OneWay
  <2>12. OnTheWay'
    <3>1. \A k \in DOMAIN queue' : queue'[k] \in DOMAIN jobs \ {id}
      BY <1>1, <2>4, <2>10 DEF JobsInv, OneWay, PlazaInv, NumbersKnown
    <3>2. \A r \in requests : r.step = "Put" => r.id \in DOMAIN jobs \ {id}
      BY <1>1, <2>4 DEF JobsInv, OneWay, PlazaInv, NumbersKnown
    <3>3. torn' \/ \A r \in requests : r.step = "Put" => jobs'[r.id].status = "queued"
      BY <2>9, <3>2 DEF JobsInv, OnTheWay
    <3>4. torn' \/ \A k \in DOMAIN queue' : jobs'[queue'[k]].status = "queued"
      BY <2>9, <2>10, <3>1 DEF JobsInv, OnTheWay
    <3> QED
      BY <2>2, <2>5, <2>7, <2>9, <3>3, <3>4 DEF OnTheWay
  <2> QED
    BY <2>9, <2>11, <2>12 DEF Kept
<1>3. CASE Generate
  <2>1. /\ worker.phase = "Generate" /\ UNCHANGED <<requests, jobs, disk, torn, lost, up, queue>>
        /\ WorkerAt("Drawn") \/ WorkerAt("Undrawn") \/ WorkerAt("Failed")
    BY <1>3 DEF Generate, store
  <2>2. worker'.id = worker.id
    BY <1>1, <2>1 DEF WorkerAt, WorkerState
  <2>3. FileRestores' /\ KnownKept
    BY <2>1, QuietStore DEF JobsInv
  <2>4. OneWay' /\ OnTheWay'
    BY <2>1, <2>2 DEF JobsInv, OneWay, OnTheWay
  <2> QED
    BY <2>3, <2>4 DEF Kept
<1>4. ASSUME NEW image \in BOOLEAN, NEW js, NEW status \in {"done", "error"},
             worker.phase # "Idle",
             js = Updated(worker.id, status, image), (Save(js) /\ worker' = Idle) \/ SaveRaises(js),
             UNCHANGED <<requests, queue, up>>
      PROVE  Kept
  <2>1. worker.id \in DOMAIN jobs /\ (torn \/ ~Final(jobs[worker.id]))
    BY <1>1, <1>4 DEF PlazaInv, NumbersKnown, JobsInv, OnTheWay, Final
  <2>2. PICK final \in {"queued", "working", "done", "error"} : final = status
    BY <1>4
  <2>3. js = Updated(worker.id, final, image) /\ (Save(js) \/ SaveRaises(js)) /\ UNCHANGED up
    BY <1>4, <2>2
  <2>4. /\ FileRestores' /\ KnownKept
        /\ \A i \in DOMAIN jobs \ {worker.id} : jobs'[i] = jobs[i]
        /\ torn' \/ (Save(js) /\ UNCHANGED torn)
    BY <1>1, <2>1, <2>3, UpdateKept DEF JobsInv
  <2>5. torn' \/ (~torn /\ worker' = Idle)
    BY <1>4, <2>4 DEF SaveRaises
  <2>6. OneWay'
    BY <1>4 DEF JobsInv, OneWay
  <2>7. OnTheWay'
    <3>1. torn \/ \A r \in requests : r.step = "Put" => r.id \in DOMAIN jobs \ {worker.id}
      BY <1>1, <1>4 DEF JobsInv, PlazaInv, NumbersKnown, OnTheWay
    <3>2. torn \/ \A k \in DOMAIN queue : queue[k] \in DOMAIN jobs \ {worker.id}
      BY <1>1, <1>4 DEF JobsInv, PlazaInv, NumbersKnown, OnTheWay
    <3>3. torn' \/ \A r \in requests : r.step = "Put" => jobs'[r.id].status = "queued"
      BY <2>4, <2>5, <3>1 DEF JobsInv, OnTheWay
    <3>4. torn' \/ \A k \in DOMAIN queue : jobs'[queue[k]].status = "queued"
      BY <2>4, <2>5, <3>2 DEF JobsInv, OnTheWay
    <3>5. torn' \/ worker'.phase = "Idle"
      BY <2>5 DEF Idle
    <3> QED
      BY <1>4, <3>3, <3>4, <3>5 DEF OnTheWay
  <2> QED
    BY <2>4, <2>6, <2>7 DEF Kept
<1>5. CASE Publish
  <2>1. PICK js : /\ js = Updated(worker.id, "done", worker.phase = "Drawn")
                  /\ (Save(js) /\ worker' = Idle) \/ SaveRaises(js)
    BY <1>5 DEF Publish
  <2>2. worker.phase \in {"Drawn", "Undrawn"} /\ UNCHANGED <<requests, up, queue>>
    BY <1>5 DEF Publish
  <2>3. PICK image \in BOOLEAN : image = (worker.phase = "Drawn")
    OBVIOUS
  <2>4. js = Updated(worker.id, "done", image) /\ worker.phase # "Idle"
    BY <2>1, <2>2, <2>3
  <2> QED
    BY <1>4, <2>1, <2>2, <2>4
<1>6. CASE ReportError
  <2>1. PICK js : /\ js = Updated(worker.id, "error", jobs[worker.id].image)
                  /\ (Save(js) /\ worker' = Idle) \/ SaveRaises(js)
    BY <1>6 DEF ReportError
  <2>2. worker.phase = "Failed" /\ UNCHANGED <<requests, up, queue>>
    BY <1>6 DEF ReportError
  <2>3. jobs[worker.id].image \in BOOLEAN
    BY <1>1, <2>2, JobOfStore DEF PlazaInv, NumbersKnown, Job
  <2> QED
    BY <1>4, <2>1, <2>2, <2>3
<1> QED
  BY <1>2, <1>3, <1>5, <1>6 DEF Work

LEMMA CrashKept ==
  ASSUME JobsInv, Crash
  PROVE  Kept
<1>1. /\ up /\ ~up' /\ queue' = <<>> /\ worker' = Idle /\ requests' = {}
      /\ (disk' = disk /\ torn' = torn) \/ torn' = TRUE
      /\ lost' = (lost \/ (torn' /\ ~Restores(disk', jobs)))
  BY DEF Crash
<1>2. (lost => torn) /\ (~torn => Restores(disk, jobs))
  BY <1>1 DEF JobsInv, FileRestores
<1>3. (lost => lost') /\ (torn => torn') /\ (lost' => torn')
  BY <1>1, <1>2
<1>4. lost' \/ Restores(disk', jobs)
  BY <1>1, <1>2
<1>5. FileRestores'
  BY <1>1, <1>3, <1>4 DEF FileRestores, Restores
<1>6. ASSUME Restores(disk', jobs)
      PROVE  /\ DOMAIN Known' = DOMAIN Known
             /\ \A i \in DOMAIN Known :
                  /\ Known'[i].device = Known[i].device
                  /\ Final(Known[i]) => Known'[i].status = Known[i].status
  <2>1. Known = jobs /\ Known' = Restarted(jobs)
    BY <1>1, <1>6 DEF Known, Restores
  <2>2. jobs \in Seq(Job)
    BY DEF JobsInv, PlazaInv, PlazaTyped
  <2> QED
    BY <2>1, <2>2, RestartedJobs
<1>7. KnownKept
  BY <1>3, <1>4, <1>6 DEF KnownKept
<1>8. OneWay' /\ OnTheWay'
  BY <1>1 DEF OneWay, OnTheWay, Idle
<1> QED
  BY <1>5, <1>7, <1>8 DEF Kept

LEMMA StartKept ==
  ASSUME JobsInv, Start
  PROVE  Kept
<1>1. /\ ~up /\ disk # None /\ up' /\ jobs' = Restarted(disk)
      /\ UNCHANGED <<requests, disk, torn, lost, queue, worker>>
  BY DEF Start
<1>2. disk \in Seq(Job) /\ Restarted(Restarted(disk)) = Restarted(disk)
  BY <1>1, RestartedAgain DEF JobsInv, PlazaInv, PlazaTyped
<1>3. FileRestores'
  BY <1>1, <1>2 DEF JobsInv, FileRestores, Restores
<1>4. Known' = Known
  BY <1>1 DEF Known
<1>5. KnownKept
  BY <1>1, <1>4 DEF KnownKept, Final
<1>6. requests = {} /\ DOMAIN queue = {} /\ worker.phase = "Idle"
  <2>1. requests = {} /\ jobs = <<>> /\ DOMAIN jobs = {}
    BY <1>1 DEF JobsInv, PlazaInv, NumbersKnown
  <2> QED
    BY <2>1 DEF JobsInv, PlazaInv, NumbersKnown
<1>7. OneWay' /\ OnTheWay'
  BY <1>1, <1>6 DEF OneWay, OnTheWay
<1> QED
  BY <1>3, <1>5, <1>7 DEF Kept

LEMMA TickKept ==
  ASSUME JobsInv, Tick
  PROVE  Kept
<1>1. /\ \A q \in requests' : \E r \in requests :
           /\ q.step = r.step /\ q.id = r.id /\ q.device = r.device /\ q.attempt = r.attempt
           /\ q.wait = Elapse(r.wait)
      /\ requests' \subseteq PostRequest
      /\ jobs' = Aged(jobs) /\ disk' = IF disk = None THEN None ELSE Aged(disk)
      /\ UNCHANGED <<torn, lost, up, queue, worker>>
  BY TickSteps DEF JobsInv, PlazaInv
<1>2. /\ jobs \in Seq(Job) /\ Aged(jobs) \in Seq(Job) /\ DOMAIN Aged(jobs) = DOMAIN jobs
      /\ \A i \in DOMAIN jobs :
           Aged(jobs)[i].device = jobs[i].device /\ Aged(jobs)[i].status = jobs[i].status
      /\ Restarted(Aged(jobs)) = Aged(Restarted(jobs))
  BY AgedJobs, RestartedAged DEF JobsInv, PlazaInv, PlazaTyped
<1>3. disk # None =>
        /\ disk \in Seq(Job) /\ Aged(disk) \in Seq(Job) /\ Aged(disk) # None
        /\ Restarted(Aged(disk)) = Aged(Restarted(disk))
        /\ Restarted(disk) \in Seq(Job)
        /\ DOMAIN Aged(Restarted(disk)) = DOMAIN Restarted(disk)
        /\ \A i \in DOMAIN Restarted(disk) :
             /\ Aged(Restarted(disk))[i].device = Restarted(disk)[i].device
             /\ Aged(Restarted(disk))[i].status = Restarted(disk)[i].status
  BY AgedJobs, RestartedAged, RestartedJobs, StoreAssumption DEF JobsInv, PlazaInv, PlazaTyped
<1>4. FileRestores'
  BY <1>1, <1>2, <1>3 DEF JobsInv, FileRestores, Restores
<1>5. /\ DOMAIN Known' = DOMAIN Known
      /\ \A i \in DOMAIN Known : /\ Known'[i].device = Known[i].device
                                 /\ Known'[i].status = Known[i].status
  <2>1. CASE up
    BY <1>1, <1>2, <2>1 DEF Known
  <2>2. CASE ~up /\ disk = None
    BY <1>1, <2>2 DEF Known
  <2>3. CASE ~up /\ disk # None
    <3>1. Known = Restarted(disk) /\ Known' = Aged(Restarted(disk))
      BY <1>1, <1>3, <2>3 DEF Known
    <3> QED
      BY <1>3, <2>3, <3>1
  <2> QED
    BY <2>1, <2>2, <2>3
<1>6. KnownKept
  BY <1>1, <1>5 DEF KnownKept
<1>7. OneWay'
  <2>1. ASSUME NEW r \in requests', NEW q \in requests', r.step = "Put", q.step = "Put", r.id = q.id
        PROVE  r = q
    <3>1. PICK s \in requests : /\ r.step = s.step /\ r.id = s.id /\ r.device = s.device
                                /\ r.attempt = s.attempt /\ r.wait = Elapse(s.wait)
      BY <1>1
    <3>2. PICK t \in requests : /\ q.step = t.step /\ q.id = t.id /\ q.device = t.device
                                /\ q.attempt = t.attempt /\ q.wait = Elapse(t.wait)
      BY <1>1
    <3>3. s = t
      BY <2>1, <3>1, <3>2 DEF JobsInv, OneWay
    <3>4. /\ r.step = q.step /\ r.id = q.id /\ r.device = q.device
          /\ r.attempt = q.attempt /\ r.wait = q.wait
      BY ONLY <3>1, <3>2, <3>3
    <3>5. r \in PostRequest /\ q \in PostRequest
      BY <1>1
    <3> QED
      BY ONLY <3>4, <3>5 DEF PostRequest
  <2>2. \A r \in requests', k \in DOMAIN queue : r.step = "Put" => r.id # queue[k]
    BY <1>1 DEF JobsInv, OneWay
  <2> QED
    BY <1>1, <2>1, <2>2 DEF JobsInv, OneWay
<1>8. OnTheWay'
  <2>1. CASE torn
    BY <1>1, <2>1 DEF OnTheWay
  <2>2. CASE ~torn
    <3>1. \A r \in requests' : r.step = "Put" => jobs'[r.id].status = "queued"
      BY <1>1, <1>2, <2>2 DEF JobsInv, PlazaInv, NumbersKnown, OnTheWay
    <3>2. \A k \in DOMAIN queue : jobs'[queue[k]].status = "queued"
      BY <1>1, <1>2, <2>2 DEF JobsInv, PlazaInv, NumbersKnown, OnTheWay
    <3>3. worker.phase # "Idle" => jobs'[worker.id].status = "working"
      BY <1>1, <1>2, <2>2 DEF JobsInv, PlazaInv, NumbersKnown, OnTheWay
    <3> QED
      BY <1>1, <3>1, <3>2, <3>3 DEF OnTheWay
  <2> QED
    BY <2>1, <2>2
<1> QED
  BY <1>4, <1>6, <1>7, <1>8 DEF Kept

LEMMA StepKept ==
  ASSUME JobsInv, [Next]_vars
  PROVE  Kept
<1>1. CASE UNCHANGED vars
  <2>1. UNCHANGED <<requests, jobs, disk, torn, lost, up, queue, worker>>
    BY <1>1 DEF vars, store, server
  <2>2. FileRestores' /\ KnownKept
    BY <2>1, QuietStore DEF JobsInv
  <2> QED
    BY <2>1, <2>2 DEF JobsInv, Kept, OneWay, OnTheWay
<1>2. Thread => Kept
  BY AddKept, PutKept, AnswerKept DEF Thread
<1> QED
  BY <1>1, <1>2, TrackKept, WorkKept, CrashKept, StartKept, TickKept DEF Next

(* What a step leaves a device with: no number, its number, with what it   *)
(* showed or what is true of the job, or the number it is answered.        *)
Answered(d) ==
  LET c == client[d]  p == client'[d]
  IN  \/ p.id = None
      \/ p.id = c.id /\ (p.shown = c.shown \/ p.shown \notin {"done", "error"})
      \/ p.id = c.id /\ p.shown = Known'[p.id].status
      \/ p.id \in DOMAIN Known' /\ Known'[p.id].device = d /\ p.shown \notin {"done", "error"}

LEMMA TrackAnswered ==
  ASSUME PlazaInv, NEW e \in Device, Track(e), NEW d \in Device
  PROVE  Answered(d)
<1> DEFINE c == client[e]
<1>1. c \in Post /\ client \in [Device -> Post]
  BY DEF PlazaInv, PlazaTyped
<1>2. CASE d # e
  BY <1>2, TrackPosts DEF PlazaInv, Answered
<1>3. ASSUME d = e PROVE Answered(d)
  <2>1. ASSUME NEW p, Change(e, p), p.id = None \/ p.id = c.id,
               \/ p.id = None \/ p.shown = c.shown \/ p.shown \notin {"done", "error"}
               \/ p.shown = Known'[p.id].status
        PROVE  Answered(d)
    <3>1. client'[d] = p
      BY <1>1, <1>3, <2>1 DEF Change
    <3> QED
      BY <1>3, <2>1, <3>1 DEF Answered
  <2>2. ASSUME Complete(e) PROVE Answered(d)
    <3>1. PICK p : Change(e, p) /\ p = [NoPost EXCEPT !.phase = "Connect", !.attempt = 1,
                              !.timer = ConnectTimeout, !.shown = "sending"]
      BY <2>2 DEF Complete
    <3>2. p.id = None
      BY <3>1 DEF NoPost
    <3> QED
      BY <2>1, <3>1, <3>2
  <2>3. ASSUME Arrive(e) PROVE Answered(d)
    <3>1. PICK p : Change(e, p) /\ p = [c EXCEPT !.phase = "Await", !.timer = IoTimeout]
      BY <2>3 DEF Arrive
    <3>2. p.id = c.id /\ p.shown = c.shown
      BY <1>1, <3>1 DEF Post
    <3> QED
      BY <2>1, <3>1, <3>2
  <2>4. ASSUME AttemptFails(e) PROVE Answered(d)
    <3>1. PICK p : /\ Change(e, p)
                   /\ \/ p = [c EXCEPT !.phase = "Sleep", !.timer = Pause(c.attempt)]
                      \/ p = [c EXCEPT !.phase = "Over", !.timer = 0, !.shown = "failed"]
      BY <2>4 DEF AttemptFails
    <3>2. p.id = c.id /\ (p.shown = c.shown \/ p.shown \notin {"done", "error"})
      BY <1>1, <3>1 DEF Post
    <3> QED
      BY <2>1, <3>1, <3>2
  <2>5. ASSUME Retry(e) PROVE Answered(d)
    <3>1. PICK p : Change(e, p) /\ p = [c EXCEPT !.phase = "Connect", !.timer = ConnectTimeout,
                                                 !.attempt = @ + 1]
      BY <2>5 DEF Retry
    <3>2. p.id = c.id /\ p.shown = c.shown
      BY <1>1, <3>1 DEF Post
    <3> QED
      BY <2>1, <3>1, <3>2
  <2>6. ASSUME PollAnswered(e) PROVE Answered(d)
    <3>1. PICK p : Change(e, p) /\ UNCHANGED <<store, server>> /\ up
                   /\ p = [c EXCEPT !.polls = @ - 1, !.shown = jobs[c.id].status,
                                    !.phase = IF Final(jobs[c.id]) THEN "Over" ELSE @]
      BY <2>6 DEF PollAnswered
    <3>2. p.id = c.id /\ p.shown = jobs[c.id].status
      BY <1>1, <3>1 DEF Post
    <3>3. Known' = jobs
      BY <3>1 DEF Known, store, server
    <3> QED
      BY <2>1, <3>1, <3>2, <3>3
  <2>7. ASSUME PollFails(e) PROVE Answered(d)
    <3>1. PICK p : Change(e, p) /\ p = [c EXCEPT !.polls = @ - 1]
      BY <2>7 DEF PollFails
    <3>2. p.id = c.id /\ p.shown = c.shown
      BY <1>1, <3>1 DEF Post
    <3> QED
      BY <2>1, <3>1, <3>2
  <2>8. ASSUME PollsEnd(e) PROVE Answered(d)
    <3>1. PICK p : Change(e, p) /\ p = [c EXCEPT !.phase = "Over", !.shown = "timeout"]
      BY <2>8 DEF PollsEnd
    <3>2. p.id = c.id /\ p.shown = "timeout"
      BY <1>1, <3>1 DEF Post
    <3> QED
      BY <2>1, <3>1, <3>2
  <2> QED
    BY <2>2, <2>3, <2>4, <2>5, <2>6, <2>7, <2>8 DEF Track
<1> QED
  BY <1>2, <1>3

LEMMA AnswerAnswered ==
  ASSUME PlazaInv, NEW r \in requests, Answer(r), NEW d \in Device
  PROVE  Answered(d)
<1> DEFINE c == client[r.device]
<1>1. /\ r.device \in Device /\ c \in Post /\ client \in [Device -> Post]
      /\ r.step = "Answer" /\ UNCHANGED <<jobs, disk, up>>
  BY DEF PlazaInv, PlazaTyped, PostRequest, Answer, store, server
<1>2. CASE UNCHANGED client
  BY <1>2 DEF Answered
<1>3. CASE ~UNCHANGED client
  <2>1. PICK p : client' = [client EXCEPT ![r.device] = p]
                 /\ p = [c EXCEPT !.phase = "Poll", !.timer = 0, !.polls = Polls,
                                  !.id = r.id, !.shown = "queued"]
    BY <1>3 DEF Answer, Change
  <2>2. p.id = r.id /\ p.shown = "queued"
    BY <1>1, <2>1 DEF Post
  <2>3. up /\ r.id \in DOMAIN jobs /\ jobs[r.id].device = r.device
    BY <1>1 DEF PlazaInv, NumbersKnown
  <2>4. Known' = jobs
    BY <1>1, <2>3 DEF Known
  <2>5. client'[d] = IF d = r.device THEN p ELSE client[d]
    BY <1>1, <2>1
  <2>6. CASE d = r.device
    BY <2>2, <2>3, <2>4, <2>5, <2>6 DEF Answered
  <2>7. CASE d # r.device
    BY <2>5, <2>7 DEF Answered
  <2> QED
    BY <2>6, <2>7
<1> QED
  BY <1>2, <1>3

LEMMA StepAnswered ==
  ASSUME PlazaInv, [Next]_vars, NEW d \in Device
  PROVE  Answered(d)
<1>1. ASSUME UNCHANGED client PROVE Answered(d)
  BY <1>1 DEF Answered
<1>2. CASE UNCHANGED vars
  BY <1>1, <1>2 DEF vars
<1>3. CASE Thread
  <2>1. PICK r \in requests : Add(r) \/ Put(r) \/ Answer(r)
    BY <1>3 DEF Thread
  <2>2. Add(r) \/ Put(r) => UNCHANGED client
    BY DEF Add, Put
  <2> QED
    BY <1>1, <2>1, <2>2, AnswerAnswered
<1>4. Work \/ Crash \/ Start => UNCHANGED client
  BY DEF Work, Begin, Generate, Publish, ReportError, Crash, Start
<1>5. CASE Tick
  BY <1>5, TickSteps DEF PlazaInv, Answered
<1> QED
  BY <1>1, <1>2, <1>3, <1>4, <1>5, TrackAnswered DEF Next

LEMMA AnsweredKept ==
  ASSUME JobsInv, [Next]_vars
  PROVE  AnsweredJobKept'
<1> SUFFICES ASSUME NEW d \in Device, client'[d].id # None
             PROVE  LET c == client'[d]
                    IN  /\ lost' \/ (c.id \in DOMAIN Known' /\ Known'[c.id].device = d)
                        /\ torn' \/ (c.shown \in {"done", "error"} =>
                                       Known'[c.id].status = c.shown)
  BY DEF AnsweredJobKept
<1>1. KnownKept /\ Answered(d) /\ (lost => torn)
  BY StepKept, StepAnswered DEF Kept, JobsInv, FileRestores
<1>2. client[d].id # None =>
        /\ lost \/ (client[d].id \in DOMAIN Known /\ Known[client[d].id].device = d)
        /\ torn \/ (client[d].shown \in {"done", "error"} =>
                      Known[client[d].id].status = client[d].shown)
  BY DEF JobsInv, AnsweredJobKept
<1>3. lost' \/ (client'[d].id \in DOMAIN Known' /\ Known'[client'[d].id].device = d)
  BY <1>1, <1>2 DEF KnownKept, Answered
<1>4. torn' \/ (client'[d].shown \in {"done", "error"} =>
                  Known'[client'[d].id].status = client'[d].shown)
  BY <1>1, <1>2 DEF KnownKept, Answered, Final
<1> QED
  BY <1>3, <1>4

LEMMA JobsInit == Init => JobsInv
<1> SUFFICES ASSUME Init PROVE JobsInv
  OBVIOUS
<1>1. PlazaInv
  BY InitPlaza
<1>2. OneWay /\ OnTheWay
  BY DEF Init, OneWay, OnTheWay, Idle
<1>3. FileRestores
  <2>1. <<>> \in Seq(Job)
    OBVIOUS
  <2> QED
    BY <2>1, StoreAssumption DEF Init, FileRestores, Restores
<1>4. AnsweredJobKept
  BY DEF Init, AnsweredJobKept, NoPost
<1> QED
  BY <1>1, <1>2, <1>3, <1>4 DEF JobsInv

(* Each job is on its way in one place only, a thread that puts it into    *)
(* the queue, the queue or the worker, and is not final there; the file    *)
(* restores what the memory holds, unless a write of it did not complete.  *)
THEOREM JobsInvariant == Spec => []JobsInv
<1>2. JobsInv /\ [Next]_vars => JobsInv'
  <2> SUFFICES ASSUME JobsInv, [Next]_vars PROVE JobsInv'
    OBVIOUS
  <2>1. PlazaInv'
    BY PlazaInvKept DEF JobsInv
  <2>2. OneWay' /\ OnTheWay' /\ FileRestores'
    BY StepKept DEF Kept
  <2> QED
    BY <2>1, <2>2, AnsweredKept DEF JobsInv
<1> QED
  BY <1>2, JobsInit, PTL DEF Spec

(* The number a device was answered stays its own job's, and what its      *)
(* viewer shows as the end is the end, through time, restarts and threads  *)
(* of others; a write that failed excuses the status, jobs lost from the   *)
(* file the number.                                                        *)
THEOREM AnsweredJobsKept == Spec => []AnsweredJobKept
<1>1. JobsInv => AnsweredJobKept
  BY DEF JobsInv
<1> QED
  BY <1>1, JobsInvariant, PTL

(* Once done or failed a job stays so, for whoever asks, while the server  *)
(* ends and starts: Store.__init__ makes an error of none that was final.  *)
THEOREM FinalStays == Spec => FinalStaysFinal
<1>1. JobsInv /\ [Next]_vars =>
        [torn' \/ \A i \in DOMAIN Known :
           Final(Known[i]) => i \in DOMAIN Known' /\ Known'[i].status = Known[i].status]_vars
  <2> SUFFICES ASSUME JobsInv, [Next]_vars
               PROVE  torn' \/ \A i \in DOMAIN Known :
                        Final(Known[i]) =>
                          i \in DOMAIN Known' /\ Known'[i].status = Known[i].status
    OBVIOUS
  <2> QED
    BY StepKept DEF Kept, KnownKept
<1> QED
  BY <1>1, JobsInvariant, PTL DEF Spec, FinalStaysFinal

-----------------------------------------------------------------------------
(* One job for a post. *)

(* The devices heard of are those that have connected.                     *)
LEMMA TrackHeard ==
  ASSUME PlazaInv, NEW e \in Device, Track(e), NEW d \in Device
  PROVE  /\ Unheard(d)' => Unheard(d)
         /\ Heard(d)' => Heard(d) \/ ~Unheard(d)'
<1>1. /\ client \in [Device -> Post] /\ PlazaTyped /\ Scheduled
      /\ UNCHANGED <<tries, jobs, disk>>
      /\ \A g \in Device \ {e} : client'[g] = client[g]
      /\ \/ UNCHANGED requests
         \/ Arrive(e) /\ \E q \in PostRequest : requests' = requests \cup {q} /\ q.device = e
  BY TrackPosts DEF PlazaInv, PlazaTyped, store
<1>2. Unheard(e)' => Unheard(e)
  <2>1. ASSUME NEW p, Change(e, p), p.phase # "Idle", ~(p.phase = "Connect" /\ p.attempt = 1)
        PROVE  ~Unheard(e)'
    BY <1>1, <2>1 DEF Change, Unheard
  <2> DEFINE c == client[e]
  <2>2. c \in Post
    BY <1>1
  <2>3. ASSUME Complete(e) PROVE Unheard(e)
    BY <2>3 DEF Complete, Unheard
  <2>4. ASSUME Arrive(e) PROVE ~Unheard(e)'
    <3>1. PICK p : Change(e, p) /\ p = [c EXCEPT !.phase = "Await", !.timer = IoTimeout]
      BY <2>4 DEF Arrive
    <3>2. p.phase = "Await"
      BY <2>2, <3>1 DEF Post
    <3> QED
      BY <2>1, <3>1, <3>2
  <2>5. ASSUME AttemptFails(e) PROVE ~Unheard(e)'
    <3>1. PICK p : /\ Change(e, p)
                   /\ \/ p = [c EXCEPT !.phase = "Sleep", !.timer = Pause(c.attempt)]
                      \/ p = [c EXCEPT !.phase = "Over", !.timer = 0, !.shown = "failed"]
      BY <2>5 DEF AttemptFails
    <3>2. p.phase \in {"Sleep", "Over"}
      BY <2>2, <3>1 DEF Post
    <3> QED
      BY <2>1, <3>1, <3>2
  <2>6. ASSUME Retry(e) PROVE ~Unheard(e)'
    <3>1. PICK p : Change(e, p) /\ p = [c EXCEPT !.phase = "Connect", !.timer = ConnectTimeout,
                                                 !.attempt = @ + 1]
      BY <2>6 DEF Retry
    <3>2. c.attempt \in 1 .. tries[e]
      BY <1>1, <2>6 DEF Retry, Scheduled
    <3>3. p.phase = "Connect" /\ p.attempt = c.attempt + 1
      BY <2>2, <3>1 DEF Post
    <3>4. tries[e] \in Nat
      BY <1>1, PlazaAssumption DEF PlazaTyped
    <3>5. p.attempt # 1
      BY <3>2, <3>3, <3>4
    <3> QED
      BY <2>1, <3>1, <3>3, <3>5
  <2>7. ASSUME PollAnswered(e) PROVE ~Unheard(e)'
    <3>1. PICK p : /\ Change(e, p) /\ c.phase = "Poll"
                   /\ p = [c EXCEPT !.polls = @ - 1, !.shown = jobs[c.id].status,
                                    !.phase = IF Final(jobs[c.id]) THEN "Over" ELSE @]
      BY <2>7 DEF PollAnswered
    <3>2. p.phase \in {"Over", "Poll"}
      BY <2>2, <3>1 DEF Post
    <3> QED
      BY <2>1, <3>1, <3>2
  <2>8. ASSUME PollFails(e) PROVE ~Unheard(e)'
    <3>1. PICK p : Change(e, p) /\ p = [c EXCEPT !.polls = @ - 1] /\ c.phase = "Poll"
      BY <2>8 DEF PollFails
    <3>2. p.phase = "Poll"
      BY <2>2, <3>1 DEF Post
    <3> QED
      BY <2>1, <3>1, <3>2
  <2>9. ASSUME PollsEnd(e) PROVE ~Unheard(e)'
    <3>1. PICK p : Change(e, p) /\ p = [c EXCEPT !.phase = "Over", !.shown = "timeout"]
      BY <2>9 DEF PollsEnd
    <3>2. p.phase = "Over"
      BY <2>2, <3>1 DEF Post
    <3> QED
      BY <2>1, <3>1, <3>2
  <2> QED
    BY <2>3, <2>4, <2>5, <2>6, <2>7, <2>8, <2>9 DEF Track
<1>3. ASSUME d # e PROVE Unheard(d)' <=> Unheard(d)
  BY <1>1, <1>3 DEF Unheard
<1>4. UNCHANGED requests => (Heard(d)' => Heard(d))
  BY <1>1 DEF Heard
<1>5. ASSUME Arrive(e) PROVE ~Unheard(e)'
  <2>1. client'[e].phase = "Await"
    BY <1>1, <1>5 DEF Arrive, Change, Post
  <2> QED
    BY <2>1 DEF Unheard
<1>6. Arrive(e) /\ d # e => (Heard(d)' => Heard(d))
  BY <1>1 DEF Heard
<1> QED
  BY <1>1, <1>2, <1>3, <1>4, <1>5, <1>6

(* The worker leaves the jobs their devices and their freshness.           *)
LEMMA WorkUpdates ==
  ASSUME PlazaInv, Work
  PROVE  /\ UNCHANGED <<tries, client, requests, up>>
         /\ \/ UNCHANGED <<jobs, disk, lost>>
            \/ \E js \in Seq(Job) :
                 /\ Save(js) \/ SaveRaises(js)
                 /\ DOMAIN js = DOMAIN jobs
                 /\ \A i \in DOMAIN jobs : /\ js[i].device = jobs[i].device
                                           /\ js[i].fresh = jobs[i].fresh
<1>1. /\ jobs \in Seq(Job) /\ queue \in Seq(Nat) /\ worker \in WorkerState
  BY DEF PlazaInv, PlazaTyped
<1>2. UNCHANGED <<tries, client, requests, up>>
  BY DEF Work, Begin, Generate, Publish, ReportError
<1>3. Generate => UNCHANGED <<jobs, disk, lost>>
  BY DEF Generate, store
<1>4. ASSUME NEW id \in DOMAIN jobs, NEW image \in BOOLEAN, NEW js,
             NEW status \in {"queued", "working", "done", "error"},
             js = Updated(id, status, image), Save(js) \/ SaveRaises(js)
      PROVE  \E ks \in Seq(Job) :
                 /\ Save(ks) \/ SaveRaises(ks)
                 /\ DOMAIN ks = DOMAIN jobs
                 /\ \A i \in DOMAIN jobs : /\ ks[i].device = jobs[i].device
                                           /\ ks[i].fresh = jobs[i].fresh
  <2>1. /\ js \in Seq(Job) /\ DOMAIN js = DOMAIN jobs
        /\ js[id].device = jobs[id].device /\ js[id].fresh = jobs[id].fresh
        /\ \A i \in DOMAIN jobs \ {id} : js[i] = jobs[i]
    BY <1>1, <1>4, UpdatedJobs
  <2>2. \A i \in DOMAIN jobs : js[i].device = jobs[i].device /\ js[i].fresh = jobs[i].fresh
    BY <2>1
  <2> QED
    BY <1>4, <2>1, <2>2
<1>5. CASE Begin
  <2>1. PICK image \in BOOLEAN : image = FALSE
    OBVIOUS
  <2>2. PICK js : js = Updated(Head(queue), "working", image) /\ (Save(js) \/ SaveRaises(js))
    BY <1>5, <2>1 DEF Begin
  <2>3. Head(queue) \in DOMAIN jobs
    <3>1. queue # <<>>
      BY <1>5 DEF Begin
    <3>2. Head(queue) = queue[1] /\ 1 \in DOMAIN queue
      BY <1>1, <3>1, QueueTail
    <3> QED
      BY <3>2 DEF PlazaInv, NumbersKnown
  <2> QED
    BY <1>2, <1>4, <2>2, <2>3
<1>6. CASE Publish
  <2>1. PICK js : js = Updated(worker.id, "done", worker.phase = "Drawn")
                  /\ (Save(js) \/ SaveRaises(js))
    BY <1>6 DEF Publish
  <2>2. PICK image \in BOOLEAN : image = (worker.phase = "Drawn")
    OBVIOUS
  <2>3. js = Updated(worker.id, "done", image)
    BY <2>1, <2>2
  <2>4. worker.id \in DOMAIN jobs
    BY <1>6 DEF Publish, PlazaInv, NumbersKnown
  <2> QED
    BY <1>2, <1>4, <2>1, <2>3, <2>4
<1>7. CASE ReportError
  <2>1. PICK js : js = Updated(worker.id, "error", jobs[worker.id].image)
                  /\ (Save(js) \/ SaveRaises(js))
    BY <1>7 DEF ReportError
  <2>2. worker.id \in DOMAIN jobs /\ jobs[worker.id].image \in BOOLEAN
    BY <1>1, <1>7, JobOfStore DEF ReportError, PlazaInv, NumbersKnown, Job
  <2> QED
    BY <1>2, <1>4, <2>1, <2>2
<1> QED
  BY <1>2, <1>3, <1>5, <1>6, <1>7 DEF Work

LEMMA StepHeard ==
  ASSUME PlazaInv, [Next]_vars, NEW d \in Device
  PROVE  /\ Unheard(d)' => Unheard(d)
         /\ Heard(d)' => Heard(d) \/ ~Unheard(d)'
<1>1. UNCHANGED client => (Unheard(d)' <=> Unheard(d))
  BY DEF Unheard
<1>2. /\ jobs \in Seq(Job) /\ requests \subseteq PostRequest /\ client \in [Device -> Post]
      /\ disk # None => disk \in Seq(Job)
  BY DEF PlazaInv, PlazaTyped
<1>3. CASE UNCHANGED vars
  BY <1>1, <1>3 DEF vars, store, Heard
<1>4. ASSUME NEW r \in requests, Add(r)
      PROVE  UNCHANGED client /\ (Heard(d)' => Heard(d))
  <2>1. UNCHANGED client /\ PlazaTyped /\ r.device \in Device
    BY <1>2, <1>4, AddSteps DEF PlazaInv, PostRequest
  <2>2. ASSUME NEW i \in Equal(r.device), Moved(r, "Answer", i), UNCHANGED store
        PROVE  Heard(d)' => Heard(d)
    <3>1. i \in Nat
      BY <1>2, NumbersNat DEF Equal
    <3>2. PICK q \in PostRequest : requests' = (requests \ {r}) \cup {q} /\ q.device = r.device
      BY <2>1, <2>2, <3>1, MovedRequest
    <3> QED
      BY <2>2, <3>2 DEF store, Heard
  <2>3. ASSUME NEW js, js = Append(jobs, NewJob(r.device)),
               \/ Save(js) /\ Moved(r, "Put", Len(js))
               \/ SaveRaises(js) /\ requests' = requests \ {r}
        PROVE  Heard(d)' => Heard(d)
    <3>1. /\ js \in Seq(Job) /\ Len(js) \in Nat
          /\ DOMAIN js = DOMAIN jobs \cup {Len(js)}
          /\ js[Len(js)] = NewJob(r.device) /\ \A i \in DOMAIN jobs : js[i] = jobs[i]
      BY <1>2, <2>1, <2>3, AppendedJob
    <3>2. \/ requests' = requests \ {r}
          \/ \E q \in PostRequest : requests' = (requests \ {r}) \cup {q} /\ q.device = r.device
      BY <2>1, <2>3, <3>1, MovedRequest
    <3>3. /\ jobs' = js
          /\ disk' = disk \/ disk' = None
             \/ \A i \in DOMAIN disk' : i \in DOMAIN js /\ disk'[i] = js[i]
      BY <2>3, <3>1, SavedFile
    <3>4. js[Len(js)].device = r.device
      BY <3>1 DEF NewJob
    <3>5. \A i \in DOMAIN js : js[i].device = d => Heard(d)
      BY <3>1, <3>4 DEF Heard
    <3> QED
      BY <3>2, <3>3, <3>5 DEF Heard
  <2> QED
    BY <1>4, <2>1, <2>2, <2>3, AddSteps
<1>5. ASSUME NEW r \in requests, Put(r)
      PROVE  UNCHANGED client /\ (Heard(d)' => Heard(d))
  <2>1. UNCHANGED <<client, jobs, disk>> /\ r.step = "Put" /\ Moved(r, "Answer", r.id)
    BY <1>5 DEF Put, store
  <2>2. r.id \in Nat
    BY <1>2, <2>1, NumbersNat DEF PlazaInv, NumbersKnown
  <2>3. PICK q \in PostRequest : requests' = (requests \ {r}) \cup {q} /\ q.device = r.device
    BY <2>1, <2>2, MovedRequest DEF PlazaInv
  <2> QED
    BY <2>1, <2>3 DEF Heard
<1>6. ASSUME NEW r \in requests, Answer(r)
      PROVE  (Unheard(d)' => Unheard(d)) /\ (Heard(d)' => Heard(d))
  <2>1. UNCHANGED <<jobs, disk>> /\ requests' = requests \ {r}
    BY <1>6 DEF Answer, store
  <2>2. client'[d] = client[d] \/ client'[d].phase = "Poll"
    <3>1. CASE UNCHANGED client
      BY <3>1
    <3>2. CASE ~UNCHANGED client
      <4>1. PICK p : /\ client' = [client EXCEPT ![r.device] = p]
                     /\ p = [client[r.device] EXCEPT !.phase = "Poll", !.timer = 0,
                               !.polls = Polls, !.id = r.id, !.shown = "queued"]
        BY <1>6, <3>2 DEF Answer, Change
      <4>2. client[r.device] \in Post
        BY <1>2 DEF PostRequest
      <4>3. p.phase = "Poll"
        BY <4>1, <4>2 DEF Post
      <4>4. client'[d] = IF d = r.device THEN p ELSE client[d]
        BY <1>2, <4>1
      <4> QED
        BY <4>3, <4>4
    <3> QED
      BY <3>1, <3>2
  <2> QED
    BY <2>1, <2>2 DEF Unheard, Heard
<1>7. CASE Thread
  BY <1>1, <1>4, <1>5, <1>6, <1>7 DEF Thread
<1>8. CASE Work
  <2>1. CASE UNCHANGED <<jobs, disk>>
    BY <1>1, <1>8, <2>1, WorkUpdates DEF Heard
  <2>2. CASE ~UNCHANGED <<jobs, disk>>
    <3>1. PICK js \in Seq(Job) :
            /\ Save(js) \/ SaveRaises(js)
            /\ DOMAIN js = DOMAIN jobs
            /\ \A i \in DOMAIN jobs : js[i].device = jobs[i].device
      BY <1>8, <2>2, WorkUpdates
    <3>2. /\ jobs' = js
          /\ disk' = disk \/ disk' = None
             \/ \A i \in DOMAIN disk' : i \in DOMAIN js /\ disk'[i] = js[i]
      BY <3>1, SavedFile
    <3>3. UNCHANGED <<client, requests>>
      BY <1>8, WorkUpdates
    <3> QED
      BY <1>1, <3>1, <3>2, <3>3 DEF Heard
  <2> QED
    BY <2>1, <2>2
<1>9. CASE Crash
  <2>1. /\ UNCHANGED client /\ requests' = {} /\ jobs' = <<>>
        /\ disk' = disk \/ \E js \in Writing : disk' \in Cut(js)
    BY <1>9 DEF Crash
  <2>2. ASSUME NEW js \in Writing, disk' \in Cut(js), disk' # None,
               NEW i \in DOMAIN disk', disk'[i].device = d
        PROVE  Heard(d)
    <3>1. /\ js \in Seq(Job)
          /\ \A k \in DOMAIN js : \/ k \in DOMAIN jobs /\ js[k].device = jobs[k].device
                                 \/ \E r \in requests : js[k].device = r.device
      BY WritingJobs
    <3>2. i \in DOMAIN js /\ disk'[i] = js[i]
      BY <2>2, <3>1, CutJobs
    <3> QED
      BY <2>2, <3>1, <3>2 DEF Heard
  <2> QED
    BY <1>1, <2>1, <2>2 DEF Heard
<1>10. CASE Start
  <2>1. UNCHANGED <<client, requests, disk>> /\ disk # None /\ jobs' = Restarted(disk)
    BY <1>10 DEF Start
  <2>2. \A i \in DOMAIN jobs' : i \in DOMAIN disk /\ jobs'[i].device = disk[i].device
    BY <1>2, <2>1, RestartedJobs
  <2> QED
    BY <1>1, <2>1, <2>2 DEF Heard
<1>11. CASE Tick
  <2>1. /\ \A q \in requests' : \E r \in requests : q.device = r.device
        /\ jobs' = Aged(jobs) /\ disk' = IF disk = None THEN None ELSE Aged(disk)
        /\ client'[d].phase = client[d].phase /\ client'[d].attempt = client[d].attempt
    BY <1>11, TickSteps DEF PlazaInv
  <2>2. /\ \A i \in DOMAIN jobs' : i \in DOMAIN jobs /\ jobs'[i].device = jobs[i].device
        /\ disk' # None =>
             /\ disk # None
             /\ \A i \in DOMAIN disk' : i \in DOMAIN disk /\ disk'[i].device = disk[i].device
    BY <1>2, <2>1, AgedJobs
  <2> QED
    BY <2>1, <2>2 DEF Unheard, Heard
<1> QED
  BY <1>3, <1>7, <1>8, <1>9, <1>10, <1>11, TrackHeard DEF Next

(* What a step that adds no job leaves a client to find.                   *)
SameJobs ==
  /\ lost => lost'
  /\ \/ lost'
     \/ /\ DOMAIN Known' = DOMAIN Known
        /\ \A i \in DOMAIN Known : /\ Known'[i].device = Known[i].device
                                   /\ Known'[i].fresh = Known[i].fresh

LEMMA StoreSame ==
  ASSUME PlazaInv, FileRestores,
         Work \/ Crash \/ Start \/ UNCHANGED <<jobs, disk, lost, up>>
  PROVE  SameJobs
<1>1. CASE UNCHANGED <<jobs, disk, lost, up>>
  BY <1>1 DEF SameJobs, Known
<1>2. CASE Work
  <2>1. CASE UNCHANGED <<jobs, disk, lost>>
    BY <1>1, <1>2, <2>1, WorkUpdates
  <2>2. CASE ~UNCHANGED <<jobs, disk, lost>>
    <3>1. PICK js \in Seq(Job) :
            /\ Save(js) \/ SaveRaises(js)
            /\ DOMAIN js = DOMAIN jobs
            /\ \A i \in DOMAIN jobs : js[i].device = jobs[i].device /\ js[i].fresh = jobs[i].fresh
      BY <1>2, <2>2, WorkUpdates
    <3>2. jobs' = js /\ UNCHANGED <<lost, up>>
      BY <1>2, <3>1, WorkUpdates DEF Save, SaveRaises
    <3>3. up
      <4>1. up \/ worker.phase # "Idle"
        BY <1>2 DEF Work, Begin, Generate, Publish, ReportError
      <4>2. worker.phase # "Idle" => DOMAIN jobs # {}
        BY DEF PlazaInv, NumbersKnown
      <4>3. ~up => DOMAIN jobs = {}
        BY DEF PlazaInv, NumbersKnown
      <4> QED
        BY <4>1, <4>2, <4>3
    <3> QED
      BY <3>1, <3>2, <3>3 DEF SameJobs, Known
  <2> QED
    BY <2>1, <2>2
<1>3. CASE Crash
  <2>1. /\ up /\ ~up' /\ ((disk' = disk /\ torn' = torn) \/ torn' = TRUE)
        /\ lost' = (lost \/ (torn' /\ ~Restores(disk', jobs)))
    BY <1>3 DEF Crash
  <2>2. lost' \/ Restores(disk', jobs)
    <3>1. (lost => torn) /\ (~torn => Restores(disk, jobs))
      BY <2>1 DEF FileRestores
    <3>2. torn' /\ ~Restores(disk', jobs) => lost'
      BY <2>1
    <3>3. torn' \/ (disk' = disk /\ ~torn)
      BY <2>1
    <3> QED
      BY <3>1, <3>2, <3>3
  <2>3. ASSUME Restores(disk', jobs)
        PROVE  /\ DOMAIN Known' = DOMAIN Known
               /\ \A i \in DOMAIN Known : /\ Known'[i].device = Known[i].device
                                          /\ Known'[i].fresh = Known[i].fresh
    <3>1. Known = jobs /\ Known' = Restarted(jobs) /\ jobs \in Seq(Job)
      BY <2>1, <2>3 DEF Known, Restores, PlazaInv, PlazaTyped
    <3> QED
      BY <3>1, RestartedJobs
  <2> QED
    BY <2>1, <2>2, <2>3 DEF SameJobs
<1>4. CASE Start
  <2>1. UNCHANGED lost /\ Known' = Known
    BY <1>4 DEF Start, Known
  <2> QED
    BY <2>1 DEF SameJobs
<1> QED
  BY <1>1, <1>2, <1>3, <1>4

LEMMA KnownTyped ==
  ASSUME PlazaInv
  PROVE  /\ Known \in Seq(Job)
         /\ \A i \in DOMAIN Known : /\ Known[i] \in Job /\ Heard(Known[i].device)
                                    /\ Known[i].device \in Device
                                    /\ Known[i].fresh \in Nat /\ Known[i].fresh <= Dedup
<1>1. jobs \in Seq(Job) /\ (disk # None => disk \in Seq(Job)) /\ <<>> \in Seq(Job)
      /\ DOMAIN <<>> = {}
  BY DEF PlazaInv, PlazaTyped
<1>2. Known \in Seq(Job) /\ \A i \in DOMAIN Known : Heard(Known[i].device)
  BY <1>1, RestartedJobs DEF Known, Heard
<1>3. \A i \in DOMAIN Known : Known[i] \in Job
  BY <1>2, JobOfStore
<1> QED
  BY <1>2, <1>3, PlazaAssumption DEF Job

(* The numbers of one attempt and the next.                                *)
LEMMA SpanOf ==
  ASSUME NEW span, Spans(span), NEW k \in 1 .. Attempts
  PROVE  /\ k \in Nat /\ Attempts \in Nat /\ span[k] \in Nat
         /\ ConnectTimeout \in Nat /\ IoTimeout \in Nat /\ Latency \in Nat /\ Dedup \in Nat
         /\ Pause(k) \in Nat
         /\ span[k] > ConnectTimeout + Latency
         /\ k < Attempts => /\ k + 1 \in 1 .. Attempts /\ span[k + 1] \in Nat
                            /\ span[k] >= ConnectTimeout + IoTimeout + Pause(k) + span[k + 1]
                            /\ Dedup >= IoTimeout + Pause(k) + span[k + 1]
                            /\ span[k + 1] > ConnectTimeout + Latency
<1>1. /\ k \in Nat /\ Attempts \in Nat
      /\ ConnectTimeout \in Nat /\ IoTimeout \in Nat /\ Latency \in Nat /\ Dedup \in Nat
  BY PlazaAssumption
<1>2. Pause(k) \in Nat
  BY <1>1, PauseType
<1>3. span[k] \in Nat /\ span[k] > ConnectTimeout + Latency
  BY <1>1 DEF Spans
<1>4. ASSUME k < Attempts
      PROVE  /\ k + 1 \in 1 .. Attempts /\ span[k + 1] \in Nat
             /\ span[k] >= ConnectTimeout + IoTimeout + Pause(k) + span[k + 1]
             /\ Dedup >= IoTimeout + Pause(k) + span[k + 1]
             /\ span[k + 1] > ConnectTimeout + Latency
  <2>1. k + 1 \in 1 .. Attempts /\ k \in 1 .. Attempts - 1 /\ k + 1 \in Nat
    BY <1>1, <1>4
  <2> QED
    BY <2>1 DEF Spans
<1> QED
  BY <1>1, <1>2, <1>3, <1>4

(* A job that is new outlasts a post on its second attempt, or waiting.    *)
LEMMA DedupOutlasts ==
  ASSUME NEW span, Spans(span), NEW c \in Post, NEW most \in 0 .. Attempts,
         c.phase \in {"Connect", "Await", "Sleep"} => c.attempt \in 1 .. most,
         c.phase = "Connect" => c.timer <= ConnectTimeout /\ c.attempt # 1,
         c.phase = "Await" => c.timer <= IoTimeout,
         c.phase = "Sleep" => c.attempt < most /\ c.timer <= Pause(c.attempt)
  PROVE  Outlasts(Dedup, span, c, most)
<1>1. most \in Nat /\ most <= Attempts /\ Attempts \in Nat /\ c.timer \in Nat /\ c.attempt \in Nat
  BY PlazaAssumption DEF Post
<1>2. CASE c.phase = "Connect"
  <2>1. PICK k : k = c.attempt - 1
    OBVIOUS
  <2>2. k \in 1 .. Attempts /\ k < Attempts /\ k + 1 = c.attempt /\ c.attempt \in 1 .. Attempts
    BY <1>1, <1>2, <2>1
  <2>3. /\ span[c.attempt] \in Nat /\ span[c.attempt] > ConnectTimeout + Latency
        /\ Dedup >= IoTimeout + Pause(k) + span[c.attempt]
        /\ Pause(k) \in Nat /\ IoTimeout \in Nat /\ ConnectTimeout \in Nat
        /\ Latency \in Nat /\ Dedup \in Nat
    BY <2>2, SpanOf
  <2>4. Dedup >= span[c.attempt]
    BY <2>3
  <2>5. c.attempt < Attempts =>
          /\ span[c.attempt + 1] \in Nat /\ Pause(c.attempt) \in Nat
          /\ span[c.attempt] >= ConnectTimeout + IoTimeout + Pause(c.attempt) + span[c.attempt + 1]
    BY <2>2, SpanOf
  <2>6. Dedup > c.timer + Latency
    BY <1>1, <1>2, <2>3, <2>4
  <2>7. ASSUME c.attempt < most
        PROVE  Dedup >= c.timer + IoTimeout + Pause(c.attempt) + span[c.attempt + 1]
    BY <1>1, <1>2, <2>3, <2>4, <2>5, <2>7
  <2> QED
    BY <1>2, <2>6, <2>7 DEF Outlasts
<1>3. CASE c.phase = "Await" /\ c.attempt < most
  <2>1. c.attempt \in 1 .. Attempts /\ c.attempt < Attempts
    BY <1>1, <1>3
  <2>2. /\ Dedup >= IoTimeout + Pause(c.attempt) + span[c.attempt + 1]
        /\ Pause(c.attempt) \in Nat /\ span[c.attempt + 1] \in Nat /\ IoTimeout \in Nat
        /\ Dedup \in Nat
    BY <2>1, SpanOf
  <2>3. Dedup >= c.timer + Pause(c.attempt) + span[c.attempt + 1]
    BY <1>1, <1>3, <2>2
  <2> QED
    BY <1>3, <2>3 DEF Outlasts
<1>4. CASE c.phase = "Sleep"
  <2>1. c.attempt \in 1 .. Attempts /\ c.attempt < Attempts
    BY <1>1, <1>4
  <2>2. /\ Dedup >= IoTimeout + Pause(c.attempt) + span[c.attempt + 1]
        /\ Pause(c.attempt) \in Nat /\ span[c.attempt + 1] \in Nat /\ IoTimeout \in Nat
        /\ Dedup \in Nat
    BY <2>1, SpanOf
  <2>3. Dedup >= c.timer + span[c.attempt + 1]
    BY <1>1, <1>4, <2>2
  <2> QED
    BY <1>4, <2>3 DEF Outlasts
<1>5. CASE \/ c.phase \notin {"Connect", "Await", "Sleep"}
           \/ c.phase = "Await" /\ ~(c.attempt < most)
  BY <1>5 DEF Outlasts
<1> QED
  BY <1>2, <1>3, <1>4, <1>5

(* A job that outlasts a post outlasts it on the way to its next attempt.  *)
LEMMA TrackPatient ==
  ASSUME PlazaInv, UnheardUnknown, NEW span, Spans(span), NEW e \in Device, Track(e),
         NEW d \in Device, Heard(d), NEW f \in Nat, Patient(f, d, span)
  PROVE  Patient(f, d, span)'
<1> DEFINE c == client[e]
<1>1. /\ client \in [Device -> Post] /\ c \in Post /\ c.timer \in Nat /\ c.attempt \in Nat
      /\ PlazaTyped /\ Scheduled /\ UNCHANGED tries
      /\ tries[e] \in Nat /\ tries[e] <= Attempts /\ Attempts \in Nat
      /\ IoTimeout \in Nat /\ ConnectTimeout \in Nat /\ Latency \in Nat
      /\ \A g \in Device \ {e} : client'[g] = client[g]
      /\ \/ UNCHANGED requests
         \/ Arrive(e) /\ \E q \in PostRequest : /\ requests' = requests \cup {q}
                                                /\ q.device = e /\ q.wait = Latency
  <2>1. /\ client \in [Device -> Post] /\ PlazaTyped /\ Scheduled
        /\ tries \in [Device -> 0 .. Attempts]
    BY DEF PlazaInv, PlazaTyped
  <2>2. /\ c \in Post /\ c.timer \in Nat /\ c.attempt \in Nat
        /\ IoTimeout \in Nat /\ ConnectTimeout \in Nat /\ Latency \in Nat
    BY <2>1, PlazaAssumption DEF Post
  <2>3. tries[e] \in Nat /\ tries[e] <= Attempts /\ Attempts \in Nat
    BY <2>1, PlazaAssumption
  <2>4. /\ UNCHANGED tries /\ \A g \in Device \ {e} : client'[g] = client[g]
        /\ \/ UNCHANGED requests
           \/ Arrive(e) /\ \E q \in PostRequest : /\ requests' = requests \cup {q}
                                                  /\ q.device = e /\ q.wait = Latency
    BY <2>1, TrackPosts
  <2> QED
    BY <2>1, <2>2, <2>3, <2>4
<1>2. CASE d # e
  <2>1. \A r \in requests' : r.step = "Add" /\ r.device = d => f > r.wait
    BY <1>1, <1>2 DEF Patient
  <2>2. Outlasts(f, span, client'[d], tries'[d])
    BY <1>1, <1>2 DEF Patient
  <2> QED
    BY <2>1, <2>2 DEF Patient, Outlasts
<1>3. ASSUME d = e PROVE Patient(f, d, span)'
  <2>1. /\ \A r \in requests : r.step = "Add" /\ r.device = e => f > r.wait
        /\ Outlasts(f, span, c, tries[e])
    BY <1>3 DEF Patient
  <2>2. ASSUME NEW p, Change(e, p), UNCHANGED requests, Outlasts(f, span, p, tries[e])
        PROVE  Patient(f, d, span)'
    <3>1. client'[d] = p /\ UNCHANGED <<requests, tries>>
      BY <1>1, <1>3, <2>2 DEF Change
    <3> QED
      BY <1>3, <2>1, <2>2, <3>1 DEF Patient, Outlasts
  <2>3. ASSUME NEW p, Change(e, p), UNCHANGED requests, p.phase \in {"Poll", "Over"}
        PROVE  Patient(f, d, span)'
    <3>1. Outlasts(f, span, p, tries[e])
      BY <2>3 DEF Outlasts
    <3> QED
      BY <2>2, <2>3, <3>1
  <2>4. ~Complete(e)
    BY <1>3 DEF UnheardUnknown, Unheard, Complete
  <2>5. ASSUME Arrive(e) PROVE Patient(f, d, span)'
    <3>1. PICK p : Change(e, p) /\ p = [c EXCEPT !.phase = "Await", !.timer = IoTimeout]
      BY <2>5 DEF Arrive
    <3>2. p.phase = "Await" /\ p.timer = IoTimeout /\ p.attempt = c.attempt
      BY <1>1, <3>1 DEF Post
    <3>3. c.phase = "Connect"
      BY <2>5 DEF Arrive
    <3>4. f > c.timer + Latency
      BY <2>1, <3>3 DEF Outlasts
    <3>5. f > Latency
      BY <1>1, <3>4
    <3>6. \A r \in requests' : r.step = "Add" /\ r.device = e => f > r.wait
      BY <1>1, <2>1, <3>5
    <3>7. ASSUME c.attempt < tries[e]
          PROVE  f >= IoTimeout + Pause(c.attempt) + span[c.attempt + 1]
      <4>1. f >= c.timer + IoTimeout + Pause(c.attempt) + span[c.attempt + 1]
        BY <2>1, <3>3, <3>7 DEF Outlasts
      <4>2. c.attempt \in 1 .. tries[e]
        BY <1>1, <3>3 DEF Scheduled
      <4>3. c.attempt \in 1 .. Attempts /\ c.attempt < Attempts
        BY <1>1, <3>7, <4>2
      <4>4. Pause(c.attempt) \in Nat /\ span[c.attempt + 1] \in Nat
        BY <4>3, SpanOf
      <4> QED
        BY <1>1, <4>1, <4>4
    <3>8. Outlasts(f, span, p, tries[e])
      BY <3>2, <3>7 DEF Outlasts
    <3>9. client'[d] = p /\ UNCHANGED tries
      BY <1>1, <1>3, <3>1 DEF Change
    <3> QED
      BY <1>3, <3>6, <3>8, <3>9 DEF Patient, Outlasts
  <2>6. ASSUME AttemptFails(e) PROVE Patient(f, d, span)'
    <3>1. UNCHANGED requests /\ c.phase \in {"Connect", "Await"}
      BY <2>6 DEF AttemptFails
    <3>2. CASE ~(c.attempt < tries[e])
      <4>1. PICK p : /\ Change(e, p)
                     /\ p = [c EXCEPT !.phase = "Over", !.timer = 0, !.shown = "failed"]
        BY <2>6, <3>2 DEF AttemptFails
      <4>2. p.phase = "Over"
        BY <1>1, <4>1 DEF Post
      <4> QED
        BY <2>3, <3>1, <4>1, <4>2
    <3>3. CASE c.attempt < tries[e]
      <4>1. PICK p : Change(e, p) /\ p = [c EXCEPT !.phase = "Sleep", !.timer = Pause(c.attempt)]
        BY <2>6, <3>3 DEF AttemptFails
      <4>2. c.attempt \in 1 .. tries[e]
        BY <3>1 DEF PlazaInv, Scheduled
      <4>3. c.attempt \in 1 .. Attempts /\ c.attempt < Attempts
        BY <1>1, <3>3, <4>2
      <4>4. Pause(c.attempt) \in Nat /\ span[c.attempt + 1] \in Nat
        BY <4>3, SpanOf
      <4>5. p.phase = "Sleep" /\ p.timer = Pause(c.attempt) /\ p.attempt = c.attempt
        BY <1>1, <4>1, <4>4 DEF Post
      <4>6. f >= Pause(c.attempt) + span[c.attempt + 1]
        <5>1. \/ f >= c.timer + IoTimeout + Pause(c.attempt) + span[c.attempt + 1]
              \/ f >= c.timer + Pause(c.attempt) + span[c.attempt + 1]
          BY <2>1, <3>1, <3>3 DEF Outlasts
        <5> QED
          BY <1>1, <4>4, <5>1
      <4>7. Outlasts(f, span, p, tries[e])
        BY <4>5, <4>6 DEF Outlasts
      <4> QED
        BY <2>2, <3>1, <4>1, <4>7
    <3> QED
      BY <3>2, <3>3
  <2>7. ASSUME Retry(e) PROVE Patient(f, d, span)'
    <3>1. PICK p : Change(e, p) /\ p = [c EXCEPT !.phase = "Connect", !.timer = ConnectTimeout,
                                                 !.attempt = @ + 1]
      BY <2>7 DEF Retry
    <3>2. UNCHANGED requests /\ c.phase = "Sleep" /\ c.timer = 0
      BY <2>7 DEF Retry
    <3>3. p.phase = "Connect" /\ p.timer = ConnectTimeout /\ p.attempt = c.attempt + 1
      BY <1>1, <3>1 DEF Post
    <3>4. c.attempt \in 1 .. tries[e] /\ c.attempt < tries[e]
      BY <3>2 DEF PlazaInv, Scheduled
    <3>5. c.attempt \in 1 .. Attempts /\ c.attempt < Attempts
      BY <1>1, <3>4
    <3>6. PICK k : k = c.attempt + 1
      OBVIOUS
    <3>7. k \in 1 .. Attempts /\ span[k] \in Nat /\ span[k] > ConnectTimeout + Latency
      BY <3>5, <3>6, SpanOf
    <3>8. f >= span[k]
      <4>1. f >= c.timer + span[k]
        BY <2>1, <3>2, <3>6 DEF Outlasts
      <4> QED
        BY <3>2, <3>7, <4>1
    <3>9. f > ConnectTimeout + Latency
      BY <1>1, <3>7, <3>8
    <3>10. ASSUME k < tries[e] PROVE f >= ConnectTimeout + IoTimeout + Pause(k) + span[k + 1]
      <4>1. k < Attempts
        BY <1>1, <3>7, <3>10
      <4>2. /\ span[k] >= ConnectTimeout + IoTimeout + Pause(k) + span[k + 1]
            /\ Pause(k) \in Nat /\ span[k + 1] \in Nat
        BY <3>7, <4>1, SpanOf
      <4> QED
        BY <1>1, <3>7, <3>8, <4>2
    <3>11. Outlasts(f, span, p, tries[e])
      BY <3>3, <3>6, <3>9, <3>10 DEF Outlasts
    <3> QED
      BY <2>2, <3>1, <3>2, <3>11
  <2>8. ASSUME PollAnswered(e) PROVE Patient(f, d, span)'
    <3>1. PICK p : /\ Change(e, p) /\ c.phase = "Poll" /\ UNCHANGED requests
                   /\ p = [c EXCEPT !.polls = @ - 1, !.shown = jobs[c.id].status,
                                    !.phase = IF Final(jobs[c.id]) THEN "Over" ELSE @]
      BY <2>8 DEF PollAnswered
    <3>2. p.phase \in {"Over", "Poll"}
      BY <1>1, <3>1 DEF Post
    <3> QED
      BY <2>3, <3>1, <3>2
  <2>9. ASSUME PollFails(e) PROVE Patient(f, d, span)'
    <3>1. PICK p : /\ Change(e, p) /\ p = [c EXCEPT !.polls = @ - 1] /\ c.phase = "Poll"
                   /\ UNCHANGED requests
      BY <2>9 DEF PollFails
    <3>2. p.phase = "Poll"
      BY <1>1, <3>1 DEF Post
    <3> QED
      BY <2>3, <3>1, <3>2
  <2>10. ASSUME PollsEnd(e) PROVE Patient(f, d, span)'
    <3>1. PICK p : /\ Change(e, p) /\ p = [c EXCEPT !.phase = "Over", !.shown = "timeout"]
                   /\ UNCHANGED requests
      BY <2>10 DEF PollsEnd
    <3>2. p.phase = "Over"
      BY <1>1, <3>1 DEF Post
    <3> QED
      BY <2>3, <3>1, <3>2
  <2> QED
    BY <2>4, <2>5, <2>6, <2>7, <2>8, <2>9, <2>10 DEF Track
<1> QED
  BY <1>2, <1>3

LEMMA QuietPatient ==
  ASSUME NEW span, NEW d \in Device, NEW f \in Nat, Patient(f, d, span), UNCHANGED tries,
         client'[d] = client[d] \/ client'[d].phase = "Poll",
         \A q \in requests' : q.step = "Add" => q \in requests
  PROVE  Patient(f, d, span)'
<1>1. Outlasts(f, span, client'[d], tries'[d])
  BY DEF Patient, Outlasts
<1>2. \A r \in requests' : r.step = "Add" /\ r.device = d => f > r.wait
  BY DEF Patient
<1> QED
  BY <1>1, <1>2 DEF Patient, Outlasts

(* Time takes as much from the post as from the freshness.                 *)
LEMMA TickPatient ==
  ASSUME PlazaInv, Tick, NEW span, Spans(span), NEW d \in Device, NEW f \in Nat,
         Patient(f, d, span)
  PROVE  Patient(Elapse(f), d, span)'
<1> DEFINE c == client[d]  most == tries[d]
<1>1. c \in Post /\ c.timer \in Nat /\ c.attempt \in Nat
  BY DEF PlazaInv, PlazaTyped, Post
<1>2. most \in Nat /\ most <= Attempts /\ Attempts \in Nat
  BY PlazaAssumption DEF PlazaInv, PlazaTyped
<1>3. /\ c.phase \in {"Connect", "Await", "Sleep"} => c.timer > 0 /\ c.attempt \in 1 .. most
      /\ c.phase = "Sleep" => c.attempt < most
      /\ \A r \in requests : r.step = "Add" => r.wait > 0
  BY DEF Tick, PlazaInv, Scheduled
<1>4. /\ client'[d].phase = c.phase /\ client'[d].attempt = c.attempt
      /\ client'[d].timer = Elapse(c.timer) /\ UNCHANGED tries
      /\ \A q \in requests' : \E r \in requests :
           q.step = r.step /\ q.device = r.device /\ q.wait = Elapse(r.wait)
  BY TickSteps DEF PlazaInv
<1>5. ASSUME NEW q \in requests', q.step = "Add", q.device = d PROVE Elapse(f) > q.wait
  <2>1. PICK r \in requests : q.step = r.step /\ q.device = r.device /\ q.wait = Elapse(r.wait)
    BY <1>4
  <2>2. r \in PostRequest /\ f > r.wait /\ r.wait > 0
    BY <1>3, <1>5, <2>1 DEF PlazaInv, PlazaTyped, Patient
  <2>3. r.wait \in Nat
    BY <2>2, PlazaAssumption DEF PostRequest
  <2> QED
    BY <2>1, <2>2, <2>3 DEF Elapse
<1>6. CASE c.phase \notin {"Connect", "Await", "Sleep"}
  BY <1>4, <1>5, <1>6 DEF Patient, Outlasts
<1>7. CASE c.phase \in {"Connect", "Await", "Sleep"}
  <2>1. Elapse(c.timer) = c.timer - 1 /\ c.timer - 1 \in Nat
    BY <1>1, <1>3, <1>7 DEF Elapse
  <2>2. Latency \in Nat /\ IoTimeout \in Nat
    BY PlazaAssumption
  <2>3. c.attempt < most => Pause(c.attempt) \in Nat /\ span[c.attempt + 1] \in Nat
    <3>1. c.attempt < most => c.attempt \in 1 .. Attempts /\ c.attempt < Attempts
      BY <1>1, <1>2, <1>3, <1>7
    <3> QED
      BY <3>1, SpanOf
  <2>4. Elapse(f) >= f - 1 /\ Elapse(f) \in Nat
    BY DEF Elapse
  <2>5. Outlasts(f, span, c, most)
    BY DEF Patient
  <2>6. c.phase = "Connect" => Elapse(f) > c.timer - 1 + Latency
    BY <1>1, <2>2, <2>4, <2>5 DEF Outlasts
  <2>7. c.phase = "Connect" /\ c.attempt < most =>
          Elapse(f) >= c.timer - 1 + IoTimeout + Pause(c.attempt) + span[c.attempt + 1]
    BY <1>1, <2>2, <2>3, <2>4, <2>5 DEF Outlasts
  <2>8. c.phase = "Await" /\ c.attempt < most =>
          Elapse(f) >= c.timer - 1 + Pause(c.attempt) + span[c.attempt + 1]
    BY <1>1, <2>3, <2>4, <2>5 DEF Outlasts
  <2>9. c.phase = "Sleep" => Elapse(f) >= c.timer - 1 + span[c.attempt + 1]
    BY <1>1, <1>3, <2>3, <2>4, <2>5 DEF Outlasts
  <2> HIDE DEF Elapse
  <2>10. Outlasts(Elapse(f), span, client'[d], tries'[d])
    BY <1>4, <2>1, <2>6, <2>7, <2>8, <2>9 DEF Outlasts
  <2> QED
    BY <1>5, <2>10 DEF Patient, Outlasts
<1> QED
  BY <1>6, <1>7

LEMMA SameOneJob ==
  ASSUME PlazaInv, PlazaInv', NEW span, OneJobPerPost, StaysFresh(span), SameJobs,
         \A d \in Device, f \in Nat : Heard(d) /\ Patient(f, d, span) => Patient(f, d, span)'
  PROVE  OneJobPerPost' /\ StaysFresh(span)'
<1>1. CASE lost'
  BY <1>1 DEF OneJobPerPost, StaysFresh
<1>2. CASE ~lost'
  <2>1. /\ ~lost /\ DOMAIN Known' = DOMAIN Known
        /\ \A i \in DOMAIN Known : /\ Known'[i].device = Known[i].device
                                   /\ Known'[i].fresh = Known[i].fresh
    BY <1>2 DEF SameJobs
  <2>2. OneJobPerPost'
    BY <2>1 DEF OneJobPerPost
  <2>3. ASSUME NEW i \in DOMAIN Known
        PROVE  /\ \A r \in requests' : r.step = "Add" /\ r.device = Known'[i].device =>
                                          Known'[i].fresh > r.wait
               /\ Outlasts(Known'[i].fresh, span, client'[Known'[i].device],
                           tries'[Known'[i].device])
    <3>1. PICK d \in Device : d = Known[i].device
      BY KnownTyped
    <3>2. PICK f \in Nat : f = Known[i].fresh
      BY KnownTyped
    <3>3. Heard(d) /\ Patient(f, d, span)
      BY <2>1, <3>1, <3>2, KnownTyped DEF StaysFresh
    <3>4. Patient(f, d, span)'
      BY <3>3
    <3>5. Known'[i].device = d /\ Known'[i].fresh = f
      BY <2>1, <3>1, <3>2
    <3> QED
      BY <3>4, <3>5 DEF Patient, Outlasts
  <2>4. StaysFresh(span)'
    BY <2>1, <2>3 DEF StaysFresh, Patient, Outlasts
  <2> QED
    BY <2>2, <2>4
<1> QED
  BY <1>1, <1>2

(* A job is added for a device that has none, or after the jobs were lost. *)
LEMMA AddOneJob ==
  ASSUME JobsInv, PlazaInv', NEW span, Spans(span), UnheardUnknown, OneJobPerPost,
         StaysFresh(span), NEW r \in requests, Add(r)
  PROVE  OneJobPerPost' /\ StaysFresh(span)'
<1>1. /\ UNCHANGED <<tries, client, up>> /\ PlazaInv /\ PlazaTyped /\ up
      /\ r \in PostRequest /\ r.device \in Device /\ r.step = "Add" /\ jobs \in Seq(Job)
      /\ requests \subseteq PostRequest
  BY AddSteps DEF JobsInv, PlazaInv, PlazaTyped, PostRequest, NumbersKnown, server, Add
<1>2. ASSUME NEW i \in Equal(r.device), Moved(r, "Answer", i), UNCHANGED store
      PROVE  OneJobPerPost' /\ StaysFresh(span)'
  <2>1. i \in Nat
    BY <1>1, NumbersNat DEF Equal
  <2>2. PICK q \in PostRequest : requests' = (requests \ {r}) \cup {q} /\ q.step = "Answer"
    BY <1>1, <1>2, <2>1, MovedRequest
  <2>3. \A q1 \in requests' : q1.step = "Add" => q1 \in requests
    BY <2>2
  <2>4. \A d \in Device, f \in Nat : Patient(f, d, span) => Patient(f, d, span)'
    BY <1>1, <2>3, QuietPatient
  <2>5. SameJobs
    <3>1. UNCHANGED <<jobs, disk, lost, up>>
      BY <1>1, <1>2 DEF store
    <3> QED
      BY <1>1, <3>1, StoreSame DEF JobsInv
  <2> QED
    BY <1>1, <2>4, <2>5, SameOneJob
<1>3. ASSUME NEW js, js = Append(jobs, NewJob(r.device)), Equal(r.device) = {}, ~lost,
             \/ Save(js) /\ Moved(r, "Put", Len(js))
             \/ SaveRaises(js) /\ requests' = requests \ {r}
      PROVE  OneJobPerPost' /\ StaysFresh(span)'
  <2> DEFINE n == Len(js)  d == r.device
  <2>1. /\ js \in Seq(Job) /\ n \in Nat /\ n \notin DOMAIN jobs
        /\ DOMAIN js = DOMAIN jobs \cup {n}
        /\ js[n] = NewJob(d) /\ \A i \in DOMAIN jobs : js[i] = jobs[i]
    BY <1>1, <1>3, AppendedJob
  <2>2. js[n].device = d /\ js[n].fresh = Dedup
    BY <2>1 DEF NewJob
  <2>3. Known = jobs /\ Known' = js
    BY <1>1, <1>3 DEF Known, Save, SaveRaises
  <2>4. \/ requests' = requests \ {r}
        \/ \E q \in PostRequest : requests' = (requests \ {r}) \cup {q} /\ q.step = "Put"
    BY <1>1, <1>3, <2>1, MovedRequest
  <2> HIDE DEF n, d
  <2>5. \A q \in requests' : q.step = "Add" => q \in requests
    BY <2>4
  <2>6. ASSUME NEW i \in DOMAIN jobs PROVE jobs[i].device # d
    <3>1. jobs[i].fresh \in Nat
      BY <2>3, <1>1, KnownTyped
    <3>2. r.wait \in Nat
      BY <1>1, PlazaAssumption DEF PostRequest
    <3>3. jobs[i].device = d => jobs[i].fresh > r.wait
      BY <1>1, <1>3, <2>3 DEF StaysFresh, Patient, d
    <3> QED
      BY <1>3, <3>1, <3>2, <3>3 DEF Equal, d
  <2>7. OneJobPerPost'
    <3>1. ASSUME NEW i \in DOMAIN js, NEW k \in DOMAIN js, js[i].device = js[k].device
          PROVE  i = k
      <4>1. \A a, b \in DOMAIN jobs : jobs[a].device = jobs[b].device => a = b
        BY <1>3, <2>3 DEF OneJobPerPost
      <4> QED
        BY <2>1, <2>2, <2>6, <3>1, <4>1
    <3> QED
      BY <2>3, <3>1 DEF OneJobPerPost
  <2>8. Patient(Dedup, d, span)'
    <3>1. d \in Device /\ client[d] \in Post /\ tries[d] \in 0 .. Attempts
      BY <1>1 DEF PlazaTyped, d
    <3>2. ~Unheard(d)
      BY <1>1, <3>1 DEF UnheardUnknown, Heard, d
    <3>3. Outlasts(Dedup, span, client[d], tries[d])
      BY <1>1, <3>1, <3>2, DedupOutlasts DEF PlazaInv, Scheduled, Unheard
    <3>4. ASSUME NEW q \in requests', q.step = "Add" PROVE Dedup > q.wait
      <4>1. q \in PostRequest
        BY <1>1, <2>5, <3>4
      <4> QED
        BY <4>1, PlazaAssumption DEF PostRequest, Spans
    <3> QED
      BY <1>1, <3>3, <3>4 DEF Patient, Outlasts
  <2>9. ASSUME NEW i \in DOMAIN js
        PROVE  /\ \A q \in requests' : q.step = "Add" /\ q.device = js[i].device =>
                                          js[i].fresh > q.wait
               /\ Outlasts(js[i].fresh, span, client'[js[i].device], tries'[js[i].device])
    <3>1. CASE i = n
      BY <2>2, <2>8, <3>1 DEF Patient, Outlasts
    <3>2. CASE i # n
      <4>1. i \in DOMAIN jobs /\ js[i] = jobs[i]
        BY <2>1, <3>2
      <4>2. PICK e \in Device : e = jobs[i].device
        BY <1>1, <2>3, <4>1, KnownTyped
      <4>3. PICK f \in Nat : f = jobs[i].fresh
        BY <1>1, <2>3, <4>1, KnownTyped
      <4>4. Patient(f, e, span)
        BY <1>3, <2>3, <4>1, <4>2, <4>3 DEF StaysFresh
      <4>5. Patient(f, e, span)'
        BY <1>1, <2>5, <4>4, QuietPatient
      <4> QED
        BY <4>1, <4>2, <4>3, <4>5 DEF Patient, Outlasts
    <3> QED
      BY <3>1, <3>2
  <2>10. StaysFresh(span)'
    BY <2>3, <2>9 DEF StaysFresh, Patient, Outlasts
  <2> QED
    BY <2>7, <2>10
<1>4. ASSUME lost, ~UNCHANGED store PROVE OneJobPerPost' /\ StaysFresh(span)'
  <2>1. lost' = lost
    BY <1>1, <1>4, AddSteps DEF Save, SaveRaises
  <2> QED
    BY <1>4, <2>1 DEF OneJobPerPost, StaysFresh
<1>5. CASE \E i \in Equal(r.device) : Moved(r, "Answer", i) /\ UNCHANGED store
  BY <1>2, <1>5
<1>6. CASE lost
  BY <1>4, <1>5, <1>6, <1>1, AddSteps DEF Save, SaveRaises, OneJobPerPost, StaysFresh
<1>7. CASE ~lost
  BY <1>1, <1>3, <1>5, <1>7, AddSteps
<1> QED
  BY <1>6, <1>7

LEMMA OneJobStep ==
  ASSUME NEW span, Spans(span), OneJobInv(span), [Next]_vars
  PROVE  OneJobInv(span)'
<1>1. /\ JobsInv /\ PlazaInv /\ FileRestores /\ UnheardUnknown /\ OneJobPerPost
      /\ StaysFresh(span)
  BY DEF OneJobInv, JobsInv
<1>2. PlazaInv'
  BY <1>1, PlazaInvKept
<1>3. JobsInv'
  BY <1>1, <1>2, StepKept, AnsweredKept DEF JobsInv, Kept
<1>4. UnheardUnknown'
  BY <1>1, StepHeard DEF UnheardUnknown
<1>5. ASSUME SameJobs,
             \A d \in Device, f \in Nat :
               Heard(d) /\ Patient(f, d, span) => Patient(f, d, span)'
      PROVE  OneJobPerPost' /\ StaysFresh(span)'
  BY <1>1, <1>2, <1>5, SameOneJob
<1>6. ASSUME UNCHANGED <<tries, requests, client>>
      PROVE  \A d \in Device, f \in Nat : Patient(f, d, span) => Patient(f, d, span)'
  BY <1>6, QuietPatient
<1>7. OneJobPerPost' /\ StaysFresh(span)'
  <2>1. ASSUME UNCHANGED vars PROVE OneJobPerPost' /\ StaysFresh(span)'
    <3>1. UNCHANGED <<jobs, disk, lost, up, tries, requests, client>>
      BY <2>1 DEF vars, store, server
    <3>2. SameJobs
      BY <1>1, <3>1, StoreSame
    <3> QED
      BY <1>5, <1>6, <3>1, <3>2
  <2>2. ASSUME NEW e \in Device, Track(e) PROVE OneJobPerPost' /\ StaysFresh(span)'
    <3>1. UNCHANGED <<jobs, disk, lost, up>>
      BY <1>1, <2>2, TrackPosts DEF PlazaInv, store, server
    <3>2. SameJobs
      BY <1>1, <3>1, StoreSame
    <3>3. \A d \in Device, f \in Nat : Heard(d) /\ Patient(f, d, span) => Patient(f, d, span)'
      BY <1>1, <2>2, TrackPatient
    <3> QED
      BY <1>5, <3>2, <3>3
  <2>3. ASSUME NEW r \in requests, Put(r) PROVE OneJobPerPost' /\ StaysFresh(span)'
    <3>1. /\ UNCHANGED <<jobs, disk, lost, up, tries, client>>
          /\ r.step = "Put" /\ Moved(r, "Answer", r.id)
      BY <2>3 DEF Put, store
    <3>2. r.id \in Nat
      BY <1>1, <3>1, NumbersNat DEF PlazaInv, PlazaTyped, NumbersKnown
    <3>3. PICK q \in PostRequest : requests' = (requests \ {r}) \cup {q} /\ q.step = "Answer"
      BY <1>1, <3>1, <3>2, MovedRequest DEF PlazaInv
    <3>4. \A s \in requests' : s.step = "Add" => s \in requests
      BY <3>3
    <3>5. \A d \in Device, f \in Nat : Patient(f, d, span) => Patient(f, d, span)'
      BY <3>1, <3>4, QuietPatient
    <3>6. SameJobs
      BY <1>1, <3>1, StoreSame
    <3> QED
      BY <1>5, <3>5, <3>6
  <2>4. ASSUME NEW r \in requests, Answer(r) PROVE OneJobPerPost' /\ StaysFresh(span)'
    <3>1. UNCHANGED <<jobs, disk, lost, up, tries>> /\ requests' = requests \ {r}
      BY <2>4 DEF Answer, Change, store, server
    <3>2. ASSUME NEW d \in Device PROVE client'[d] = client[d] \/ client'[d].phase = "Poll"
      <4>1. CASE UNCHANGED client
        BY <4>1
      <4>2. CASE ~UNCHANGED client
        <5>1. PICK p : /\ client' = [client EXCEPT ![r.device] = p]
                       /\ p = [client[r.device] EXCEPT !.phase = "Poll", !.timer = 0,
                                 !.polls = Polls, !.id = r.id, !.shown = "queued"]
          BY <2>4, <4>2 DEF Answer, Change
        <5>2. client[r.device] \in Post /\ client \in [Device -> Post]
          BY <1>1 DEF PlazaInv, PlazaTyped, PostRequest
        <5>3. p.phase = "Poll"
          BY <5>1, <5>2 DEF Post
        <5>4. client'[d] = IF d = r.device THEN p ELSE client[d]
          BY <5>1, <5>2
        <5> QED
          BY <5>3, <5>4
      <4> QED
        BY <4>1, <4>2
    <3>3. \A d \in Device, f \in Nat : Patient(f, d, span) => Patient(f, d, span)'
      BY <3>1, <3>2, QuietPatient
    <3>4. SameJobs
      BY <1>1, <3>1, StoreSame
    <3> QED
      BY <1>5, <3>3, <3>4
  <2>5. ASSUME Work PROVE OneJobPerPost' /\ StaysFresh(span)'
    <3>1. UNCHANGED <<tries, client, requests>>
      BY <1>1, <2>5, WorkUpdates
    <3>2. SameJobs
      BY <1>1, <2>5, StoreSame
    <3> QED
      BY <1>5, <1>6, <3>1, <3>2
  <2>6. ASSUME Crash PROVE OneJobPerPost' /\ StaysFresh(span)'
    <3>1. UNCHANGED <<tries, client>> /\ requests' = {}
      BY <2>6 DEF Crash
    <3>2. \A d \in Device, f \in Nat : Patient(f, d, span) => Patient(f, d, span)'
      BY <3>1, QuietPatient
    <3>3. SameJobs
      BY <1>1, <2>6, StoreSame
    <3> QED
      BY <1>5, <3>2, <3>3
  <2>7. ASSUME Start PROVE OneJobPerPost' /\ StaysFresh(span)'
    <3>1. UNCHANGED <<tries, client, requests>>
      BY <2>7 DEF Start
    <3>2. SameJobs
      BY <1>1, <2>7, StoreSame
    <3> QED
      BY <1>5, <1>6, <3>1, <3>2
  <2>8. ASSUME Tick PROVE OneJobPerPost' /\ StaysFresh(span)'
    <3>1. /\ jobs \in Seq(Job) /\ (disk # None => disk \in Seq(Job))
      BY <1>1 DEF PlazaInv, PlazaTyped
    <3>2. /\ jobs' = Aged(jobs) /\ disk' = IF disk = None THEN None ELSE Aged(disk)
          /\ UNCHANGED <<lost, up>>
      BY <1>1, <2>8, TickSteps DEF PlazaInv
    <3>3. /\ DOMAIN Known' = DOMAIN Known
          /\ \A i \in DOMAIN Known : /\ Known'[i].device = Known[i].device
                                     /\ Known'[i].fresh = Elapse(Known[i].fresh)
      <4>1. CASE up
        BY <3>1, <3>2, <4>1, AgedJobs DEF Known
      <4>2. CASE ~up /\ disk = None
        BY <3>2, <4>2 DEF Known
      <4>3. CASE ~up /\ disk # None
        <5>1. /\ Restarted(disk) \in Seq(Job) /\ Aged(disk) # None
              /\ Restarted(Aged(disk)) = Aged(Restarted(disk))
          BY <3>1, <4>3, RestartedJobs, RestartedAged, AgedJobs, StoreAssumption
        <5>2. Known = Restarted(disk) /\ Known' = Aged(Restarted(disk))
          BY <3>2, <4>3, <5>1 DEF Known
        <5> QED
          BY <5>1, <5>2, AgedJobs
      <4> QED
        BY <4>1, <4>2, <4>3
    <3>4. OneJobPerPost'
      BY <1>1, <3>2, <3>3 DEF OneJobPerPost
    <3>5. ASSUME NEW i \in DOMAIN Known, ~lost
          PROVE  /\ \A q \in requests' : q.step = "Add" /\ q.device = Known'[i].device =>
                                            Known'[i].fresh > q.wait
                 /\ Outlasts(Known'[i].fresh, span, client'[Known'[i].device],
                             tries'[Known'[i].device])
      <4>1. PICK d \in Device : d = Known[i].device
        BY <1>1, KnownTyped
      <4>2. PICK f \in Nat : f = Known[i].fresh
        BY <1>1, KnownTyped
      <4>3. Patient(f, d, span)
        BY <1>1, <3>5, <4>1, <4>2 DEF StaysFresh
      <4>4. Patient(Elapse(f), d, span)'
        BY <1>1, <2>8, <4>3, TickPatient
      <4>5. Known'[i].device = d /\ Known'[i].fresh = Elapse(f)
        BY <3>3, <4>1, <4>2
      <4> HIDE DEF Elapse
      <4> QED
        BY <4>4, <4>5 DEF Patient, Outlasts
    <3>6. StaysFresh(span)'
      BY <3>2, <3>3, <3>5 DEF StaysFresh, Patient, Outlasts
    <3> QED
      BY <3>4, <3>6
  <2> QED
    BY <1>1, <1>2, <2>1, <2>2, <2>3, <2>4, <2>5, <2>6, <2>7, <2>8, AddOneJob DEF Next, Thread
<1> QED
  BY <1>3, <1>4, <1>7 DEF OneJobInv

(* However often a device tries, whatever message is lost, whichever write *)
(* fails and whenever the server ends, Store.add makes one job of its post *)
(* (unless the jobs were lost from the file), if DEDUP_SECONDS last until  *)
(* the last attempt's request is served, with each attempt's timeouts and  *)
(* pause and the wait for a thread counted in.                             *)
THEOREM OneJob ==
  ASSUME NEW span, Spans(span)
  PROVE  Spec => []OneJobPerPost
<1>1. Init => OneJobInv(span)
  <2> SUFFICES ASSUME Init PROVE OneJobInv(span)
    OBVIOUS
  <2>1. JobsInv
    BY JobsInit
  <2>2. Known = <<>> /\ DOMAIN Known = {}
    BY DEF Init, Known
  <2>3. UnheardUnknown
    BY DEF Init, UnheardUnknown, Heard
  <2>4. StaysFresh(span) /\ OneJobPerPost
    BY <2>2 DEF StaysFresh, OneJobPerPost
  <2> QED
    BY <2>1, <2>3, <2>4 DEF OneJobInv
<1>2. OneJobInv(span) /\ [Next]_vars => OneJobInv(span)'
  BY OneJobStep
<1>3. OneJobInv(span) => OneJobPerPost
  BY DEF OneJobInv
<1> QED
  BY <1>1, <1>2, <1>3, PTL DEF Spec

(* The times of post.rs and server.py: three attempts, of 5 s and 15 s,    *)
(* with pauses of 2 s and 4 s, within 60 s.  That is enough as long as no  *)
(* request waits longer than 13 s for its thread.                          *)
THEOREM OneJobOfThreeAttempts ==
  ASSUME Attempts = 3,
         Dedup >= 2 * ConnectTimeout + 2 * IoTimeout + Pause(1) + Pause(2) + Latency + 1
  PROVE  Spec => []OneJobPerPost
<1>1. /\ ConnectTimeout \in Nat /\ IoTimeout \in Nat /\ Latency \in Nat /\ Dedup \in Nat
      /\ Pause(1) \in Nat /\ Pause(2) \in Nat
  BY PlazaAssumption, PauseType
<1>2. PICK last \in Nat : last = ConnectTimeout + Latency + 1
  BY <1>1
<1>3. PICK mid \in Nat : mid = ConnectTimeout + IoTimeout + Pause(2) + last
  BY <1>1
<1>4. PICK first \in Nat : first = ConnectTimeout + IoTimeout + Pause(1) + mid
  BY <1>1
<1>5. PICK span \in [Nat -> Nat] : span[1] = first /\ span[2] = mid /\ span[3] = last
  <2> DEFINE sp == [k \in Nat |-> IF k = 1 THEN first ELSE IF k = 2 THEN mid ELSE last]
  <2>1. sp \in [Nat -> Nat]
    OBVIOUS
  <2>2. sp[1] = first /\ sp[2] = mid /\ sp[3] = last
    OBVIOUS
  <2> HIDE DEF sp
  <2> QED
    BY <2>1, <2>2
<1>6. Spans(span)
  <2>1. Dedup > Latency
    BY <1>1
  <2>2. ASSUME NEW k \in 1 .. Attempts PROVE span[k] > ConnectTimeout + Latency
    <3>1. k = 1 \/ k = 2 \/ k = 3
      OBVIOUS
    <3>2. first > ConnectTimeout + Latency /\ mid > ConnectTimeout + Latency
          /\ last > ConnectTimeout + Latency
      BY <1>1, <1>2, <1>3, <1>4
    <3> QED
      BY <1>5, <3>1, <3>2
  <2>3. ASSUME NEW k \in 1 .. Attempts - 1
        PROVE  /\ span[k] >= ConnectTimeout + IoTimeout + Pause(k) + span[k + 1]
               /\ Dedup >= IoTimeout + Pause(k) + span[k + 1]
    <3>1. CASE k = 1
      <4>1. span[k] = first /\ span[k + 1] = mid /\ Pause(k) = Pause(1)
        BY <1>5, <3>1
      <4>2. first >= ConnectTimeout + IoTimeout + Pause(1) + mid
            /\ Dedup >= IoTimeout + Pause(1) + mid
        BY <1>1, <1>2, <1>3, <1>4
      <4> QED
        BY <4>1, <4>2
    <3>2. CASE k = 2
      <4>1. span[k] = mid /\ span[k + 1] = last /\ Pause(k) = Pause(2)
        BY <1>5, <3>2
      <4>2. mid >= ConnectTimeout + IoTimeout + Pause(2) + last
            /\ Dedup >= IoTimeout + Pause(2) + last
        BY <1>1, <1>2, <1>3
      <4> QED
        BY <4>1, <4>2
    <3> QED
      BY <3>1, <3>2
  <2> QED
    BY <1>5, <2>1, <2>2, <2>3 DEF Spans
<1> QED
  BY <1>6, OneJob
=============================================================================
