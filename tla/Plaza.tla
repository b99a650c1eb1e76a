------------------------------- MODULE Plaza -------------------------------
(***************************************************************************)
(* The image server (server/server.py) and the devices that post their     *)
(* sentence to it (cli/src/post.rs): the job store with its file, the      *)
(* request threads, the one worker thread, and the client's submission     *)
(* with its retries and its polling.                                       *)
(*                                                                         *)
(* A device stands for its name and its sentence, for it posts one         *)
(* sentence only (PostedOnce of ExchangeState).  Jobs are numbered 1, 2,   *)
(* ... and never deleted, so the store is a sequence.  Validation of the   *)
(* request, the web page and the generator's inside are left out.          *)
(***************************************************************************)
EXTENDS Integers, Sequences

CONSTANTS
  Device,
  Attempts,        \* SUBMIT_RETRY_ATTEMPTS
  Tries,           \* how often each device may try: Attempts, for submit.py once
  ConnectTimeout,  \* CONNECT_TIMEOUT of post.rs
  IoTimeout,       \* IO_TIMEOUT of post.rs
  Polls,           \* POLL_ATTEMPTS
  Dedup,           \* DEDUP_SECONDS of server.py
  Latency,         \* how long a request may wait for its thread
  MaxFaults,       \* bound: how often the server ends or cannot write its file
  None

ASSUME PlazaAssumption ==
  /\ None \notin Nat
  /\ Attempts \in Nat \ {0} /\ Tries \subseteq [Device -> 0 .. Attempts]
  /\ Polls \in Nat /\ MaxFaults \in Nat
  /\ ConnectTimeout \in Nat /\ IoTimeout \in Nat
  /\ Dedup \in Nat /\ Latency \in Nat

VARIABLES
  tries,       \* one of Tries
  client,      \* each device's post
  requests,    \* submissions the server's threads are at
  up,          \* the server process runs
  jobs,        \* Store.jobs
  disk,        \* jobs.jsonl, or None when it cannot be parsed
  queue,       \* numbers of the jobs the worker has not begun
  worker,      \* the worker thread
  pictures,    \* whose sentence the image file of each number shows
  faults,
  torn,        \* history: a write of jobs.jsonl did not complete
  lost         \* history: such a write left a file without the jobs at the end

store == <<jobs, disk, torn, lost, faults>>
server == <<up, queue, worker, pictures>>
vars == <<tries, client, requests, store, server>>

-----------------------------------------------------------------------------
(* The store.  `fresh' is what is left of the time in which an equal       *)
(* submission is taken for this one; it is a wall-clock time, so it passes *)
(* on disk too.                                                            *)

Job == [device : Device, status : {"queued", "working", "done", "error"},
        image : BOOLEAN, fresh : 0 .. Dedup]

NewJob(d) == [device |-> d, status |-> "queued", image |-> FALSE, fresh |-> Dedup]

Final(j) == j.status \in {"done", "error"}

(* A file that cannot be parsed is not one of jobs.                        *)
ASSUME StoreAssumption == None \notin Seq(Job)

(* Store.__init__: what was not final is an error now.                     *)
RestartedAll(js) ==
  [i \in DOMAIN js |-> [js[i] EXCEPT !.status = "error"]]
Restarted(js) ==
  [i \in DOMAIN js |-> IF Final(js[i]) THEN js[i] ELSE [js[i] EXCEPT !.status = "error"]]

(* Store._persist truncates the file and writes it anew.  Cut short, it    *)
(* holds some first lines of what is written, or ends inside of one.       *)
Cut(js) == {SubSeq(js, 1, k) : k \in 0 .. Len(js) - 1} \cup {None}

SaveUnpersisted(js) == jobs' = js /\ UNCHANGED <<disk, torn, lost, faults>>
Save(js) == jobs' = js /\ disk' = js /\ UNCHANGED <<torn, lost, faults>>

Fault == faults < MaxFaults /\ faults' = faults + 1

(* The write fails, or the opening does, before the file is truncated; the *)
(* jobs in memory have changed either way.                                 *)
SaveRaises(js) ==
  Fault /\ jobs' = js /\ disk' \in Cut(js) \cup {disk} /\ torn' = TRUE /\ UNCHANGED lost

(* The job an equal submission is answered with.                           *)
EqualUnlocked(d) ==
  {i \in DOMAIN jobs : /\ jobs[i].device = d /\ jobs[i].fresh > 0
                       /\ \A q \in requests : q.device = d => q.step = "Add"}
Equal(d) == {i \in DOMAIN jobs : jobs[i].device = d /\ jobs[i].fresh > 0}

Newest(ids) == CHOOSE i \in ids : \A k \in ids : k <= i

-----------------------------------------------------------------------------
(* The device's post. *)

Post == [phase : {"Idle", "Connect", "Await", "Sleep", "Poll", "Over"},
         attempt : 0 .. Attempts, timer : Nat, polls : 0 .. Polls,
         id : Nat \cup {None},
         shown : {"none", "sending", "queued", "working", "done", "error",
                  "timeout", "failed"}]

NoPost == [phase |-> "Idle", attempt |-> 0, timer |-> 0, polls |-> 0,
           id |-> None, shown |-> "none"]

(* submit_with_retry sleeps 2 s, then 4 s.                                 *)
Pause(attempt) == 2 ^ attempt

Change(d, post) ==
  /\ client' = [client EXCEPT ![d] = post]
  /\ UNCHANGED tries

(* spawn_post *)
Complete(d) ==
  /\ client[d].phase = "Idle" /\ tries[d] > 0
  /\ Change(d, [NoPost EXCEPT !.phase = "Connect", !.attempt = 1,
                              !.timer = ConnectTimeout, !.shown = "sending"])
  /\ UNCHANGED <<requests, store, server>>

(* The request reaches the server and waits for a thread.                  *)
Arrive(d) ==
  /\ client[d].phase = "Connect" /\ up
  /\ requests' = requests \cup {[device |-> d, attempt |-> client[d].attempt,
                                 step |-> "Add", id |-> None, wait |-> Latency]}
  /\ Change(d, [client[d] EXCEPT !.phase = "Await", !.timer = IoTimeout])
  /\ UNCHANGED <<store, server>>

(* Connecting, writing or reading fails, or takes too long.                *)
AttemptFails(d) ==
  /\ client[d].phase \in {"Connect", "Await"}
  /\ Change(d, IF client[d].attempt < tries[d]
               THEN [client[d] EXCEPT !.phase = "Sleep", !.timer = Pause(client[d].attempt)]
               ELSE [client[d] EXCEPT !.phase = "Over", !.timer = 0, !.shown = "failed"])
  /\ UNCHANGED <<requests, store, server>>

Retry(d) ==
  /\ client[d].phase = "Sleep" /\ client[d].timer = 0
  /\ Change(d, [client[d] EXCEPT !.phase = "Connect", !.timer = ConnectTimeout,
                                 !.attempt = @ + 1])
  /\ UNCHANGED <<requests, store, server>>

(* GET /jobs/{id} is answered ...                                          *)
PollAnswered(d) ==
  LET c == client[d]
  IN  /\ c.phase = "Poll" /\ c.polls > 0
      /\ up /\ c.id \in DOMAIN jobs
      /\ Change(d, [c EXCEPT !.polls = @ - 1, !.shown = jobs[c.id].status,
                             !.phase = IF Final(jobs[c.id]) THEN "Over" ELSE @])
      /\ UNCHANGED <<requests, store, server>>

(* ... or not found, or not answered, and the next one is tried.           *)
PollFails(d) ==
  /\ client[d].phase = "Poll" /\ client[d].polls > 0
  /\ Change(d, [client[d] EXCEPT !.polls = @ - 1])
  /\ UNCHANGED <<requests, store, server>>

PollsEnd(d) ==
  /\ client[d].phase = "Poll" /\ client[d].polls = 0
  /\ Change(d, [client[d] EXCEPT !.phase = "Over", !.shown = "timeout"])
  /\ UNCHANGED <<requests, store, server>>

-----------------------------------------------------------------------------
(* The request threads. *)

Moved(r, step, id) ==
  requests' = (requests \ {r}) \cup {[r EXCEPT !.step = step, !.id = id, !.wait = 0]}

(* Store.add, under the lock.                                              *)
Add(r) ==
  /\ r \in requests /\ r.step = "Add"
  /\ LET equal == Equal(r.device)
     IN  IF equal # {}
         THEN Moved(r, "Answer", Newest(equal)) /\ UNCHANGED store
         ELSE LET js == Append(jobs, NewJob(r.device))
              IN  \/ Save(js) /\ Moved(r, "Put", Len(js))
                  \/ SaveRaises(js) /\ requests' = requests \ {r}
  /\ UNCHANGED <<tries, client, server>>

PutIfWaiting(r) ==
  /\ r \in requests /\ r.step = "Put"
  /\ queue' = IF client[r.device].phase = "Await" THEN Append(queue, r.id) ELSE queue
  /\ Moved(r, "Answer", r.id)
  /\ UNCHANGED <<tries, client, store, up, worker, pictures>>
Put(r) ==
  /\ r \in requests /\ r.step = "Put"
  /\ queue' = Append(queue, r.id)
  /\ Moved(r, "Answer", r.id)
  /\ UNCHANGED <<tries, client, store, up, worker, pictures>>

(* The answer arrives, if somebody still waits for it and it is not lost.  *)
Answer(r) ==
  /\ r \in requests /\ r.step = "Answer"
  /\ requests' = requests \ {r}
  /\ LET c == client[r.device]
     IN  \/ /\ c.phase = "Await" /\ c.attempt = r.attempt
            /\ Change(r.device, [c EXCEPT !.phase = "Poll", !.timer = 0, !.polls = Polls,
                                          !.id = r.id, !.shown = "queued"])
         \/ UNCHANGED <<tries, client>>
  /\ UNCHANGED <<store, server>>

-----------------------------------------------------------------------------
(* Worker.run.  Each update saves the store under its lock.                *)

Idle == [phase |-> "Idle", id |-> None]

WorkerAt(phase) == worker' = [worker EXCEPT !.phase = phase]

Updated(id, status, image) ==
  [jobs EXCEPT ![id].status = status, ![id].image = image]

(* The next job's update is outside of the try: its exception ends the     *)
(* thread.                                                                 *)
Begin ==
  /\ up /\ worker.phase = "Idle" /\ queue # <<>>
  /\ queue' = Tail(queue)
  /\ LET id == Head(queue)  js == Updated(id, "working", FALSE)
     IN  \/ Save(js) /\ worker' = [phase |-> "Generate", id |-> id]
         \/ SaveRaises(js) /\ worker' = [phase |-> "Dead", id |-> id]
  /\ UNCHANGED <<tries, client, requests, up, pictures>>

(* The generator answers with a picture or with none, or fails.            *)
Drawn(id) ==
  pictures' = [i \in DOMAIN pictures \cup {id} |->
                 IF i = id THEN jobs[worker.id].device ELSE pictures[i]]

GenerateNewest ==
  /\ worker.phase = "Generate"
  /\ \/ WorkerAt("Drawn") /\ Drawn(Len(jobs))
     \/ WorkerAt("Undrawn") /\ UNCHANGED pictures
     \/ WorkerAt("Failed") /\ UNCHANGED pictures
  /\ UNCHANGED <<tries, client, requests, store, up, queue>>
Generate ==
  /\ worker.phase = "Generate"
  /\ \/ WorkerAt("Drawn") /\ Drawn(worker.id)
     \/ WorkerAt("Undrawn") /\ UNCHANGED pictures
     \/ WorkerAt("Failed") /\ UNCHANGED pictures
  /\ UNCHANGED <<tries, client, requests, store, up, queue>>

Publish ==
  /\ worker.phase \in {"Drawn", "Undrawn"}
  /\ LET js == Updated(worker.id, "done", worker.phase = "Drawn")
     IN  \/ Save(js) /\ worker' = Idle
         \/ SaveRaises(js) /\ WorkerAt("Failed")
  /\ UNCHANGED <<tries, client, requests, up, queue, pictures>>

ReportError ==
  /\ worker.phase = "Failed"
  /\ LET js == Updated(worker.id, "error", jobs[worker.id].image)
     IN  \/ Save(js) /\ worker' = Idle
         \/ SaveRaises(js) /\ WorkerAt("Dead")
  /\ UNCHANGED <<tries, client, requests, up, queue, pictures>>

-----------------------------------------------------------------------------
(* The server process. *)

(* It ends between two steps, or inside of a write of what a thread or the *)
(* worker has made of the jobs.                                            *)
Writing ==
  {Append(jobs, NewJob(r.device)) :
     r \in {q \in requests : q.step = "Add" /\ Equal(q.device) = {}}}
  \cup CASE worker.phase = "Idle" /\ queue # <<>> -> {Updated(Head(queue), "working", FALSE)}
         [] worker.phase \in {"Drawn", "Undrawn"} ->
              {Updated(worker.id, "done", worker.phase = "Drawn")}
         [] worker.phase = "Failed" -> {Updated(worker.id, "error", jobs[worker.id].image)}
         [] OTHER -> {}

Restores(file, js) == file # None /\ Restarted(file) = Restarted(js)

Crash ==
  /\ up /\ Fault
  /\ up' = FALSE /\ jobs' = <<>> /\ queue' = <<>> /\ worker' = Idle
  /\ requests' = {}
  /\ \/ UNCHANGED <<disk, torn>>
     \/ (\E js \in Writing : disk' \in Cut(js)) /\ torn' = TRUE
  /\ lost' = (lost \/ (torn' /\ ~Restores(disk', jobs)))
  /\ UNCHANGED <<tries, client, pictures>>

(* The jobs change in memory; the file follows with the next save.         *)
Start ==
  /\ ~up /\ disk # None
  /\ up' = TRUE
  /\ jobs' = Restarted(disk)
  /\ UNCHANGED <<tries, client, requests, disk, torn, lost, faults, queue, worker, pictures>>

-----------------------------------------------------------------------------
(* Time.  A timeout ends what it limits, and a sleep its pause, before     *)
(* more time passes.                                                       *)

Elapse(t) == IF t = 0 THEN 0 ELSE t - 1

Aged(js) == [i \in DOMAIN js |-> [js[i] EXCEPT !.fresh = Elapse(@)]]

Tick ==
  /\ \A d \in Device : client[d].phase \in {"Connect", "Await", "Sleep"} => client[d].timer > 0
  /\ \A r \in requests : r.step = "Add" => r.wait > 0
  /\ client' = [d \in Device |-> [client[d] EXCEPT !.timer = Elapse(@)]]
  /\ requests' = {[r EXCEPT !.wait = Elapse(@)] : r \in requests}
  /\ jobs' = Aged(jobs)
  /\ disk' = IF disk = None THEN None ELSE Aged(disk)
  /\ UNCHANGED <<tries, torn, lost, faults, server>>

-----------------------------------------------------------------------------

Init ==
  /\ tries \in Tries
  /\ client = [d \in Device |-> NoPost]
  /\ requests = {}
  /\ up = TRUE /\ jobs = <<>> /\ disk = <<>> /\ queue = <<>>
  /\ worker = Idle
  /\ pictures = [i \in {} |-> None]
  /\ faults = 0 /\ torn = FALSE /\ lost = FALSE

Track(d) ==
  \/ Complete(d) \/ Arrive(d) \/ AttemptFails(d) \/ Retry(d)
  \/ PollAnswered(d) \/ PollFails(d) \/ PollsEnd(d)

Thread == \E r \in requests : Add(r) \/ Put(r) \/ Answer(r)

Work == Begin \/ Generate \/ Publish \/ ReportError

Next ==
  \/ \E d \in Device : Track(d)
  \/ Thread \/ Work
  \/ Crash \/ Start \/ Tick

Spec == Init /\ [][Next]_vars

(* Threads that can go on do; generators and writes return.                *)
FairSpec == Spec /\ WF_vars(Thread) /\ WF_vars(Work) /\ WF_vars(Tick)

-----------------------------------------------------------------------------
(* Properties. *)

(* The jobs as a client finds them, now or after the next start.           *)
Known == IF up THEN jobs ELSE IF disk = None THEN <<>> ELSE Restarted(disk)

(* "再送しても二重生成しない" (server/README.md): however often the post is   *)
(* tried, whatever message was lost, whatever write failed and whenever     *)
(* the server ended, there is one job for it, unless the jobs were lost.   *)
OneJobPerPost ==
  lost \/ \A i, k \in DOMAIN Known : Known[i].device = Known[k].device => i = k

(* The number a device was answered names its own job for ever, though the *)
(* write of that job may have failed, unless the jobs were lost; and what  *)
(* its viewer shows as the end of the job is its end, unless a write       *)
(* failed: then a job that was done becomes an error.                      *)
AnsweredJobKept ==
  \A d \in Device :
    LET c == client[d]
    IN  c.id # None =>
          /\ lost \/ (c.id \in DOMAIN Known /\ Known[c.id].device = d)
          /\ torn \/ (c.shown \in {"done", "error"} => Known[c.id].status = c.shown)

(* A job is done with a picture only when its file holds the picture of    *)
(* this very sentence, after a restart too.                                *)
PictureShown ==
  \A i \in DOMAIN Known :
    Known[i].status = "done" /\ Known[i].image =>
      i \in DOMAIN pictures /\ pictures[i] = Known[i].device

(* A job that is done or failed stays so, across the end of the server.    *)
FinalStaysFinal ==
  [][torn' \/ \A i \in DOMAIN Known :
       Final(Known[i]) => i \in DOMAIN Known' /\ Known'[i].status = Known[i].status]_vars

(* "status が queued -> working -> done と変化する（失敗は error）" (server/   *)
(* README.md): a job does not stay on the way, whoever waits for it.       *)
Underway(d) == up /\ \E i \in DOMAIN jobs : jobs[i].device = d /\ ~Final(jobs[i])
JobsEnd == \A d \in Device : Underway(d) ~> (torn \/ ~Underway(d))

(* "1 件の失敗でワーカーを止めない" (server.py): while the server runs its    *)
(* worker does.                                                            *)
WorkerSurvives == worker.phase # "Dead"
=============================================================================
