# A verification of surechigai

TLA+ modules that model *surechigai*, TLC runs that check them on small
instances, and TLAPS proofs for every value of their constants. Line numbers of
the source each definition stands for are in `PROJECT.json` under `map`.

## The system

Devices that pass each other exchange phrases (when, where, who, what, why,
how) over Bluetooth LE until each has built one sentence. A complete sentence is
posted to a server in the room, the *plaza*, which draws a picture of it.

| part | state | operations | works with |
|---|---|---|---|
| `cli/src/state.rs`, `game.rs`: exchange state | `enabled`, the lease of one client (`Session`), cooldowns, sentence, log, posted round | `enable`, `shutdown`, `expire`, `disable_if_idle`, `read`, `write`, `record_exchange` | called under one mutex by the event loop, the role loop, the connecting side and the viewer |
| `cli/src/ble.rs`: `exchange`, `serve_events` | the central's place in its exchange; requests queued at the peripheral | connect, identity, Profile, Gift, ACK; one answer per request | the state machines of two devices, over the link |
| `cli/src/ble.rs`: `Radio`; `main.rs` | role, `connected`, `scanning`, what the host does for the process | roles, scan, drain, `disconnect`, `stop_activity`, `cleanup` | host calls that fail or hang; the signal drops the future at any await |
| `cli/src/post.rs` | one thread per post, the status shown | submit with retries, poll | HTTP to the server |
| `server/server.py` | jobs, `jobs.jsonl`, queue, worker, image files | add with deduplication, update, restart, generate | one thread per request, one worker, the file |
| `cli/src/protocol.rs` | `Assembler` | `frames`, `push`, `encode`, `decode` | both sides of an exchange |
| `cli/src/main.rs`, `web.rs`, `web/app.js` | where `main` is; `ViewerMeta`: phase, role, error, setup, the one-shot sender | `api_start`, `set_role`, `set_error`, `set_stopped`, `shutdown` | browser tabs, the signal, the radio |
| `cli/src/config.rs` | the configuration | `validate`, `apply_to`, `role_run_duration` | checked at the start and again when a browser's setup has been applied |
| `m5stack/`: Tab5 firmware | the same state machine with connection leases and a 32-bit clock; roles, touch, events for the screen | as above, in callbacks of the BLE task | exchanges with the CLI and other Tab5 |
| `m5stack/tab5_hiroba.ino`, `gallery_rotation.hpp` | the list of pictures, the rotation: index, last arrival, retry, one time stamp | fetch, select, show, failed, in one blocking loop | the server |

What makes it hard:

* **Two sides, one record each.** The peripheral records at the ACK, the central
  when the ACK's answer arrives. Requests and answers are lost, the central times
  out at any await and its last request may still be served afterwards.
* **Checks far from their use.** A gift is checked against the sentence when it
  arrives and written two requests later; a profile and a cooldown are read a
  dozen awaits before the record they justify.
* **One service, many clients.** The peripheral serves one lease at a time while
  other clients send whatever they like, and it may leave its role only when idle.
* **Cancellation.** A signal, or a timeout, drops a Rust future between any two
  awaits; what the host was asked to do has to be undone from a few flags.
* **Retries and restarts.** A post is retried without knowing whether it was
  accepted; the server keeps its queue in memory and its jobs in one file.

What makes each part correct: the state machine never panics, never records
twice, never refuses an ACK it invited, never overwrites a phrase; an exchange
never leaves the central alone with a record, unless its peer is a Tab5; a role ends with nothing left
running and both roles come round; a post has one job, which ends, with the
picture of its own sentence; the radio runs with the setup of exactly the tab that
was told so, and the page says what the host really does; each picture of the
gallery comes round. `PROJECT.json` lists the hazards behind these, each
at its line.

## Modules

| module | models | state and actions |
|---|---|---|
| `ExchangeState` | `state.rs` with `game.rs` | one variable per field of `State`, one action per way through a handler: `Begin`, `Continue`, `AcceptProfile`, `AcceptGift`, `RefusePacket`, `SelectFragment`, `Acknowledge`, `AcknowledgeAgain`, `ReadFragment`, the refusals, `Enable`, `Shutdown`, `DisableIfIdle`, `Expire`, `Tick`. Every handler first expires, as in the code. |
| `Exchange` | `exchange`, `serve_events`, roles between devices; `exchange_with` of the Tab5 | EXTENDS `ExchangeState`; `central` is where `exchange` stands, `inflight` and `answer` are the link. `ServeWrite` and `ServeRead` are the very actions of `ExchangeState`. A device in `tab5` differs where the firmware does: first fragment before the identity (`Tab5OnFirstData`, `Tab5OnInfo`), no drain (`Tab5LeavesWhenIdle`), a stop button (`Tab5Quits`), a session that ends with its connection (`Tab5Disconnected`), an identity that is always readable, and writes that are acknowledged although `on_server_write` refuses them (`ServeWrite`). |
| `GiftLedger` | nothing: the promise of an exchange | per exchange, a first and a second record. The first may be written alone; the second only as its mirror image, or alone and finally if the device that should have written the first is one that refuses in silence (`silent`: the Tab5). |
| `Radio` | `Radio` of `ble.rs`, `run_radio` | `at` is the await the run is at, from `initialize` on; host calls succeed, fail or time out there, `Signal` drops the future. |
| `Config` | `Config::validate`, `SetupRequest`, the limits of `game.rs` | operators only: what is allowed, what a setup replaces, how long a role may last |
| `Process` | `main.rs`, `web.rs`, the form of `app.js` | EXTENDS `Radio` and `Config`; `main` is where `main()` stands, `tab` each browser tab's request. Every action of `Radio` is taken through `During`, which adds what `report_role`, `set_error` and `set_stopped` tell the viewer. |
| `Plaza` | `post.rs` and `server.py` | `client` is a post, `requests` the server's threads, `jobs`/`disk`/`queue`/`worker` the server. |
| `Tab5State` | `exchange_state.cpp` | the machine of `ExchangeState` with deadlines on a clock that wraps (`Reached` is the signed difference) and a lease per connection; one action per method. `Cli` is the refinement mapping: a deadline becomes the time left until it (`Lease`, `Cooling`), and the one device of the model stands in the CLI's tables beside nothing else (`Only`). |
| `Tab5` | `main.cpp` | EXTENDS `Tab5State`; `at` is where `loop_once` stands, the callbacks of the Bluetooth task are actions of their own. |
| `Framing` | `protocol.rs`; `protocol.cpp` where it differs | packets as octets: `Encode`, `Frame`, `Push`, `Decode`, and the Tab5's `Tab5Refuses` with its `ValidUtf8`. `Sendable` is a packet as the program can make one: sizes within the limits, its texts UTF-8. |
| `Gallery` | `tab5_hiroba.ino`, `gallery_rotation.hpp` | `at` is where `loop()` stands; times are ages modulo `Clock`; `ShowArrival`, `ShowRetry`, `ShowNext` and `ShowNothing` are the returns of `select`. The server behind it (`Submit`, `Draw`) is `Plaza` in two actions; jobs are drawn in any order, for a thread queues its job after the lock under which it was numbered. |
| `ExchangeState_proofs`, `Exchange_proofs`, `Radio_proofs`, `Process_proofs`, `Plaza_proofs`, `Tab5_proofs`, `Framing_proofs`, `Gallery_proofs` | | theorems about the modules they are named for; `Process_proofs` also about `Config`, `Tab5_proofs` about `Tab5State` |

`MC...` modules give the constants their values for TLC; where a `.cfg` can hold
them all it names the module itself (`Radio`, `Gallery`). Definitions that no
action uses and that resemble one that is used (`ShowRetryStale`,
`RefuseNoting`, ...) are mistakes the code could contain: with one in the place of
its neighbour a run must fail, which shows that its properties depend on the code.

What the data is reduced to: a packet is a record and a fragment names its packet
and its number; node and round, both drawn once per process, are one identity;
an `Instant` deadline is the time left until it and `Tick` lets a unit pass; a name
or phrase of a setup is its size in octets; a device of `Plaza` stands for its name and its
one sentence. Fragments of different packets of one exchange can be glued together; what such bytes decode
to is any packet or none (`Decoded`): `Framing` looks at the octets and shows that
it is then a packet that could have been sent.

## Runs

| run | question | bounds, and why they are enough |
|---|---|---|
| `state_lease` | What can any clients, sending any fragments in any order, do to a State? | One device, two clients, one exchange number, one slot, three fragments for a Profile and two for a Gift, three recorded exchanges, lease 2, grace 1, cooldown 1. Two clients give interference and theft of a lease; two sessions of one client share the number, the worst case for what the number must keep apart; the log of two is truncated. |
| `exchange` | Do two devices, in any roles, with losses, timeouts and power failures, keep consistent books, and do leases, drains and exchanges end? | Two CLIs, or a CLI and a Tab5; Bluetooth may be switched off at the CLI `n1` at any time; two exchanges, each of them in either direction, so that a second one begins while requests of the first are still queued, and meets the cooldown of the first; one slot, which either exchange may fill. |
| `exchange_alone` | Is a central ever alone with a record? (yes, beside a Tab5) | The same devices, one exchange. |
| `process` | From launch to exit: is the setup that runs the one a tab was told is accepted, does every failure and every moment of a signal leave the host clean, do both roles come round, does the page tell the truth, and does the process end? | With and without `--web`, a configuration that is allowed and one that is not; two tabs, one with a setup at the limits and one an octet beyond, so that they race and are refused; all modes, every kind of fault. Exchange timeout 1 and windows of 2: an exchange fits at first and then does not. One client. |
| `radio_leftover` | Is a link released when a disconnect fails? (no) | Role Auto, windows 2 and 3, exchange timeout 2; only disconnects fail. |
| `radio_fixed` | Does a fixed Peripheral serve again after its adapter was off? (no) | Only the power fails. |
| `plaza` | Does a post end in one job with its own picture, across restarts? | One CLI with an attempt and a retry (`plaza_worker` has all three), or two posters with one attempt each; a request may wait for its thread as long as the pause before the retry, so that both attempts' requests are there at once; `Dedup` is the least that suffices for these times (one less violates `OneJobPerPost`); one fault (a crash, also within a write, or a failed write) at any step. |
| `plaza_worker` | Does the worker outlive a failed write? (no) | One CLI with three attempts; one fault. |
| `tab5` | Do the firmware's loop and callbacks keep the promises of a lease, and is its machine the CLI's? | Six ticks of the clock, so that every deadline is met before and after the wrap; lease 2, so that a client can act after a tick; two clients with one connection each or one with two; one touch, of the run or the role button, at any place where the loop looks at them. It begins as a fixed Peripheral and becomes Auto by the touch. |
| `framing` | Does every packet survive the cut into frames, is what is accepted from mixed, cut or foreign frames a packet, and do CLI and Tab5 accept the same? | The real sizes. Names of 1 to 32 octets and phrases of 0 to 64; a Profile and a Gift, or two Gifts, mixed on one assembler; each frame whole, cut, padded, or with a wrong count or kind; texts of up to four octets from all ends of the ranges of UTF-8; lengths and slots beyond their limits. |
| `gallery` | Does a new picture reach the screen, do the others come round, and is the index always on the list? | A list of three of four jobs, so that jobs not yet drawn push pictures off it and the list grows shorter; poll, retry and rotation every 1, 1 and 3 units; any request may block 4 units, longer than a rotation; the clock wraps at 16. |
| `gallery_stuck` | Do the pictures come round beside one that cannot be had? (no) | Three jobs, the first of them broken. |

`CHECK_DEADLOCK FALSE`: the bounded environment runs out of inputs, a process
that has ended and a finished plaza really stop. The gallery never does.

The five violated properties (`exchange_alone`, `radio_leftover`, `radio_fixed`,
`plaza_worker`, `gallery_stuck`) each state a sentence of the repository; see `findings` in
`PROJECT.json`. Where a passing property would be touched by one of them it says
so in the formula or in the bounds:

* `LedgerKept` lets a central be alone only with a Tab5 as its peer. The mutant of
  `LedgerKept` takes any answer to the ACK for success: that is what the firmware's
  silence amounts to, and beside a CLI it breaks the ledger.
* `NoLeftovers`, `CleanStop` and `ShownTruly` except a link whose disconnect failed
  or was interrupted (`abandoned`).
* In `Plaza`, `torn` says that a write of `jobs.jsonl` did not complete and `lost`
  that it left a file from which the next start cannot restore the jobs. One job
  per post and the number it was answered with are promised unless jobs were
  `lost`; that a job goes on, and that its end stays its end, unless a write was
  `torn`: the worker may then be dead, and a job that was done may become an error.
  `PictureShown` holds in spite of both.
* `gallery` has no broken picture, but any request may fail.

### Fairness

* `Exchange`: time passes; the event loop's 100 ms tick expires leases; the drain
  polls every 50 ms; a central's task goes on; its `timeout` fires. A Tab5 has no such
  timeout past the connection (`main.cpp:409`): of it, `Abort` assumes that the
  library answers or fails every request in the end. No fairness
  for the link: requests and answers may all be lost. The drain ends because only
  centrals that connected while the device advertised can still begin a session.
* `Radio` and `Process`: every awaited host call returns or its `timeout` does
  (those without a timeout are assumed to return); time passes; power events are
  delivered, a connected client begins or leaves and a lease ends (`LeaseEnds` of
  `Exchange`); `main` goes on; every request the web server has begun is handled.
  No fairness for power, failures, the signal or what a browser posts: `main` may
  wait for a setup for ever, and only a signal ends a radio without a fatal error.
* `Plaza`: the server's threads and its worker go on and a generation returns.
  None for the restart: `JobsEnd` speaks of a server that stays up.
* `Tab5`: time passes and the serving loop comes round (every 20 ms). Time does not
  run on when a deadline would become half the clock's range old without a sweep
  (`SweptInTime`, in `Tick`): a cooldown that nobody swept for 2^31 ms, 25 days of
  one role, would start again, and no loop waits that long. No fairness for the
  clients: they may stay, leave or repeat any request for ever, but begin one
  exchange per connection and connect `MaxConnects` times. Without that bound the
  role need not change, since the Tab5 advertises while it waits.
* `Gallery`: the loop goes round. Strong fairness of `Succeeds(i)` says that a picture
  that can be had is not missed every time it is asked for; nothing is assumed of
  a broken one, of the list's request or of the server.

## Proofs

Every safety invariant and action property that a passing run checks is a theorem
for all values of the constants; the refinements of `GiftLedger` by `Exchange` and
of `ExchangeState` by `Tab5` are theorems as well. The assumptions are those the
modules state with `ASSUME`: ranges of durations and counts, that `None` is none
of the values it stands beside, and what is named below. They are evaluated by
TLC on every run.

### `ExchangeState_proofs`

The nine properties of `state_lease`, and that no
phrase is ever overwritten (`NeverOverwrites`), for any sets of devices, clients,
exchange numbers and slots, any packets, fragment counts of two or more, any
lease, grace and cooldown.

`TypeOK` is not inductive: the record written at an ACK is well typed only if peer
and gifts are there. The inductive invariant `IInv` adds, for each session,

* `WellFormed`: selection and read marks fit the reply; a peer comes with a gift
  for it and a reply; a received gift comes after a peer, and the reply is then
  the own gift;
* `PeerSettled`: the peer is not the device itself and the gift chosen for it fits
  the slots it asked for;
* `GiftSettled`: the received gift is for this round and, until the commit, its
  slot is free. It stays free because the only writer of the sentence on a device
  that serves is the commit of this very session;
* `CommitSettled`: a committed session has its gift and was read to the end.

The proof goes through the actions one by one (`...IInv` lemmas), and `SpecIInv`
puts them together. `NoPanicHolds`, `CommitsAfterDelivery` and `AcksNeverRefused`
follow from `IInv`; `RecordsOncePerSession`, `NeverOverwrites` and
`LeasesKept` (no other client's request changes a lease or the book, and only the
commit moves its deadline) are steps from it. `LogExplainsSentence`, `PostsOnce` and
`NeverRecordsWhileCooling` need invariants of their own: log entries stand in the
sentence, the post count follows completeness, and a session past its Profile
belongs to a peer whose cooldown has run out.

### `Exchange_proofs`

For any number of devices, any of them Tab5, any loss, delay and abort. Three
layers, each inductive with the one before:

* `NetInv` is `IInv` for every device and what the network adds: a Central serves
  nobody (`RolesKept`); what each stage of `exchange` has established about its peer
  and its gifts, and that the own Profile is still true, since a Central's book
  changes only at its end (`CentralsKnow`); the one request on the way is the one
  waited for (`RequestsKnown`, `AnswersKnown`). `RoleExclusion` and the first half of
  `CentralChecksHold` follow: the record a Central makes after the ACK's answer passes
  every check that would make it fail. The other half, that the cooldown it looked
  at before its awaits has not begun meanwhile, is `UnmetKept`: only a Central's own
  end and the ACK of its own peripheral role begin one, and it is in neither.
* `LinkInv` relates the two ends: packets on the way, in sessions and in answers are
  their sender's (`Truthful`), an exchange number has one central and one request
  (`Unique`), and what a session has assembled is of the packet its central is
  sending, and the gifts it has are the central's (`Linked`). It does not say that
  the two ends have come equally far: a Tab5 that acknowledges a write it refuses is
  left behind, and the central goes on. `GiftIntegrity` is part of it.
* `BookInv` says which of the two books of an exchange are written at each stage;
  over it `LedgerRefined` proves that each step is a step of `GiftLedger` or changes
  no book: the peripheral's record first, the central's as its mirror image, each
  once. That a successful answer to the ACK means a record at the peripheral
  (`WriteAnswered`) holds of a CLI only; beside a Tab5 the step may be `Alone`, and
  since the ACK has then been served, the Tab5 never records that exchange.

### `Radio_proofs` and `Process_proofs`

The program never asks the host what it does: it knows from the await it is at,
from `scanning` and from the handle of its link. `RadioInv` says that this
knowledge covers what the host does (`AdvertisingKnown`, `ScanKnown`, `LinkKnown`,
`ServiceKnown`) at each await a fault, a loss of power or a signal may find the
run at. `NoLeftovers` and `CleanStop` follow, for any roles, windows, faults and
clients.

`Process_proofs` first proves, for every configuration and setup, that what `api_start`
lets pass the second `validate` of `main` does not refuse (`AcceptedIsAllowed`),
and that whatever length `role_run_duration` gives a role, a whole exchange fits
into it (`ExchangeFits`): what `Radio` assumes of its `Windows`.

It then proves `SetupAgreed` for any tabs, configurations and submissions,
and that the answer 500 of `api_start` cannot be reached (`NeverUndelivered`). The
inductive invariant `PageInv` has, beside the types of the page's state,

* `SetupChecked`: what a tab has taken or had accepted passed its checks and is what
  the page shows;
* `OneSender`: while the sender is there nobody has taken it, and at most one tab
  ever does;
* `ChannelHolds`: a setup in the channel is that of a tab whose request was accepted;
* `RunsAsAccepted`: with the viewer the radio runs only with such a setup in the
  configuration;
* `ServerOutlives`: no request is under way before the server is there or after it
  has closed, so none finds the receiver gone: `main` waits for the server first,
  and the one way past that, a setup refused by the second `validate`, is closed
  by `AcceptedIsAllowed` (`main` waits only with a configuration that is allowed).

`ProcessRunsRadio` proves that a process is a `Radio` (each of its steps is one of
the radio's, or leaves it alone), so that `NoLeftovers` and `CleanStop` hold of the
process too. `ShownTruly`, that the page says what the host really does, joins both
sides: `RadioInv` tells what the host does at each place, and one more invariant
what `report_role`, `set_error` and `set_stopped` have told the viewer by then.

### `Plaza_proofs`

For any devices, attempts, times and faults.

* `PlazaInv`: types, the schedule of each post, numbers in use that the store has,
  and that a job is `done` with a picture only once the picture of its device is
  drawn. `PictureShown` follows.
* `JobsInv` follows a job from the thread that adds it to its end: it is on its way
  in one place (`OneWay`) and not final there (`OnTheWay`), and the file is what the
  next start needs unless a write did not complete (`FileRestores`). What a crash
  within a write may leave is a prefix of what the thread or the worker was writing
  (`Writing`, `WritingJobs`), and an open that fails leaves the file as it was
  (`SavedFile`).
  `AnsweredJobKept` is part of it and `FinalStaysFinal` a step from it.
* `OneJobPerPost` is a matter of time: a retry finds the job of the post only while
  it is fresh. `OneJob` proves it from `Spans(span)`: some `span[k]`
  bounds the time from attempt `k` to the last request served, timeouts and
  pauses counted in, and `Dedup` covers it. `OneJobOfThreeAttempts` is the case of the
  code: three attempts and `Dedup` of at least
  `2 * ConnectTimeout + 2 * IoTimeout + Pause(1) + Pause(2) + Latency + 1`. With 5 s,
  15 s, 2 s, 4 s and 60 s this is a latency of at most 13 s. `plaza` shows the same
  for its scaled times.

### `Tab5_proofs`

For any clients, peers, durations and clock. `RolesInv` (whoever holds a lease is
served; before a Central role the service is off and nothing is advertised) gives
`LeaseServed` and `CentralAlone`. With the types of the firmware's state it is
`PortInv`, and from that `PortsTheCli` proves `PortOfCli`: each
step of the firmware's machine is a step of the CLI's or none, but for the session
dropped with its connection (`Dropped`) and the record of the Central role
(`CentralRecord`). The argument is that the signed difference to a deadline less
than half the clock away is the time left until it, over the wrap; it needs the
durations shorter than half the clock (`Tab5Assumption`) and deadlines swept before
they are as old as that (`SweptInTime`). Whatever
`ExchangeState_proofs` proves of the CLI's steps is then true of the firmware's, those
two apart; the invariants are not restated for them.

### `Framing_proofs`

For every sequence of octets, of any length.

* `Utf8Agrees`: the Tab5's `valid_utf8`, which computes code points, accepts the
  texts the CLI's library accepts, which is given by the table of well-formed
  sequences. Both are recursive functions along a text. That each of them exists
  is shown by building it (as a least fixed point), that they agree by `Descent`: had
  they a last place of disagreement, there would be a later one.
* `DecodeEncode` and `EncodeDecode`: the two are inverses on the packets that may be
  sent and the octets that are accepted. `ProfileAt` and `GiftAt` say where each
  field stands; every lemma goes through them.
* `DecodersAgree`: the CLI's `decode` and the Tab5's accept the same octets.
* `FramesInv`, for any two streams of frames, each frame whole, cut, padded or
  miscounted: the assembler has twelve octets for each frame but the last
  (`Counted`), and with two exchanges under way its octets are a fragment of the one
  it has taken, or all of it and one octet of padding (`Fragments`), which no decoder
  accepts (`Padded`). `RoundTrip`, `Canonical`, `NotMixed` and `Tab5Agrees` follow.
  `StreamsAssumption` says what streams may be: the encoding of a packet that may be
  sent or, if there is one exchange only, any octets.

### `Gallery_proofs`

`SelectedListed` for any list, times and broken pictures: an index counted round the
list that was fetched last stays on it however the list has changed meanwhile.

### What is left to TLC

Liveness under fairness is out of the prover's reach: `LeaseEnds`, `DrainEnds`,
`CentralReturns` of `Exchange`, `AcceptedRuns`, `RolesAlternate` and `EndsOnSignal` of
`Process`, `JobsEnd`, `RoleChangeComes`, and `PicturesShown` of `Gallery`. They are
checked on the instances above. The five properties the code violates are
refuted by TLC; nothing is proved of them.

## Not modelled

* A host call that timed out may have taken effect (`StartScan`, `StartAdv`), but a
  cancelled connect is taken not to complete later.
* In `Process`: installing the signal handler does not fail (`signal?` would leave
  `run_radio` without its cleanup). A signal that comes while nobody selects on
  one, after the setup or during the cleanup, is taken not to come. `RuntimeEnds` is
  one step: the runtime waits for the thread of a post, which `Plaza` follows to its
  end (three attempts, then the polls). `GET /api/state` changes nothing; the page
  shows "再試行中" beside "停止" when the error of the last slot is still there, which
  is wording (`app.js:43`). A tab that posts after the setup is refused with 409.
* Exchange numbers are distinct between exchanges (32 random bits in the code).
* In `Exchange`, a Tab5's connection leases, which make it stay in its role longer, and
  its going to the other role after one exchange: both are in `Tab5`. Its peer's
  service lists the characteristics, and finding them is part of `Connect`. That
  an exchange of a Tab5 may last longer than the ten seconds `m5stack/README.md`
  gives it is not a property: `CentralReturns` says only that it ends.
* In `Tab5`: the queue of events for the screen, drawing, the threshold. The peer
  of `exchange_with` offers any Profile of `Inputs` and answers with any gift the
  checks let pass, and every step of it may fail.
* RSSI, the set of attempted devices and `known_peers`: a scan finds a peer or not.
* In `Plaza`: forms of requests, the gallery page, what is inside the generators.
  Sleeps are exact, a poll is one step, and the only delay is the `Latency` with
  which a thread gets to a request. With the times of the code (timeouts of 5 s and
  15 s, pauses of 2 s and 4 s, a window of 60 s) the last attempt still falls into
  the window as long as that is at most 13 s; a write that fails or is cut off leaves a
  prefix of what was to be written, a file that does not parse or, when the file
  could not even be opened, the old one.
* In `Gallery`: a picture left alone on a list that has grown shorter is not drawn
  again when another one is on the screen, which no document promises; the status
  line; the pictures' contents.
* In `Framing`: the order of the octets in a frame's header, and the identity read
  before an exchange. `encode` of the Tab5 also refuses texts that are not UTF-8.
* The parts `PROJECT.json` lists as `not_modelled`.

## Plan

Done, in this order: `ExchangeState` with its proofs, `Exchange` over
`GiftLedger`, `Radio`, `Plaza`, `Tab5State` and `Tab5`, `Framing`, `Config` and
`Process` with their proofs, `Gallery`, a Tab5 as a peer in `Exchange`; then the
proofs of `Exchange`, `Radio` and the page, `Plaza`, `Tab5`, `Framing` and `Gallery`. To do:

1. What the theorems of `ExchangeState` say of the firmware, stated of `Tab5` itself:
   over `PortsTheCli`, with `Dropped` and `CentralRecord` added to each of them.
2. That `Exchange` carries its packets the way `Framing` cuts them: what
   `Decoded` lets mixed fragments be, as a theorem over both modules.
