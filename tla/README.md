# VisioCheck, formally

VisioCheck is a camera surveillance demo: a browser samples its camera, a
NestJS backend relays the frames to a Python inference service, and the service
answers each frame with detections, scene events (an object entered, an object
left) and, now and then, a sentence written by a vision-language model (VLM).
This directory holds TLA+ models of that program, the TLC configurations that
check them, and TLAPS proofs. Every definition is translated from the source;
`PROJECT.json` ("map") gives the lines.

## The system

| Component | Source | State it keeps | Operations |
|---|---|---|---|
| Scene event engine | `ai-service/visiocheck_ai/event_engine.py` | tracks by id, running confirmed counter | `update(detections, now)` once per frame |
| Session pipeline | `ai-service/visiocheck_ai/pipeline.py` | its engine, `_last_vlm_ms`, `_last_ambient_ms`, `_vlm_task` | `process(frame)`, `_maybe_describe` |
| Inference pool, detector, describer | `server.py`, `detector.py`, `describer.py` | one queue and 4 threads for all sessions; a lazily loaded model per session and one VLM shared by all | detect, describe, load |
| AI gRPC server | `server.py` | one pipeline per `Analyze` stream | `Analyze`, `Connect`, `Health` |
| WebRTC peer | `webrtc.py` | set of live peers; per peer a pipeline, a data channel | offer, consume track, close |
| Backend gateway | `backend/src/stream`, `backend/src/ai` | socket id -> gRPC stream | connect, frame, analysis, error, end, disconnect |
| Session registry, metrics | `backend/src/sessions`, `backend/src/observability` | socket id -> session, socket id -> counters | register/unregister/list, open/record/close/snapshot |
| Event journal | `backend/src/persistence`, `backend/src/history` | Postgres table, or a 1000-row ring in memory | init, save, recent, bySession, stats |
| Authentication | `backend/src/auth`, `frontend/src/app/auth.service.ts` | users; the browser's token | init, login, verify, status, logout |
| Vision client | `frontend/src/app/vision.service.ts` | socket, in-flight counter, demo timer, feed, peer connection | connect, sendFrame, analysis, connect_error, loadHistory, WebRTC, disconnect |
| Capture loop | `frontend/src/app/app.component.ts` | camera stream, interval timer, login form | start, stop, toggle, captureAndSend |

How they interact. The browser emits `frame` on a Socket.IO connection (at most
3 unacknowledged, the rest skipped); the gateway writes it on the gRPC
stream of that connection and acknowledges. The AI service reads the frames of
a stream one at a time: the detection runs in a thread of the shared pool, then
the engine is updated, a description may be submitted to the same pool, and the
analysis is sent back. The gateway emits it to the browser, counts it, and
saves its events and description in the journal, asynchronously. The browser
appends events and descriptions to its feed, and reloads the journal when it
reconnects. With WebRTC the browser streams media to the AI service directly
and the analyses come back on a data channel; the offer goes through the gateway.
When the backend has a `JWT_SECRET`, the socket's handshake and the REST reads carry
a token that `login` signed.

### What is hard

- Time: `now_ms` is the browser's wall clock, so debounce, grace and throttle
  are computed on a clock that may stand still or go backwards.
- Asynchrony inside a session: the description task is submitted in one frame,
  ends at any moment, and is collected by a later frame.
- Sharing: all sessions share four threads and one VLM.
- Disconnects: a frame, an analysis, an error or a save may still be under way
  when the socket of its session closes.
- Failure: detection, description, persistence and the gRPC stream fail
  independently, and each layer reacts in its own way.
- The page: the start of the capture, the start of the page, the login and the
  reload of the history are each a chain of awaits, with every button live
  meanwhile.
- Restarts: the backend may come back with another configuration or without its
  database, to browsers that keep what they had.
- Back-pressure: acknowledgements are sent when a frame is written, not when it
  is analysed.

## The modules

```
SceneMembership <-- EventEngine <-- SessionPipeline      InferencePool
   (refined by)         ^
                EventEngineHistory
StreamGateway <-- LiveStream        EventStore        WebrtcPeer <-- CaptureLoop
VisionClient  <-- Browser --> Accounts
```

`M <-- N`: N extends or instantiates M. Each `MC` module is an instance for TLC,
each `_proofs` module holds the theorems of the module it is named after, and of
the components it composes (`StreamGateway` in `LiveStream_proofs`, `VisionClient` and
`Accounts` in `Browser_proofs`, `WebrtcPeer` in `CaptureLoop_proofs`).

### `SceneMembership`: what a consumer of events may rely on

The abstract specification: a set of present objects and the report of the last
frame. Objects enter only when absent, leave only when present, and a frame
says at most one thing of each.

### `EventEngine`: `event_engine.py`

One step is one call of `update`. `tracks` is `_tracks` (a function whose domain
is the remembered ids), `confirmed_count` is `_confirmed_count`, `events` is
what the call returned. The helpers follow the loops of `update` in order:
`Seen` (the confidence filter), `Integrated` (creation and refresh),
`Confirmable` (debounce), `Expired` and `Leavers` (grace). Boxes are copied and
never read, so they are left out; a frame's detections are a function from ids
because ByteTrack gives each object of a frame its own. The clock may stand
still or go back: `now_ms` is the browser's (`server.py:94`).
`SceneSpec` is the refinement of `SceneMembership`, with the confirmed tracks as
the present objects.

`EventEngineHistory` adds the log of the frames and states, from that log alone,
which events each frame has to report; the engine must agree after every frame.

### `SessionPipeline`: `pipeline.py`, on top of `EventEngine`

`process` is split where it awaits: `StartFrame` submits the detection,
`DetectDone` is everything after the await, in the order of the code (update,
`_maybe_describe`, collection) and in one step, because nothing else runs on the
event loop meanwhile. A description is a numbered call: `vlm_task` is the call
`_vlm_task` refers to (0 for `None`), `DescribeDone` ends a call at any moment,
with a text or an exception. `calls` and `delivered` are history: what was asked
and which texts went out; `advanced` and `set_back` add up how far the frames' clock
went forward and back since the last call was asked. `transport` decides what a failed detection does.

### `InferencePool`: `server.py`, `describer.py`

The executor's queue and threads, the streams that submit to it, and the stages
of `Describer.describe` and `load` between which another thread may run. When a
description is due is a free choice here (`SessionPipeline` has the rule): the
clock plays no part in who runs when. What a description says is left out: a text, a
summary and an exception are one end of the call. Cancelling a stream withdraws a detection
that no thread has taken, as cancelling the awaiting task does to its future; a
description is not awaited and stays.

### `StreamGateway`: `stream.gateway.ts` with the registry, metrics and journal

One action per handler and callback; Node runs each to its end. `registry`,
`metrics`, `streams` are the three maps keyed by socket id; `call`, `up`, `down`
are the gRPC call of each socket with the messages on their way; `saving`,
`journal`, `unsaved` are the saves. `reported` and `gone` are history: the rows the AI
service has sent, and those lost with a call before Node read them. The AI side of the call is the loop of
`Analyze` (`server.py:83-102`): answers in order, an abort on failure, an end
after the half-close. The status of a call comes after the messages sent before
it, except when the connection breaks (`AiLost`).

### `LiveStream`: the sender, the gateway and the AI call together

`EXTENDS StreamGateway` and adds the browser's credits, the frames on their way
and the acknowledgements. `Accept` is the gateway's `Frame` and the
acknowledgement its return makes; the other actions of the gateway leave the
browser alone. A socket is one connection, so reconnection stays in
`VisionClient`.

### `EventStore`: `event-store.service.ts`, `history.controller.ts`

`Start` is `onModuleInit`: the database when it is configured and answers, else the
ring in memory. `Save` hands a batch over; with a database the insert is then under
way (`pending`), is committed whole or not at all (`Commit`), and its answer comes
(`Saved`) or does not (`SaveFails`, which may come after the commit: a lost answer).
`Stop` ends the process with whatever it was inserting. `Recent` and `BySession` are
the two reads, with `ParseLimit`. A row is its number, its session and its date: the
store reads nothing else. A limit that is no number is a 0, since `parseLimit`
treats them alike, and fractions are left out. What the database sorts is given by rank: `Latest` puts at the n-th
place the row that has n - 1 rows before it in the order of the query, and a session's
read from memory is the recent rows with the others left out, then cut.

### `VisionClient`: `vision.service.ts` over the Socket.IO client

`link` is the life of the socket as the client library runs it: opening, open,
waiting for its next attempt, or dead when the backend closed it; `net` says
whether the backend can be reached. Each event handler is an action, with the
whole of `enableDemo` inside the handlers that call it. `inFlight` is the
counter of the code, `unacked` the frames that will really be acknowledged. The
`peer` is the peer connection of the WebRTC transport: `StartWebrtc` asks for the ICE
servers, `GotIceServers` makes it, the channel opens, the peer closes, and
`OnChannelAnalysis` shows what comes on the channel, in the demo as well. A page makes
one of them at a time here; starts that overlap, and the AI side, are `CaptureLoop`'s. The
feed holds dates, and the backend's rows are those up to the last one (`now`);
`loadHistory` is a request, an answer and an
update of the feed, with anything in between. The Socket.IO client and the
network are external: what the code relies on is that a lost connection fires
`disconnect` then retries, that a failed attempt, the first or a later one, fires
`connect_error`, that a connection closed by the backend is not retried, and that
an acknowledgement due on a lost connection never comes.

### `Accounts`: `auth.service.ts` of the backend

A process starts with a configuration: a secret or none, a database URL or none, an
admin password or none. `StartWithDatabase`, `StartInMemory` and `StartOpen` are the
ways through `onModuleInit` and `seedAdmin`; `StartFails` is a database lost half-way,
with the account inserted or not. `seeded` is history: the passwords of the starts that
found the database and ended, in their order. `Login` and `Verify` are the operators behind the
endpoint, the guard and the gateway. A token is the secret that signed it, or
`Expired`; bcrypt's comparison is equality.

### `Browser`: a page, its link and the backend's accounts

`EXTENDS VisionClient`, `INSTANCE Accounts`. It adds the start of the page
(`ngAfterViewInit` awaiting `checkStatus`), the login form, `logout`, the token kept
in `localStorage` over `Reload`, and the verdict of `handleConnection` on the token
of the handshake, which the client library repeats unchanged. The backend starts and
stops only while the browser cannot reach it: the loss of the connection is the same
event for the client whether the network or the backend causes it. A page starts with
no backend in reach, and only a running one accepts or refuses a socket.

### `WebrtcPeer` and `CaptureLoop`: `webrtc.py`, `app.component.ts`

`WebrtcPeer` has `handle_offer` cut at its awaits, the callbacks of aiortc
(`Connected`, `OnDataChannel`, `on_state_change` as `Lost`, `Close`, `Closed`) and the
consumer, which awaits `process` for each frame. `kept` is `_peers`. A result computed
while the channel is not open is dropped. The consumer goes on when `process`
raises, and ends, without closing its peer, when `to_image`, `json.dumps` or `send` does,
since those are outside its `try`. `CaptureLoop` extends it with the browser:
`start` cut at each of its awaits (camera, player, ICE servers, negotiation), `stop`,
the timer with its asynchronous encoder, and what logout, demo, login and unload do
to them. A start has a number, and with it its camera stream, its timer and its peer
connection: the button calls `start` again as long as `running` is false, so two of
them may be under way.

## What is checked

| Run | Question | Bounds |
|---|---|---|
| `engine_history` | counter, forgetting, scene, events equal to their definition by history | 2 ids, 2 labels, 5 frames, clock steps -1 and 3, every score exactly on the threshold: an entry, an exit and a second entry fit, with anything of the other object |
| `session` | throttle, single call, order of texts, narration, scene | 1 object, 5 frames, intervals 2 and 4, steps -1, 1, 3: throttled, triggered and ambient frames in every order, calls ending or failing anywhere |
| `pool` | futures and pool agree, no use of a VLM that is not there, frames are answered, descriptions end | 2 streams, 2 threads, three deployments: a detection may wait behind two descriptions, both threads may load |
| `live_stream` | the maps agree, counts, order, journal, credits, progress, release of calls | 1 connection of 4 frames, 2 credits: the credits go round twice; late answers, failures and disconnections in every order |
| `event_store` | ring, durability, no row twice, reads | 2 sessions, 2 dates, a ring of 2, 4 rows in batches of 1 or 2, limits 1 and 2, 2 starts: the ring overflows by one and by two, a restart falls between a commit and its answer |
| `camera` | starts and stops, peers, order of results | 2 starts that may overlap, 2 frames on the first peer, 2 captures by the timer; reads, sends, offers and frames that fail |
| `browser` | credits, status, form, login | 3 credits, a feed of 1, 1 journaled row, 3 calls of `connect` or cuts, both transports, 3 configurations (open; two secrets, each with its own password, over a database that may be away), 2 starts of the backend, 2 loads of the page |
| `description_lost` | finding | as `session` |
| `llm_loaded_twice` | finding | as `pool` |
| `dead_stream` | finding | `StreamGateway`, 2 connections of 2 frames |
| `cut_for_good` | finding | `VisionClient` alone, 1 credit, 2 shocks |
| `login_stuck` | finding | as `browser`, with 1 credit |

Milliseconds are scaled down; only which sums of steps reach an interval matters.
`MaxFrames`, `MaxTicks`, `MaxRows`, `MaxAt`, `MaxStarts`, `MaxLoads` and `MaxShocks` bound
what happens, never how; a system that has used them up may stop, so deadlock is not
checked in the runs that have them, nor in the pool, whose streams are opened once
and close. The connections, sessions and ids of a run are interchangeable, and
symmetry is used where no liveness is checked.

What each property says stands above its definition. The ones that carry most:

- `EventsMatchReference`: the engine's incremental bookkeeping reports exactly
  what the history of the frames calls for.
- `SceneSpec`, and `SessionIsAScene` with failures around it: a consumer that
  folds the events knows who is there.
- `NeverSilent`: how long a session may go without asking. After every frame a
  description is under way, or since the last one was asked the frames' clock went
  forward by less than the ambient interval and what it went back. So a clock set back does
  silence a session until it has caught up, and no longer. A call that was asked may
  still fail. It rests on `_last_ambient_ms` never being later than `_last_vlm_ms`.
- `CallsSpaced`, `OneCallAtATime`, `DeliveredInOrder`: the VLM is not overrun, and
  its texts are never repeated or reordered.
- `FuturesMatchPool`: queued and running tasks are exactly those the sessions wait
  for, so the backlog is bounded by two tasks per stream.
- `FrameAnswered` (pool and live stream), `DescribeEnds`, `CallReleased`,
  `PeerReleased`: nothing waits for ever and nothing is left open.
- `NoGhostSession`, `MetricsCountEmitted`: callbacks that arrive after a
  disconnection neither revive a session nor skew its counters.
- `RowsAccounted`: every row the AI service has sent is on its way, being saved, in the
  journal, lost by a save that failed or lost with its call, and in one of these places
  only, whatever closes or fails meanwhile and in whatever order saves end.
- `AnswersInOrder`: each frame accepted is answered, on its way back or still to be
  analysed, in order, as long as the call is sound.
- `CreditsExact`, `CreditsOnTheWire`, `SendingResumes`: whatever is lost, a browser
  never ends up without credits, nor with more than its limit.
- `StatusHonest`: demo and connection exclude each other, and simulated objects are
  shown in the demo only. The converse does not hold (below).
- `KeptIsWindow`, `AckedIsDurable`, `StoredOnce`: the ring is the window of the last
  rows, and what the database acknowledged is there, once, after any restart.
- `ReadsAreLatest`: a reader gets the newest rows by date of what it asked for, though
  rows are saved in another order, and no session's rows crowd out another's.
- `ActivePeersKept`, `ResultsInOrder`: a live peer is never left to the garbage
  collector, and its results never go back in time.
- `CleanStop`: starts that do not overlap leave no camera, timer or peer connection
  behind a stop. Its premise `clean` names the three cases where one is left
  (below); a reload of the page makes it true again.
- `AdminCanLogIn`: a backend that requires authentication and was given a password is
  opened by exactly one: in memory that of this start, with the database that of the
  first start that seeded it, whatever was configured since.
- `FormOrLink`: a page that knows its status is exactly one of four: at its form, on a link
  that is open or being tried, in the demo, or refused by the backend; the form always when
  a token is required and there is none, and never with one. The refused page has no
  form, which is the finding `RefusedIsAsked`.

### Fairness

- `InferencePool`: weak fairness of each thread (a thread with a task runs it, a
  free one takes a task: the executor's workers loop on their queue, and inference
  terminates) and of the resumption of a stream whose detection has ended (the
  asyncio loop). FIFO order, not fairness, is what prevents starvation.
- `StreamGateway`, `LiveStream`: weak fairness of the AI service's loop and of Node's
  delivery of callbacks, and an open connection carries frames and
  acknowledgements. Clients, failures and disconnections are never assumed.
- `VisionClient`, `Browser`: the network comes back (cuts are bounded by `MaxShocks`),
  the Socket.IO client connects, retries and notices a loss (its timers and its ping
  timeout), requests end, and the backend acknowledges or refuses. Only the two
  findings on the client need it: it is what makes them more than a system that
  stops. Sending, logging in or out and the demo timer are never assumed.
- `CaptureLoop`: the AI service goes on by itself (`Progress`): with an offer, a frame,
  a state change. Nothing is asked of the user or the network.

The other modules check safety only: their properties speak of frames that
arrive, and nothing makes a browser send one.

### What the code does otherwise than said

Five runs end with a violation on purpose; `PROJECT.json` ("findings") quotes
the line each contradicts.

- `NoDescriptionLost`: `_maybe_describe` runs before the collection and overwrites
  a finished description that no frame has collected yet.
- `OneLlm`: `Describer.load` checks and sets its flag without a lock, from several
  threads.
- `SessionHasStream`: a session whose AI call broke stays registered and accepts
  frames.
- `ConnectionComesBack`: after a cut, the first reconnection attempt that fails sends
  the client into the demo for good.
- `RefusedIsAsked`: a page whose token the running backend no longer accepts gets neither
  a connection nor the form; once it has been reloaded, not even the button to log out. In
  TLC's run the status could not be read at the start of the page (which counts as a backend
  without authentication), then the backend came up with a secret.

Two more comments of the source say more than the code does, without a run of their own:

- `describer.py:8-10` and `:110` promise a textual summary when vllm is not there
  ("désactivé/absent"). `describer.py:115` looks at the setting only: without vllm a
  description goes on to `load`, which raises, and comes back as an exception instead.
- `vision.service.ts:300-302` calls the credits a back-pressure on frames that wait ("trop de
  frames sont en attente d'acquittement"). A credit comes back when its frame is
  written on the gRPC stream, so the frames waiting for the AI service are not bounded by the
  credits. `CreditsOnTheWire` bounds what its name says, not that backlog.

More things the models show, for which no run is kept because no document says
otherwise:

- Once the database has been seeded a new `ADMIN_PASSWORD` is ignored
  (`auth.service.ts:82`), except by a start that falls back on memory, which knows no
  other.
- The demo does not close the peer connection, so that its analyses and the simulated
  objects alternate on the screen; a `logout` while the ICE servers are asked for does not
  stop the peer connection that is then made.
- A clock set back silences the narration until it has caught up (`pipeline.py:89`).
- A save that fails is not tried again.
- A second `start` while the first still waits, a `play()` that fails, and a `stop`
  before the peer connection exists each leave a camera, a timer or a peer connection
  that no later `stop` ends.
- `logout` and the demo leave the capture running.
- A peer whose offer failed half-way stays in `_peers`.
- Results computed before the data channel opens are dropped with their events.
- Detections and descriptions share the threads of one pool, so a detection waits
  while every thread describes (not for ever: `FrameAnswered`).
- After a reconnection the history is put below the entries of the feed, which may
  be older, and repeats those that are in both.
- `stats()` counts rows and sessions in two queries, between which an insert may fall.

## What is proved

Every safety invariant and action property of the runs, with every type invariant, is a
theorem of its specification. Eight modules (`EventEngine_proofs`,
`EventEngineHistory_proofs`, `SessionPipeline_proofs`, `InferencePool_proofs`,
`LiveStream_proofs`, `EventStore_proofs`, `Browser_proofs`, `CaptureLoop_proofs`) are
checked by TLAPS with SMT, Zenon and LS4. They hold for every set of objects, labels,
connections, streams, threads, sessions and configurations, every setting allowed by
the assumptions, every number of frames, rows, starts and loads, and every movement of
the clock.

Assumptions: `EngineAssumption` (finitely many ids, integer settings, a positive
grace) and `PipelineAssumption` (the same, intervals that are natural numbers, the
minimal one no longer than the ambient one; the defaults are 700 and 5000);
`StoreAssumption` (the limits and the bounds are natural numbers, those of the reads not
zero, dates are integers, there is a session and a date), `LiveAssumption` (at least one
credit), `BrowserAssumption` (`Expired` is a token; at least one load of the page),
`CaptureAssumption` (a peer per start); `GatewayAssumption`, `ClientAssumption` and
`PeerAssumption` only say that limits and bounds are natural numbers. `InferencePool`
needs none.

Engine. The inductive invariant `IInv` is the types, `CountMatches` and
`NoStaleTrack`. The counter is only known to be an integer inside the induction;
that it is natural follows from `CountMatches`. `UpdateFacts` reduces a call to
the objects that enter and those that leave: entering ones were not confirmed,
leaving ones were, and the two sets are disjoint since the first are seen and the
second are not. Cardinalities and the refinement (`EngineIsAScene`) follow.

History. `EventsMatchReference` compares what the engine remembers with a definition that
has the log of the frames and nothing else. The invariant is a mirror, object by object:
what the engine holds of it is what the log says (`Mirrors`): no track exactly when the
last loss came after the last sight of it, or it was never seen; otherwise the track was
created at the first sight of the current stay, was last seen and labelled at the last
one, and is confirmed exactly when an entry has been announced in that stay. One frame
more changes the definitions in a way that is stated once for each (`Growing`, `OneMore`):
every frame before the last is judged as it was, since all of them look back only. No
induction over the log is needed: the induction is the one over the behaviour.
`HistoryOnlyWatches` shows that the log restrains the engine in nothing.

Session. `IInv` adds to the properties what makes them inductive: both dates bound
the dates of the calls they throttle, the ambient date is not later than the VLM
date, the task in place is the last call or none, and everything delivered is
older than it. `DetectDone` is cut at the point between asking and collecting
(`Between`). `NeverSilent` is an action property from the same invariant, with one more
conjunct: the date of the last frame is that of the last call, plus `advanced`, less
`set_back`.
`DrivesEngine` shows that a session steps its engine as `EventEngine` allows, so
`EngineIsAScene` and `TypeCorrect` of the engine carry over (`ScenePerSession`).

Pool. `NoChatWithoutEngine` rests on the order of `load`: the flag `loaded` implies the
engine, and a stage that uses the engine is reached only through `load` or the flag;
the engine is never taken back. `FuturesMatchPool` needs that no task is twice in the
pool: a task is at one place of the queue or in one thread, never both, and it is
there exactly when its session's future says so. Submitting needs a future that is
free, so the new task is nowhere; cancelling and taking remove one place. The counts
are then cardinalities of sets with one element or none.

Gateway. `IInv` is the types, `NoGhostSession` and `MetricsCountEmitted`, with one more
fact: a connection that was never open has emitted nothing, without which a new
session could start its count at 0 next to older answers. For `AnswersInOrder` the
invariant numbers the frames of a socket one by one: the i-th emitted, then the
messages on their way back, then the frames to be analysed; a sound call has no
status message and no gap, a broken one has an increasing sequence of answers.
For `RowsAccounted` (`RowsKept`) the invariant keeps the books of each socket: the frames
whose rows are settled (being saved, journaled, unsaved, gone), those on their way back and
those still to be analysed follow one another, on a broken call and after the
disconnection too, so that no row is settled twice.
`CreditBalance` (`LiveStream`) holds the balance already for connections that are
new: none can send before it opens. `LiveRefinesGateway` shows that with the browser's
sender at the other end every step is one of the gateway's, and `GatewayWithin` carries
all of the above over.

Journal. The types, a mode (with a database nothing is in memory, without one nothing
is pending), the window, and for the table: an insert that is committed is in the
table until its answer comes, so acknowledging adds nothing that is not there; row
numbers come from a counter that only grows, so a row is in the table or in one
pending insert, and a commit joins two sets of numbers that are disjoint. For
`ReadsAreLatest`, the order of a query is total on the rows there are, because no row is
stored twice, so that the rank is a bijection on the places (`RankIsBijective`, by
cardinalities): the first n ranks are n rows, and all others come after each of them.

Page. `CreditsExact` needs that nothing is owed on a connection that is not open,
so that resetting the counter on `connect` is right. `StatusHonest` is proved with
the timer: it is what shows simulated objects, and it runs exactly in the demo.
`ClientSteps` shows that a step of the page leaves the client alone, is one of the
client's own or loads the page anew (`PageDrivesClient`), which lifts both to `BSpec`. `FormOrLink`
(`FormShown`) adds that a login is submitted only from a form, that a page that has not been
checked has no link and no demo, and that a backend closes only a socket it has not
admitted. `AdminCanLogIn` needs that a database holds an account exactly when a start
with a password has seeded it, with the password of the first one, and that a process with
authentication and a password has its account in the store it reads. The types (`PageTyped`) hold the
limits: every handler that adds to the feed cuts it, what it is primed with are rows of
the backend, and a token that is kept or sent is a secret of some configuration.

Capture. `ActivePeersKept` needs that no offer is handled twice; `ResultsInOrder` that a
consumer has one frame at a time, later than all it sent. For `CleanStop` the
invariant says, while `clean` holds, that at most one start is under way, and which
of its camera, timer and peer connection exist at each of its awaits. The types
(`CaptureTyped`) need a count: numbers taken and captures being encoded are together
never more than the captures made.

Only model-checked: liveness (`FrameAnswered` of the pool and of the live stream,
`DescribeEnds`, `SendingResumes`, `CallReleased`, `PeerReleased`), which rests on fairness
and ENABLED, out of the prover's reach; and the five findings, which are
counterexamples.

## What is not modelled

- Image decoding, YOLO, ByteTrack and the VLM themselves; boxes, colours, overlay and
  templates; the wording of descriptions and prompts; generated stubs; build,
  compose and Kubernetes files; the settings, which are constants here.
- `Health`, the ICE configuration, and the reads that compute averages, rates and
  counts (`snapshot`, `stats`, `label_counts`): they change nothing and no decision
  rests on them.
- The protobuf conversion, password hashing and the encoding of tokens: equality.
- Fractional limits: `history.controller.ts:39-43` passes `?limit=0.5` on unrounded, to a
  `slice` that truncates it or to Postgres. The model has the integers.
- The text of a description: the pool and the session know that a call gave one or raised.
- The AI service's end of a peer connection is not composed with the page's
  (`VisionClient` has the channel's analyses come at any time while it is open): what
  the two share besides is the socket, which `CaptureLoop` has as a flag.

## What is left

A larger `pool` (3 streams) passes as well but takes several minutes. The history put in
the feed of a reconnected page has no property: nothing in the repository says what its
order should be. The rest of the code has no state that another step depends on.
