---------------------------- MODULE SessionPipeline ----------------------------
(***************************************************************************)
(* One inference session (ai-service/visiocheck_ai/pipeline.py): the       *)
(* frames of a stream are processed one at a time; each is detected in a   *)
(* thread of the pool, then, back on the event loop and in one step, the   *)
(* event engine is updated, a description may be asked for, and a finished *)
(* one is collected into the reply.  The description runs in the pool      *)
(* meanwhile and may end between any two of these steps.                   *)
(*                                                                         *)
(* The transport decides what a failed frame does: the gRPC stream of      *)
(* server.py is aborted, the WebRTC consumer of webrtc.py goes on.         *)
(***************************************************************************)
EXTENDS Integers, Sequences, FiniteSets

CONSTANTS
  TrackIds, Labels, Confidences, MinFrames, MinDurationMs, LeaveGraceMs,
  MinConfidence, StartMs, ClockSteps, MaxFrames,   \* as in EventEngine
  VlmMinIntervalMs,    \* settings.vlm_min_interval_ms
  AmbientIntervalMs    \* settings.ambient_interval_ms

ASSUME PipelineAssumption ==
  /\ IsFiniteSet(TrackIds)
  /\ Confidences \subseteq Int
  /\ MinFrames \in Nat
  /\ MinDurationMs \in Int
  /\ LeaveGraceMs \in Nat \ {0}
  /\ MinConfidence \in Int
  /\ StartMs \in Nat    \* milliseconds since the epoch
  /\ ClockSteps \subseteq Int
  /\ MaxFrames \in Nat
  /\ VlmMinIntervalMs \in Nat
  /\ AmbientIntervalMs \in Nat
  /\ VlmMinIntervalMs <= AmbientIntervalMs

VARIABLES
  tracks, confirmed_count, now_ms, frames, events,   \* self.engine
  transport,         \* who runs the session: "grpc" or "webrtc"
  phase,             \* "idle", "detecting" (awaiting the detector), "closed"
  frame_ms,          \* the now_ms of the frame being processed
  last_vlm_ms,       \* SessionPipeline._last_vlm_ms
  last_ambient_ms,   \* SessionPipeline._last_ambient_ms
  vlm_task,          \* SessionPipeline._vlm_task: a call, 0 for None
  calls,             \* history: the describe calls so far and their state
  delivered,         \* history: the calls whose text went out, in order
  advanced,          \* history: ms the frame clock went forward ...
  set_back           \* history: ... and back since the last call was asked

engine == <<tracks, confirmed_count, now_ms, frames, events>>
throttle == <<last_vlm_ms, last_ambient_ms, vlm_task>>
silence == <<advanced, set_back>>
vars == <<engine, transport, phase, frame_ms, throttle, calls, delivered, silence>>

Engine == INSTANCE EventEngine

Statuses == {"running", "ok", "failed"}

Call == [at: Int, ambient: BOOLEAN, status: Statuses]

-----------------------------------------------------------------------------
Running(cs, n) == n # 0 /\ cs[n].status = "running"

Done(cs, n) == n # 0 /\ cs[n].status # "running"

\* Mutant: a call under way does not hold back the next one.
InFlightNever == FALSE

\* Mutant: a call that is over, a failed one say, holds back the next one
\* until it is collected.
InFlightUncollected == vlm_task # 0

InFlight == Running(calls, vlm_task)

Throttled(now) == now - last_vlm_ms < VlmMinIntervalMs

AmbientDue(now) == now - last_ambient_ms >= AmbientIntervalMs

\* _maybe_describe decides to call the VLM for a frame with these events.
Asks(evs, now) ==
  /\ ~InFlight
  /\ ~Throttled(now)
  /\ evs # {} \/ AmbientDue(now)

\* Mutant: only ambient captions restart the throttle.
LastVlmAmbientOnly(asks, evs, now) ==
  IF asks /\ evs = {} THEN now ELSE last_vlm_ms

LastVlm(asks, evs, now) == IF asks THEN now ELSE last_vlm_ms

LastAmbient(asks, evs, now) ==
  IF asks /\ evs = {} THEN now ELSE last_ambient_ms

\* Mutant: a collected task stays in place.
CollectKeeps(cs, task) ==
  /\ vlm_task' = task
  /\ delivered' = IF Done(cs, task) /\ cs[task].status = "ok"
                  THEN Append(delivered, task) ELSE delivered

\* A finished task is taken out; its text, unless it failed, joins the reply.
Collect(cs, task) ==
  /\ vlm_task' = IF Done(cs, task) THEN 0 ELSE task
  /\ delivered' = IF Done(cs, task) /\ cs[task].status = "ok"
                  THEN Append(delivered, task) ELSE delivered

\* What the clock of the frames did since a call was asked: a step forward
\* and a step back are added apart.
Waited(asks, step) ==
  /\ advanced' = IF asks THEN 0 ELSE IF step > 0 THEN advanced + step ELSE advanced
  /\ set_back' = IF asks THEN 0 ELSE IF step < 0 THEN set_back - step ELSE set_back

-----------------------------------------------------------------------------
\* The throttle starts at date 0, so the wait for the first call does too.
Init ==
  /\ Engine!Init
  /\ transport \in {"grpc", "webrtc"}
  /\ phase = "idle"
  /\ frame_ms = StartMs
  /\ last_vlm_ms = 0
  /\ last_ambient_ms = 0
  /\ vlm_task = 0
  /\ calls = <<>>
  /\ delivered = <<>>
  /\ advanced = StartMs
  /\ set_back = 0

\* process() up to its await: the frame goes to the detector.
StartFrame(step) ==
  /\ phase = "idle"
  /\ frames < MaxFrames
  /\ phase' = "detecting"
  /\ frame_ms' = now_ms + step
  /\ UNCHANGED <<engine, transport, throttle, calls, delivered, silence>>

(***************************************************************************)
(* process() after its await, up to its return: one step of the event      *)
(* loop.  The call is asked for first, and collection looks at the task    *)
(* that is then in place.                                                  *)
(***************************************************************************)
DetectDone(dets) ==
  /\ phase = "detecting"
  /\ phase' = "idle"
  /\ frames' = frames + 1
  /\ Engine!Update(dets, frame_ms)
  /\ LET asks == Asks(events', frame_ms)
         call == [at |-> frame_ms, ambient |-> events' = {}, status |-> "running"]
         cs   == IF asks THEN Append(calls, call) ELSE calls
         task == IF asks THEN Len(cs) ELSE vlm_task
     IN  /\ last_vlm_ms' = LastVlm(asks, events', frame_ms)
         /\ last_ambient_ms' = LastAmbient(asks, events', frame_ms)
         /\ calls' = cs
         /\ Collect(cs, task)
         /\ Waited(asks, frame_ms - now_ms)
  /\ UNCHANGED <<transport, frame_ms>>

\* The detector raises: nothing after the await runs.
DetectFails ==
  /\ phase = "detecting"
  /\ phase' = IF transport = "grpc" THEN "closed" ELSE "idle"
  /\ UNCHANGED <<engine, transport, frame_ms, throttle, calls, delivered, silence>>

\* A describe call ends, with a text or an exception.
DescribeDone(n, status) ==
  /\ calls[n].status = "running"
  /\ calls' = [calls EXCEPT ![n].status = status]
  /\ UNCHANGED <<engine, transport, phase, frame_ms, throttle, delivered, silence>>

\* The stream ends or is cancelled; what runs in the pool goes on.
Close ==
  /\ phase # "closed"
  /\ phase' = "closed"
  /\ UNCHANGED <<engine, transport, frame_ms, throttle, calls, delivered, silence>>

Next ==
  \/ \E step \in ClockSteps : StartFrame(step)
  \/ \E dets \in Engine!Detections : DetectDone(dets)
  \/ DetectFails
  \/ \E n \in DOMAIN calls, status \in {"ok", "failed"} : DescribeDone(n, status)
  \/ Close

Spec == Init /\ [][Next]_vars

-----------------------------------------------------------------------------
\* Every piece of state has its type, the task refers to a call, and the
\* text of a call goes out at most once per call.
TypeOK ==
  /\ Engine!TypeOK
  /\ transport \in {"grpc", "webrtc"}
  /\ phase \in {"idle", "detecting", "closed"}
  /\ frame_ms \in Int
  /\ last_vlm_ms \in Int
  /\ last_ambient_ms \in Int
  /\ calls \in Seq(Call)
  /\ vlm_task \in 0..Len(calls)
  /\ delivered \in Seq(1..Len(calls))
  /\ advanced \in Nat
  /\ set_back \in Nat

\* A session never has two describe calls under way, and the one under way
\* is the one it will collect: the shared pool of four threads holds at most
\* one description per session (pipeline.py:87-88,102).
OneCallAtATime ==
  \A n \in DOMAIN calls : calls[n].status = "running" => n = vlm_task

\* The throttle, on the clock of the frames: calls are at least the minimal
\* interval apart, ambient ones at least the ambient interval, whatever
\* happens in between and however the clock moves (config.py:29-33,
\* pipeline.py:89-99).
CallsSpaced ==
  \A i, j \in DOMAIN calls : i < j =>
    /\ calls[j].at - calls[i].at >= VlmMinIntervalMs
    /\ calls[i].ambient /\ calls[j].ambient =>
         calls[j].at - calls[i].at >= AmbientIntervalMs

\* Texts go out in the order of their calls, none twice, none of a call that
\* failed or still runs (pipeline.py:59-66).
DeliveredInOrder ==
  /\ \A i, j \in DOMAIN delivered : i < j => delivered[i] < delivered[j]
  /\ \A i \in DOMAIN delivered : calls[delivered[i]].status = "ok"

\* How long a session may go without asking for a description.  After every
\* frame a call is under way, or the clock of the frames went forward, since
\* the last call was asked, by less than the ambient interval and what it
\* went back meanwhile.  So a clock set back does silence the session, at
\* every frame until it has caught up (pipeline.py:89), but no longer, and
\* neither a failed call, which counts as an asked one, nor a failed frame,
\* a throttled event or the separate ambient date stops the asking
\* (pipeline.py:59-66,86-104).  That a call was asked does not say that its
\* text comes: the call may fail.
NeverSilent ==
  [][frames' # frames =>
       \/ \E n \in DOMAIN calls' : calls'[n].status = "running"
       \/ advanced' < AmbientIntervalMs + set_back']_vars

\* The events the replies of a session carry are those of a set that objects
\* enter and leave: a frame that fails, a slow description or a change of
\* transport loses or repeats none (pipeline.py:54-55,82).
SessionIsAScene == Engine!SceneSpec

\* What README.md:205 takes for granted ("chaque description"): a text the
\* VLM produced goes out, or waits for the next frame to take it.
NoDescriptionLost ==
  \A n \in DOMAIN calls : calls[n].status = "ok" =>
    \/ n = vlm_task
    \/ \E i \in DOMAIN delivered : delivered[i] = n
=============================================================================
