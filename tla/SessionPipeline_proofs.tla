------------------------ MODULE SessionPipeline_proofs ------------------------
(***************************************************************************)
(* Proofs about the inference session, for any intervals (the minimal one  *)
(* no longer than the ambient one), any frames and any movement of the     *)
(* clock.  They need nothing of the event engine but the date of its last  *)
(* update.                                                                 *)
(***************************************************************************)
EXTENDS SessionPipeline, TLAPS

Types ==
  /\ now_ms \in Int
  /\ frame_ms \in Int
  /\ last_vlm_ms \in Int
  /\ last_ambient_ms \in Int
  /\ calls \in Seq(Call)
  /\ vlm_task \in {0, Len(calls)}
  /\ delivered \in Seq(Nat)

\* The two dates bound those of the calls they throttle.
Dates ==
  /\ last_ambient_ms <= last_vlm_ms
  /\ \A i \in 1..Len(calls) :
       /\ calls[i].at <= last_vlm_ms
       /\ calls[i].ambient => calls[i].at <= last_ambient_ms

Spaced ==
  \A i, j \in 1..Len(calls) : i < j =>
    /\ calls[j].at - calls[i].at >= VlmMinIntervalMs
    /\ calls[i].ambient /\ calls[j].ambient =>
         calls[j].at - calls[i].at >= AmbientIntervalMs

OneCall ==
  \A n \in 1..Len(calls) : calls[n].status = "running" => n = vlm_task

\* What went out is older than the task in place.
Ordered ==
  /\ \A i, j \in 1..Len(delivered) : i < j => delivered[i] < delivered[j]
  /\ \A i \in 1..Len(delivered) :
       /\ delivered[i] \in 1..Len(calls)
       /\ calls[delivered[i]].status = "ok"
       /\ vlm_task # 0 => delivered[i] < vlm_task

IInv == Types /\ Dates /\ Spaced /\ OneCall /\ Ordered

-----------------------------------------------------------------------------
LEMMA InitIInv == Init => IInv
<1>. SUFFICES ASSUME Init PROVE IInv
  OBVIOUS
<1>1. /\ now_ms = StartMs /\ frame_ms = StartMs
      /\ last_vlm_ms = 0 /\ last_ambient_ms = 0 /\ vlm_task = 0
      /\ calls = <<>> /\ delivered = <<>>
  BY DEF Init, Engine!Init
<1>2. /\ calls \in Seq(Call) /\ Len(calls) = 0
      /\ delivered \in Seq(Nat) /\ Len(delivered) = 0
  BY <1>1
<1>. QED
  BY <1>1, <1>2, PipelineAssumption
  DEF IInv, Types, Dates, Spaced, OneCall, Ordered, PipelineAssumption

\* Nothing the invariant speaks of changes in the steps that only move the
\* frame along.
LEMMA FrameSteps ==
  ASSUME IInv,
         frame_ms' \in Int,
         UNCHANGED <<now_ms, throttle, calls, delivered>>
  PROVE  IInv'
BY DEF throttle, IInv, Types, Dates, Spaced, OneCall, Ordered

\* The end of a call changes its status only.
LEMMA StatusChange ==
  ASSUME calls \in Seq(Call), NEW n \in DOMAIN calls,
         NEW status \in Statuses,
         calls' = [calls EXCEPT ![n].status = status]
  PROVE  /\ calls' \in Seq(Call)
         /\ Len(calls') = Len(calls)
         /\ \A i \in 1..Len(calls) :
              /\ calls'[i].at = calls[i].at
              /\ calls'[i].ambient = calls[i].ambient
              /\ calls'[i].status = IF i = n THEN status ELSE calls[i].status
<1>. DEFINE c == [calls[n] EXCEPT !.status = status]
<1>1. n \in 1..Len(calls) /\ calls[n] \in Call
  OBVIOUS
<1>2. /\ c \in Call /\ c.at = calls[n].at /\ c.ambient = calls[n].ambient
      /\ c.status = status
  BY <1>1 DEF Call
<1>3. calls' = [calls EXCEPT ![n] = c]
  OBVIOUS
<1>. HIDE DEF c
<1>4. /\ calls' \in Seq(Call) /\ Len(calls') = Len(calls)
      /\ \A i \in 1..Len(calls) : calls'[i] = IF i = n THEN c ELSE calls[i]
  BY <1>1, <1>2, <1>3
<1>. QED  BY <1>2, <1>4

LEMMA DescribeDoneIInv ==
  ASSUME IInv, NEW n \in DOMAIN calls, NEW status \in {"ok", "failed"},
         DescribeDone(n, status)
  PROVE  IInv'
<1>1. /\ calls[n].status = "running"
      /\ UNCHANGED <<now_ms, frame_ms, throttle, delivered>>
      /\ calls' = [calls EXCEPT ![n].status = status]
  BY DEF DescribeDone, engine
<1>2. /\ calls' \in Seq(Call)
      /\ Len(calls') = Len(calls)
      /\ \A i \in 1..Len(calls) :
           /\ calls'[i].at = calls[i].at
           /\ calls'[i].ambient = calls[i].ambient
           /\ calls'[i].status = IF i = n THEN status ELSE calls[i].status
  <2>1. calls \in Seq(Call) /\ status \in Statuses
    BY DEF IInv, Types, Statuses
  <2>. QED  BY <1>1, <2>1, StatusChange
<1>3. Types' /\ Dates' /\ Spaced'
  BY <1>1, <1>2 DEF IInv, Types, Dates, Spaced, throttle
<1>4. OneCall'
  BY <1>1, <1>2 DEF IInv, OneCall, throttle
<1>5. /\ delivered' = delivered /\ vlm_task' = vlm_task
      /\ \A i \in 1..Len(delivered) :
           delivered[i] \in 1..Len(calls) /\ calls[delivered[i]].status = "ok"
  BY <1>1 DEF IInv, Ordered, throttle
<1>6. \A i \in 1..Len(delivered) : calls'[delivered[i]].status = "ok"
  BY <1>1, <1>2, <1>5
<1>7. Ordered'
  BY <1>2, <1>5, <1>6 DEF IInv, Ordered
<1>. QED  BY <1>3, <1>4, <1>7 DEF IInv

-----------------------------------------------------------------------------
(***************************************************************************)
(* The end of a frame.  AskStep is what submitting a call changes, Taken   *)
(* what collecting changes; cs and task are the calls and the task in      *)
(* between.                                                                *)
(***************************************************************************)
AskStep(asks, evs, cs, task) ==
  /\ cs = IF asks
          THEN Append(calls, [at |-> frame_ms, ambient |-> evs = {},
                              status |-> "running"])
          ELSE calls
  /\ task = IF asks THEN Len(cs) ELSE vlm_task
  /\ last_vlm_ms' = LastVlm(asks, evs, frame_ms)
  /\ last_ambient_ms' = LastAmbient(asks, evs, frame_ms)

LEMMA DetectDoneSplit ==
  ASSUME NEW dets, DetectDone(dets)
  PROVE  /\ now_ms' = frame_ms /\ frame_ms' = frame_ms
         /\ Waited(Asks(events', frame_ms), frame_ms - now_ms)
         /\ \E cs, task :
              /\ AskStep(Asks(events', frame_ms), events', cs, task)
              /\ calls' = cs
              /\ Collect(cs, task)
BY DEF DetectDone, AskStep, Engine!Update

\* The state between the two halves, with the ask done and nothing taken yet.
Between(cs, task) ==
  /\ cs \in Seq(Call)
  /\ task \in {0, Len(cs)}
  /\ last_vlm_ms' \in Int /\ last_ambient_ms' \in Int
  /\ last_ambient_ms' <= last_vlm_ms'
  /\ \A i \in 1..Len(cs) :
       /\ cs[i].at <= last_vlm_ms'
       /\ cs[i].ambient => cs[i].at <= last_ambient_ms'
  /\ \A i, j \in 1..Len(cs) : i < j =>
       /\ cs[j].at - cs[i].at >= VlmMinIntervalMs
       /\ cs[i].ambient /\ cs[j].ambient =>
            cs[j].at - cs[i].at >= AmbientIntervalMs
  /\ \A n \in 1..Len(cs) : cs[n].status = "running" => n = task
  /\ \A i \in 1..Len(delivered) :
       /\ delivered[i] \in 1..Len(cs)
       /\ cs[delivered[i]].status = "ok"
       /\ task # 0 => delivered[i] < task

LEMMA AskNothing ==
  ASSUME IInv, NEW evs, NEW cs, NEW task, AskStep(FALSE, evs, cs, task)
  PROVE  Between(cs, task)
<1>1. /\ cs = calls /\ task = vlm_task
      /\ last_vlm_ms' = last_vlm_ms /\ last_ambient_ms' = last_ambient_ms
  BY DEF AskStep, LastVlm, LastAmbient
<1>. QED
  BY <1>1 DEF IInv, Types, Dates, Spaced, OneCall, Ordered, Between

LEMMA AskCall ==
  ASSUME IInv, NEW evs, NEW cs, NEW task,
         Asks(evs, frame_ms), AskStep(TRUE, evs, cs, task)
  PROVE  Between(cs, task)
<1>. DEFINE call == [at |-> frame_ms, ambient |-> evs = {}, status |-> "running"]
            k == Len(calls) + 1
<1>1. /\ cs = Append(calls, call) /\ task = Len(cs)
      /\ last_vlm_ms' = frame_ms
      /\ last_ambient_ms' = IF evs = {} THEN frame_ms ELSE last_ambient_ms
  BY DEF AskStep, LastVlm, LastAmbient
<1>2. /\ call \in Call /\ call.at = frame_ms
      /\ call.ambient => evs = {}
      /\ call.status = "running"
  BY DEF Call, Statuses, IInv, Types
<1>. HIDE DEF call
<1>3. /\ calls \in Seq(Call) /\ Len(calls) \in Nat
      /\ cs \in Seq(Call) /\ Len(cs) = k /\ task = k /\ k # 0
      /\ cs[k] = call
      /\ \A i \in 1..Len(calls) : cs[i] = calls[i] /\ i < k
      /\ \A i \in 1..Len(cs) : i \in 1..Len(calls) \/ i = k
  BY <1>1, <1>2 DEF IInv, Types
<1>. HIDE DEF k
<1>4. /\ ~InFlight
      /\ frame_ms - last_vlm_ms >= VlmMinIntervalMs
      /\ evs = {} => frame_ms - last_ambient_ms >= AmbientIntervalMs
      /\ frame_ms \in Int /\ last_vlm_ms \in Int /\ last_ambient_ms \in Int
      /\ VlmMinIntervalMs \in Nat /\ AmbientIntervalMs \in Nat
  BY PipelineAssumption
  DEF Asks, Throttled, AmbientDue, IInv, Types, PipelineAssumption
<1>5. \A i \in 1..Len(calls) :
        /\ calls[i].at \in Int
        /\ calls[i].at <= last_vlm_ms
        /\ calls[i].ambient => calls[i].at <= last_ambient_ms
        /\ calls[i].status # "running"
  <2>1. \A i \in 1..Len(calls) : calls[i] \in Call
    BY <1>3
  <2>2. \A i \in 1..Len(calls) : calls[i].status # "running"
    BY <1>3, <1>4 DEF IInv, Types, OneCall, InFlight, Running
  <2>. QED  BY <2>1, <2>2 DEF IInv, Dates, Call
<1>6. /\ last_vlm_ms' \in Int /\ last_ambient_ms' \in Int
      /\ last_ambient_ms' <= last_vlm_ms'
      /\ last_ambient_ms <= last_ambient_ms'
      /\ last_vlm_ms <= last_vlm_ms'
  BY <1>1, <1>4 DEF IInv, Dates
<1>7. ASSUME NEW i \in 1..Len(cs)
      PROVE  /\ cs[i].at <= last_vlm_ms'
             /\ cs[i].ambient => cs[i].at <= last_ambient_ms'
  <2>1. CASE i \in 1..Len(calls)
    <3>1. /\ cs[i] = calls[i]
          /\ calls[i].at \in Int
          /\ calls[i].at <= last_vlm_ms
          /\ calls[i].ambient => calls[i].at <= last_ambient_ms
      BY <1>3, <1>5, <2>1
    <3>. QED  BY <1>4, <1>6, <3>1
  <2>2. CASE i = k
    <3>1. cs[i].at = frame_ms /\ (cs[i].ambient => evs = {})
      BY <1>2, <1>3, <2>2
    <3>. QED  BY <1>1, <1>4, <3>1
  <2>. QED  BY <1>3, <2>1, <2>2
<1>8. ASSUME NEW i \in 1..Len(cs), NEW j \in 1..Len(cs), i < j
      PROVE  /\ cs[j].at - cs[i].at >= VlmMinIntervalMs
             /\ cs[i].ambient /\ cs[j].ambient =>
                  cs[j].at - cs[i].at >= AmbientIntervalMs
  <2>1. i \in 1..Len(calls)
    BY <1>3, <1>8
  <2>2. CASE j \in 1..Len(calls)
    BY <1>3, <1>8, <2>1, <2>2 DEF IInv, Spaced
  <2>3. CASE j = k
    <3>1. cs[j].at = frame_ms /\ (cs[j].ambient => evs = {})
      BY <1>2, <1>3, <2>3
    <3>2. /\ cs[i] = calls[i]
          /\ calls[i].at \in Int
          /\ calls[i].at <= last_vlm_ms
          /\ calls[i].ambient => calls[i].at <= last_ambient_ms
      BY <1>3, <1>5, <2>1
    <3>3. cs[j].at - cs[i].at >= VlmMinIntervalMs
      BY <1>4, <3>1, <3>2
    <3>4. ASSUME cs[i].ambient, cs[j].ambient
          PROVE  cs[j].at - cs[i].at >= AmbientIntervalMs
      BY <1>4, <3>1, <3>2, <3>4
    <3>. QED  BY <3>3, <3>4
  <2>. QED  BY <1>3, <2>2, <2>3
<1>9. \A n \in 1..Len(cs) : cs[n].status = "running" => n = task
  BY <1>3, <1>5
<1>10. \A i \in 1..Len(delivered) :
         /\ delivered[i] \in 1..Len(cs)
         /\ cs[delivered[i]].status = "ok"
         /\ task # 0 => delivered[i] < task
  BY <1>3 DEF IInv, Ordered
<1>. QED  BY <1>3, <1>6, <1>7, <1>8, <1>9, <1>10 DEF Between

LEMMA DetectDoneIInv ==
  ASSUME IInv, NEW dets, DetectDone(dets)
  PROVE  IInv'
<1>1. PICK cs, task :
        /\ AskStep(Asks(events', frame_ms), events', cs, task)
        /\ calls' = cs
        /\ Collect(cs, task)
  BY DetectDoneSplit
<1>2. now_ms' = frame_ms /\ frame_ms' = frame_ms /\ frame_ms \in Int
  BY DetectDoneSplit DEF IInv, Types
<1>3. Between(cs, task)
  <2>1. CASE Asks(events', frame_ms)
    <3>1. AskStep(TRUE, events', cs, task)
      BY <1>1, <2>1 DEF AskStep, LastVlm, LastAmbient
    <3>. QED  BY <2>1, <3>1, AskCall
  <2>2. CASE ~Asks(events', frame_ms)
    <3>1. AskStep(FALSE, events', cs, task)
      BY <1>1, <2>2 DEF AskStep, LastVlm, LastAmbient
    <3>. QED  BY <3>1, AskNothing
  <2>. QED  BY <2>1, <2>2
<1>4. /\ cs \in Seq(Call) /\ Len(cs) \in Nat /\ task \in {0, Len(cs)}
      /\ delivered \in Seq(Nat) /\ Len(delivered) \in Nat
  BY <1>3 DEF Between, IInv, Types
<1>5. CASE Done(cs, task)
  <2>1. /\ vlm_task' = 0
        /\ task # 0 /\ task \in 1..Len(cs) /\ cs[task].status # "running"
    BY <1>1, <1>4, <1>5 DEF Collect, Done
  <2>2. CASE cs[task].status = "ok"
    <3>. DEFINE k == Len(delivered) + 1
    <3>1. delivered' = Append(delivered, task)
      BY <1>1, <1>5, <2>2 DEF Collect
    <3>2. /\ delivered' \in Seq(Nat) /\ Len(delivered') = k /\ k # 0
          /\ delivered'[k] = task
          /\ \A i \in 1..Len(delivered) : delivered'[i] = delivered[i] /\ i < k
          /\ \A i \in 1..k : i \in 1..Len(delivered) \/ i = k
      BY <1>4, <2>1, <3>1
    <3>. HIDE DEF k
    <3>3. \A i \in 1..Len(delivered) :
            delivered[i] \in 1..Len(cs) /\ cs[delivered[i]].status = "ok"
              /\ delivered[i] < task
      BY <1>3, <2>1 DEF Between
    <3>4. \A i, j \in 1..Len(delivered) : i < j => delivered[i] < delivered[j]
      BY DEF IInv, Ordered
    <3>5. \A i \in 1..k : /\ delivered'[i] \in 1..Len(cs)
                          /\ cs[delivered'[i]].status = "ok"
      BY <2>1, <2>2, <3>2, <3>3
    <3>6. ASSUME NEW i \in 1..k, NEW j \in 1..k, i < j
          PROVE  delivered'[i] < delivered'[j]
      <4>1. i \in 1..Len(delivered)
        BY <1>4, <3>2, <3>6
      <4>2. CASE j \in 1..Len(delivered)
        BY <3>2, <3>4, <3>6, <4>1, <4>2
      <4>3. CASE j = k
        BY <3>2, <3>3, <4>1, <4>3
      <4>. QED  BY <3>2, <4>2, <4>3
    <3>7. Ordered'
      BY <1>1, <2>1, <3>2, <3>5, <3>6 DEF Ordered
    <3>8. Types' /\ Dates' /\ Spaced' /\ OneCall'
      BY <1>1, <1>2, <1>3, <1>4, <2>1, <3>2
      DEF Between, Types, Dates, Spaced, OneCall
    <3>. QED  BY <3>7, <3>8 DEF IInv
  <2>3. CASE cs[task].status # "ok"
    <3>1. delivered' = delivered
      BY <1>1, <1>5, <2>3 DEF Collect
    <3>. QED
      BY <1>1, <1>2, <1>3, <1>4, <2>1, <3>1
      DEF Between, IInv, Types, Dates, Spaced, OneCall, Ordered
  <2>. QED  BY <2>2, <2>3
<1>6. CASE ~Done(cs, task)
  <2>1. vlm_task' = task /\ delivered' = delivered
    BY <1>1, <1>6 DEF Collect
  <2>. QED
    BY <1>1, <1>2, <1>3, <1>4, <2>1
    DEF Between, IInv, Types, Dates, Spaced, OneCall, Ordered
<1>. QED  BY <1>5, <1>6

LEMMA NextIInv == IInv /\ [Next]_vars => IInv'
<1>. SUFFICES ASSUME IInv, [Next]_vars PROVE IInv'
  OBVIOUS
<1>1. ASSUME NEW step \in ClockSteps, StartFrame(step) PROVE IInv'
  <2>1. frame_ms' \in Int
    BY <1>1, PipelineAssumption DEF StartFrame, IInv, Types, PipelineAssumption
  <2>. QED  BY <1>1, <2>1, FrameSteps DEF StartFrame, engine
<1>2. ASSUME NEW dets \in Engine!Detections, DetectDone(dets) PROVE IInv'
  BY <1>2, DetectDoneIInv
<1>3. CASE DetectFails
  BY <1>3, FrameSteps DEF DetectFails, engine, IInv, Types
<1>4. ASSUME NEW n \in DOMAIN calls, NEW status \in {"ok", "failed"},
             DescribeDone(n, status)
      PROVE  IInv'
  BY <1>4, DescribeDoneIInv
<1>5. CASE Close
  BY <1>5, FrameSteps DEF Close, engine, IInv, Types
<1>6. CASE UNCHANGED vars
  BY <1>6, FrameSteps DEF vars, engine, IInv, Types
<1>. QED  BY <1>1, <1>2, <1>3, <1>4, <1>5, <1>6 DEF Next

LEMMA Invariance == Spec => []IInv
BY InitIInv, NextIInv, PTL DEF Spec

-----------------------------------------------------------------------------
\* A session has at most one describe call under way, the one it will
\* collect (pipeline.py:87-88,102).
THEOREM SingleCall == Spec => []OneCallAtATime
<1>1. IInv => OneCallAtATime
  BY DEF IInv, Types, OneCall, OneCallAtATime
<1>. QED  BY <1>1, Invariance, PTL

\* The calls of a session keep the distance of the throttle on the clock of
\* the frames, for any intervals and any clock (pipeline.py:89-99).
THEOREM Throttle == Spec => []CallsSpaced
<1>1. IInv => CallsSpaced
  BY DEF IInv, Types, Spaced, CallsSpaced
<1>. QED  BY <1>1, Invariance, PTL

\* Texts go out in the order of their calls and never twice
\* (pipeline.py:59-66).
THEOREM InOrder == Spec => []DeliveredInOrder
<1>1. ASSUME IInv PROVE DeliveredInOrder
  <2>1. DOMAIN delivered = 1..Len(delivered)
    BY <1>1 DEF IInv, Types
  <2>. QED  BY <1>1, <2>1 DEF IInv, Ordered, DeliveredInOrder
<1>. QED  BY <1>1, Invariance, PTL

\* What the throttle compares, the date of a frame with that of the last
\* call, is what the clock did since: the two sums tell the difference.
Quiet ==
  /\ advanced \in Nat
  /\ set_back \in Nat
  /\ advanced - set_back = now_ms - last_vlm_ms

LEMMA QuietStep ==
  ASSUME IInv, Quiet, [Next]_vars
  PROVE  Quiet'
<1>1. CASE UNCHANGED <<now_ms, last_vlm_ms, silence>>
  BY <1>1 DEF Quiet, silence
<1>2. ASSUME NEW dets \in Engine!Detections, DetectDone(dets) PROVE Quiet'
  <2>. DEFINE asks == Asks(events', frame_ms)
  <2>1. /\ now_ms' = frame_ms /\ last_vlm_ms' = LastVlm(asks, events', frame_ms)
        /\ Waited(asks, frame_ms - now_ms)
    BY <1>2, DetectDoneSplit DEF AskStep
  <2>2. now_ms \in Int /\ frame_ms \in Int /\ last_vlm_ms \in Int
    BY DEF IInv, Types
  <2>. HIDE DEF asks
  <2>3. CASE asks
    BY <2>1, <2>2, <2>3 DEF LastVlm, Waited, Quiet
  <2>4. CASE ~asks
    <3>1. /\ last_vlm_ms' = last_vlm_ms
          /\ advanced' = IF frame_ms - now_ms > 0 THEN advanced + (frame_ms - now_ms)
                         ELSE advanced
          /\ set_back' = IF frame_ms - now_ms < 0 THEN set_back - (frame_ms - now_ms)
                         ELSE set_back
      BY <2>1, <2>4 DEF LastVlm, Waited
    <3>. QED  BY <2>1, <2>2, <3>1 DEF Quiet
  <2>. QED  BY <2>3, <2>4
<1>. QED
  BY <1>1, <1>2
  DEF Next, StartFrame, DetectFails, DescribeDone, Close, vars, throttle, engine

LEMMA Differences ==
  ASSUME NEW a \in Nat, NEW b \in Nat, NEW n \in Int, NEW l \in Int,
         NEW bound \in Nat,
         a - b = n - l, n - l < bound
  PROVE  a < bound + b
OBVIOUS

LEMMA QuietInvariance == Spec => []Quiet
<1>1. Init => Quiet
  BY PipelineAssumption DEF Init, Engine!Init, Quiet, PipelineAssumption
<1>. QED  BY <1>1, QuietStep, Invariance, PTL DEF Spec

\* After every frame a call is under way, or the frame clock went forward
\* since the last one was asked by less than the ambient interval and what
\* it went back meanwhile: a clock set back silences a session for exactly
\* as long as it lags, a failed call or frame for no longer than a call
\* that succeeds (pipeline.py:59-66,86-104).
THEOREM Narrated == Spec => NeverSilent
<1>. DEFINE Fresh == frames' # frames =>
              \/ \E n \in DOMAIN calls' : calls'[n].status = "running"
              \/ advanced' < AmbientIntervalMs + set_back'
<1>1. IInv /\ Quiet /\ Quiet' /\ [Next]_vars => [Fresh]_vars
  <2>. SUFFICES ASSUME IInv, Quiet, Quiet', Next, frames' # frames PROVE Fresh
    OBVIOUS
  <2>1. PICK dets : DetectDone(dets)
    BY DEF Next, StartFrame, DetectFails, DescribeDone, Close, engine
  <2>2. PICK cs, task :
          /\ AskStep(Asks(events', frame_ms), events', cs, task)
          /\ calls' = cs
          /\ now_ms' = frame_ms
    BY <2>1, DetectDoneSplit
  <2>3. calls \in Seq(Call) /\ vlm_task \in {0, Len(calls)}
    BY DEF IInv, Types
  <2>4. CASE Asks(events', frame_ms)
    <3>. DEFINE call == [at |-> frame_ms, ambient |-> events' = {},
                         status |-> "running"]
    <3>1. cs = Append(calls, call)
      BY <2>2, <2>4 DEF AskStep
    <3>2. call.status = "running"
      OBVIOUS
    <3>. HIDE DEF call
    <3>3. Len(cs) \in DOMAIN cs /\ cs[Len(cs)] = call
      BY <2>3, <3>1
    <3>. QED  BY <2>2, <3>2, <3>3
  <2>5. CASE ~Asks(events', frame_ms)
    <3>1. calls' = calls /\ last_vlm_ms' = last_vlm_ms
      BY <2>2, <2>5 DEF AskStep, LastVlm
    <3>2. CASE InFlight
      BY <2>3, <3>1, <3>2 DEF InFlight, Running
    <3>3. CASE ~InFlight
      <4>1. \/ frame_ms - last_vlm_ms < VlmMinIntervalMs
            \/ frame_ms - last_ambient_ms < AmbientIntervalMs
        BY <2>5, <3>3, PipelineAssumption
        DEF Asks, Throttled, AmbientDue, IInv, Types, PipelineAssumption
      <4>2. now_ms' - last_vlm_ms' < AmbientIntervalMs
        BY <2>2, <3>1, <4>1, PipelineAssumption
        DEF IInv, Types, Dates, PipelineAssumption
      <4>3. /\ advanced' \in Nat /\ set_back' \in Nat
            /\ advanced' - set_back' = now_ms' - last_vlm_ms'
        BY DEF Quiet
      <4>4. /\ now_ms' \in Int /\ last_vlm_ms' \in Int /\ AmbientIntervalMs \in Nat
        BY <2>2, <3>1, PipelineAssumption DEF IInv, Types, PipelineAssumption
      <4>5. advanced' < AmbientIntervalMs + set_back'
        BY <4>2, <4>3, <4>4, Differences
      <4>. QED  BY <4>5
    <3>. QED  BY <3>2, <3>3
  <2>. QED  BY <2>4, <2>5
<1>. QED
  BY <1>1, QuietStep, Invariance, QuietInvariance, PTL DEF Spec, NeverSilent

-----------------------------------------------------------------------------
(***************************************************************************)
(* The session drives its engine as EventEngine says, so what is proved of *)
(* the engine holds of the engine of a session, whatever fails around it.  *)
(***************************************************************************)
EP == INSTANCE EventEngine_proofs

LEMMA SameUpdate ==
  ASSUME NEW dets, NEW now, Engine!Update(dets, now)
  PROVE  EP!Update(dets, now)
<1>. DEFINE seen == Engine!Seen(dets)
            trk  == Engine!Integrated(tracks, dets, now)
            gone == Engine!Expired(trk, seen, now)
<1>1. \A S : EP!Cardinality(S) = Engine!Cardinality(S)
  BY DEF EP!Cardinality, Engine!Cardinality
<1>2. EP!Seen(dets) = seen
  BY DEF EP!Seen, Engine!Seen
<1>3. EP!Integrated(tracks, dets, now) = trk
  BY <1>2 DEF EP!Integrated, Engine!Integrated, EP!NewTrack, Engine!NewTrack,
              EP!Touched, Engine!Touched
<1>4. EP!Expired(trk, seen, now) = gone
  BY DEF EP!Expired, Engine!Expired
<1>5. EP!Confirmable(trk, seen, now) = Engine!Confirmable(trk, seen, now)
  BY DEF EP!Confirmable, Engine!Confirmable
<1>6. EP!Leavers(trk, gone) = Engine!Leavers(trk, gone)
  BY DEF EP!Leavers, Engine!Leavers, EP!Confirmed, Engine!Confirmed
<1>7. \A type, id : EP!Event(type, id, trk, now) = Engine!Event(type, id, trk, now)
  BY DEF EP!Event, Engine!Event
<1>. QED
  BY <1>1, <1>2, <1>3, <1>4, <1>5, <1>6, <1>7 DEF EP!Update, Engine!Update

\* A frame under way is one the engine still awaits, at an admissible date.
Pending ==
  /\ now_ms \in Int
  /\ phase = "detecting" => /\ frames < MaxFrames
                            /\ \E step \in ClockSteps : frame_ms = now_ms + step

LEMMA PendingInvariance == Spec => []Pending
<1>1. Init => Pending
  BY PipelineAssumption DEF Init, Engine!Init, Pending, PipelineAssumption
<1>2. Pending /\ [Next]_vars => Pending'
  <2>. SUFFICES ASSUME Pending, [Next]_vars PROVE Pending'
    OBVIOUS
  <2>1. ASSUME NEW step \in ClockSteps, StartFrame(step) PROVE Pending'
    BY <2>1 DEF StartFrame, Pending, engine
  <2>2. ASSUME NEW dets \in Engine!Detections, DetectDone(dets) PROVE Pending'
    <3>1. now_ms' = frame_ms /\ phase' = "idle" /\ phase = "detecting"
      BY <2>2 DEF DetectDone, Engine!Update
    <3>2. frame_ms \in Int
      BY <3>1, PipelineAssumption DEF Pending, PipelineAssumption
    <3>. QED  BY <3>1, <3>2 DEF Pending
  <2>3. CASE DetectFails
    BY <2>3 DEF DetectFails, Pending, engine
  <2>4. ASSUME NEW n, NEW status, DescribeDone(n, status) PROVE Pending'
    BY <2>4 DEF DescribeDone, Pending, engine
  <2>5. CASE Close
    BY <2>5 DEF Close, Pending, engine
  <2>6. CASE UNCHANGED vars
    BY <2>6 DEF vars, Pending, engine
  <2>. QED  BY <2>1, <2>2, <2>3, <2>4, <2>5, <2>6 DEF Next
<1>. QED  BY <1>1, <1>2, PTL DEF Spec

LEMMA DrivesEngine == Spec => EP!Spec
<1>1. Init => EP!Init
  BY DEF Init, Engine!Init, EP!Init
<1>2. Pending /\ [Next]_vars => [EP!Next]_(EP!vars)
  <2>. SUFFICES ASSUME Pending, [Next]_vars PROVE EP!Next \/ UNCHANGED EP!vars
    OBVIOUS
  <2>1. ASSUME NEW dets \in Engine!Detections, DetectDone(dets) PROVE EP!Next
    <3>1. /\ phase = "detecting" /\ frames' = frames + 1
          /\ Engine!Update(dets, frame_ms)
      BY <2>1 DEF DetectDone
    <3>2. PICK step \in ClockSteps : frame_ms = now_ms + step
      BY <3>1 DEF Pending
    <3>3. EP!Update(dets, now_ms + step)
      BY <3>1, <3>2, SameUpdate
    <3>4. dets \in EP!Detections
      BY DEF Engine!Detections, EP!Detections, Engine!Detection, EP!Detection
    <3>. QED  BY <3>1, <3>2, <3>3, <3>4 DEF EP!Next, EP!Frame, Pending
  <2>2. CASE UNCHANGED engine
    BY <2>2 DEF engine, EP!vars
  <2>. QED
    BY <2>1, <2>2 DEF Next, StartFrame, DetectFails, DescribeDone, Close, vars
<1>. QED  BY <1>1, <1>2, PendingInvariance, PTL DEF Spec, EP!Spec

LEMMA SameScene == EP!SceneSpec => SessionIsAScene
<1>1. EP!Scene!Init => Engine!Scene!Init
  BY DEF EP!Scene!Init, Engine!Scene!Init, EP!Confirmed, Engine!Confirmed
<1>2. [EP!Scene!Next]_(EP!Scene!vars) => [Engine!Scene!Next]_(Engine!Scene!vars)
  BY DEF EP!Scene!Next, Engine!Scene!Next, EP!Scene!vars, Engine!Scene!vars,
         EP!Scene!Report, Engine!Scene!Report,
         EP!Scene!Reported, Engine!Scene!Reported,
         EP!Scene!SceneEvent, Engine!Scene!SceneEvent,
         EP!Scene!EventTypes, Engine!Scene!EventTypes,
         EP!Confirmed, Engine!Confirmed
<1>. QED
  BY <1>1, <1>2, PTL
  DEF EP!SceneSpec, SessionIsAScene, Engine!SceneSpec,
      EP!Scene!Spec, Engine!Scene!Spec

\* The events of a session are those of a scene (SceneMembership): nothing a
\* frame, a description or a transport does loses or repeats one
\* (pipeline.py:54-55,82).
THEOREM ScenePerSession == Spec => SessionIsAScene
<1>1. EP!EngineAssumption
  BY PipelineAssumption
  DEF PipelineAssumption, EP!EngineAssumption, EP!IsFiniteSet, IsFiniteSet
<1>2. EP!Spec => EP!SceneSpec
  BY <1>1, EP!EngineIsAScene
<1>. QED  BY <1>2, DrivesEngine, SameScene, PTL

LEMMA SameTypes == EP!TypeOK => Engine!TypeOK
BY DEF EP!TypeOK, Engine!TypeOK, EP!Track, Engine!Track,
       EP!SceneEvent, Engine!SceneEvent, EP!EventTypes, Engine!EventTypes

Modes ==
  /\ transport \in {"grpc", "webrtc"}
  /\ phase \in {"idle", "detecting", "closed"}

LEMMA ModesInvariance == Spec => []Modes
<1>1. Init => Modes
  BY DEF Init, Modes
<1>2. Modes /\ [Next]_vars => Modes'
  BY DEF Modes, Next, StartFrame, DetectDone, DetectFails, DescribeDone, Close, vars
<1>. QED  BY <1>1, <1>2, PTL DEF Spec

\* Every piece of the session's state has its type, its engine's included,
\* and the task always refers to a call that was made (pipeline.py:36-104).
THEOREM TypeCorrect == Spec => []TypeOK
<1>1. EP!EngineAssumption
  BY PipelineAssumption
  DEF PipelineAssumption, EP!EngineAssumption, EP!IsFiniteSet, IsFiniteSet
<1>2. EP!Spec => []EP!TypeOK
  BY <1>1, EP!TypeCorrect
<1>3. IInv /\ Quiet /\ Modes /\ Engine!TypeOK => TypeOK
  <2>. SUFFICES ASSUME IInv, Quiet, Modes, Engine!TypeOK PROVE TypeOK
    OBVIOUS
  <2>1. vlm_task \in 0..Len(calls) /\ calls \in Seq(Call) /\ Len(calls) \in Nat
    BY DEF IInv, Types
  <2>2. delivered \in Seq(1..Len(calls))
    <3>1. /\ delivered \in Seq(Nat) /\ Len(delivered) \in Nat
          /\ \A i \in 1..Len(delivered) : delivered[i] \in 1..Len(calls)
      BY DEF IInv, Types, Ordered
    <3>2. delivered \in [1..Len(delivered) -> 1..Len(calls)]
      BY <3>1
    <3>. QED  BY <3>1, <3>2, SMTT(30)
  <2>. QED  BY <2>1, <2>2 DEF IInv, Types, Quiet, Modes, TypeOK
<1>. QED
  BY <1>2, <1>3, SameTypes, DrivesEngine, Invariance, QuietInvariance,
     ModesInvariance, PTL
=============================================================================
