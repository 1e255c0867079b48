---------------------------- MODULE InferencePool ----------------------------
(***************************************************************************)
(* What the sessions of the AI service share: one ThreadPoolExecutor that  *)
(* runs the detections and the descriptions of all of them, first in first *)
(* out (server.py), and one Describer whose VLM is loaded by the first     *)
(* thread that needs it (describer.py).  What SessionPipeline decides on   *)
(* its clock (is a description due?) is a free choice here.                *)
(*                                                                         *)
(* A stream is one call of Analyze: it is opened once, reads its frames    *)
(* one at a time, and is cancelled when its client goes away.  Cancelling  *)
(* withdraws a detection that no thread has taken; a description, which    *)
(* nobody awaits, stays.                                                   *)
(***************************************************************************)
EXTENDS Naturals, Sequences, FiniteSets, SequencesExt

CONSTANTS
  Streams,   \* calls of Analyze, each with its SessionPipeline
  Workers,   \* the threads of the pool
  Vlms       \* deployments: "off" (VC_VLM_ENABLED=false), "absent" (vllm is
             \* not installed), "present"

VARIABLES
  vlm,        \* the deployment that runs
  phase,      \* of a stream: "unopened", "idle", "detecting" (awaiting its
              \* detection), "detected", "failed" (the detection has ended,
              \* the event loop has yet to resume the stream), "closed"
  vlm_task,   \* of a stream: SessionPipeline._vlm_task
  queue,      \* the work queue of the executor
  worker,     \* what a thread does: [task, stage], or Idle
  engine,     \* Describer._engine is set
  loaded      \* Describer._loaded

vars == <<vlm, phase, vlm_task, queue, worker, engine, loaded>>

Detect(s)   == [kind |-> "detect", stream |-> s]
Describe(s) == [kind |-> "describe", stream |-> s]

Tasks == {Detect(s) : s \in Streams} \cup {Describe(s) : s \in Streams}

\* Describer.describe, by what the thread is about to do.
DescribeStages == {"entered", "load", "construct", "flag", "chat"}

Idle == [stage |-> "idle"]

At(w, stage) == worker[w].stage = stage

Goto(w, stage) == worker' = [worker EXCEPT ![w].stage = stage]

-----------------------------------------------------------------------------
Init ==
  /\ vlm \in Vlms
  /\ phase = [s \in Streams |-> "unopened"]
  /\ vlm_task = [s \in Streams |-> "none"]
  /\ queue = <<>>
  /\ worker = [w \in Workers |-> Idle]
  /\ engine = FALSE
  /\ loaded = FALSE

pool == <<worker, engine, loaded>>

Open(s) ==
  /\ phase[s] = "unopened"
  /\ phase' = [phase EXCEPT ![s] = "idle"]
  /\ UNCHANGED <<vlm, vlm_task, queue, pool>>

\* A frame arrives: its detection is submitted and awaited.
Receive(s) ==
  /\ phase[s] = "idle"
  /\ phase' = [phase EXCEPT ![s] = "detecting"]
  /\ queue' = Append(queue, Detect(s))
  /\ UNCHANGED <<vlm, vlm_task, pool>>

\* Mutant: a description under way does not hold back the next one.
MayAskAlways(s) == TRUE

MayAsk(s) == vlm_task[s] # "running"

\* process() resumes: it may submit a description, else it collects a
\* finished one, and the analysis is sent.
Resume(s) ==
  /\ phase[s] = "detected"
  /\ phase' = [phase EXCEPT ![s] = "idle"]
  /\ \/ /\ MayAsk(s)
        /\ queue' = Append(queue, Describe(s))
        /\ vlm_task' = [vlm_task EXCEPT ![s] = "running"]
     \/ /\ queue' = queue
        /\ vlm_task' = [vlm_task EXCEPT ![s] = IF @ = "done" THEN "none" ELSE @]
  /\ UNCHANGED <<vlm, pool>>

\* The exception of a failed detection aborts the stream.
Abort(s) ==
  /\ phase[s] = "failed"
  /\ phase' = [phase EXCEPT ![s] = "closed"]
  /\ UNCHANGED <<vlm, vlm_task, queue, pool>>

\* The client goes away, or ends its stream, whatever the stream is doing.
Cancel(s) ==
  /\ phase[s] \in {"idle", "detecting", "detected", "failed"}
  /\ phase' = [phase EXCEPT ![s] = "closed"]
  /\ \/ \E i \in DOMAIN queue : queue[i] = Detect(s) /\ queue' = RemoveAt(queue, i)
     \/ Detect(s) \notin ToSet(queue) /\ queue' = queue
  /\ UNCHANGED <<vlm, vlm_task, pool>>

-----------------------------------------------------------------------------
\* Mutant: the last task submitted is the first one taken.
NextPlaceLast(q) == Len(q)

\* The place in the queue of the task that is taken first.
NextPlace(q) == 1

\* Mutant: the pool treats every task as a description.
FirstStageSame(task) == "entered"

FirstStage(task) == IF task.kind = "detect" THEN "detect" ELSE "entered"

\* A free thread takes a task.
Take(w) ==
  /\ At(w, "idle")
  /\ queue # <<>>
  /\ LET task == queue[NextPlace(queue)]
     IN  worker' = [worker EXCEPT ![w] = [task |-> task, stage |-> FirstStage(task)]]
  /\ queue' = RemoveAt(queue, NextPlace(queue))
  /\ UNCHANGED <<vlm, phase, vlm_task, engine, loaded>>

\* Detector.detect_image ends; a cancelled stream takes no notice.
DetectEnds(w, outcome) ==
  /\ At(w, "detect")
  /\ worker' = [worker EXCEPT ![w] = Idle]
  /\ LET s == worker[w].task.stream
     IN  phase' = IF phase[s] = "detecting"
                  THEN [phase EXCEPT ![s] = outcome] ELSE phase
  /\ UNCHANGED <<vlm, vlm_task, queue, engine, loaded>>

\* describe() returns a text or raises: either way its future is done, and
\* nothing here depends on which.  (The pool therefore does not tell the
\* summary from the failure when vllm is absent: see the README.)
Finish(w) ==
  /\ worker' = [worker EXCEPT ![w] = Idle]
  /\ vlm_task' = [vlm_task EXCEPT ![worker[w].task.stream] = "done"]
  /\ UNCHANGED <<vlm, phase, queue, engine, loaded>>

\* Without the VLM, the deterministic summary is the whole call.
Summary(w) == At(w, "entered") /\ vlm = "off" /\ Finish(w)

Enter(w) ==
  /\ At(w, "entered") /\ vlm # "off"
  /\ Goto(w, IF loaded THEN "chat" ELSE "load")
  /\ UNCHANGED <<vlm, phase, vlm_task, queue, engine, loaded>>

\* Mutant: the flag goes up when the construction starts.
LoadFlagsFirst(w) ==
  /\ At(w, "load") /\ (loaded \/ vlm = "present")
  /\ Goto(w, IF loaded THEN "chat" ELSE "construct")
  /\ loaded' = TRUE
  /\ UNCHANGED <<vlm, phase, vlm_task, queue, engine>>

\* load() looks at the flag again, then imports vllm.
Load(w) ==
  /\ At(w, "load") /\ (loaded \/ vlm = "present")
  /\ Goto(w, IF loaded THEN "chat" ELSE "construct")
  /\ UNCHANGED <<vlm, phase, vlm_task, queue, engine, loaded>>

ImportFails(w) == At(w, "load") /\ ~loaded /\ vlm = "absent" /\ Finish(w)

\* The LLM object is complete and assigned.
Construct(w) ==
  /\ At(w, "construct")
  /\ engine' = TRUE
  /\ Goto(w, "flag")
  /\ UNCHANGED <<vlm, phase, vlm_task, queue, loaded>>

\* Its construction raises (no memory left on the GPU).
ConstructFails(w) == At(w, "construct") /\ Finish(w)

Flag(w) ==
  /\ At(w, "flag")
  /\ loaded' = TRUE
  /\ Goto(w, "chat")
  /\ UNCHANGED <<vlm, phase, vlm_task, queue, engine>>

Chat(w) == At(w, "chat") /\ Finish(w)

Work(w) ==
  \/ Take(w)
  \/ \E outcome \in {"detected", "failed"} : DetectEnds(w, outcome)
  \/ Summary(w)
  \/ Enter(w)
  \/ Load(w)
  \/ ImportFails(w)
  \/ Construct(w)
  \/ ConstructFails(w)
  \/ Flag(w)
  \/ Chat(w)

Next ==
  \/ \E s \in Streams :
       Open(s) \/ Receive(s) \/ Resume(s) \/ Abort(s) \/ Cancel(s)
  \/ \E w \in Workers : Work(w)

\* The threads run, every task ends, and the event loop resumes a stream
\* whose detection has ended.  Clients are free.
Fairness ==
  /\ \A w \in Workers : WF_vars(Work(w))
  /\ \A s \in Streams : WF_vars(Resume(s) \/ Abort(s))

Spec == Init /\ [][Next]_vars /\ Fairness

-----------------------------------------------------------------------------
\* Every piece of state has its type; a thread that holds a detection detects,
\* one that holds a description is at a stage of describe().
TypeOK ==
  /\ vlm \in Vlms
  /\ phase \in [Streams -> {"unopened", "idle", "detecting", "detected",
                            "failed", "closed"}]
  /\ vlm_task \in [Streams -> {"none", "running", "done"}]
  /\ queue \in Seq(Tasks)
  /\ worker \in [Workers ->
       {Idle} \cup [task : {Detect(s) : s \in Streams}, stage : {"detect"}]
              \cup [task : {Describe(s) : s \in Streams}, stage : DescribeStages]]
  /\ engine \in BOOLEAN
  /\ loaded \in BOOLEAN

\* How often a task is queued or held by a thread.
Outstanding(task) ==
  Cardinality({i \in DOMAIN queue : queue[i] = task})
  + Cardinality({w \in Workers : ~At(w, "idle") /\ worker[w].task = task})

\* The futures and the pool agree: an open stream awaits a detection exactly
\* when one of its own is queued or runs, and a description is pending
\* exactly when the task says so, once.  The backlog of the pool is therefore
\* at most two tasks per stream ever opened (pipeline.py:54,87,102).
FuturesMatchPool ==
  \A s \in Streams :
    /\ Outstanding(Detect(s)) <= 1
    /\ phase[s] # "closed" =>
         (Outstanding(Detect(s)) = 1 <=> phase[s] = "detecting")
    /\ Outstanding(Describe(s)) = IF vlm_task[s] = "running" THEN 1 ELSE 0

\* No thread talks to the VLM before it exists: the flag goes up after the
\* engine is in place (describer.py:94-100,115-131).
NoChatWithoutEngine ==
  \A w \in Workers : At(w, "chat") => engine

\* A frame taken from the stream is always answered, or ends its stream: no
\* detection is stuck behind the descriptions of the others for ever
\* (pipeline.py:54, server.py:93-100,127).
FrameAnswered ==
  \A s \in Streams :
    phase[s] = "detecting" ~> phase[s] \in {"idle", "closed"}

\* A description that was asked for ends, even when its stream is gone.
DescribeEnds ==
  \A s \in Streams : vlm_task[s] = "running" ~> vlm_task[s] # "running"

\* The VLM is sized for one copy per GPU (describer.py:98, "laisse de la
\* place au détecteur"): never two constructions at once, none once done.
OneLlm ==
  \A w \in Workers : At(w, "construct") =>
    ~engine /\ \A v \in Workers : At(v, "construct") => v = w
=============================================================================
