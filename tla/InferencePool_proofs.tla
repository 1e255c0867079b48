------------------------- MODULE InferencePool_proofs -------------------------
(***************************************************************************)
(* Proofs about InferencePool: whatever the number of streams and threads, *)
(* and however the loads of the VLM overlap or fail, no thread uses the    *)
(* VLM before it exists, and the futures of the sessions and the tasks of  *)
(* the pool agree.                                                         *)
(***************************************************************************)
EXTENDS InferencePool, FiniteSetTheorems, SequenceTheorems, TLAPS

\* What a thread may be doing when there is no engine.
Engineless == {"idle", "detect", "entered", "load", "construct"}

\* A thread always has a stage; the flag and the later stages come after the
\* engine.
IInv ==
  /\ worker = [w \in Workers |-> worker[w]]
  /\ \A w \in Workers : worker[w] = [x \in DOMAIN worker[w] |-> worker[w][x]]
                        /\ "stage" \in DOMAIN worker[w]
  /\ loaded => engine
  /\ \A w \in Workers : worker[w].stage \in Engineless \/ engine

\* A thread that moves to a stage is at that stage, and no other one moves.
LEMMA Moves ==
  ASSUME IInv, NEW w \in Workers, NEW stage, Goto(w, stage)
  PROVE  /\ worker' = [v \in Workers |-> worker'[v]]
         /\ worker'[w] = [x \in DOMAIN worker'[w] |-> worker'[w][x]]
         /\ "stage" \in DOMAIN worker'[w]
         /\ worker'[w].stage = stage
         /\ \A v \in Workers \ {w} : worker'[v] = worker[v]
  BY SMT DEF IInv, Goto

\* The same for a thread that starts or drops a task.
LEMMA Replaced ==
  ASSUME IInv, NEW w \in Workers,
         \/ worker' = [worker EXCEPT ![w] = Idle]
         \/ \E task, stage : worker' = [worker EXCEPT ![w] = [task |-> task, stage |-> stage]]
  PROVE  /\ worker' = [v \in Workers |-> worker'[v]]
         /\ worker'[w] = [x \in DOMAIN worker'[w] |-> worker'[w][x]]
         /\ "stage" \in DOMAIN worker'[w]
         /\ \A v \in Workers \ {w} : worker'[v] = worker[v]
  BY SMT DEF IInv, Idle

\* One thread moves to a stage that the engine allows.
LEMMA Kept ==
  ASSUME IInv, NEW w \in Workers,
         worker' = [v \in Workers |-> worker'[v]],
         worker'[w] = [x \in DOMAIN worker'[w] |-> worker'[w][x]],
         "stage" \in DOMAIN worker'[w],
         \A v \in Workers \ {w} : worker'[v] = worker[v],
         engine => engine',
         loaded' => engine',
         worker'[w].stage \in Engineless \/ engine'
  PROVE  IInv'
<1> SUFFICES ASSUME NEW v \in Workers
    PROVE  /\ worker'[v] = [x \in DOMAIN worker'[v] |-> worker'[v][x]]
           /\ "stage" \in DOMAIN worker'[v]
           /\ worker'[v].stage \in Engineless \/ engine'
  BY Zenon DEF IInv
<1>1. CASE v = w
  BY <1>1
<1>2. CASE v # w
  <2>1. worker'[v] = worker[v]
    BY <1>2
  <2>2. /\ worker[v] = [x \in DOMAIN worker[v] |-> worker[v][x]]
        /\ "stage" \in DOMAIN worker[v]
        /\ worker[v].stage \in Engineless \/ engine
    BY Zenon DEF IInv
  <2> QED
    BY <2>1, <2>2, Zenon
<1> QED
  BY <1>1, <1>2

\* All threads are idle at first, and there is no engine.
LEMMA InitInv == Init => IInv
  BY SMT DEF Init, IInv, Idle, Engineless

\* No step of a thread or of a stream breaks the invariant.
LEMMA StepInv == IInv /\ [Next]_vars => IInv'
<1> SUFFICES ASSUME IInv, [Next]_vars PROVE IInv'
  OBVIOUS
<1>0. ASSUME UNCHANGED <<worker, engine, loaded>> PROVE IInv'
  BY <1>0, Zenon DEF IInv
<1>b. loaded => engine
  BY DEF IInv
<1>f. ASSUME NEW w \in Workers, worker' = [worker EXCEPT ![w] = Idle],
             UNCHANGED <<engine, loaded>>
      PROVE  IInv'
  <2>1. worker'[w].stage = "idle"
    BY <1>f, SMT DEF IInv, Idle
  <2>2. worker'[w].stage \in Engineless
    BY <2>1, Zenon DEF Engineless
  <2> QED
    BY <1>f, <1>b, <2>2, Replaced, Kept
<1>1. ASSUME NEW s \in Streams,
             Open(s) \/ Receive(s) \/ Resume(s) \/ Abort(s) \/ Cancel(s)
      PROVE  IInv'
  <2>1. UNCHANGED <<worker, engine, loaded>>
    BY <1>1, Zenon DEF Open, Receive, Resume, Abort, Cancel, pool
  <2> QED
    BY <2>1, <1>0
<1>2. ASSUME NEW w \in Workers, Take(w) PROVE IInv'
  <2> DEFINE task == queue[NextPlace(queue)]
  <2>1. /\ worker' = [worker EXCEPT ![w] = [task |-> task, stage |-> FirstStage(task)]]
        /\ UNCHANGED <<engine, loaded>>
    BY <1>2, Zenon DEF Take
  <2>2. worker'[w].stage = FirstStage(task)
    BY <2>1, SMT DEF IInv
  <2>3. worker'[w].stage \in Engineless
    BY <2>2, SMT DEF FirstStage, Engineless
  <2> QED
    BY <2>1, <2>3, <1>b, Replaced, Kept
<1>3. ASSUME NEW w \in Workers, NEW outcome \in {"detected", "failed"},
             DetectEnds(w, outcome)
      PROVE  IInv'
  BY <1>3, <1>f, Zenon DEF DetectEnds
<1>4. ASSUME NEW w \in Workers, Summary(w) \/ ImportFails(w) \/ ConstructFails(w) \/ Chat(w)
      PROVE  IInv'
  BY <1>4, <1>f, Zenon DEF Summary, ImportFails, ConstructFails, Chat, Finish
<1>5. ASSUME NEW w \in Workers, Enter(w) PROVE IInv'
  <2> DEFINE stage == IF loaded THEN "chat" ELSE "load"
  <2>1. Goto(w, stage) /\ UNCHANGED <<engine, loaded>>
    BY <1>5, Zenon DEF Enter
  <2>2. stage \in Engineless \/ engine
    BY <1>b, Zenon DEF Engineless
  <2> HIDE DEF stage
  <2> QED
    BY <2>1, <2>2, <1>b, Moves, Kept
<1>6. ASSUME NEW w \in Workers, Load(w) PROVE IInv'
  <2> DEFINE stage == IF loaded THEN "chat" ELSE "construct"
  <2>1. Goto(w, stage) /\ UNCHANGED <<engine, loaded>>
    BY <1>6, Zenon DEF Load
  <2>2. stage \in Engineless \/ engine
    BY <1>b, Zenon DEF Engineless
  <2> HIDE DEF stage
  <2> QED
    BY <2>1, <2>2, <1>b, Moves, Kept
<1>7. ASSUME NEW w \in Workers, Construct(w) PROVE IInv'
  <2>1. Goto(w, "flag") /\ engine' = TRUE
    BY <1>7, Zenon DEF Construct
  <2> QED
    BY <2>1, Moves, Kept
<1>8. ASSUME NEW w \in Workers, Flag(w) PROVE IInv'
  <2>1. At(w, "flag") /\ Goto(w, "chat") /\ UNCHANGED engine
    BY <1>8, Zenon DEF Flag
  <2>2. engine
    <3>1. worker[w].stage \in Engineless \/ engine
      BY Zenon DEF IInv
    <3>2. ~(worker[w].stage \in Engineless)
      BY <2>1, SMT DEF At, Engineless
    <3> QED
      BY <3>1, <3>2, Zenon
  <2> QED
    BY <2>1, <2>2, Moves, Kept
<1>9. CASE UNCHANGED vars
  BY <1>9, <1>0, Zenon DEF vars
<1>10. ASSUME NEW w \in Workers, Work(w) PROVE IInv'
  BY <1>10, <1>2, <1>3, <1>4, <1>5, <1>6, <1>7, <1>8, Zenon DEF Work
<1> QED
  BY <1>1, <1>9, <1>10, Zenon DEF Next

\* Whatever the number of threads and however their loads overlap, the VLM
\* exists before it is talked to (describer.py:94-100,115-131).
THEOREM EngineFirst == Spec => []NoChatWithoutEngine
<1>1. IInv => NoChatWithoutEngine
  <2> SUFFICES ASSUME IInv, NEW w \in Workers, At(w, "chat") PROVE engine
    BY Zenon DEF NoChatWithoutEngine
  <2>1. worker[w].stage \in Engineless \/ engine
    BY Zenon DEF IInv
  <2>2. ~(worker[w].stage \in Engineless)
    BY SMT DEF At, Engineless
  <2> QED
    BY <2>1, <2>2, Zenon
<1> QED
  BY <1>1, InitInv, StepInv, PTL DEF Spec

-----------------------------------------------------------------------------
(***************************************************************************)
(* Futures and tasks.  A thread holds a task, or none; a task is queued or *)
(* held; it is so once.                                                    *)
(***************************************************************************)
Detections == {Detect(s) : s \in Streams}
Descriptions == {Describe(s) : s \in Streams}

WorkerType ==
  {Idle} \cup [task : Detections, stage : {"detect"}]
         \cup [task : Descriptions, stage : DescribeStages]

Holds(f, w, x) == f[w].stage # "idle" /\ f[w].task = x

Queued(q, x) == \E i \in 1..Len(q) : q[i] = x

PendingIn(q, f, x) == Queued(q, x) \/ \E w \in Workers : Holds(f, w, x)

OnceIn(q, f) ==
  /\ \A i, j \in 1..Len(q) : q[i] = q[j] => i = j
  /\ \A w \in Workers : \A x : Holds(f, w, x) => ~Queued(q, x)
  /\ \A v, w \in Workers : \A x : Holds(f, v, x) /\ Holds(f, w, x) => v = w

Pending(x) == PendingIn(queue, worker, x)

\* Each future with its task.
Agree ==
  \A s \in Streams :
    /\ phase[s] # "closed" => (Pending(Detect(s)) <=> phase[s] = "detecting")
    /\ Pending(Describe(s)) <=> vlm_task[s] = "running"

SessionType ==
  /\ vlm \in Vlms
  /\ phase \in [Streams -> {"unopened", "idle", "detecting", "detected",
                            "failed", "closed"}]
  /\ vlm_task \in [Streams -> {"none", "running", "done"}]
  /\ engine \in BOOLEAN /\ loaded \in BOOLEAN

PoolInv ==
  queue \in Seq(Tasks) /\ worker \in [Workers -> WorkerType] /\ OnceIn(queue, worker)

FInv == SessionType /\ PoolInv /\ Agree

\* Tasks are told apart by their kind and their stream.
LEMMA TaskNames ==
  ASSUME NEW s, NEW t
  PROVE  /\ Detect(s) # Describe(t) /\ Detect(s).stream = s /\ Describe(s).stream = s
         /\ Detect(s) = Detect(t) => s = t
         /\ Describe(s) = Describe(t) => s = t
         /\ Detect(s).kind = "detect" /\ Describe(s).kind = "describe"
<1>1. /\ Detect(s).stream = s /\ Describe(s).stream = s /\ Detect(t).stream = t
      /\ Describe(t).stream = t /\ Detect(s).kind = "detect" /\ Describe(s).kind = "describe"
      /\ Describe(t).kind = "describe" /\ "detect" # "describe"
  BY SMT DEF Detect, Describe
<1> QED
  BY <1>1, Zenon

\* A task joins the queue.
LEMMA Appended ==
  ASSUME NEW q \in Seq(Tasks), NEW f, NEW t \in Tasks, OnceIn(q, f), ~PendingIn(q, f, t)
  PROVE  /\ Append(q, t) \in Seq(Tasks) /\ OnceIn(Append(q, t), f)
         /\ \A x : PendingIn(Append(q, t), f, x) <=> PendingIn(q, f, x) \/ x = t
<1> DEFINE p == Append(q, t)
<1>1. /\ p \in Seq(Tasks) /\ Len(p) = Len(q) + 1 /\ p[Len(q) + 1] = t
      /\ \A i \in 1..Len(q) : p[i] = q[i]
  BY AppendProperties, SMT
<1>2. Len(q) \in Nat
  BY LenProperties, Zenon
<1> HIDE DEF p
<1>a. \A n \in Nat : \A i \in 1..n + 1 : i \in 1..n \/ i = n + 1
  BY SMT
<1>3. \A i \in 1..Len(p) : (i \in 1..Len(q) /\ p[i] = q[i]) \/ (i = Len(q) + 1 /\ p[i] = t)
  <2> SUFFICES ASSUME NEW i \in 1..Len(p)
               PROVE  (i \in 1..Len(q) /\ p[i] = q[i]) \/ (i = Len(q) + 1 /\ p[i] = t)
    OBVIOUS
  <2>1. i \in 1..Len(q) + 1
    BY <1>1, Zenon
  <2>2. i \in 1..Len(q) \/ i = Len(q) + 1
    BY <1>2, <1>a, <2>1, Zenon
  <2>3. i = Len(q) + 1 => p[i] = t
    BY <1>1, Zenon
  <2>4. i \in 1..Len(q) => p[i] = q[i]
    BY <1>1, Zenon
  <2> QED
    BY <2>2, <2>3, <2>4, Zenon
<1>4. \A i \in 1..Len(q) : i \in 1..Len(p)
  BY <1>1, <1>2, SMT
<1>5. Len(q) + 1 \in 1..Len(p)
  BY <1>1, <1>2, SMT
<1>6. \A x : Queued(p, x) <=> Queued(q, x) \/ x = t
  BY <1>1, <1>3, <1>4, <1>5, Zenon DEF Queued
<1>7. \A x : PendingIn(p, f, x) <=> PendingIn(q, f, x) \/ x = t
  BY <1>6, Zenon DEF PendingIn
<1>8. ~Queued(q, t) /\ \A w \in Workers : ~Holds(f, w, t)
  BY Zenon DEF PendingIn
<1>9. \A i, j \in 1..Len(p) : p[i] = p[j] => i = j
  BY <1>3, <1>8, Zenon DEF OnceIn, Queued
<1>10. OnceIn(p, f)
  BY <1>6, <1>8, <1>9, Zenon DEF OnceIn
<1> QED
  BY <1>1, <1>7, <1>10, Zenon DEF p

\* A task leaves the queue.
LEMMA Withdrawn ==
  ASSUME NEW q \in Seq(Tasks), NEW f, NEW k \in 1..Len(q), OnceIn(q, f)
  PROVE  /\ RemoveAt(q, k) \in Seq(Tasks) /\ OnceIn(RemoveAt(q, k), f)
         /\ \A x : Queued(RemoveAt(q, k), x) <=> Queued(q, x) /\ x # q[k]
<1> DEFINE p == RemoveAt(q, k)
<1>0. Len(q) \in Nat
  BY LenProperties, Zenon
<1>1. /\ p \in Seq(Tasks) /\ Len(p) = Len(q) - 1
      /\ \A i \in 1..Len(p) : p[i] = IF i < k THEN q[i] ELSE q[i + 1]
  <2> DEFINE left == SubSeq(q, 1, k - 1)
             right == SubSeq(q, k + 1, Len(q))
  <2>1. left \in Seq(Tasks) /\ Len(left) = k - 1 /\ \A i \in 1..k - 1 : left[i] = q[i]
    BY <1>0, SMT
  <2>2. /\ right \in Seq(Tasks) /\ Len(right) = Len(q) - k
        /\ \A i \in 1..Len(q) - k : right[i] = q[k + i]
    BY <1>0, SMT
  <2>3. p = left \o right
    BY Zenon DEF RemoveAt
  <2> HIDE DEF left, right, p
  <2>4. /\ p \in Seq(Tasks) /\ Len(p) = Len(left) + Len(right)
        /\ \A i \in 1..Len(left) + Len(right) :
             p[i] = IF i <= Len(left) THEN left[i] ELSE right[i - Len(left)]
    BY <2>1, <2>2, <2>3, ConcatProperties, Zenon
  <2>5. ASSUME NEW i \in 1..Len(p) PROVE p[i] = IF i < k THEN q[i] ELSE q[i + 1]
    <3>1. i \in 1..Len(left) + Len(right)
      BY <2>4, Zenon
    <3>2. p[i] = IF i <= Len(left) THEN left[i] ELSE right[i - Len(left)]
      BY <2>4, <3>1, Zenon
    <3>3. CASE i < k
      <4>1. i <= Len(left) /\ i \in 1..k - 1
        BY <1>0, <2>1, <3>1, <3>3, SMT
      <4> QED
        BY <2>1, <3>2, <3>3, <4>1, Zenon
    <3>4. CASE ~(i < k)
      <4>1. /\ ~(i <= Len(left)) /\ i - Len(left) \in 1..Len(q) - k
            /\ k + (i - Len(left)) = i + 1
        BY <1>0, <2>1, <2>2, <3>1, <3>4, SMT
      <4> QED
        BY <2>2, <3>2, <3>4, <4>1, Zenon
    <3> QED
      BY <3>3, <3>4, Zenon
  <2>6. Len(p) = Len(q) - 1
    BY <1>0, <2>1, <2>2, <2>4, SMT
  <2> QED
    BY <2>4, <2>5, <2>6
<1> HIDE DEF p
<1>2. ASSUME NEW i \in 1..Len(p)
      PROVE  \E j \in 1..Len(q) : j # k /\ p[i] = q[j] /\ j = IF i < k THEN i ELSE i + 1
  <2>1. p[i] = IF i < k THEN q[i] ELSE q[i + 1]
    BY <1>1, Zenon
  <2>2. (IF i < k THEN i ELSE i + 1) \in (1..Len(q)) \ {k}
    BY <1>0, <1>1, SMT
  <2>3. p[i] = q[IF i < k THEN i ELSE i + 1]
    BY <2>1, Zenon
  <2> QED
    BY <2>2, <2>3, Zenon
<1>3. ASSUME NEW j \in 1..Len(q), j # k PROVE \E i \in 1..Len(p) : p[i] = q[j]
  <2> DEFINE i == IF j < k THEN j ELSE j - 1
  <2>1. i \in 1..Len(p) /\ p[i] = q[j]
    BY <1>0, <1>1, <1>3, SMT
  <2> QED
    BY <2>1
<1>4. \A x : Queued(p, x) <=> Queued(q, x) /\ x # q[k]
  <2>1. ASSUME NEW x, Queued(p, x) PROVE Queued(q, x) /\ x # q[k]
    <3>1. PICK i \in 1..Len(p) : p[i] = x
      BY <2>1, Zenon DEF Queued
    <3>2. PICK j \in 1..Len(q) : j # k /\ x = q[j]
      BY <1>2, <3>1, Zenon
    <3> QED
      BY <3>2, Zenon DEF Queued, OnceIn
  <2>2. ASSUME NEW x, Queued(q, x), x # q[k] PROVE Queued(p, x)
    BY <1>3, <2>2, Zenon DEF Queued
  <2> QED
    BY <2>1, <2>2, Zenon
<1>5. \A i, j \in 1..Len(p) : p[i] = p[j] => i = j
  <2> SUFFICES ASSUME NEW i \in 1..Len(p), NEW j \in 1..Len(p), p[i] = p[j] PROVE i = j
    OBVIOUS
  <2>1. PICK a \in 1..Len(q) : p[i] = q[a] /\ a = IF i < k THEN i ELSE i + 1
    BY <1>2
  <2>2. PICK b \in 1..Len(q) : p[j] = q[b] /\ b = IF j < k THEN j ELSE j + 1
    BY <1>2
  <2>3. a = b
    BY <2>1, <2>2, Zenon DEF OnceIn
  <2> QED
    BY <1>0, <1>1, <2>1, <2>2, <2>3, SMT
<1>6. OnceIn(p, f)
  BY <1>4, <1>5, Zenon DEF OnceIn
<1> QED
  BY <1>1, <1>4, <1>6, Zenon DEF p

\* A thread takes a task that nobody holds.
LEMMA Taken ==
  ASSUME NEW q, NEW f, NEW g, NEW w \in Workers, NEW t, OnceIn(q, f),
         \A v \in Workers \ {w} : g[v] = f[v],
         \A x : ~Holds(f, w, x), \A x : Holds(g, w, x) <=> x = t,
         ~PendingIn(q, f, t)
  PROVE  OnceIn(q, g) /\ \A x : PendingIn(q, g, x) <=> PendingIn(q, f, x) \/ x = t
<1>1. \A v \in Workers \ {w} : \A x : Holds(g, v, x) <=> Holds(f, v, x)
  BY Zenon DEF Holds
<1>2. /\ \A v \in Workers : \A x : Holds(g, v, x) /\ x # t => Holds(f, v, x)
      /\ \A x : Holds(g, w, x) => x = t
  BY <1>1, Zenon
<1>3. \A v \in Workers : \A x : Holds(f, v, x) => Holds(g, v, x)
  BY <1>1, Zenon
<1>4. Holds(g, w, t)
  BY Zenon
<1>5. ~Queued(q, t) /\ \A v \in Workers : ~Holds(f, v, t)
  BY Zenon DEF PendingIn
<1>6. \A v \in Workers : Holds(g, v, t) => v = w
  BY <1>1, <1>5, Zenon
<1>7. ASSUME NEW x PROVE PendingIn(q, g, x) <=> PendingIn(q, f, x) \/ x = t
  <2>1. CASE x = t
    BY <1>4, <2>1, Zenon DEF PendingIn
  <2>2. CASE x # t
    BY <1>2, <1>3, <2>2, Zenon DEF PendingIn
  <2> QED
    BY <2>1, <2>2, Zenon
<1>8. ASSUME NEW v \in Workers, NEW x, Holds(g, v, x) PROVE ~Queued(q, x)
  <2>1. CASE x = t
    BY <1>5, <2>1, Zenon
  <2>2. CASE x # t
    BY <1>2, <1>8, <2>2, Zenon DEF OnceIn
  <2> QED
    BY <2>1, <2>2, Zenon
<1>9. ASSUME NEW u \in Workers, NEW v \in Workers, NEW x, Holds(g, u, x), Holds(g, v, x)
      PROVE  u = v
  <2>1. CASE x = t
    BY <1>6, <1>9, <2>1, Zenon
  <2>2. CASE x # t
    BY <1>2, <1>9, <2>2, Zenon DEF OnceIn
  <2> QED
    BY <2>1, <2>2, Zenon
<1> QED
  BY <1>7, <1>8, <1>9, Zenon DEF OnceIn

\* A thread is done with its task.
LEMMA Dropped ==
  ASSUME NEW q, NEW f, NEW g, NEW w \in Workers, NEW t, OnceIn(q, f),
         \A v \in Workers \ {w} : g[v] = f[v],
         Holds(f, w, t), \A x : ~Holds(g, w, x)
  PROVE  OnceIn(q, g) /\ \A x : PendingIn(q, g, x) <=> PendingIn(q, f, x) /\ x # t
<1>1. \A v \in Workers : \A x : Holds(g, v, x) <=> Holds(f, v, x) /\ v # w
  BY Zenon DEF Holds
<1>2. \A x : Holds(f, w, x) => x = t
  BY Zenon DEF Holds
<1>3. OnceIn(q, g)
  BY <1>1, Zenon DEF OnceIn
<1>4. ASSUME NEW x PROVE PendingIn(q, g, x) <=> PendingIn(q, f, x) /\ x # t
  <2>1. PendingIn(q, g, x) => PendingIn(q, f, x)
    BY <1>1, Zenon DEF PendingIn
  <2>2. ~PendingIn(q, g, t)
    BY <1>1, Zenon DEF PendingIn, OnceIn
  <2>3. PendingIn(q, f, x) /\ x # t => PendingIn(q, g, x)
    BY <1>1, <1>2, Zenon DEF PendingIn
  <2> QED
    BY <2>1, <2>2, <2>3, Zenon
<1> QED
  BY <1>3, <1>4, Zenon

\* A thread goes on with its task.
LEMMA GoesOn ==
  ASSUME NEW q, NEW f, NEW g, NEW w \in Workers, OnceIn(q, f),
         \A v \in Workers \ {w} : g[v] = f[v],
         \A x : Holds(g, w, x) <=> Holds(f, w, x)
  PROVE  OnceIn(q, g) /\ \A x : PendingIn(q, g, x) <=> PendingIn(q, f, x)
<1>1. \A v \in Workers : \A x : Holds(g, v, x) <=> Holds(f, v, x)
  BY Zenon DEF Holds
<1> QED
  BY <1>1, Zenon DEF OnceIn, PendingIn

-----------------------------------------------------------------------------
\* What a thread may be doing, and what it holds.
LEMMA Thread ==
  ASSUME NEW r \in WorkerType
  PROVE  \/ r = Idle /\ r.stage = "idle"
         \/ r.stage = "detect" /\ \E s \in Streams : r.task = Detect(s)
         \/ /\ r.stage \in DescribeStages /\ \E s \in Streams : r.task = Describe(s)
            /\ r \in [task : Descriptions, stage : DescribeStages]
<1>1. CASE r = Idle
  BY <1>1, SMT DEF Idle
<1>2. CASE r \in [task : Detections, stage : {"detect"}]
  BY <1>2, SMT DEF Detections
<1>3. CASE r \in [task : Descriptions, stage : DescribeStages]
  <2>1. r.stage \in DescribeStages /\ r.task \in Descriptions
    BY <1>3, SMT
  <2> QED
    BY <1>3, <2>1, Zenon DEF Descriptions
<1> QED
  BY <1>1, <1>2, <1>3, Zenon DEF WorkerType

\* A thread drops its task.
LEMMA Released ==
  ASSUME PoolInv, NEW w \in Workers, NEW t, Holds(worker, w, t),
         worker' = [worker EXCEPT ![w] = Idle], UNCHANGED queue
  PROVE  PoolInv' /\ \A x : Pending(x)' <=> Pending(x) /\ x # t
<1>1. /\ worker' \in [Workers -> WorkerType] /\ worker'[w] = Idle
      /\ \A v \in Workers \ {w} : worker'[v] = worker[v]
  BY SMT DEF PoolInv, WorkerType
<1>2. \A x : ~Holds(worker', w, x)
  BY <1>1, SMT DEF Holds, Idle
<1>3. OnceIn(queue, worker') /\ \A x : PendingIn(queue, worker', x) <=> PendingIn(queue, worker, x) /\ x # t
  BY <1>1, <1>2, Dropped, Zenon DEF PoolInv
<1> QED
  BY <1>1, <1>3, Zenon DEF PoolInv, Pending

\* A thread goes on to another stage of describe().
LEMMA Staged ==
  ASSUME PoolInv, NEW w \in Workers, NEW stage \in DescribeStages,
         worker[w].stage \in DescribeStages, Goto(w, stage), UNCHANGED queue
  PROVE  PoolInv' /\ \A x : Pending(x)' <=> Pending(x)
<1>1. worker[w] \in [task : Descriptions, stage : DescribeStages]
  <2>1. worker[w] \in WorkerType
    BY SMT DEF PoolInv
  <2>2. "idle" \notin DescribeStages /\ "detect" \notin DescribeStages
    BY SMT DEF DescribeStages
  <2> QED
    BY <2>1, <2>2, Thread, Zenon
<1>2. /\ worker' = [worker EXCEPT ![w] = [task |-> worker[w].task, stage |-> stage]]
  <2> DEFINE r == worker[w]
  <2>1. worker' = [worker EXCEPT ![w] = [r EXCEPT !.stage = stage]]
    BY Zenon DEF Goto
  <2>2. r \in [task : Descriptions, stage : DescribeStages]
    BY <1>1
  <2> HIDE DEF r
  <2>3. [r EXCEPT !.stage = stage] = [task |-> r.task, stage |-> stage]
    BY <2>2, SMT
  <2> QED
    BY <2>1, <2>3, Zenon DEF r
<1>3. [task |-> worker[w].task, stage |-> stage] \in [task : Descriptions, stage : DescribeStages]
  BY <1>1, SMT
<1>4. /\ worker' \in [Workers -> WorkerType]
      /\ worker'[w] = [task |-> worker[w].task, stage |-> stage]
      /\ \A v \in Workers \ {w} : worker'[v] = worker[v]
  BY <1>2, <1>3, SMT DEF PoolInv, WorkerType
<1>5. stage # "idle" /\ worker[w].stage # "idle"
  BY SMT DEF DescribeStages
<1>6. worker'[w].task = worker[w].task /\ worker'[w].stage = stage
  BY <1>4, SMT
<1>7. \A x : Holds(worker', w, x) <=> Holds(worker, w, x)
  BY <1>5, <1>6, Zenon DEF Holds
<1>8. OnceIn(queue, worker') /\ \A x : PendingIn(queue, worker', x) <=> PendingIn(queue, worker, x)
  BY <1>4, <1>7, GoesOn, Zenon DEF PoolInv
<1> QED
  BY <1>4, <1>8, Zenon DEF PoolInv, Pending

\* A task is submitted.
LEMMA Submitted ==
  ASSUME PoolInv, NEW t \in Tasks, ~Pending(t), queue' = Append(queue, t), UNCHANGED worker
  PROVE  PoolInv' /\ \A x : Pending(x)' <=> Pending(x) \/ x = t
<1>1. /\ Append(queue, t) \in Seq(Tasks) /\ OnceIn(Append(queue, t), worker)
      /\ \A x : PendingIn(Append(queue, t), worker, x) <=> PendingIn(queue, worker, x) \/ x = t
  BY Appended, Zenon DEF PoolInv, Pending
<1> QED
  BY <1>1, Zenon DEF PoolInv, Pending

\* A free thread takes the first task.
LEMMA TakeStep ==
  ASSUME PoolInv, NEW w \in Workers, Take(w)
  PROVE  PoolInv' /\ \A x : Pending(x)' <=> Pending(x)
<1> DEFINE t == queue[1]
           r == [task |-> t, stage |-> FirstStage(t)]
<1>1. /\ worker[w].stage = "idle" /\ queue # <<>> /\ queue' = RemoveAt(queue, 1)
      /\ worker' = [worker EXCEPT ![w] = r]
  BY Zenon DEF Take, At, NextPlace
<1>2. 1 \in 1..Len(queue) /\ t \in Tasks
  BY <1>1, SMT DEF PoolInv
<1>3. r \in WorkerType /\ r.stage # "idle" /\ r.task = t
  <2>1. CASE t \in Detections
    <3>1. t.kind = "detect"
      BY <2>1, SMT DEF Detections, Detect
    <3>2. FirstStage(t) = "detect"
      BY <3>1, Zenon DEF FirstStage
    <3> HIDE DEF t
    <3> QED
      BY <2>1, <3>2, SMT DEF WorkerType
  <2>2. CASE t \in Descriptions
    <3>1. t.kind = "describe"
      BY <2>2, SMT DEF Descriptions, Describe
    <3>2. FirstStage(t) = "entered"
      BY <3>1, SMT DEF FirstStage
    <3> HIDE DEF t
    <3> QED
      BY <2>2, <3>2, SMT DEF WorkerType, DescribeStages
  <2> QED
    BY <1>2, <2>1, <2>2, Zenon DEF Tasks, Detections, Descriptions
<1> HIDE DEF r
<1>4. /\ worker' \in [Workers -> WorkerType] /\ worker'[w] = r
      /\ \A v \in Workers \ {w} : worker'[v] = worker[v]
  BY <1>1, <1>3, SMT DEF PoolInv
<1>5. /\ RemoveAt(queue, 1) \in Seq(Tasks) /\ OnceIn(RemoveAt(queue, 1), worker)
      /\ \A x : Queued(RemoveAt(queue, 1), x) <=> Queued(queue, x) /\ x # t
  BY <1>2, Withdrawn, Zenon DEF PoolInv
<1>6. queue' \in Seq(Tasks) /\ OnceIn(queue', worker)
      /\ \A x : Queued(queue', x) <=> Queued(queue, x) /\ x # t
  BY <1>1, <1>5, Zenon
<1>7. Queued(queue, t)
  BY <1>2, Zenon DEF Queued
<1>8. ~PendingIn(queue', worker, t)
  BY <1>6, <1>7, Zenon DEF PendingIn, PoolInv, OnceIn
<1>9. /\ \A x : ~Holds(worker, w, x)
      /\ \A x : Holds(worker', w, x) <=> x = t
  BY <1>1, <1>3, <1>4, Zenon DEF Holds
<1> HIDE DEF t
<1>10. OnceIn(queue', worker')
       /\ \A x : PendingIn(queue', worker', x) <=> PendingIn(queue', worker, x) \/ x = t
  BY <1>4, <1>6, <1>8, <1>9, Taken, Zenon
<1>11. \A x : PendingIn(queue', worker, x) \/ x = t <=> PendingIn(queue, worker, x)
  BY <1>6, <1>7, Zenon DEF PendingIn
<1> QED
  BY <1>4, <1>6, <1>10, <1>11, Zenon DEF PoolInv, Pending

\* A cancelled stream withdraws its detection if no thread has it.
LEMMA CancelStep ==
  ASSUME PoolInv, NEW s \in Streams, Cancel(s)
  PROVE  PoolInv' /\ \A x : x # Detect(s) => (Pending(x)' <=> Pending(x))
<1>1. worker' = worker
  BY Zenon DEF Cancel, pool
<1>2. CASE queue' = queue
  BY <1>1, <1>2, Zenon DEF PoolInv, Pending
<1>3. ASSUME NEW i \in DOMAIN queue, queue[i] = Detect(s), queue' = RemoveAt(queue, i)
      PROVE  PoolInv' /\ \A x : x # Detect(s) => (Pending(x)' <=> Pending(x))
  <2>1. i \in 1..Len(queue)
    BY SMT DEF PoolInv
  <2>2. /\ RemoveAt(queue, i) \in Seq(Tasks) /\ OnceIn(RemoveAt(queue, i), worker)
        /\ \A x : Queued(RemoveAt(queue, i), x) <=> Queued(queue, x) /\ x # queue[i]
    BY <2>1, Withdrawn, Zenon DEF PoolInv
  <2> QED
    BY <1>1, <1>3, <2>2, Zenon DEF PoolInv, Pending, PendingIn
<1> QED
  BY <1>2, <1>3, Zenon DEF Cancel

-----------------------------------------------------------------------------
\* The steps of a stream.
LEMMA StreamStep ==
  ASSUME FInv, NEW s \in Streams, Open(s) \/ Receive(s) \/ Resume(s) \/ Abort(s) \/ Cancel(s)
  PROVE  FInv'
<1> USE DEF FInv
<1>a. Detect(s) \in Tasks /\ Describe(s) \in Tasks
  BY Zenon DEF Tasks
<1>b. \A t \in Streams : Detect(t) = Detect(s) => t = s
  BY TaskNames, Zenon
<1>c. \A t \in Streams : Describe(t) = Describe(s) => t = s
  BY TaskNames, Zenon
<1>d. \A t \in Streams : Detect(t) # Describe(s) /\ Describe(t) # Detect(s)
  BY TaskNames, Zenon
<1>1. ASSUME UNCHANGED <<queue, worker>> PROVE PoolInv' /\ \A x : Pending(x)' <=> Pending(x)
  BY <1>1, Zenon DEF PoolInv, Pending
<1>2. ASSUME NEW new, phase' = [phase EXCEPT ![s] = new]
      PROVE  phase'[s] = new /\ \A t \in Streams \ {s} : phase'[t] = phase[t]
  BY <1>2, SMT DEF SessionType
<1>3. CASE Open(s) \/ Abort(s)
  <2>1. UNCHANGED <<vlm, vlm_task, queue, worker, engine, loaded>>
    BY <1>3, Zenon DEF Open, Abort, pool
  <2>2. SessionType'
    BY <1>3, <2>1, SMT DEF Open, Abort, SessionType
  <2>3. Agree'
    <3>1. CASE Open(s)
      <4>1. phase[s] = "unopened" /\ phase' = [phase EXCEPT ![s] = "idle"]
        BY <3>1, Zenon DEF Open
      <4>2. phase[s] # "closed" /\ phase[s] # "detecting" /\ "idle" # "detecting"
        BY <4>1, SMT
      <4> QED
        BY <1>1, <1>2, <2>1, <4>1, <4>2, Zenon DEF Agree
    <3>2. CASE Abort(s)
      <4>1. phase' = [phase EXCEPT ![s] = "closed"]
        BY <3>2, Zenon DEF Abort
      <4> QED
        BY <1>1, <1>2, <2>1, <4>1, Zenon DEF Agree
    <3> QED
      BY <1>3, <3>1, <3>2, Zenon
  <2> QED
    BY <1>1, <2>1, <2>2, <2>3, Zenon
<1>4. CASE Receive(s)
  <2>1. /\ phase[s] = "idle" /\ phase' = [phase EXCEPT ![s] = "detecting"]
        /\ queue' = Append(queue, Detect(s))
        /\ UNCHANGED <<vlm, vlm_task, worker, engine, loaded>>
    BY <1>4, Zenon DEF Receive, pool
  <2>2. phase[s] # "closed" /\ phase[s] # "detecting"
    BY <2>1, SMT
  <2>3. ~Pending(Detect(s))
    BY <2>2, Zenon DEF Agree
  <2>4. PoolInv' /\ \A x : Pending(x)' <=> Pending(x) \/ x = Detect(s)
    BY <1>a, <2>1, <2>3, Submitted, Zenon
  <2>5. SessionType'
    BY <2>1, SMT DEF SessionType
  <2>6. Agree'
    BY <1>b, <1>d, <1>2, <2>1, <2>4, Zenon DEF Agree
  <2> QED
    BY <2>4, <2>5, <2>6, Zenon
<1>5. CASE Resume(s)
  <2>1. /\ phase[s] = "detected" /\ phase' = [phase EXCEPT ![s] = "idle"]
        /\ UNCHANGED <<vlm, worker, engine, loaded>>
    BY <1>5, Zenon DEF Resume, pool
  <2>2. phase[s] # "closed" /\ phase[s] # "detecting" /\ "idle" # "detecting"
    BY <2>1, SMT
  <2>3. CASE /\ MayAsk(s) /\ queue' = Append(queue, Describe(s))
             /\ vlm_task' = [vlm_task EXCEPT ![s] = "running"]
    <3>1. ~Pending(Describe(s))
      BY <2>3, Zenon DEF MayAsk, Agree
    <3>2. PoolInv' /\ \A x : Pending(x)' <=> Pending(x) \/ x = Describe(s)
      BY <1>a, <2>1, <2>3, <3>1, Submitted, Zenon
    <3>3. SessionType'
      BY <2>1, <2>3, SMT DEF SessionType
    <3>4. vlm_task'[s] = "running" /\ \A t \in Streams \ {s} : vlm_task'[t] = vlm_task[t]
      BY <2>3, SMT DEF SessionType
    <3>5. Agree'
      BY <1>c, <1>d, <1>2, <2>1, <2>2, <3>2, <3>4, Zenon DEF Agree
    <3> QED
      BY <3>2, <3>3, <3>5, Zenon
  <2>4. CASE /\ queue' = queue
             /\ vlm_task' = [vlm_task EXCEPT ![s] = IF @ = "done" THEN "none" ELSE @]
    <3>1. SessionType'
      BY <2>1, <2>4, SMT DEF SessionType
    <3>2. \A t \in Streams : vlm_task'[t] = "running" <=> vlm_task[t] = "running"
      BY <2>4, SMT DEF SessionType
    <3>3. PoolInv' /\ \A x : Pending(x)' <=> Pending(x)
      BY <1>1, <2>1, <2>4, Zenon
    <3>4. Agree'
      BY <1>2, <2>1, <2>2, <3>2, <3>3, Zenon DEF Agree
    <3> QED
      BY <3>1, <3>3, <3>4, Zenon
  <2> QED
    BY <1>5, <2>3, <2>4, Zenon DEF Resume
<1>6. CASE Cancel(s)
  <2>1. phase' = [phase EXCEPT ![s] = "closed"] /\ UNCHANGED <<vlm, vlm_task, engine, loaded>>
    BY <1>6, Zenon DEF Cancel, pool
  <2>2. PoolInv' /\ \A x : x # Detect(s) => (Pending(x)' <=> Pending(x))
    BY <1>6, CancelStep, Zenon
  <2>3. SessionType'
    BY <2>1, SMT DEF SessionType
  <2>4. Agree'
    BY <1>b, <1>d, <1>2, <2>1, <2>2, Zenon DEF Agree
  <2> QED
    BY <2>2, <2>3, <2>4, Zenon
<1> QED
  BY <1>3, <1>4, <1>5, <1>6, Zenon

\* A thread is done: the future of its task is.
LEMMA DetectEndsStep ==
  ASSUME FInv, NEW w \in Workers, NEW outcome \in {"detected", "failed"}, DetectEnds(w, outcome)
  PROVE  FInv'
<1> USE DEF FInv
<1> DEFINE s == worker[w].task.stream
<1>1. worker[w] \in WorkerType /\ worker[w].stage = "detect"
  BY SMT DEF PoolInv, DetectEnds, At
<1>2. "detect" \notin DescribeStages /\ "detect" # "idle"
  BY SMT DEF DescribeStages
<1>3. PICK t \in Streams : worker[w].task = Detect(t)
  BY <1>1, <1>2, Thread, Zenon
<1>4. s = t
  BY <1>3, TaskNames, Zenon
<1>5. /\ worker' = [worker EXCEPT ![w] = Idle] /\ UNCHANGED <<vlm, vlm_task, queue, engine, loaded>>
      /\ phase' = IF phase[s] = "detecting" THEN [phase EXCEPT ![s] = outcome] ELSE phase
  BY Zenon DEF DetectEnds
<1> HIDE DEF s
<1>6. Holds(worker, w, Detect(t))
  BY <1>1, <1>2, <1>3, Zenon DEF Holds
<1>7. PoolInv' /\ \A x : Pending(x)' <=> Pending(x) /\ x # Detect(t)
  BY <1>5, <1>6, Released, Zenon
<1>8. Pending(Detect(t))
  BY <1>6, Zenon DEF Pending, PendingIn
<1>9. phase[t] = "closed" \/ phase[t] = "detecting"
  BY <1>8, Zenon DEF Agree
<1>10. SessionType'
  <2>1. [phase EXCEPT ![s] = outcome]
          \in [Streams -> {"unopened", "idle", "detecting", "detected", "failed", "closed"}]
    BY <1>4, SMT DEF SessionType
  <2> QED
    BY <1>5, <2>1, Zenon DEF SessionType
<1>11. /\ phase'[t] # "detecting"
       /\ phase[t] = "closed" => phase'[t] = "closed"
       /\ \A u \in Streams \ {t} : phase'[u] = phase[u]
  BY <1>4, <1>5, <1>9, SMT DEF SessionType
<1>12. /\ \A u \in Streams : Detect(u) = Detect(t) => u = t
       /\ \A u \in Streams : Describe(u) # Detect(t)
  BY TaskNames, Zenon
<1>13. Agree'
  BY <1>5, <1>7, <1>11, <1>12, Zenon DEF Agree
<1> QED
  BY <1>7, <1>10, <1>13, Zenon

LEMMA FinishStep ==
  ASSUME FInv, NEW w \in Workers, worker[w].stage \in DescribeStages, Finish(w)
  PROVE  FInv'
<1> USE DEF FInv
<1> DEFINE s == worker[w].task.stream
<1>1. worker[w] \in WorkerType
  BY SMT DEF PoolInv
<1>2. "detect" \notin DescribeStages /\ "idle" \notin DescribeStages
  BY SMT DEF DescribeStages
<1>3. PICK t \in Streams : worker[w].task = Describe(t)
  BY <1>1, <1>2, Thread, Zenon
<1>4. s = t
  BY <1>3, TaskNames, Zenon
<1>5. /\ worker' = [worker EXCEPT ![w] = Idle] /\ UNCHANGED <<vlm, phase, queue, engine, loaded>>
      /\ vlm_task' = [vlm_task EXCEPT ![s] = "done"]
  BY Zenon DEF Finish
<1> HIDE DEF s
<1>6. Holds(worker, w, Describe(t))
  BY <1>2, <1>3, Zenon DEF Holds
<1>7. PoolInv' /\ \A x : Pending(x)' <=> Pending(x) /\ x # Describe(t)
  BY <1>5, <1>6, Released, Zenon
<1>8. SessionType'
  BY <1>4, <1>5, SMT DEF SessionType
<1>9. vlm_task'[t] # "running" /\ \A u \in Streams \ {t} : vlm_task'[u] = vlm_task[u]
  BY <1>4, <1>5, SMT DEF SessionType
<1>10. /\ \A u \in Streams : Describe(u) = Describe(t) => u = t
       /\ \A u \in Streams : Detect(u) # Describe(t)
  BY TaskNames, Zenon
<1>11. Agree'
  BY <1>5, <1>7, <1>9, <1>10, Zenon DEF Agree
<1> QED
  BY <1>7, <1>8, <1>11, Zenon

LEMMA FStep == FInv /\ [Next]_vars => FInv'
<1> SUFFICES ASSUME FInv, [Next]_vars PROVE FInv'
  OBVIOUS
<1>1. ASSUME NEW w \in Workers, Take(w) PROVE FInv'
  <2>1. PoolInv' /\ \A x : Pending(x)' <=> Pending(x)
    BY <1>1, TakeStep, Zenon DEF FInv
  <2>2. UNCHANGED <<vlm, phase, vlm_task, engine, loaded>>
    BY <1>1, Zenon DEF Take
  <2>3. SessionType'
    BY <2>2, Zenon DEF FInv, SessionType
  <2>4. Agree'
    BY <2>1, <2>2, Zenon DEF FInv, Agree
  <2> QED
    BY <2>1, <2>3, <2>4, Zenon DEF FInv
<1>2. ASSUME NEW w \in Workers, NEW stage \in DescribeStages, Goto(w, stage),
             worker[w].stage \in DescribeStages,
             UNCHANGED <<vlm, phase, vlm_task, queue>>,
             engine' \in BOOLEAN, loaded' \in BOOLEAN
      PROVE  FInv'
  <2>1. PoolInv' /\ \A x : Pending(x)' <=> Pending(x)
    BY <1>2, Staged, Zenon DEF FInv
  <2>2. SessionType'
    BY <1>2, Zenon DEF FInv, SessionType
  <2>3. Agree'
    BY <1>2, <2>1, Zenon DEF FInv, Agree
  <2> QED
    BY <2>1, <2>2, <2>3, Zenon DEF FInv
<1>s. /\ "entered" \in DescribeStages /\ "load" \in DescribeStages /\ "construct" \in DescribeStages
      /\ "flag" \in DescribeStages /\ "chat" \in DescribeStages
  BY Zenon DEF DescribeStages
<1>b. engine \in BOOLEAN /\ loaded \in BOOLEAN
  BY Zenon DEF FInv, SessionType
<1>3. ASSUME NEW w \in Workers, Enter(w) \/ Load(w) PROVE FInv'
  <2>1. PICK stage \in DescribeStages : Goto(w, stage)
    BY <1>3, <1>s, Zenon DEF Enter, Load
  <2>2. worker[w].stage \in DescribeStages
    BY <1>3, <1>s, Zenon DEF Enter, Load, At
  <2>3. UNCHANGED <<vlm, phase, vlm_task, queue, engine, loaded>>
    BY <1>3, Zenon DEF Enter, Load
  <2> QED
    BY <1>2, <1>b, <2>1, <2>2, <2>3, Zenon
<1>4. ASSUME NEW w \in Workers, Construct(w) \/ Flag(w) PROVE FInv'
  <2>1. PICK stage \in DescribeStages : Goto(w, stage)
    BY <1>4, <1>s, Zenon DEF Construct, Flag
  <2>2. worker[w].stage \in DescribeStages
    BY <1>4, <1>s, Zenon DEF Construct, Flag, At
  <2>3. UNCHANGED <<vlm, phase, vlm_task, queue>> /\ engine' \in BOOLEAN /\ loaded' \in BOOLEAN
    BY <1>4, <1>b, Zenon DEF Construct, Flag
  <2> QED
    BY <1>2, <2>1, <2>2, <2>3, Zenon
<1>5. ASSUME NEW w \in Workers, Summary(w) \/ ImportFails(w) \/ ConstructFails(w) \/ Chat(w)
      PROVE  FInv'
  <2>1. worker[w].stage \in DescribeStages /\ Finish(w)
    BY <1>5, <1>s, Zenon DEF Summary, ImportFails, ConstructFails, Chat, At
  <2> QED
    BY <2>1, FinishStep, Zenon
<1>6. CASE UNCHANGED vars
  <2>1. PoolInv' /\ \A x : Pending(x)' <=> Pending(x)
    BY <1>6, Zenon DEF vars, FInv, PoolInv, Pending
  <2>2. SessionType' /\ Agree'
    BY <1>6, <2>1, Zenon DEF vars, FInv, SessionType, Agree
  <2> QED
    BY <2>1, <2>2, Zenon DEF FInv
<1>7. ASSUME NEW w \in Workers, Work(w) PROVE FInv'
  BY <1>1, <1>3, <1>4, <1>5, <1>7, DetectEndsStep, Zenon DEF Work
<1> QED
  BY <1>6, <1>7, StreamStep, Zenon DEF Next

LEMMA FInit == Init => FInv
<1> SUFFICES ASSUME Init PROVE FInv
  OBVIOUS
<1>1. SessionType
  <2>1. engine \in BOOLEAN /\ loaded \in BOOLEAN /\ vlm \in Vlms
    BY Zenon DEF Init
  <2>2. /\ phase \in [Streams -> {"unopened", "idle", "detecting", "detected",
                                  "failed", "closed"}]
        /\ vlm_task \in [Streams -> {"none", "running", "done"}]
    BY SMT DEF Init
  <2> QED
    BY <2>1, <2>2, Zenon DEF SessionType
<1>2. queue \in Seq(Tasks) /\ \A x : ~Queued(queue, x)
  BY SMT DEF Init, Queued
<1>3. worker \in [Workers -> WorkerType] /\ \A w \in Workers : worker[w] = Idle
  BY SMT DEF Init, WorkerType
<1>4. \A w \in Workers : \A x : ~Holds(worker, w, x)
  BY <1>3, SMT DEF Holds, Idle
<1>5. OnceIn(queue, worker)
  BY <1>2, <1>4, SMT DEF OnceIn, Queued
<1>6. \A x : ~Pending(x)
  BY <1>2, <1>4, Zenon DEF Pending, PendingIn
<1>7. \A s \in Streams : phase[s] # "detecting" /\ vlm_task[s] # "running"
  BY SMT DEF Init
<1> QED
  BY <1>1, <1>2, <1>3, <1>5, <1>6, <1>7, Zenon DEF FInv, PoolInv, Agree

\* A task that is outstanding is so once.
LEMMA Counted ==
  ASSUME PoolInv, NEW x PROVE Outstanding(x) = IF Pending(x) THEN 1 ELSE 0
<1> DEFINE places == {i \in DOMAIN queue : queue[i] = x}
           threads == {w \in Workers : ~At(w, "idle") /\ worker[w].task = x}
<1>0. DOMAIN queue = 1..Len(queue)
  BY SMT DEF PoolInv
<1>1. Queued(queue, x) => Cardinality(places) = 1 /\ threads = {}
  <2> SUFFICES ASSUME Queued(queue, x) PROVE Cardinality(places) = 1 /\ threads = {}
    OBVIOUS
  <2>1. PICK i \in 1..Len(queue) : queue[i] = x
    BY Zenon DEF Queued
  <2>2. places = {i}
    BY <1>0, <2>1, Zenon DEF PoolInv, OnceIn
  <2>3. threads = {}
    BY Zenon DEF PoolInv, OnceIn, Holds, At
  <2> HIDE DEF places
  <2> QED
    BY <2>2, <2>3, FS_Singleton, Zenon
<1>2. ASSUME NEW w \in Workers, Holds(worker, w, x)
      PROVE  Cardinality(threads) = 1 /\ places = {}
  <2>1. threads = {w}
    BY <1>2, Zenon DEF PoolInv, OnceIn, Holds, At
  <2>2. places = {}
    BY <1>0, <1>2, Zenon DEF PoolInv, OnceIn, Queued
  <2> HIDE DEF threads
  <2> QED
    BY <2>1, <2>2, FS_Singleton, Zenon
<1>3. ~Queued(queue, x) => places = {}
  BY <1>0, Zenon DEF Queued
<1>4. (\A w \in Workers : ~Holds(worker, w, x)) => threads = {}
  BY Zenon DEF Holds, At
<1>5. Outstanding(x) = Cardinality(places) + Cardinality(threads)
  BY Zenon DEF Outstanding
<1>6. Cardinality({}) = 0
  BY FS_EmptySet
<1>7. Pending(x) <=> Queued(queue, x) \/ \E w \in Workers : Holds(worker, w, x)
  BY Zenon DEF Pending, PendingIn
<1> HIDE DEF places, threads
<1>8. CASE Queued(queue, x)
  <2>1. Cardinality(places) = 1 /\ Cardinality(threads) = 0 /\ Pending(x)
    BY <1>1, <1>6, <1>7, <1>8, Zenon
  <2> QED
    BY <1>5, <2>1, SMT
<1>9. CASE \E w \in Workers : Holds(worker, w, x)
  <2>1. Cardinality(threads) = 1 /\ Cardinality(places) = 0 /\ Pending(x)
    BY <1>2, <1>6, <1>7, <1>9, Zenon
  <2> QED
    BY <1>5, <2>1, SMT
<1>10. CASE ~Queued(queue, x) /\ \A w \in Workers : ~Holds(worker, w, x)
  <2>1. Cardinality(threads) = 0 /\ Cardinality(places) = 0 /\ ~Pending(x)
    BY <1>3, <1>4, <1>6, <1>7, <1>10, Zenon
  <2> QED
    BY <1>5, <2>1, SMT
<1> QED
  BY <1>8, <1>9, <1>10, Zenon

\* Every piece of state keeps its type, for any number of streams and threads
\* (server.py:83-102,127, describer.py:88-136).
THEOREM TypeCorrect == Spec => []TypeOK
<1>1. FInv => TypeOK
  BY Zenon DEF FInv, SessionType, PoolInv, WorkerType, Detections, Descriptions, TypeOK
<1> QED
  BY <1>1, FInit, FStep, PTL DEF Spec

\* Whatever the number of streams and threads, and whatever is cancelled or
\* fails, the futures the sessions hold and the tasks of the pool agree
\* (pipeline.py:54,87,102, server.py:127).
THEOREM FuturesAgree == Spec => []FuturesMatchPool
<1>1. FInv => FuturesMatchPool
  <2> SUFFICES ASSUME FInv, NEW s \in Streams
               PROVE  /\ Outstanding(Detect(s)) <= 1
                      /\ phase[s] # "closed" =>
                           (Outstanding(Detect(s)) = 1 <=> phase[s] = "detecting")
                      /\ Outstanding(Describe(s)) = IF vlm_task[s] = "running" THEN 1 ELSE 0
    BY Zenon DEF FuturesMatchPool
  <2>1. /\ Outstanding(Detect(s)) = IF Pending(Detect(s)) THEN 1 ELSE 0
        /\ Outstanding(Describe(s)) = IF Pending(Describe(s)) THEN 1 ELSE 0
    BY Counted, Zenon DEF FInv
  <2>2. /\ phase[s] # "closed" => (Pending(Detect(s)) <=> phase[s] = "detecting")
        /\ Pending(Describe(s)) <=> vlm_task[s] = "running"
    BY Zenon DEF FInv, Agree
  <2>3. Outstanding(Detect(s)) \in {0, 1} /\ (Outstanding(Detect(s)) = 1 <=> Pending(Detect(s)))
    BY <2>1, SMT
  <2>4. Outstanding(Describe(s)) = IF vlm_task[s] = "running" THEN 1 ELSE 0
    BY <2>1, <2>2, Zenon
  <2>5. Outstanding(Detect(s)) <= 1
    BY <2>3, SMT
  <2> QED
    BY <2>2, <2>3, <2>4, <2>5, Zenon
<1> QED
  BY <1>1, FInit, FStep, PTL DEF Spec
=============================================================================
