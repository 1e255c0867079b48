-------------------------- MODULE LiveStream_proofs --------------------------
(***************************************************************************)
(* Proofs about the gateway and the live camera around it, for any number  *)
(* of connections, frames and credits: the registry, the metrics and the   *)
(* relay agree on who is connected, the metrics count what was emitted,    *)
(* answers keep the order of their frames, every report is accounted, and  *)
(* the credits in use are on the connection.                               *)
(***************************************************************************)
EXTENDS LiveStream, SequenceTheorems, TLAPS

\* What the maps need to know of the connections: a connection that was never
\* open has emitted nothing, and only open ones are in the maps.
IInv ==
  /\ conn \in [Sockets -> {"new", "open", "refused", "closed"}]
  /\ emitted \in [Sockets -> Seq(Frames)]
  /\ \A s \in Sockets : conn[s] = "new" => emitted[s] = <<>>
  /\ down \in [Sockets -> Seq(Analysis \cup Status)]
  /\ up \in [Sockets -> Seq(Frames)]
  /\ sent \in [Sockets -> Nat]
  /\ metrics \in [DOMAIN metrics -> Nat]
  /\ NoGhostSession
  /\ MetricsCountEmitted

\* Nobody is connected at first, and nothing was emitted.
LEMMA InitInv == Init => IInv
<1> SUFFICES ASSUME Init PROVE IInv
  OBVIOUS
<1>1. Connected = {}
  BY SMT DEF Init, Connected
<1> QED
  BY <1>1, SMT DEF Init, IInv, NoGhostSession, MetricsCountEmitted

\* The callbacks and the AI side of a call keep who is connected.
LEMMA SameConnections ==
  ASSUME IInv, UNCHANGED <<conn, registry, metrics, streams, emitted>>,
         down' \in [Sockets -> Seq(Analysis \cup Status)],
         up' \in [Sockets -> Seq(Frames)],
         sent' \in [Sockets -> Nat]
  PROVE  IInv'
  BY SMT DEF IInv, NoGhostSession, MetricsCountEmitted, Connected

\* The messages of a call are analyses, an error or an end.
LEMMA MessagesTyped ==
  /\ \A f \in Frames, rows \in BOOLEAN :
       [kind |-> "data", frame |-> f, rows |-> rows] \in Analysis \cup Status
  /\ \A k \in {"error", "end"} : [kind |-> k] \in Analysis \cup Status
  BY SMT DEF Analysis, Status

\* No handler, callback or failure breaks the invariant.
LEMMA StepInv == IInv /\ [Next]_vars => IInv'
<1> SUFFICES ASSUME IInv, [Next]_vars PROVE IInv'
  OBVIOUS
<1>1. ASSUME NEW s \in Sockets, Connect(s) PROVE IInv'
  <2>1. Connected' = Connected \cup {s}
    BY <1>1, SMT DEF Connect, Connected, IInv
  <2>2. DOMAIN metrics' = DOMAIN metrics \cup {s}
    BY <1>1, SMT DEF Connect, IInv
  <2>3. NoGhostSession'
    BY <1>1, <2>1, <2>2, SMT DEF Connect, NoGhostSession, IInv
  <2>4. metrics' \in [DOMAIN metrics' -> Nat]
    BY <1>1, SMT DEF Connect, IInv
  <2>5. MetricsCountEmitted'
    BY <1>1, <2>2, SMT DEF Connect, MetricsCountEmitted, IInv
  <2>6. conn' \in [Sockets -> {"new", "open", "refused", "closed"}]
    BY <1>1, SMT DEF Connect, IInv
  <2> QED
    BY <1>1, <2>3, <2>4, <2>5, <2>6, SMT DEF Connect, calls, store, IInv
<1>2. ASSUME NEW s \in Sockets, Refuse(s) PROVE IInv'
  <2>1. Connected' = Connected
    BY <1>2, SMT DEF Refuse, Connected, IInv
  <2>2. UNCHANGED <<registry, metrics, streams, emitted, down, up, sent>>
    BY <1>2, SMT DEF Refuse, calls, IInv
  <2>3. NoGhostSession' /\ MetricsCountEmitted'
    BY <2>1, <2>2, SMT DEF NoGhostSession, MetricsCountEmitted, IInv
  <2> QED
    BY <1>2, <2>2, <2>3, SMT DEF Refuse, IInv
<1>3. ASSUME NEW s \in Sockets, Disconnect(s) PROVE IInv'
  <2>1. Connected' = Connected \ {s}
    BY <1>3, SMT DEF Disconnect, Connected, IInv
  <2>2. DOMAIN metrics' = DOMAIN metrics \ {s}
    BY <1>3, SMT DEF Disconnect, ClosedMetrics, IInv
  <2>3. NoGhostSession'
    BY <1>3, <2>1, <2>2, SMT DEF Disconnect, NoGhostSession, IInv
  <2>4. metrics' \in [DOMAIN metrics' -> Nat] /\ MetricsCountEmitted'
    BY <1>3, SMT DEF Disconnect, ClosedMetrics, MetricsCountEmitted, IInv
  <2> QED
    BY <1>3, <2>3, <2>4, SMT DEF Disconnect, IInv
<1>4. ASSUME NEW s \in Sockets, Frame(s) PROVE IInv'
  <2>1. sent'[s] \in Frames /\ sent' \in [Sockets -> Nat]
    BY <1>4, GatewayAssumption, SMT DEF Frame, Frames, GatewayAssumption, IInv
  <2>2. up' \in [Sockets -> Seq(Frames)]
    BY <1>4, <2>1, SMT DEF Frame, Written, IInv
  <2>3. down' \in [Sockets -> Seq(Analysis \cup Status)]
    BY <1>4, SMT DEF Frame, IInv
  <2>4. UNCHANGED <<conn, registry, metrics, streams, emitted>>
    BY <1>4, SMT DEF Frame
  <2> QED
    BY <2>1, <2>2, <2>3, <2>4, SameConnections
<1>5. ASSUME NEW s \in Sockets, Data(s) PROVE IInv'
  <2> DEFINE a == Head(down[s])
  <2>1. a \in Analysis \cup Status /\ a.kind = "data"
    BY <1>5, SMT DEF Data, IInv
  <2>2. a.frame \in Frames
    BY <2>1, SMT DEF Analysis, Status, IInv
  <2>3. down' \in [Sockets -> Seq(Analysis \cup Status)]
    BY <1>5, SMT DEF Data, IInv
  <2>4. UNCHANGED <<conn, registry, streams, up, sent>>
    BY <1>5, SMT DEF Data, IInv
  <2>5. s \in DOMAIN metrics <=> conn[s] = "open"
    BY SMT DEF NoGhostSession, Connected, IInv
  <2>6. CASE conn[s] = "open"
    <3>1. emitted' = [emitted EXCEPT ![s] = Append(@, a.frame)]
      BY <1>5, <2>6, SMT DEF Data, IInv
    <3>2. metrics' = [metrics EXCEPT ![s] = @ + 1]
      BY <1>5, <2>5, <2>6, SMT DEF Data, Record, IInv
    <3>3. emitted' \in [Sockets -> Seq(Frames)] /\ metrics' \in [DOMAIN metrics -> Nat]
      BY <3>1, <3>2, <2>2, <2>5, <2>6, SMT DEF IInv
    <3>4. \A t \in DOMAIN metrics : metrics'[t] = Len(emitted'[t])
      BY <3>1, <3>2, <2>2, SMT DEF NoGhostSession, Connected, MetricsCountEmitted, IInv
    <3>5. NoGhostSession' /\ MetricsCountEmitted'
      BY <3>2, <3>4, <2>4, SMT DEF NoGhostSession, MetricsCountEmitted, Connected, IInv
    <3>6. DOMAIN metrics' = DOMAIN metrics
      BY <3>2, Zenon
    <3>7. \A t \in Sockets : conn[t] = "new" => emitted'[t] = <<>>
      BY <3>1, <2>6, SMT DEF IInv
    <3>8. /\ conn' \in [Sockets -> {"new", "open", "refused", "closed"}]
          /\ sent' \in [Sockets -> Nat] /\ up' \in [Sockets -> Seq(Frames)]
          /\ \A t \in Sockets : conn'[t] = "new" => emitted'[t] = <<>>
      BY <2>4, <3>7, Zenon DEF IInv
    <3> QED
      BY <3>3, <3>5, <3>6, <3>8, <2>3, Zenon DEF IInv
  <2>7. CASE conn[s] # "open"
    <3>1. UNCHANGED <<emitted, metrics>>
      BY <1>5, <2>5, <2>7, SMT DEF Data, Record, IInv
    <3>2. up' \in [Sockets -> Seq(Frames)] /\ sent' \in [Sockets -> Nat]
      BY <2>4, SMT DEF IInv
    <3> QED
      BY <3>1, <3>2, <2>3, <2>4, SameConnections
  <2> QED
    BY <2>6, <2>7
<1>6. ASSUME NEW s \in Sockets, Over(s) PROVE IInv'
  <2>1. UNCHANGED <<conn, registry, metrics, streams, emitted, up, sent>>
    BY <1>6, SMT DEF Over
  <2>2. down' \in [Sockets -> Seq(Analysis \cup Status)]
    BY <1>6, SMT DEF Over, IInv
  <2>3. up' \in [Sockets -> Seq(Frames)] /\ sent' \in [Sockets -> Nat]
    BY <2>1, SMT DEF IInv
  <2> QED
    BY <2>1, <2>2, <2>3, SameConnections
<1>7. ASSUME NEW s \in Sockets, Serve(s) PROVE IInv'
  <2>1. UNCHANGED <<conn, registry, metrics, streams, emitted, sent>>
    BY <1>7, Zenon DEF Serve, Analyze, AnalyzeFails, AnalyzeEnds, CloseCall
  <2>2. ASSUME NEW rows \in BOOLEAN, Analyze(s, rows)
        PROVE  up' \in [Sockets -> Seq(Frames)] /\ down' \in [Sockets -> Seq(Analysis \cup Status)]
    <3>1. [kind |-> "data", frame |-> Head(up[s]), rows |-> rows] \in Analysis \cup Status
      BY <2>2, MessagesTyped, SMT DEF Analyze, IInv
    <3> QED
      BY <2>2, <3>1, SMT DEF Analyze, IInv
  <2>3. ASSUME NEW k \in {"error", "end"}, CloseCall(s, k)
        PROVE  up' \in [Sockets -> Seq(Frames)] /\ down' \in [Sockets -> Seq(Analysis \cup Status)]
    BY <2>3, MessagesTyped, SMT DEF CloseCall, IInv
  <2>4. up' \in [Sockets -> Seq(Frames)] /\ down' \in [Sockets -> Seq(Analysis \cup Status)]
    BY <1>7, <2>2, <2>3 DEF Serve, AnalyzeFails, AnalyzeEnds, IInv
  <2>5. sent' \in [Sockets -> Nat]
    BY <2>1, SMT DEF IInv
  <2> QED
    BY <2>1, <2>4, <2>5, SameConnections
<1>8. ASSUME NEW s \in Sockets, AiLost(s) PROVE IInv'
  <2>1. up' \in [Sockets -> Seq(Frames)] /\ down' \in [Sockets -> Seq(Analysis \cup Status)]
    <3>1. <<[kind |-> "error"]>> \in Seq(Analysis \cup Status)
      BY MessagesTyped, SMT
    <3>2. up' = [up EXCEPT ![s] = <<>>] /\ down' = [down EXCEPT ![s] = <<[kind |-> "error"]>>]
      BY <1>8, SMT DEF AiLost
    <3> QED
      BY <3>1, <3>2, SMT DEF IInv
  <2>2. UNCHANGED <<conn, registry, metrics, streams, emitted, sent>>
    BY <1>8, SMT DEF AiLost
  <2>3. sent' \in [Sockets -> Nat]
    BY <2>2, SMT DEF IInv
  <2> QED
    BY <2>1, <2>2, <2>3, SameConnections
<1>9. ASSUME NEW x \in Sockets \X Frames, SaveDone(x) \/ SaveFails(x) PROVE IInv'
  <2>1. UNCHANGED <<conn, registry, metrics, streams, emitted, down, up, sent>>
    BY <1>9, SMT DEF SaveDone, SaveFails, calls
  <2>2. /\ down' \in [Sockets -> Seq(Analysis \cup Status)]
        /\ up' \in [Sockets -> Seq(Frames)]
        /\ sent' \in [Sockets -> Nat]
    BY <2>1, SMT DEF IInv
  <2> QED
    BY <2>1, <2>2, SameConnections
<1>10. CASE UNCHANGED vars
  <2>1. UNCHANGED <<conn, registry, metrics, streams, emitted, down, up, sent>>
    BY <1>10, SMT DEF vars, calls
  <2>2. /\ down' \in [Sockets -> Seq(Analysis \cup Status)]
        /\ up' \in [Sockets -> Seq(Frames)]
        /\ sent' \in [Sockets -> Nat]
    BY <2>1, SMT DEF IInv
  <2> QED
    BY <2>1, <2>2, SameConnections
<1> QED
  BY <1>1, <1>2, <1>3, <1>4, <1>5, <1>6, <1>7, <1>8, <1>9, <1>10, Zenon DEF Next, Deliver

\* For any number of connections, the three maps always hold exactly the open
\* ones (stream.gateway.ts:62-94, metrics.service.ts:34-38).
THEOREM NoGhost == Spec => []NoGhostSession
<1>1. IInv => NoGhostSession
  BY DEF IInv
<1> QED
  BY <1>1, InitInv, StepInv, PTL DEF Spec

\* For any number of frames, a session is credited with the analyses its
\* browser was sent (stream.gateway.ts:72-75, metrics.service.ts:39).
THEOREM ExactMetrics == Spec => []MetricsCountEmitted
<1>1. IInv => MetricsCountEmitted
  BY DEF IInv
<1> QED
  BY <1>1, InitInv, StepInv, PTL DEF Spec

-----------------------------------------------------------------------------
(***************************************************************************)
(* The order of the answers, frame by frame rather than as one sequence.   *)
(* Of a connection: c its state, k its call, e what was emitted, d what    *)
(* comes back, u what is to be analysed, n the frames sent.                *)
(***************************************************************************)
Messages == Analysis \cup Status

\* What was emitted is 1, 2, 3...
Numbered(e) == \A i \in 1..Len(e) : e[i] = i

\* What comes back continues it, and a status is the last message.
Returning(e, d) ==
  \A i \in 1..Len(d) :
    /\ d[i].kind = "data" => d[i].frame = Len(e) + i
    /\ d[i].kind # "data" => i = Len(d)

\* On a sound call, the frames to be analysed continue that up to the last.
Sound(e, d, u, n) ==
  /\ \A i \in 1..Len(d) : d[i].kind = "data"
  /\ \A i \in 1..Len(u) : u[i] = Len(e) + Len(d) + i
  /\ n = Len(e) + Len(d) + Len(u)

Ordered(c, k, e, d, u, n) ==
  /\ c = "new" => k = "none" /\ n = 0 /\ u = <<>> /\ d = <<>> /\ e = <<>>
  /\ c = "open" => k \in {"open", "over"} /\ Returning(e, d)
  /\ c = "open" /\ k = "open" => Sound(e, d, u, n)
  /\ Numbered(e)

InOrder(s) == Ordered(conn[s], call[s], emitted[s], down[s], up[s], sent[s])

OInv ==
  /\ IInv
  /\ call \in [Sockets -> {"none", "open", "halfClosed", "over"}]
  /\ \A s \in Sockets : InOrder(s)

LEMMA OrderInit == Init => OInv
  BY InitInv, SMT DEF Init, OInv, InOrder, Ordered, Numbered, Returning, Sound

\* A frame written on a sound call comes last.
LEMMA Writing ==
  ASSUME NEW e \in Seq(Frames), NEW d \in Seq(Messages), NEW u \in Seq(Frames),
         NEW n \in Nat, Sound(e, d, u, n)
  PROVE  Sound(e, d, Append(u, n + 1), n + 1)
<1>1. n = Len(e) + Len(d) + Len(u) /\ Len(e) \in Nat /\ Len(d) \in Nat /\ Len(u) \in Nat
  BY SMT DEF Sound
<1>2. /\ Len(Append(u, n + 1)) = Len(u) + 1
      /\ \A i \in 1..Len(u) : Append(u, n + 1)[i] = u[i]
      /\ Append(u, n + 1)[Len(u) + 1] = n + 1
  BY SMT
<1>3. \A i \in 1..Len(Append(u, n + 1)) : Append(u, n + 1)[i] = Len(e) + Len(d) + i
  BY <1>1, <1>2, SMT DEF Sound
<1> QED
  BY <1>1, <1>2, <1>3, SMT DEF Sound

\* An analysis that is received takes its place after what was emitted.
LEMMA Receiving ==
  ASSUME NEW e \in Seq(Frames), NEW d \in Seq(Messages), NEW u \in Seq(Frames),
         NEW n \in Nat, NEW f \in Frames,
         d # <<>>, Head(d).kind = "data", Head(d).frame = f,
         Numbered(e), Returning(e, d)
  PROVE  /\ Numbered(Append(e, f))
         /\ Returning(Append(e, f), Tail(d))
         /\ Sound(e, d, u, n) => Sound(Append(e, f), Tail(d), u, n)
<1>1. f = Len(e) + 1
  BY SMT DEF Returning
<1>2. /\ Len(Append(e, f)) = Len(e) + 1
      /\ Len(Tail(d)) = Len(d) - 1
      /\ \A i \in 1..Len(Tail(d)) : Tail(d)[i] = d[i + 1]
  BY SMT
<1>3. Numbered(Append(e, f))
  BY <1>1, SMT DEF Numbered
<1>4. Returning(Append(e, f), Tail(d))
  <2> SUFFICES ASSUME NEW i \in 1..Len(Tail(d))
      PROVE  /\ d[i + 1].kind = "data" => d[i + 1].frame = Len(e) + 1 + i
             /\ d[i + 1].kind # "data" => i = Len(d) - 1
    BY <1>2, Zenon DEF Returning
  <2>1. i + 1 \in 1..Len(d) /\ Len(d) \in Nat /\ Len(e) \in Nat
    BY <1>2, SMT
  <2> QED
    BY <2>1, SMT DEF Returning
<1>5. Sound(e, d, u, n) => Sound(Append(e, f), Tail(d), u, n)
  BY <1>2, SMT DEF Sound
<1> QED
  BY <1>3, <1>4, <1>5

\* The AI service answers the first frame that waits.
LEMMA Answering ==
  ASSUME NEW e \in Seq(Frames), NEW d \in Seq(Messages), NEW u \in Seq(Frames),
         NEW n \in Nat, NEW a \in Messages,
         u # <<>>, a.kind = "data", a.frame = Head(u),
         Returning(e, d), Sound(e, d, u, n)
  PROVE  Returning(e, Append(d, a)) /\ Sound(e, Append(d, a), Tail(u), n)
<1>1. /\ Len(Append(d, a)) = Len(d) + 1
      /\ Len(Tail(u)) = Len(u) - 1
      /\ \A i \in 1..Len(Tail(u)) : Tail(u)[i] = u[i + 1]
      /\ \A i \in 1..Len(d) : Append(d, a)[i] = d[i]
      /\ Append(d, a)[Len(d) + 1] = a
  BY SMT
<1>2. a.frame = Len(e) + Len(d) + 1
  BY SMT DEF Sound
<1>3. \A i \in 1..Len(Append(d, a)) : Append(d, a)[i].kind = "data"
  BY <1>1, SMT DEF Sound
<1>4. Returning(e, Append(d, a))
  <2> SUFFICES ASSUME NEW i \in 1..Len(Append(d, a))
      PROVE  Append(d, a)[i].frame = Len(e) + i
    BY <1>3, Zenon DEF Returning
  <2>1. CASE i = Len(d) + 1
    BY <2>1, <1>1, <1>2, SMT
  <2>2. CASE i # Len(d) + 1
    <3>1. i \in 1..Len(d)
      BY <2>2, <1>1, SMT
    <3>2. d[i].kind = "data"
      BY <3>1, Zenon DEF Sound
    <3>3. d[i].frame = Len(e) + i
      BY <3>1, <3>2, Zenon DEF Returning
    <3> QED
      BY <3>1, <3>3, <1>1, Zenon
  <2> QED
    BY <2>1, <2>2
<1>5. Sound(e, Append(d, a), Tail(u), n)
  BY <1>1, <1>3, SMT DEF Sound
<1> QED
  BY <1>4, <1>5

\* The status of a call comes after its analyses.
LEMMA Closing ==
  ASSUME NEW e \in Seq(Frames), NEW d \in Seq(Messages), NEW a \in Messages,
         a.kind # "data", Returning(e, d), \A i \in 1..Len(d) : d[i].kind = "data"
  PROVE  Returning(e, Append(d, a))
<1>1. /\ Len(Append(d, a)) = Len(d) + 1
      /\ \A i \in 1..Len(d) : Append(d, a)[i] = d[i]
      /\ Append(d, a)[Len(d) + 1] = a
  BY SMT
<1> QED
  BY <1>1, SMT DEF Returning

\* Nothing follows a status.
LEMMA Finished ==
  ASSUME NEW e \in Seq(Frames), NEW d \in Seq(Messages),
         d # <<>>, Head(d).kind # "data", Returning(e, d)
  PROVE  Returning(e, Tail(d))
<1>1. 1 \in 1..Len(d) /\ d[1] = Head(d)
  BY SMT
<1>2. 1 = Len(d)
  BY <1>1, Zenon DEF Returning
<1>3. 1..Len(Tail(d)) = {}
  <2> DEFINE m == Len(Tail(d))
  <2>1. m = Len(d) - 1
    BY HeadTailProperties
  <2>2. 1 - 1 = 0
    BY SMT
  <2>3. m = 0
    BY <2>1, <2>2, <1>2, Zenon
  <2>4. 1..0 = {}
    BY SMT
  <2> QED
    BY <2>3, <2>4, Zenon
<1> QED
  BY <1>3, Zenon DEF Returning

\* A step on one connection leaves the order of the others.
LEMMA OthersSame ==
  ASSUME OInv, IInv', NEW s \in Sockets,
         call' \in [Sockets -> {"none", "open", "halfClosed", "over"}],
         \A t \in Sockets \ {s} :
           /\ conn'[t] = conn[t] /\ call'[t] = call[t] /\ up'[t] = up[t]
           /\ down'[t] = down[t] /\ sent'[t] = sent[t] /\ emitted'[t] = emitted[t],
         Ordered(conn'[s], call'[s], emitted'[s], down'[s], up'[s], sent'[s])
  PROVE  OInv'
<1> SUFFICES ASSUME NEW t \in Sockets PROVE InOrder(t)'
  BY Zenon DEF OInv
<1>1. CASE t = s
  BY <1>1, Zenon DEF InOrder
<1>2. CASE t # s
  <2>1. InOrder(t)
    BY Zenon DEF OInv
  <2> QED
    BY <1>2, <2>1, Zenon DEF InOrder
<1> QED
  BY <1>1, <1>2

\* No handler, callback or failure disturbs the order.
LEMMA OrderStep == OInv /\ [Next]_vars => OInv'
<1> SUFFICES ASSUME OInv, [Next]_vars PROVE OInv'
  OBVIOUS
<1>0. IInv'
  BY StepInv, Zenon DEF OInv
<1>t. /\ conn \in [Sockets -> {"new", "open", "refused", "closed"}]
      /\ emitted \in [Sockets -> Seq(Frames)]
      /\ down \in [Sockets -> Seq(Messages)]
      /\ up \in [Sockets -> Seq(Frames)]
      /\ sent \in [Sockets -> Nat]
      /\ call \in [Sockets -> {"none", "open", "halfClosed", "over"}]
  BY Zenon DEF OInv, IInv, Messages
<1>i. \A s \in Sockets : Ordered(conn[s], call[s], emitted[s], down[s], up[s], sent[s])
  BY Zenon DEF OInv, InOrder
<1>s. \A s \in Sockets :
        /\ emitted[s] \in Seq(Frames) /\ down[s] \in Seq(Messages)
        /\ up[s] \in Seq(Frames) /\ sent[s] \in Nat
  BY <1>t, Zenon
<1> DEFINE Same(s) ==
       \A t \in Sockets \ {s} :
           /\ conn'[t] = conn[t] /\ call'[t] = call[t] /\ up'[t] = up[t]
           /\ down'[t] = down[t] /\ sent'[t] = sent[t] /\ emitted'[t] = emitted[t]
<1> DEFINE CallTyped == call' \in [Sockets -> {"none", "open", "halfClosed", "over"}]
<1>q. ASSUME NEW s \in Sockets, Same(s), CallTyped,
             Ordered(conn'[s], call'[s], emitted'[s], down'[s], up'[s], sent'[s])
      PROVE  OInv'
  BY <1>0, <1>q, OthersSame
<1> HIDE DEF Same, CallTyped
<1>1. ASSUME NEW s \in Sockets, Connect(s) PROVE OInv'
  <2>1. Same(s) /\ CallTyped
    BY <1>1, <1>t, SMT DEF Connect, Same, CallTyped
  <2>2. /\ conn[s] = "new" /\ conn'[s] = "open" /\ call'[s] = "open"
        /\ UNCHANGED <<up, down, sent, emitted>>
    BY <1>1, <1>t, SMT DEF Connect
  <2>3. sent[s] = 0 /\ up[s] = <<>> /\ down[s] = <<>> /\ emitted[s] = <<>>
    BY <2>2, <1>i, Zenon DEF Ordered
  <2>4. Ordered("open", "open", <<>>, <<>>, <<>>, 0)
    BY SMT DEF Ordered, Numbered, Returning, Sound
  <2> QED
    BY <2>1, <2>2, <2>3, <2>4, <1>q
<1>2. ASSUME NEW s \in Sockets, Refuse(s) PROVE OInv'
  <2>1. Same(s) /\ CallTyped
    BY <1>2, <1>t, SMT DEF Refuse, calls, Same, CallTyped
  <2>2. conn'[s] = "refused" /\ UNCHANGED <<call, up, down, sent, emitted>>
    BY <1>2, <1>t, SMT DEF Refuse, calls
  <2>3. Ordered("refused", call[s], emitted[s], down[s], up[s], sent[s])
    BY <1>i, Zenon DEF Ordered
  <2> QED
    BY <2>1, <2>2, <2>3, <1>q
<1>3. ASSUME NEW s \in Sockets, Disconnect(s) PROVE OInv'
  <2>1. Same(s) /\ CallTyped
    BY <1>3, <1>t, SMT DEF Disconnect, Ended, Same, CallTyped
  <2>2. conn'[s] = "closed" /\ UNCHANGED <<up, down, sent, emitted>>
    BY <1>3, <1>t, SMT DEF Disconnect
  <2>3. Ordered("closed", call'[s], emitted[s], down[s], up[s], sent[s])
    BY <1>i, Zenon DEF Ordered
  <2> QED
    BY <2>1, <2>2, <2>3, <1>q
<1>4. ASSUME NEW s \in Sockets, Frame(s) PROVE OInv'
  <2>1. Same(s) /\ CallTyped
    BY <1>4, <1>t, SMT DEF Frame, Written, Same, CallTyped
  <2>2. /\ conn[s] = "open" /\ sent'[s] = sent[s] + 1
        /\ up'[s] = IF call[s] = "open" THEN Append(up[s], sent[s] + 1) ELSE up[s]
        /\ UNCHANGED <<conn, call, down, emitted>>
    BY <1>4, <1>t, SMT DEF Frame, Written
  <2>3. call[s] = "open" => Sound(emitted[s], down[s], Append(up[s], sent[s] + 1), sent[s] + 1)
    BY <2>2, <1>i, <1>s, Writing, Zenon DEF Ordered
  <2>4. Ordered(conn[s], call[s], emitted[s], down[s], up'[s], sent'[s])
    BY <2>2, <2>3, <1>i, Zenon DEF Ordered
  <2> QED
    BY <2>1, <2>2, <2>4, <1>q
<1>5. ASSUME NEW s \in Sockets, Data(s) PROVE OInv'
  <2>1. Same(s) /\ CallTyped
    BY <1>5, <1>t, SMT DEF Data, Same, CallTyped
  <2>2. /\ down[s] # <<>> /\ Head(down[s]).kind = "data" /\ down'[s] = Tail(down[s])
        /\ emitted'[s] = IF conn[s] = "open" THEN Append(emitted[s], Head(down[s]).frame)
                         ELSE emitted[s]
        /\ UNCHANGED <<conn, call, up, sent>>
    BY <1>5, <1>t, SMT DEF Data
  <2>3. CASE conn[s] = "open"
    <3>1. Head(down[s]).frame \in Frames
      <4>1. Head(down[s]) \in Messages
        BY <2>2, <1>s, SMT
      <4> QED
        BY <4>1, <2>2, SMT DEF Messages, Analysis, Status
    <3>2. /\ Numbered(emitted'[s]) /\ Returning(emitted'[s], down'[s])
          /\ call[s] = "open" => Sound(emitted'[s], down'[s], up[s], sent[s])
      BY <2>2, <2>3, <3>1, <1>i, <1>s, Receiving, Zenon DEF Ordered
    <3>3. Ordered(conn[s], call[s], emitted'[s], down'[s], up[s], sent[s])
      BY <2>3, <3>2, <1>i, Zenon DEF Ordered
    <3> QED
      BY <3>3, <2>1, <2>2, <1>q
  <2>4. CASE conn[s] # "open"
    <3>1. conn[s] # "new"
      BY <2>2, <1>i, Zenon DEF Ordered
    <3>2. Ordered(conn[s], call[s], emitted[s], down'[s], up[s], sent[s])
      BY <2>4, <3>1, <1>i, Zenon DEF Ordered
    <3> QED
      BY <2>4, <3>2, <2>1, <2>2, <1>q
  <2> QED
    BY <2>3, <2>4
<1>6. ASSUME NEW s \in Sockets, Over(s) PROVE OInv'
  <2>1. Same(s) /\ CallTyped
    BY <1>6, <1>t, SMT DEF Over, Same, CallTyped
  <2>2. /\ down[s] # <<>> /\ Head(down[s]).kind # "data" /\ down'[s] = Tail(down[s])
        /\ UNCHANGED <<conn, call, up, sent, emitted>>
    BY <1>6, <1>t, SMT DEF Over
  <2>3. 1 \in 1..Len(down[s]) /\ down[s][1] = Head(down[s])
    BY <2>2, <1>s, SMT
  <2>4. ~Sound(emitted[s], down[s], up[s], sent[s])
    BY <2>2, <2>3, Zenon DEF Sound
  <2>5. conn[s] = "open" => Returning(emitted[s], down'[s])
    BY <2>2, <1>i, <1>s, Finished, Zenon DEF Ordered
  <2>6. Ordered(conn[s], call[s], emitted[s], down'[s], up[s], sent[s])
    BY <2>2, <2>4, <2>5, <1>i, Zenon DEF Ordered
  <2> QED
    BY <2>1, <2>2, <2>6, <1>q
<1>7. ASSUME NEW s \in Sockets, NEW rows \in BOOLEAN, Analyze(s, rows) PROVE OInv'
  <2> DEFINE a == [kind |-> "data", frame |-> Head(up[s]), rows |-> rows]
  <2>1. Same(s) /\ CallTyped
    BY <1>7, <1>t, SMT DEF Analyze, Same, CallTyped
  <2>2. /\ call[s] \in {"open", "halfClosed"} /\ up[s] # <<>> /\ up'[s] = Tail(up[s])
        /\ down'[s] = Append(down[s], a)
        /\ UNCHANGED <<conn, call, sent, emitted>>
    BY <1>7, <1>t, SMT DEF Analyze
  <2>3. a \in Messages
    <3>1. Head(up[s]) \in Frames
      BY <2>2, <1>s, SMT
    <3> QED
      BY <3>1, MessagesTyped, Zenon DEF Messages
  <2>4. a.kind = "data" /\ a.frame = Head(up[s])
    OBVIOUS
  <2>5. conn[s] # "new" /\ (conn[s] = "open" => call[s] = "open")
    BY <2>2, <1>i, SMT DEF Ordered
  <2> HIDE DEF a
  <2>6. conn[s] = "open" => /\ Returning(emitted[s], down'[s])
                            /\ Sound(emitted[s], down'[s], up'[s], sent[s])
    BY <2>2, <2>3, <2>4, <2>5, <1>i, <1>s, Answering, Zenon DEF Ordered
  <2>7. Ordered(conn[s], call[s], emitted[s], down'[s], up'[s], sent[s])
    BY <2>5, <2>6, <1>i, Zenon DEF Ordered
  <2> QED
    BY <2>1, <2>2, <2>7, <1>q
<1>8. ASSUME NEW s \in Sockets, NEW k \in {"error", "end"}, call[s] \in {"open", "halfClosed"},
             CloseCall(s, k)
      PROVE  OInv'
  <2>1. Same(s) /\ CallTyped
    BY <1>8, <1>t, SMT DEF CloseCall, Same, CallTyped
  <2>2. /\ call'[s] = "over" /\ down'[s] = Append(down[s], [kind |-> k])
        /\ UNCHANGED <<conn, sent, emitted>>
    BY <1>8, <1>t, SMT DEF CloseCall
  <2>3. [kind |-> k] \in Messages /\ [kind |-> k].kind # "data"
    BY MessagesTyped, SMT DEF Messages
  <2>4. conn[s] # "new" /\ (conn[s] = "open" => call[s] = "open")
    BY <1>8, <1>i, SMT DEF Ordered
  <2>5. conn[s] = "open" => Returning(emitted[s], down'[s])
    BY <2>2, <2>3, <2>4, <1>i, <1>s, Closing, Zenon DEF Ordered, Sound
  <2>6. Ordered(conn[s], "over", emitted[s], down'[s], up'[s], sent[s])
    BY <2>4, <2>5, <1>i, Zenon DEF Ordered
  <2> QED
    BY <2>1, <2>2, <2>6, <1>q
<1>9. ASSUME NEW s \in Sockets, AiLost(s) PROVE OInv'
  <2>1. Same(s) /\ CallTyped
    BY <1>9, <1>t, SMT DEF AiLost, Same, CallTyped
  <2>2. /\ call'[s] = "over" /\ down'[s] = <<[kind |-> "error"]>>
        /\ call[s] \in {"open", "halfClosed"}
        /\ UNCHANGED <<conn, sent, emitted>>
    BY <1>9, <1>t, SMT DEF AiLost
  <2>3. conn[s] # "new"
    BY <2>2, <1>i, SMT DEF Ordered
  <2>4. Returning(emitted[s], <<[kind |-> "error"]>>)
    BY SMT DEF Returning
  <2>5. Ordered(conn[s], "over", emitted[s], down'[s], up'[s], sent[s])
    BY <2>2, <2>3, <2>4, <1>i, Zenon DEF Ordered
  <2> QED
    BY <2>1, <2>2, <2>5, <1>q
<1>10. ASSUME UNCHANGED <<conn, calls, sent, emitted>> PROVE OInv'
  BY <1>0, <1>10, Zenon DEF OInv, InOrder, calls
<1>11. ASSUME NEW x \in Sockets \X Frames, SaveDone(x) \/ SaveFails(x) PROVE OInv'
  BY <1>10, <1>11, Zenon DEF SaveDone, SaveFails
<1>12. CASE UNCHANGED vars
  BY <1>10, <1>12, Zenon DEF vars
<1>13. ASSUME NEW s \in Sockets, Serve(s) PROVE OInv'
  BY <1>7, <1>8, <1>13, SMT DEF Serve, AnalyzeFails, AnalyzeEnds
<1> QED
  BY <1>1, <1>2, <1>3, <1>4, <1>5, <1>6, <1>9, <1>11, <1>12, <1>13, Zenon DEF Next, Deliver

\* The three pieces of a sound call make the sequence of its frames.
LEMMA Whole ==
  ASSUME NEW e \in Seq(Frames), NEW d \in Seq(Messages), NEW u \in Seq(Frames),
         NEW n \in Nat, Numbered(e), Returning(e, d), Sound(e, d, u, n)
  PROVE  e \o [i \in DOMAIN d |-> d[i].frame] \o u = [i \in 1..n |-> i]
<1> DEFINE b == [i \in DOMAIN d |-> d[i].frame]
           w == e \o b
           v == w \o u
<1>1. Len(e) \in Nat /\ Len(d) \in Nat /\ Len(u) \in Nat /\ DOMAIN d = 1..Len(d)
  BY SMT
<1>2. \A i \in 1..Len(d) : d[i].frame = Len(e) + i
  BY Zenon DEF Returning, Sound
<1>3. b \in Seq(Int) /\ Len(b) = Len(d) /\ \A i \in 1..Len(d) : b[i] = Len(e) + i
  BY <1>1, <1>2, SMT
<1>4. e \in Seq(Int) /\ u \in Seq(Int)
  <2>1. Frames \subseteq Int
    BY SMT DEF Frames
  <2> QED
    BY <2>1, SeqMonotonic, Zenon
<1> HIDE DEF b
<1>5. /\ w \in Seq(Int) /\ Len(w) = Len(e) + Len(b)
      /\ \A i \in 1..Len(e) + Len(b) : w[i] = IF i <= Len(e) THEN e[i] ELSE b[i - Len(e)]
  BY <1>3, <1>4, ConcatProperties
<1> HIDE DEF w
<1>6. /\ v \in Seq(Int) /\ Len(v) = Len(w) + Len(u)
      /\ \A i \in 1..Len(w) + Len(u) : v[i] = IF i <= Len(w) THEN w[i] ELSE u[i - Len(w)]
  <2>1. w \in Seq(Int) /\ u \in Seq(Int)
    BY <1>4, <1>5, Zenon
  <2> QED
    BY <2>1, ConcatProperties
<1> HIDE DEF v
<1>7. n = Len(e) + Len(d) + Len(u)
  BY Zenon DEF Sound
<1>8. ASSUME NEW i \in 1..Len(e) + Len(d) PROVE w[i] = i
  <2>1. w[i] = IF i <= Len(e) THEN e[i] ELSE b[i - Len(e)]
    BY <1>3, <1>5, Zenon
  <2>2. CASE i <= Len(e)
    <3>1. i \in 1..Len(e)
      BY <2>2, <1>1, SMT
    <3> QED
      BY <3>1, <2>1, <2>2, Zenon DEF Numbered
  <2>3. CASE ~(i <= Len(e))
    <3>1. i - Len(e) \in 1..Len(d) /\ Len(e) + (i - Len(e)) = i
      BY <2>3, <1>1, SMT
    <3> QED
      BY <3>1, <2>1, <2>3, <1>3, Zenon
  <2> QED
    BY <2>2, <2>3
<1>9. ASSUME NEW i \in 1..n PROVE v[i] = i
  <2>1. v[i] = IF i <= Len(w) THEN w[i] ELSE u[i - Len(w)]
    BY <1>3, <1>5, <1>6, <1>7, Zenon
  <2>2. CASE i <= Len(w)
    <3>1. i \in 1..Len(e) + Len(d)
      BY <2>2, <1>1, <1>3, <1>5, SMT
    <3> QED
      BY <3>1, <2>1, <2>2, <1>8, Zenon
  <2>3. CASE ~(i <= Len(w))
    <3>1. i - Len(w) \in 1..Len(u) /\ Len(e) + Len(d) + (i - Len(w)) = i
      BY <2>3, <1>1, <1>3, <1>5, <1>7, SMT
    <3> QED
      BY <3>1, <2>1, <2>3, Zenon DEF Sound
  <2> QED
    BY <2>2, <2>3
<1>10. v = [i \in 1..n |-> i]
  <2>1. Len(v) = n
    BY <1>3, <1>5, <1>6, <1>7, SMT
  <2> QED
    BY <2>1, <1>6, <1>9, SMT
<1> QED
  BY <1>10 DEF v, w, b

\* Frame by frame or as one sequence, the order is the same.
LEMMA AnswersAreInOrder == OInv => AnswersInOrder
<1> SUFFICES ASSUME OInv, NEW s \in Sockets
    PROVE  /\ \A i, j \in DOMAIN emitted[s] : i < j => emitted[s][i] < emitted[s][j]
           /\ conn[s] = "open" /\ call[s] = "open" =>
                InFlightOrder(s) = [i \in 1..sent[s] |-> i]
  BY Zenon DEF AnswersInOrder
<1>1. /\ emitted[s] \in Seq(Frames) /\ down[s] \in Seq(Messages)
      /\ up[s] \in Seq(Frames) /\ sent[s] \in Nat
  BY Zenon DEF OInv, IInv, Messages
<1>2. Ordered(conn[s], call[s], emitted[s], down[s], up[s], sent[s])
  BY Zenon DEF OInv, InOrder
<1>3. \A i, j \in DOMAIN emitted[s] : i < j => emitted[s][i] < emitted[s][j]
  <2>1. DOMAIN emitted[s] = 1..Len(emitted[s])
    BY <1>1, SMT
  <2> QED
    <3>1. \A i \in DOMAIN emitted[s] : emitted[s][i] = i
      BY <1>2, <2>1, Zenon DEF Ordered, Numbered
    <3>2. ASSUME NEW i \in DOMAIN emitted[s], NEW j \in DOMAIN emitted[s], i < j
          PROVE  emitted[s][i] < emitted[s][j]
      <4>1. emitted[s][i] = i /\ emitted[s][j] = j
        BY <3>1, Zenon
      <4> QED
        BY <3>2, <4>1, Zenon
    <3> QED
      BY <3>2, Zenon
<1>4. ASSUME conn[s] = "open", call[s] = "open"
      PROVE  InFlightOrder(s) = [i \in 1..sent[s] |-> i]
  <2>1. /\ Numbered(emitted[s]) /\ Returning(emitted[s], down[s])
        /\ Sound(emitted[s], down[s], up[s], sent[s])
    BY <1>2, <1>4, Zenon DEF Ordered
  <2>2. emitted[s] \o [i \in DOMAIN down[s] |-> down[s][i].frame] \o up[s]
          = [i \in 1..sent[s] |-> i]
    BY <1>1, <2>1, Whole, Zenon
  <2> QED
    BY <2>2, Zenon DEF InFlightOrder
<1> QED
  BY <1>3, <1>4

\* For any number of connections and frames, a browser gets its answers in
\* order, none twice, and misses one only on a broken call
\* (stream.gateway.ts:72-75,144, server.py:90-100).
THEOREM OrderedAnswers == Spec => []AnswersInOrder
  BY AnswersAreInOrder, OrderInit, OrderStep, PTL DEF Spec

-----------------------------------------------------------------------------
\* The types that do not follow from what precedes.
TInv ==
  /\ OInv
  /\ sent \in [Sockets -> 0..MaxFrames]
  /\ saving \subseteq Sockets \X Frames
  /\ journal \subseteq Sockets \X Frames
  /\ unsaved \subseteq Sockets \X Frames
  /\ reported \subseteq Sockets \X Frames
  /\ gone \subseteq Sockets \X Frames

\* Only analyses are journaled, and only up to MaxFrames frames are sent.
LEMMA TypesStep == TInv /\ [Next]_vars => TInv'
<1> SUFFICES ASSUME TInv, [Next]_vars PROVE TInv'
  OBVIOUS
<1>0. OInv'
  BY OrderStep, Zenon DEF TInv
<1>1. ASSUME UNCHANGED <<sent, store>> PROVE TInv'
  BY <1>0, <1>1, Zenon DEF TInv, store
<1>2. ASSUME NEW s \in Sockets, Frame(s) PROVE TInv'
  <2>1. sent[s] + 1 \in 0..MaxFrames /\ sent' = [sent EXCEPT ![s] = @ + 1]
    BY <1>2, GatewayAssumption, SMT DEF Frame, TInv, GatewayAssumption
  <2>2. sent' \in [Sockets -> 0..MaxFrames]
    BY <2>1, SMT DEF TInv
  <2> QED
    BY <1>0, <1>2, <2>2, Zenon DEF Frame, TInv, store
<1>3. ASSUME NEW s \in Sockets, Data(s) PROVE TInv'
  <2>1. Head(down[s]) \in Messages /\ Head(down[s]).kind = "data"
    BY <1>3, SMT DEF Data, TInv, OInv, IInv, Messages
  <2>2. Head(down[s]).frame \in Frames
    BY <2>1, SMT DEF Messages, Analysis, Status
  <2>3. Rows(s, Head(down[s])) \subseteq Sockets \X Frames
    BY <2>2, SMT DEF Rows
  <2>4. /\ saving' = saving \cup Rows(s, Head(down[s]))
        /\ UNCHANGED <<sent, journal, unsaved, reported, gone>>
    BY <1>3, Zenon DEF Data
  <2> QED
    BY <1>0, <2>3, <2>4, Zenon DEF TInv
<1>4. ASSUME NEW x \in Sockets \X Frames, SaveDone(x) \/ SaveFails(x) PROVE TInv'
  BY <1>0, <1>4, Zenon DEF SaveDone, SaveFails, TInv
<1>5. ASSUME NEW s \in Sockets,
             \/ Connect(s) \/ Refuse(s) \/ Disconnect(s)
             \/ Over(s) \/ AnalyzeFails(s) \/ AnalyzeEnds(s)
      PROVE  TInv'
  BY <1>1, <1>5, Zenon DEF Connect, Refuse, Disconnect, Over,
     AnalyzeFails, AnalyzeEnds, CloseCall, store
<1>6. ASSUME NEW s \in Sockets, NEW rows \in BOOLEAN, Analyze(s, rows) PROVE TInv'
  <2>1. Head(up[s]) \in Frames
    BY <1>6, SMT DEF Analyze, TInv, OInv, IInv
  <2>2. /\ reported' = IF rows THEN reported \cup {<<s, Head(up[s])>>} ELSE reported
        /\ UNCHANGED <<sent, saving, journal, unsaved, gone>>
    BY <1>6, Zenon DEF Analyze
  <2>3. reported' \subseteq Sockets \X Frames
    BY <2>1, <2>2, SMT DEF TInv
  <2> QED
    BY <1>0, <2>2, <2>3, Zenon DEF TInv
<1>7. ASSUME NEW s \in Sockets, AiLost(s) PROVE TInv'
  <2>1. /\ gone' = gone \cup {x \in OnTheWay : x[1] = s}
        /\ UNCHANGED <<sent, saving, journal, unsaved, reported>>
    BY <1>7, Zenon DEF AiLost
  <2>2. gone' \subseteq Sockets \X Frames
    BY <2>1 DEF TInv, OnTheWay
  <2> QED
    BY <1>0, <2>1, <2>2, Zenon DEF TInv
<1>8. CASE UNCHANGED vars
  BY <1>1, <1>8, Zenon DEF vars
<1> QED
  BY <1>2, <1>3, <1>4, <1>5, <1>6, <1>7, <1>8, Zenon DEF Next, Deliver, Serve

LEMMA TypesInit == Init => TInv
  BY OrderInit, GatewayAssumption, SMT DEF Init, TInv, GatewayAssumption

\* The counters of a session stay within the frames of its connection,
\* because what was emitted to it is 1, 2, 3... without a repetition.
LEMMA TypesOf == TInv => TypeOK
<1> SUFFICES ASSUME TInv PROVE TypeOK
  OBVIOUS
<1>1. /\ registry = Connected /\ DOMAIN metrics = Connected /\ streams = Connected
      /\ Connected \subseteq Sockets
      /\ metrics \in [DOMAIN metrics -> Nat]
      /\ \A s \in DOMAIN metrics : metrics[s] = Len(emitted[s])
  BY Zenon DEF TInv, OInv, IInv, NoGhostSession, MetricsCountEmitted, Connected
<1>2. ASSUME NEW s \in Sockets PROVE Len(emitted[s]) \in 0..MaxFrames
  <2>1. emitted[s] \in Seq(Frames) /\ Len(emitted[s]) \in Nat /\ Numbered(emitted[s])
    BY SMT DEF TInv, OInv, IInv, InOrder, Ordered
  <2>2. CASE Len(emitted[s]) = 0
    BY <2>2, GatewayAssumption, SMT DEF GatewayAssumption
  <2>3. CASE Len(emitted[s]) # 0
    <3>1. Len(emitted[s]) \in 1..Len(emitted[s])
      BY <2>1, <2>3, SMT
    <3>2. emitted[s][Len(emitted[s])] \in Frames
      BY <2>1, <3>1, SMT
    <3>3. Len(emitted[s]) \in Frames
      BY <3>1, <3>2, <2>1, Zenon DEF Numbered
    <3> QED
      BY <3>3, GatewayAssumption, SMT DEF Frames, GatewayAssumption
  <2> QED
    BY <2>2, <2>3
<1>3. metrics \in [DOMAIN metrics -> 0..MaxFrames]
  <2>1. \A s \in DOMAIN metrics : metrics[s] \in 0..MaxFrames
    BY <1>1, <1>2, Zenon
  <2> QED
    BY <1>1, <2>1
<1> QED
  BY <1>1, <1>3, Zenon DEF TInv, OInv, IInv, TypeOK

\* For any number of connections and frames, the state of the gateway and of
\* its calls is well typed; the analyses counted for a session never outnumber
\* its frames (stream.gateway.ts:62-153, metrics.service.ts:34-41).
THEOREM GatewayTyped == Spec => []TypeOK
  BY TypesInit, TypesStep, TypesOf, PTL DEF Spec

-----------------------------------------------------------------------------
(***************************************************************************)
(* The accounts of the rows, socket by socket.  Of a connection: d what    *)
(* comes back, u what is to be analysed, n the frames sent; rep the frames *)
(* whose rows were reported, sv, jn, un and gn those being saved, in the   *)
(* journal, whose save failed, lost with the call.  A row cannot be        *)
(* accounted twice because the frames settled, on their way and still to   *)
(* be analysed follow one another, on a broken call and after the          *)
(* disconnection too.                                                      *)
(***************************************************************************)
Of(rows, s) == {f \in Frames : <<s, f>> \in rows}

\* The frames of the analyses with rows in d.
Way(d) == {f \in Frames : \E i \in 1..Len(d) :
             d[i].kind = "data" /\ d[i].rows /\ d[i].frame = f}

Follows(d, u, n, done) ==
  /\ \A i \in 1..Len(d) : d[i].kind = "data" =>
       /\ d[i].frame <= n
       /\ \A f \in done : f < d[i].frame
       /\ \A j \in 1..Len(d) : i < j /\ d[j].kind = "data" => d[i].frame < d[j].frame
       /\ \A k \in 1..Len(u) : d[i].frame < u[k]
  /\ \A k \in 1..Len(u) :
       /\ u[k] <= n
       /\ \A f \in done : f < u[k]
       /\ \A m \in 1..Len(u) : k < m => u[k] < u[m]
  /\ \A f \in done : f <= n

Settled(sv, jn, un, gn) == sv \cup jn \cup un \cup gn

Apart(sv, jn, un, gn) ==
  /\ sv \cap jn = {} /\ sv \cap un = {} /\ sv \cap gn = {}
  /\ jn \cap un = {} /\ jn \cap gn = {} /\ un \cap gn = {}

Books(d, u, n, sv, jn, un, gn, rep) ==
  /\ Follows(d, u, n, Settled(sv, jn, un, gn))
  /\ Apart(sv, jn, un, gn)
  /\ rep = Way(d) \cup Settled(sv, jn, un, gn)

BooksOf(s) ==
  Books(down[s], up[s], sent[s], Of(saving, s), Of(journal, s), Of(unsaved, s),
        Of(gone, s), Of(reported, s))

\* A frame written on the call, or accepted and written nowhere.
LEMMA FollowsWriting ==
  ASSUME NEW d \in Seq(Messages), NEW u \in Seq(Frames), NEW n \in Nat,
         NEW done \in SUBSET Frames, Follows(d, u, n, done)
  PROVE  Follows(d, Append(u, n + 1), n + 1, done) /\ Follows(d, u, n + 1, done)
<1>1. /\ Len(Append(u, n + 1)) = Len(u) + 1 /\ Len(u) \in Nat
      /\ \A k \in 1..Len(u) : Append(u, n + 1)[k] = u[k]
      /\ Append(u, n + 1)[Len(u) + 1] = n + 1
  BY SMT
<1>2. \A x : x \in Frames => x \in Nat
  BY SMT DEF Frames
<1>3. \A i \in 1..Len(d) : d[i].kind = "data" => d[i].frame \in Nat
  BY <1>2, SMT DEF Messages, Analysis, Status
<1>4. \A k \in 1..Len(u) : u[k] \in Nat
  BY <1>2, SMT
<1>5. \A k \in 1..Len(u) + 1 : k \in 1..Len(u) \/ k = Len(u) + 1
  BY <1>1, SMT
<1> DEFINE w == Append(u, n + 1)
<1> HIDE DEF w
<1>6. \A i \in 1..Len(d) : d[i].kind = "data" =>
        /\ d[i].frame <= n + 1 /\ \A k \in 1..Len(w) : d[i].frame < w[k]
  BY <1>1, <1>3, <1>4, <1>5, SMT DEF Follows, w
<1>7. \A k \in 1..Len(w) :
        /\ w[k] <= n + 1
        /\ \A f \in done : f < w[k]
        /\ \A m \in 1..Len(w) : k < m => w[k] < w[m]
  BY <1>1, <1>2, <1>4, <1>5, SMT DEF Follows, w
<1>8. /\ \A f \in done : f <= n + 1
      /\ \A k \in 1..Len(u) : u[k] <= n + 1
  BY <1>2, <1>4, SMT DEF Follows
<1> QED
  BY <1>6, <1>7, <1>8, Zenon DEF Follows, w

\* The AI service answers the first frame that waits.
LEMMA FollowsAnswering ==
  ASSUME NEW d \in Seq(Messages), NEW u \in Seq(Frames), NEW n \in Nat,
         NEW done, NEW a \in Messages, u # <<>>, a.kind = "data", a.frame = Head(u),
         Follows(d, u, n, done)
  PROVE  Follows(Append(d, a), Tail(u), n, done)
<1>1. /\ Len(Append(d, a)) = Len(d) + 1 /\ Len(d) \in Nat
      /\ \A i \in 1..Len(d) : Append(d, a)[i] = d[i] /\ i < Len(d) + 1
      /\ Append(d, a)[Len(d) + 1] = a
      /\ \A i \in 1..Len(d) + 1 : i \in 1..Len(d) \/ i = Len(d) + 1
  BY SMT
<1>2. /\ \A k \in 1..Len(Tail(u)) : Tail(u)[k] = u[k + 1] /\ k + 1 \in 1..Len(u) /\ 1 < k + 1
      /\ \A k, m \in 1..Len(Tail(u)) : k < m => k + 1 < m + 1
      /\ 1 \in 1..Len(u) /\ u[1] = a.frame
  BY SMT
<1> DEFINE e == Append(d, a)
           v == Tail(u)
<1>3. \A i \in 1..Len(e) : (i \in 1..Len(d) /\ e[i] = d[i]) \/ (i = Len(d) + 1 /\ e[i] = a)
  BY <1>1, Zenon
<1>4. \A i, j \in 1..Len(e) : i < j => i \in 1..Len(d) /\ e[i] = d[i]
  BY <1>1, SMT
<1> HIDE DEF e, v
<1>5. \A k \in 1..Len(v) : v[k] = u[k + 1] /\ k + 1 \in 1..Len(u) /\ a.frame < u[k + 1]
  BY <1>2, Zenon DEF Follows, v
<1>6. \A i \in 1..Len(e) : e[i].kind = "data" =>
        /\ e[i].frame <= n
        /\ \A f \in done : f < e[i].frame
        /\ \A k \in 1..Len(v) : e[i].frame < v[k]
  BY <1>2, <1>3, <1>5, Zenon DEF Follows
<1>7. \A i, j \in 1..Len(e) :
        i < j /\ e[i].kind = "data" /\ e[j].kind = "data" => e[i].frame < e[j].frame
  <2> SUFFICES ASSUME NEW i \in 1..Len(e), NEW j \in 1..Len(e), i < j,
                      e[i].kind = "data", e[j].kind = "data"
      PROVE  e[i].frame < e[j].frame
    OBVIOUS
  <2>1. i \in 1..Len(d) /\ e[i] = d[i]
    BY <1>4, Zenon
  <2>2. CASE j \in 1..Len(d) /\ e[j] = d[j]
    BY <2>1, <2>2, Zenon DEF Follows
  <2>3. CASE e[j] = a
    BY <2>1, <2>3, <1>2, Zenon DEF Follows
  <2> QED
    BY <2>2, <2>3, <1>3, Zenon
<1>8. \A k \in 1..Len(v) :
        /\ v[k] <= n
        /\ \A f \in done : f < v[k]
        /\ \A m \in 1..Len(v) : k < m => v[k] < v[m]
  BY <1>2, <1>5, Zenon DEF Follows, v
<1> QED
  BY <1>6, <1>7, <1>8, Zenon DEF Follows, e, v

\* The status of a call follows its analyses; the frames that wait are dropped.
LEMMA FollowsClosing ==
  ASSUME NEW d \in Seq(Messages), NEW u, NEW n, NEW done,
         NEW a \in Messages, a.kind # "data", Follows(d, u, n, done)
  PROVE  Follows(Append(d, a), <<>>, n, done)
<1>1. /\ \A i \in 1..Len(Append(d, a)) :
           Append(d, a)[i].kind = "data" => i \in 1..Len(d) /\ Append(d, a)[i] = d[i]
      /\ 1..Len(<<>>) = {}
  BY SMT
<1> QED
  BY <1>1, Zenon DEF Follows

\* The first message is taken: its frame, if it has one, precedes the others.
LEMMA FollowsTaking ==
  ASSUME NEW d \in Seq(Messages), NEW u, NEW n, NEW done, d # <<>>,
         Follows(d, u, n, done)
  PROVE  /\ Follows(Tail(d), u, n, done)
         /\ Head(d).kind = "data" =>
              /\ Head(d).frame \notin done
              /\ Head(d).frame \notin Way(Tail(d))
              /\ Follows(Tail(d), u, n, done \cup {Head(d).frame})
<1>1. /\ \A i \in 1..Len(Tail(d)) : Tail(d)[i] = d[i + 1] /\ i + 1 \in 1..Len(d) /\ 1 < i + 1
      /\ \A i, j \in 1..Len(Tail(d)) : i < j => i + 1 < j + 1
      /\ 1 \in 1..Len(d) /\ d[1] = Head(d)
  <2>1. /\ Len(d) \in Nat /\ Len(d) >= 1 /\ Len(Tail(d)) = Len(d) - 1 /\ d[1] = Head(d)
        /\ \A i \in 1..Len(Tail(d)) : Tail(d)[i] = d[i + 1]
    BY HeadTailProperties, LenProperties, EmptySeq, SMT
  <2> QED
    BY <2>1, SMT
<1> DEFINE t == Tail(d)
<1> HIDE DEF t
<1>2. Follows(t, u, n, done)
  <2>1. \A i \in 1..Len(t) : t[i].kind = "data" =>
          /\ t[i].frame <= n
          /\ \A f \in done : f < t[i].frame
          /\ \A k \in 1..Len(u) : t[i].frame < u[k]
    <3>1. \A i \in 1..Len(d) : d[i].kind = "data" =>
            /\ d[i].frame <= n
            /\ \A f \in done : f < d[i].frame
            /\ \A k \in 1..Len(u) : d[i].frame < u[k]
      BY Zenon DEF Follows
    <3> QED
      BY <1>1, <3>1, Zenon DEF t
  <2>2. \A i, j \in 1..Len(t) :
          t[i].kind = "data" /\ i < j /\ t[j].kind = "data" => t[i].frame < t[j].frame
    BY <1>1, Zenon DEF Follows, t
  <2>3. /\ \A k \in 1..Len(u) :
             /\ u[k] <= n
             /\ \A f \in done : f < u[k]
             /\ \A m \in 1..Len(u) : k < m => u[k] < u[m]
        /\ \A f \in done : f <= n
    BY Zenon DEF Follows
  <2> QED
    BY <2>1, <2>2, <2>3, Zenon DEF Follows
<1>3. ASSUME Head(d).kind = "data"
      PROVE  /\ \A f \in done : f < Head(d).frame
             /\ Head(d).frame <= n
             /\ \A i \in 1..Len(t) : t[i].kind = "data" => Head(d).frame < t[i].frame
             /\ \A k \in 1..Len(u) : Head(d).frame < u[k]
  BY <1>1, <1>3, Zenon DEF Follows, t
<1>4. ASSUME Head(d).kind = "data" PROVE Follows(t, u, n, done \cup {Head(d).frame})
  BY <1>2, <1>3, <1>4, Zenon DEF Follows
<1>5. ASSUME NEW x \in Frames PROVE ~(x < x)
  BY SMT DEF Frames
<1>6. Head(d).kind = "data" => Head(d).frame \in Frames
  BY SMT DEF Messages, Analysis, Status
<1>7. ASSUME Head(d).kind = "data"
      PROVE  Head(d).frame \notin done /\ Head(d).frame \notin Way(t)
  BY <1>3, <1>5, <1>6, <1>7, Zenon DEF Way
<1> QED
  BY <1>2, <1>4, <1>7, Zenon DEF t

\* What a message adds to what is on its way.
Carried(a) == IF a.kind = "data" /\ a.rows THEN {a.frame} ELSE {}

LEMMA WayAppend ==
  ASSUME NEW d \in Seq(Messages), NEW a \in Messages
  PROVE  Way(Append(d, a)) = Way(d) \cup Carried(a)
<1>1. /\ Len(Append(d, a)) = Len(d) + 1
      /\ \A i \in 1..Len(d) : Append(d, a)[i] = d[i] /\ i \in 1..Len(Append(d, a))
      /\ Append(d, a)[Len(d) + 1] = a /\ Len(d) + 1 \in 1..Len(Append(d, a))
      /\ \A i \in 1..Len(Append(d, a)) : i \in 1..Len(d) \/ i = Len(d) + 1
  BY SMT
<1>2. a.kind = "data" => a.frame \in Frames
  BY SMT DEF Messages, Analysis, Status
<1>3. ASSUME NEW f \in Frames
      PROVE  f \in Way(Append(d, a)) <=> f \in Way(d) \cup Carried(a)
  <2>1. f \in Way(Append(d, a)) => f \in Way(d) \/ f \in Carried(a)
    BY <1>1, SMT DEF Way, Carried
  <2>2. f \in Way(d) => f \in Way(Append(d, a))
    BY <1>1, Zenon DEF Way
  <2>3. f \in Carried(a) => f \in Way(Append(d, a))
    <3> SUFFICES ASSUME f \in Carried(a) PROVE f \in Way(Append(d, a))
      OBVIOUS
    <3>1. a.kind = "data" /\ a.rows /\ a.frame = f
      BY SMT DEF Carried
    <3> QED
      BY <1>1, <3>1, Zenon DEF Way
  <2> QED
    BY <2>1, <2>2, <2>3
<1>4. Carried(a) \subseteq Frames
  BY <1>2, SMT DEF Carried
<1> QED
  BY <1>3, <1>4 DEF Way

LEMMA WayTail ==
  ASSUME NEW d \in Seq(Messages), d # <<>>
  PROVE  Way(d) = Way(Tail(d)) \cup Carried(Head(d))
<1>1. /\ Tail(d) \in Seq(Messages) /\ Head(d) \in Messages
      /\ \A i \in 1..Len(Tail(d)) : Tail(d)[i] = d[i + 1] /\ i + 1 \in 1..Len(d)
      /\ \A i \in 1..Len(d) : i = 1 \/ (i - 1 \in 1..Len(Tail(d)) /\ Tail(d)[i - 1] = d[i])
      /\ 1 \in 1..Len(d) /\ d[1] = Head(d)
  BY SMT
<1>2. Head(d).kind = "data" => Head(d).frame \in Frames
  BY <1>1, SMT DEF Messages, Analysis, Status
<1>3. ASSUME NEW f \in Frames
      PROVE  f \in Way(d) <=> f \in Way(Tail(d)) \cup Carried(Head(d))
  <2>1. ASSUME f \in Way(d) PROVE f \in Way(Tail(d)) \/ f \in Carried(Head(d))
    <3>1. PICK i \in 1..Len(d) : d[i].kind = "data" /\ d[i].rows /\ d[i].frame = f
      BY <2>1, Zenon DEF Way
    <3>2. CASE i = 1
      BY <1>1, <3>1, <3>2 DEF Carried
    <3>3. CASE i # 1
      BY <1>1, <3>1, <3>3, Zenon DEF Way
    <3> QED
      BY <3>2, <3>3
  <2>2. ASSUME f \in Way(Tail(d)) PROVE f \in Way(d)
    <3>1. PICK i \in 1..Len(Tail(d)) :
            Tail(d)[i].kind = "data" /\ Tail(d)[i].rows /\ Tail(d)[i].frame = f
      BY <2>2, Zenon DEF Way
    <3>2. Tail(d)[i] = d[i + 1] /\ i + 1 \in 1..Len(d)
      BY <1>1, Zenon
    <3>3. \E j \in 1..Len(d) : d[j].kind = "data" /\ d[j].rows /\ d[j].frame = f
      BY <3>1, <3>2
    <3> QED
      BY <3>3, Zenon DEF Way
  <2>3. f \in Carried(Head(d)) => f \in Way(d)
    <3> SUFFICES ASSUME f \in Carried(Head(d)) PROVE f \in Way(d)
      OBVIOUS
    <3>1. Head(d).kind = "data" /\ Head(d).rows /\ Head(d).frame = f
      BY SMT DEF Carried
    <3> QED
      BY <1>1, <3>1, Zenon DEF Way
  <2> QED
    BY <2>1, <2>2, <2>3
<1>4. Carried(Head(d)) \subseteq Frames
  BY <1>2, SMT DEF Carried
<1> QED
  BY <1>3, <1>4 DEF Way

AInv ==
  /\ TInv
  /\ \A s \in Sockets : BooksOf(s)

\* A step on one connection leaves the accounts of the others.
LEMMA OthersKeepBooks ==
  ASSUME AInv, TInv', NEW s \in Sockets,
         \A t \in Sockets \ {s} :
           /\ down'[t] = down[t] /\ up'[t] = up[t] /\ sent'[t] = sent[t]
           /\ \A f \in Frames :
                /\ <<t, f>> \in saving' <=> <<t, f>> \in saving
                /\ <<t, f>> \in journal' <=> <<t, f>> \in journal
                /\ <<t, f>> \in unsaved' <=> <<t, f>> \in unsaved
                /\ <<t, f>> \in gone' <=> <<t, f>> \in gone
                /\ <<t, f>> \in reported' <=> <<t, f>> \in reported,
         Books(down'[s], up'[s], sent'[s], Of(saving', s), Of(journal', s),
               Of(unsaved', s), Of(gone', s), Of(reported', s))
  PROVE  AInv'
<1>1. ASSUME NEW t \in Sockets \ {s} PROVE BooksOf(t)'
  <2>1. /\ Of(saving', t) = Of(saving, t) /\ Of(journal', t) = Of(journal, t)
        /\ Of(unsaved', t) = Of(unsaved, t) /\ Of(gone', t) = Of(gone, t)
        /\ Of(reported', t) = Of(reported, t)
    BY DEF Of
  <2>2. BooksOf(t)
    BY Zenon DEF AInv
  <2> QED
    BY <2>1, <2>2, Zenon DEF BooksOf
<1>2. BooksOf(s)'
  BY Zenon DEF BooksOf
<1> QED
  BY <1>1, <1>2, Zenon DEF AInv

\* A call that breaks loses what was on its way, and only that.
LEMMA FollowsLosing ==
  ASSUME NEW d \in Seq(Messages), NEW u, NEW n, NEW done \in SUBSET Frames,
         NEW a \in Messages, a.kind # "data", Follows(d, u, n, done)
  PROVE  /\ Follows(<<a>>, <<>>, n, done \cup Way(d))
         /\ Way(<<a>>) = {}
         /\ Way(d) \cap done = {}
<1>1. /\ 1..Len(<<>>) = {}
      /\ \A i \in 1..Len(<<a>>) : <<a>>[i].kind # "data"
  BY SMT
<1>2. ASSUME NEW f \in Way(d) PROVE f <= n /\ f \notin done
  <2>1. PICK i \in 1..Len(d) : d[i].kind = "data" /\ d[i].frame = f
    BY Zenon DEF Way
  <2>2. f <= n /\ \A g \in done : g < f
    BY <2>1, Zenon DEF Follows
  <2>3. f \in Frames
    BY Zenon DEF Way
  <2>4. ~(f < f)
    BY <2>3, SMT DEF Frames
  <2> QED
    BY <2>2, <2>4, Zenon
<1>3. Way(<<a>>) = {}
  BY <1>1, Zenon DEF Way
<1>4. Follows(<<a>>, <<>>, n, done \cup Way(d))
  BY <1>1, <1>2, Zenon DEF Follows
<1> QED
  BY <1>2, <1>3, <1>4

LEMMA AccountsInit == Init => AInv
<1> SUFFICES ASSUME Init, NEW s \in Sockets PROVE BooksOf(s)
  BY TypesInit, Zenon DEF AInv
<1>1. /\ down[s] = <<>> /\ up[s] = <<>> /\ sent[s] = 0
      /\ Of(saving, s) = {} /\ Of(journal, s) = {} /\ Of(unsaved, s) = {}
      /\ Of(gone, s) = {} /\ Of(reported, s) = {}
  BY SMT DEF Init, Of
<1>2. Books(<<>>, <<>>, 0, {}, {}, {}, {}, {})
  <2>1. 1..Len(<<>>) = {}
    BY SMT
  <2> QED
    BY <2>1, Zenon DEF Books, Follows, Apart, Settled, Way
<1> QED
  BY <1>1, <1>2, Zenon DEF BooksOf

LEMMA AccountsStep == AInv /\ [Next]_vars => AInv'
<1> SUFFICES ASSUME AInv, [Next]_vars PROVE AInv'
  OBVIOUS
<1>0. TInv'
  BY TypesStep, Zenon DEF AInv
<1>t. /\ down \in [Sockets -> Seq(Messages)]
      /\ up \in [Sockets -> Seq(Frames)]
      /\ sent \in [Sockets -> Nat]
  BY Zenon DEF AInv, TInv, OInv, IInv, Messages
<1>s. \A s \in Sockets :
        down[s] \in Seq(Messages) /\ up[s] \in Seq(Frames) /\ sent[s] \in Nat
  BY <1>t, Zenon
<1>b. \A s \in Sockets :
        Books(down[s], up[s], sent[s], Of(saving, s), Of(journal, s), Of(unsaved, s),
              Of(gone, s), Of(reported, s))
  BY Zenon DEF AInv, BooksOf
<1>o. \A rows, s : Of(rows, s) \subseteq Frames
  BY Zenon DEF Of
<1> DEFINE Settled4(s) ==
      Settled(Of(saving, s), Of(journal, s), Of(unsaved, s), Of(gone, s))
<1>d. \A s : Settled4(s) \in SUBSET Frames
  BY <1>o DEF Settled
<1>f. \A s \in Sockets :
        /\ Follows(down[s], up[s], sent[s], Settled4(s))
        /\ Apart(Of(saving, s), Of(journal, s), Of(unsaved, s), Of(gone, s))
        /\ Of(reported, s) = Way(down[s]) \cup Settled4(s)
  BY <1>b, Zenon DEF Books
<1>1. ASSUME UNCHANGED <<down, up, sent, store>> PROVE AInv'
  BY <1>0, <1>1, Zenon DEF AInv, BooksOf, store
<1>2. ASSUME NEW s \in Sockets, Frame(s) PROVE AInv'
  <2>1. /\ down' = down /\ UNCHANGED store
        /\ sent' = [sent EXCEPT ![s] = @ + 1]
        /\ up' = IF call[s] = "open" THEN [up EXCEPT ![s] = Append(@, sent'[s])] ELSE up
    BY <1>2, Zenon DEF Frame, Written
  <2>0. /\ sent'[s] = sent[s] + 1
        /\ \A t \in Sockets \ {s} : sent'[t] = sent[t]
    BY <2>1, <1>t, Zenon
  <2>2. /\ sent'[s] = sent[s] + 1
        /\ up'[s] = Append(up[s], sent[s] + 1) \/ up'[s] = up[s]
        /\ \A t \in Sockets \ {s} : sent'[t] = sent[t] /\ up'[t] = up[t]
    BY <2>0, <2>1, <1>t, Zenon
  <2> HIDE DEF Settled4
  <2>3. Follows(down[s], up'[s], sent'[s], Settled4(s))
    <3>1. /\ Follows(down[s], Append(up[s], sent[s] + 1), sent[s] + 1, Settled4(s))
          /\ Follows(down[s], up[s], sent[s] + 1, Settled4(s))
      BY <1>s, <1>d, <1>f, FollowsWriting, Zenon
    <3> QED
      BY <2>2, <3>1, Zenon
  <2>4. Books(down[s], up'[s], sent'[s], Of(saving, s), Of(journal, s), Of(unsaved, s),
              Of(gone, s), Of(reported, s))
    BY <2>3, <1>f, Zenon DEF Books, Settled4
  <2> QED
    BY <1>0, <2>1, <2>2, <2>4, OthersKeepBooks, Zenon DEF store
<1>3. ASSUME NEW s \in Sockets, Data(s) PROVE AInv'
  <2> DEFINE a == Head(down[s])
             sv == Of(saving, s) \cup Carried(a)
  <2>1. /\ down[s] # <<>> /\ a.kind = "data"
        /\ down' = [down EXCEPT ![s] = Tail(@)]
        /\ saving' = saving \cup Rows(s, a)
        /\ UNCHANGED <<up, sent, journal, unsaved, reported, gone>>
    BY <1>3, Zenon DEF Data
  <2>2. /\ down'[s] = Tail(down[s])
        /\ \A t \in Sockets \ {s} : down'[t] = down[t]
    BY <2>1, <1>t, SMT
  <2>3. a \in Messages /\ a.frame \in Frames /\ a.rows \in BOOLEAN
    BY <2>1, <1>s, SMT DEF Messages, Analysis, Status
  <2> HIDE DEF a
  <2>4. /\ \A t \in Sockets \ {s}, f \in Frames : <<t, f>> \in saving' <=> <<t, f>> \in saving
        /\ Of(saving', s) = sv
    BY <2>1, <2>3, SMT DEF Rows, Of, Carried
  <2>5. /\ Follows(Tail(down[s]), up[s], sent[s], Settled4(s))
        /\ a.frame \notin Settled4(s)
        /\ Follows(Tail(down[s]), up[s], sent[s], Settled4(s) \cup {a.frame})
    <3> HIDE DEF Settled4
    <3> QED
      BY <2>1, <1>s, <1>f, FollowsTaking DEF a
  <2>6. Way(down[s]) = Way(Tail(down[s])) \cup Carried(a)
    BY <2>1, <1>s, WayTail DEF a
  <2>7. Carried(a) = {} \/ Carried(a) = {a.frame}
    BY DEF Carried
  <2>8. Books(Tail(down[s]), up[s], sent[s], sv, Of(journal, s), Of(unsaved, s),
              Of(gone, s), Of(reported, s))
    <3>1. Settled(sv, Of(journal, s), Of(unsaved, s), Of(gone, s)) = Settled4(s) \cup Carried(a)
      BY DEF Settled
    <3>2. Follows(Tail(down[s]), up[s], sent[s], Settled4(s) \cup Carried(a))
      <4>1. Settled4(s) \cup {} = Settled4(s)
        OBVIOUS
      <4> HIDE DEF Settled4
      <4> QED
        BY <4>1, <2>5, <2>7, Zenon
    <3>3. Apart(sv, Of(journal, s), Of(unsaved, s), Of(gone, s))
      <4>1. \A f \in Carried(a) :
              f \notin Of(journal, s) /\ f \notin Of(unsaved, s) /\ f \notin Of(gone, s)
        BY <2>5, <2>7, Zenon DEF Settled
      <4>2. Apart(Of(saving, s), Of(journal, s), Of(unsaved, s), Of(gone, s))
        BY <1>f, Zenon
      <4> QED
        BY <4>1, <4>2, Zenon DEF Apart
    <3>4. Of(reported, s) = Way(Tail(down[s])) \cup (Settled4(s) \cup Carried(a))
      BY <1>f, <2>6
    <3> QED
      BY <3>1, <3>2, <3>3, <3>4, Zenon DEF Books
  <2> QED
    BY <1>0, <2>1, <2>2, <2>4, <2>8, OthersKeepBooks, Zenon
<1>4. ASSUME NEW s \in Sockets, Over(s) PROVE AInv'
  <2>1. /\ down[s] # <<>> /\ Head(down[s]).kind # "data"
        /\ down' = [down EXCEPT ![s] = Tail(@)]
        /\ UNCHANGED <<up, sent, store>>
    BY <1>4, SMT DEF Over
  <2>2. /\ down'[s] = Tail(down[s])
        /\ \A t \in Sockets \ {s} : down'[t] = down[t]
    BY <2>1, <1>t, SMT
  <2>3. Way(down[s]) = Way(Tail(down[s]))
    BY <2>1, <1>s, WayTail DEF Carried
  <2> HIDE DEF Settled4
  <2>4. Follows(Tail(down[s]), up[s], sent[s], Settled4(s))
    BY <2>1, <1>s, <1>f, FollowsTaking
  <2>5. Books(Tail(down[s]), up[s], sent[s], Of(saving, s), Of(journal, s), Of(unsaved, s),
              Of(gone, s), Of(reported, s))
    BY <2>3, <2>4, <1>f, Zenon DEF Books, Settled4
  <2> QED
    BY <1>0, <2>1, <2>2, <2>5, OthersKeepBooks, Zenon DEF store
<1>5. ASSUME NEW s \in Sockets, NEW rows \in BOOLEAN, Analyze(s, rows) PROVE AInv'
  <2> DEFINE a == [kind |-> "data", frame |-> Head(up[s]), rows |-> rows]
  <2>1. /\ up[s] # <<>> /\ up' = [up EXCEPT ![s] = Tail(@)]
        /\ down' = [down EXCEPT ![s] = Append(@, a)]
        /\ reported' = IF rows THEN reported \cup {<<s, Head(up[s])>>} ELSE reported
        /\ UNCHANGED <<sent, saving, journal, unsaved, gone>>
    BY <1>5, Zenon DEF Analyze
  <2>2. Head(up[s]) \in Frames
    BY <2>1, <1>s, SMT
  <2>3. a \in Messages /\ a.kind = "data" /\ a.frame = Head(up[s]) /\ a.rows = rows
    BY <2>2, MessagesTyped, Zenon DEF Messages
  <2> HIDE DEF a
  <2>4. /\ up'[s] = Tail(up[s]) /\ down'[s] = Append(down[s], a)
        /\ \A t \in Sockets \ {s} : up'[t] = up[t] /\ down'[t] = down[t]
    BY <2>1, <1>t, SMT
  <2>5. /\ \A t \in Sockets \ {s}, f \in Frames :
             <<t, f>> \in reported' <=> <<t, f>> \in reported
        /\ Of(reported', s) = Of(reported, s) \cup Carried(a)
    BY <2>1, <2>2, <2>3, SMT DEF Of, Carried
  <2> HIDE DEF Settled4
  <2>6. Follows(Append(down[s], a), Tail(up[s]), sent[s], Settled4(s))
    BY <2>1, <2>3, <1>s, <1>f, FollowsAnswering
  <2>7. Way(Append(down[s], a)) = Way(down[s]) \cup Carried(a)
    BY <2>3, <1>s, WayAppend
  <2>8. Of(reported', s) = Way(Append(down[s], a)) \cup Settled4(s)
    BY <2>5, <2>7, <1>f
  <2>9. Books(Append(down[s], a), Tail(up[s]), sent[s], Of(saving, s), Of(journal, s),
              Of(unsaved, s), Of(gone, s), Of(reported', s))
    BY <2>6, <2>8, <1>f, Zenon DEF Books, Settled4
  <2> QED
    BY <1>0, <2>1, <2>4, <2>5, <2>9, OthersKeepBooks, Zenon
<1>6. ASSUME NEW s \in Sockets, NEW k \in {"error", "end"}, CloseCall(s, k) PROVE AInv'
  <2> DEFINE a == [kind |-> k]
  <2>1. /\ up' = [up EXCEPT ![s] = <<>>] /\ down' = [down EXCEPT ![s] = Append(@, a)]
        /\ UNCHANGED <<sent, store>>
    BY <1>6, Zenon DEF CloseCall
  <2>2. a \in Messages /\ a.kind # "data"
    BY MessagesTyped, SMT DEF Messages
  <2> HIDE DEF a
  <2>3. /\ up'[s] = <<>> /\ down'[s] = Append(down[s], a)
        /\ \A t \in Sockets \ {s} : up'[t] = up[t] /\ down'[t] = down[t]
    BY <2>1, <1>t, SMT
  <2> HIDE DEF Settled4
  <2>4. Follows(Append(down[s], a), <<>>, sent[s], Settled4(s))
    BY <2>2, <1>s, <1>f, FollowsClosing
  <2>5. Way(Append(down[s], a)) = Way(down[s])
    BY <2>2, <1>s, WayAppend DEF Carried
  <2>6. Books(Append(down[s], a), <<>>, sent[s], Of(saving, s), Of(journal, s),
              Of(unsaved, s), Of(gone, s), Of(reported, s))
    BY <2>4, <2>5, <1>f, Zenon DEF Books, Settled4
  <2> QED
    BY <1>0, <2>1, <2>3, <2>6, OthersKeepBooks, Zenon DEF store
<1>7. ASSUME NEW s \in Sockets, AiLost(s) PROVE AInv'
  <2> DEFINE a == [kind |-> "error"]
             lost == {x \in OnTheWay : x[1] = s}
  <2>1. /\ up' = [up EXCEPT ![s] = <<>>] /\ down' = [down EXCEPT ![s] = <<a>>]
        /\ gone' = gone \cup lost
        /\ UNCHANGED <<sent, saving, journal, unsaved, reported>>
    BY <1>7, Zenon DEF AiLost
  <2>2. a \in Messages /\ a.kind # "data"
    BY MessagesTyped, SMT DEF Messages
  <2> HIDE DEF a
  <2>3. /\ up'[s] = <<>> /\ down'[s] = <<a>>
        /\ \A t \in Sockets \ {s} : up'[t] = up[t] /\ down'[t] = down[t]
    BY <2>1, <1>t, SMT
  <2>4. ASSUME NEW t \in Sockets, NEW f \in Frames
        PROVE  <<t, f>> \in lost <=> t = s /\ f \in Way(down[s])
    <3>1. DOMAIN down[t] = 1..Len(down[t])
      BY <1>s, SMT
    <3>2. <<t, f>> \in OnTheWay <=> f \in Way(down[t])
      BY <3>1, SMT DEF OnTheWay, Way
    <3> QED
      BY <3>2, SMT
  <2> HIDE DEF lost
  <2>5. /\ \A t \in Sockets \ {s}, f \in Frames : <<t, f>> \in gone' <=> <<t, f>> \in gone
        /\ Of(gone', s) = Of(gone, s) \cup Way(down[s])
    BY <2>1, <2>4 DEF Of, Way
  <2>6. /\ Follows(<<a>>, <<>>, sent[s], Settled4(s) \cup Way(down[s]))
        /\ Way(<<a>>) = {}
        /\ Way(down[s]) \cap Settled4(s) = {}
    <3> HIDE DEF Settled4
    <3> QED
      BY <2>2, <1>s, <1>d, <1>f, FollowsLosing
  <2>7. Books(<<a>>, <<>>, sent[s], Of(saving, s), Of(journal, s), Of(unsaved, s),
              Of(gone', s), Of(reported, s))
    <3>1. Settled(Of(saving, s), Of(journal, s), Of(unsaved, s), Of(gone', s))
            = Settled4(s) \cup Way(down[s])
      BY <2>5 DEF Settled
    <3>2. Apart(Of(saving, s), Of(journal, s), Of(unsaved, s), Of(gone', s))
      BY <1>f, <2>5, <2>6 DEF Apart, Settled
    <3>3. Of(reported, s) = Way(<<a>>) \cup (Settled4(s) \cup Way(down[s]))
      BY <1>f, <2>6
    <3> QED
      BY <3>1, <3>2, <3>3, <2>6, Zenon DEF Books
  <2> QED
    BY <1>0, <2>1, <2>3, <2>5, <2>7, OthersKeepBooks, Zenon
<1>8. ASSUME NEW x \in Sockets \X Frames, SaveDone(x) \/ SaveFails(x) PROVE AInv'
  <2>1. PICK s \in Sockets, f \in Frames : x = <<s, f>>
    OBVIOUS
  <2>2. /\ <<s, f>> \in saving /\ saving' = saving \ {<<s, f>>}
        /\ \/ journal' = journal \cup {<<s, f>>} /\ unsaved' = unsaved
           \/ unsaved' = unsaved \cup {<<s, f>>} /\ journal' = journal
        /\ UNCHANGED <<down, up, sent, gone, reported>>
    BY <1>8, <2>1, Zenon DEF SaveDone, SaveFails, calls
  <2>3. \A t \in Sockets \ {s}, g \in Frames :
          /\ <<t, g>> \in saving' <=> <<t, g>> \in saving
          /\ <<t, g>> \in journal' <=> <<t, g>> \in journal
          /\ <<t, g>> \in unsaved' <=> <<t, g>> \in unsaved
    BY <2>2
  <2>4. /\ f \in Of(saving, s) /\ Of(saving', s) = Of(saving, s) \ {f}
        /\ \/ Of(journal', s) = Of(journal, s) \cup {f} /\ Of(unsaved', s) = Of(unsaved, s)
           \/ Of(unsaved', s) = Of(unsaved, s) \cup {f} /\ Of(journal', s) = Of(journal, s)
    BY <2>2 DEF Of
  <2>5. Books(down[s], up[s], sent[s], Of(saving', s), Of(journal', s), Of(unsaved', s),
              Of(gone, s), Of(reported, s))
    <3>1. Settled(Of(saving', s), Of(journal', s), Of(unsaved', s), Of(gone, s)) = Settled4(s)
      BY <2>4 DEF Settled
    <3>2. Apart(Of(saving', s), Of(journal', s), Of(unsaved', s), Of(gone, s))
      BY <2>4, <1>f DEF Apart
    <3> QED
      BY <3>1, <3>2, <1>f, Zenon DEF Books
  <2> QED
    BY <1>0, <2>2, <2>3, <2>5, OthersKeepBooks, Zenon
<1>9. ASSUME NEW s \in Sockets, Connect(s) \/ Refuse(s) \/ Disconnect(s) PROVE AInv'
  BY <1>1, <1>9, Zenon DEF Connect, Refuse, Disconnect, calls
<1>10. CASE UNCHANGED vars
  BY <1>1, <1>10, Zenon DEF vars, calls
<1>11. ASSUME NEW s \in Sockets, Serve(s) PROVE AInv'
  BY <1>5, <1>6, <1>11, Zenon DEF Serve, AnalyzeFails, AnalyzeEnds
<1> QED
  BY <1>2, <1>3, <1>4, <1>7, <1>8, <1>9, <1>10, <1>11, Zenon DEF Next, Deliver

\* Socket by socket or as sets of rows, the accounts are the same.
LEMMA AccountsAreKept == AInv => RowsAccounted
<1> SUFFICES ASSUME AInv PROVE RowsAccounted
  OBVIOUS
<1> DEFINE All == OnTheWay \cup saving \cup journal \cup unsaved \cup gone
<1>1. /\ saving \subseteq Sockets \X Frames /\ journal \subseteq Sockets \X Frames
      /\ unsaved \subseteq Sockets \X Frames /\ gone \subseteq Sockets \X Frames
      /\ reported \subseteq Sockets \X Frames /\ OnTheWay \subseteq Sockets \X Frames
  BY Zenon DEF AInv, TInv, OnTheWay
<1>2. ASSUME NEW s \in Sockets, NEW f \in Frames
      PROVE  /\ <<s, f>> \in OnTheWay <=> f \in Way(down[s])
             /\ <<s, f>> \in saving <=> f \in Of(saving, s)
             /\ <<s, f>> \in journal <=> f \in Of(journal, s)
             /\ <<s, f>> \in unsaved <=> f \in Of(unsaved, s)
             /\ <<s, f>> \in gone <=> f \in Of(gone, s)
             /\ <<s, f>> \in reported <=> f \in Of(reported, s)
  <2>1. down[s] \in Seq(Messages)
    BY Zenon DEF AInv, TInv, OInv, IInv, Messages
  <2>2. DOMAIN down[s] = 1..Len(down[s])
    BY <2>1, SMT
  <2>3. <<s, f>> \in OnTheWay <=> f \in Way(down[s])
    BY <2>2, SMT DEF OnTheWay, Way
  <2> QED
    BY <2>3, Zenon DEF Of
<1>3. ASSUME NEW s \in Sockets, NEW f \in Frames
      PROVE  /\ <<s, f>> \in reported <=> <<s, f>> \in All
             /\ ~(<<s, f>> \in OnTheWay /\ <<s, f>> \in saving \cup journal \cup unsaved \cup gone)
             /\ ~(<<s, f>> \in saving /\ <<s, f>> \in journal \cup unsaved \cup gone)
             /\ ~(<<s, f>> \in journal /\ <<s, f>> \in unsaved \cup gone)
             /\ ~(<<s, f>> \in unsaved /\ <<s, f>> \in gone)
  <2>1. Books(down[s], up[s], sent[s], Of(saving, s), Of(journal, s), Of(unsaved, s),
              Of(gone, s), Of(reported, s))
    BY Zenon DEF AInv, BooksOf
  <2>2. /\ Of(reported, s) = Way(down[s]) \cup
             Settled(Of(saving, s), Of(journal, s), Of(unsaved, s), Of(gone, s))
        /\ Apart(Of(saving, s), Of(journal, s), Of(unsaved, s), Of(gone, s))
    BY <2>1, Zenon DEF Books
  <2>3. Way(down[s]) \cap Settled(Of(saving, s), Of(journal, s), Of(unsaved, s), Of(gone, s)) = {}
    <3> DEFINE done == Settled(Of(saving, s), Of(journal, s), Of(unsaved, s), Of(gone, s))
               a == [kind |-> "error"]
    <3>1. done \in SUBSET Frames
      BY DEF Of, Settled
    <3>2. a \in Messages /\ a.kind # "data"
      BY MessagesTyped, SMT DEF Messages
    <3>3. down[s] \in Seq(Messages)
      BY Zenon DEF AInv, TInv, OInv, IInv, Messages
    <3>4. Follows(down[s], up[s], sent[s], done)
      BY <2>1, Zenon DEF Books
    <3> HIDE DEF done, a
    <3>5. Way(down[s]) \cap done = {}
      BY <3>1, <3>2, <3>3, <3>4, FollowsLosing
    <3> QED
      BY <3>5 DEF done
  <2> QED
    BY <1>2, <2>2, <2>3 DEF Settled, Apart
<1>4. reported = All
  BY <1>1, <1>3
<1>5. ASSUME NEW x \in reported
      PROVE  LET places == <<OnTheWay, saving, journal, unsaved, gone>>
             IN  \A i, j \in DOMAIN places : x \in places[i] /\ x \in places[j] => i = j
  <2> DEFINE places == <<OnTheWay, saving, journal, unsaved, gone>>
  <2>1. PICK s \in Sockets, f \in Frames : x = <<s, f>>
    BY <1>1
  <2>2. /\ ~(x \in OnTheWay /\ x \in saving \cup journal \cup unsaved \cup gone)
        /\ ~(x \in saving /\ x \in journal \cup unsaved \cup gone)
        /\ ~(x \in journal /\ x \in unsaved \cup gone)
        /\ ~(x \in unsaved /\ x \in gone)
    BY <2>1, <1>3
  <2>3. DOMAIN places = {1, 2, 3, 4, 5}
    BY SMT
  <2>4. /\ places[1] = OnTheWay /\ places[2] = saving /\ places[3] = journal
        /\ places[4] = unsaved /\ places[5] = gone
    OBVIOUS
  <2> HIDE DEF places
  <2>5. ASSUME NEW i \in {1, 2, 3, 4, 5}, NEW j \in {1, 2, 3, 4, 5},
               x \in places[i], x \in places[j]
        PROVE  i = j
    BY <2>2, <2>4, <2>5, SMT
  <2>6. \A i, j \in DOMAIN places : x \in places[i] /\ x \in places[j] => i = j
    BY <2>3, <2>5, Zenon
  <2> QED
    BY <2>6 DEF places
<1> QED
  BY <1>4, <1>5 DEF RowsAccounted

\* For any number of connections and frames, every row the AI service sent is
\* on its way, being saved, in the journal, known as not saved, or lost with a
\* call that broke, and only one of these, its browser being gone or not
\* (stream.gateway.ts:72-94,104-131).
THEOREM RowsKept == Spec => []RowsAccounted
  BY AccountsInit, AccountsStep, AccountsAreKept, PTL DEF Spec

-----------------------------------------------------------------------------
(***************************************************************************)
(* The live camera: the sender of the browser around the gateway.          *)
(***************************************************************************)
\* Before and during a connection, the credits in use are frames or
\* acknowledgements on their way.
Balanced(s) ==
  conn[s] \in {"new", "open"} =>
    inFlight[s] = wire[s] + acks[s] /\ inFlight[s] <= MaxInFlight

BalanceInv ==
  /\ conn \in [Sockets -> {"new", "open", "refused", "closed"}]
  /\ inFlight \in [Sockets -> Nat]
  /\ wire \in [Sockets -> Nat]
  /\ acks \in [Sockets -> Nat]
  /\ \A s \in Sockets : Balanced(s)

\* No connection has begun: no credit is in use.
LEMMA BalanceInit == LInit => BalanceInv
  BY LiveAssumption, SMT DEF LiveAssumption, LInit, Init, BalanceInv, Balanced

\* A step of the gateway opens no connection but a new one.
LEMMA Opens ==
  ASSUME BalanceInv, [Next]_vars
  PROVE  /\ conn' \in [Sockets -> {"new", "open", "refused", "closed"}]
         /\ \A s \in Sockets : conn'[s] \in {"new", "open"} => conn[s] \in {"new", "open"}
<1> USE DEF BalanceInv
<1>0. ASSUME UNCHANGED conn
      PROVE  /\ conn' \in [Sockets -> {"new", "open", "refused", "closed"}]
             /\ \A s \in Sockets : conn'[s] \in {"new", "open"} => conn[s] \in {"new", "open"}
  BY <1>0, Zenon
<1>1. ASSUME NEW s \in Sockets, Connect(s) \/ Refuse(s) \/ Disconnect(s)
      PROVE  /\ conn' \in [Sockets -> {"new", "open", "refused", "closed"}]
             /\ \A t \in Sockets : conn'[t] \in {"new", "open"} => conn[t] \in {"new", "open"}
  BY <1>1, SMT DEF Connect, Refuse, Disconnect
<1>2. ASSUME NEW s \in Sockets, Frame(s) \/ Deliver(s) \/ Serve(s) \/ AiLost(s)
      PROVE  UNCHANGED conn
  BY <1>2, Zenon DEF Frame, Deliver, Data, Over, Serve, Analyze, AnalyzeFails,
     AnalyzeEnds, CloseCall, AiLost
<1>3. ASSUME NEW x \in Sockets \X Frames, SaveDone(x) \/ SaveFails(x)
      PROVE  UNCHANGED conn
  BY <1>3, Zenon DEF SaveDone, SaveFails
<1>4. CASE UNCHANGED vars
  BY <1>4, <1>0, Zenon DEF vars
<1> QED
  BY <1>0, <1>1, <1>2, <1>3, <1>4, Zenon DEF Next

\* Every step of the whole is a step of the gateway, or leaves it alone.
LEMMA GatewaySteps == [LNext]_lvars => [Next]_vars
<1>1. ASSUME NEW s \in Sockets, Send(s) \/ Accept(s) \/ Credit(s) \/ Gateway(s)
      PROVE  [Next]_vars
  BY <1>1, Zenon DEF Send, Accept, Credit, Gateway, Next, Deliver
<1> QED
  BY <1>1, Zenon DEF LNext, lvars, Next

\* A change of the counters of one socket: if they keep their types and the
\* balance of that socket, the invariant is kept.
LEMMA Moved ==
  ASSUME BalanceInv, NEW s \in Sockets,
         conn' \in [Sockets -> {"new", "open", "refused", "closed"}],
         \A t \in Sockets : conn'[t] \in {"new", "open"} => conn[t] \in {"new", "open"},
         NEW i \in Nat, NEW w \in Nat, NEW a \in Nat,
         inFlight' = [inFlight EXCEPT ![s] = i],
         wire' = [wire EXCEPT ![s] = w],
         acks' = [acks EXCEPT ![s] = a],
         conn[s] \in {"new", "open"} => i = w + a /\ i <= MaxInFlight
  PROVE  BalanceInv'
<1>1. /\ inFlight' \in [Sockets -> Nat]
      /\ wire' \in [Sockets -> Nat]
      /\ acks' \in [Sockets -> Nat]
  BY SMT DEF BalanceInv
<1>2. ASSUME NEW t \in Sockets PROVE Balanced(t)'
  <2>1. CASE t = s
    BY <2>1, SMT DEF BalanceInv, Balanced
  <2>2. CASE t # s
    <3>1. inFlight'[t] = inFlight[t] /\ wire'[t] = wire[t] /\ acks'[t] = acks[t]
      BY <2>2, Zenon DEF BalanceInv
    <3> QED
      BY <3>1, Zenon DEF BalanceInv, Balanced
  <2> QED
    BY <2>1, <2>2
<1> QED
  BY <1>1, <1>2, Zenon DEF BalanceInv

\* Neither the browser nor the gateway upsets the balance.
LEMMA BalanceStep == BalanceInv /\ [LNext]_lvars => BalanceInv'
<1> SUFFICES ASSUME BalanceInv, [LNext]_lvars PROVE BalanceInv'
  OBVIOUS
<1>c. /\ conn' \in [Sockets -> {"new", "open", "refused", "closed"}]
      /\ \A s \in Sockets : conn'[s] \in {"new", "open"} => conn[s] \in {"new", "open"}
  BY GatewaySteps, Opens, Zenon
<1>0. ASSUME UNCHANGED browser PROVE BalanceInv'
  BY <1>0, <1>c, SMT DEF BalanceInv, Balanced, browser
<1>1. ASSUME NEW s \in Sockets, Send(s) PROVE BalanceInv'
  <2>1. /\ inFlight[s] < MaxInFlight
        /\ inFlight' = [inFlight EXCEPT ![s] = @ + 1]
        /\ wire' = [wire EXCEPT ![s] = @ + 1]
        /\ acks' = acks
    BY <1>1, Zenon DEF Send, HasCredit
  <2>2. /\ inFlight[s] + 1 \in Nat /\ wire[s] + 1 \in Nat /\ acks[s] \in Nat
        /\ conn[s] \in {"new", "open"} =>
             inFlight[s] + 1 = (wire[s] + 1) + acks[s] /\ inFlight[s] + 1 <= MaxInFlight
    BY <2>1, LiveAssumption, SMT DEF LiveAssumption, BalanceInv, Balanced
  <2>3. /\ inFlight' = [inFlight EXCEPT ![s] = inFlight[s] + 1]
        /\ wire' = [wire EXCEPT ![s] = wire[s] + 1]
        /\ acks' = [acks EXCEPT ![s] = acks[s]]
    BY <2>1, SMT DEF BalanceInv, Balanced
  <2> QED
    BY <2>2, <2>3, <1>c, Moved
<1>2. ASSUME NEW s \in Sockets, Accept(s) PROVE BalanceInv'
  <2>1. /\ wire[s] > 0 /\ wire' = [wire EXCEPT ![s] = @ - 1]
        /\ acks' = [acks EXCEPT ![s] = @ + 1] /\ inFlight' = inFlight
    BY <1>2, Zenon DEF Accept, Acked
  <2>2. /\ inFlight[s] \in Nat /\ wire[s] - 1 \in Nat /\ acks[s] + 1 \in Nat
        /\ conn[s] \in {"new", "open"} =>
             inFlight[s] = (wire[s] - 1) + (acks[s] + 1) /\ inFlight[s] <= MaxInFlight
    BY <2>1, LiveAssumption, SMT DEF LiveAssumption, BalanceInv, Balanced
  <2>3. /\ inFlight' = [inFlight EXCEPT ![s] = inFlight[s]]
        /\ wire' = [wire EXCEPT ![s] = wire[s] - 1]
        /\ acks' = [acks EXCEPT ![s] = acks[s] + 1]
    BY <2>1, SMT DEF BalanceInv, Balanced
  <2> QED
    BY <2>2, <2>3, <1>c, Moved
<1>3. ASSUME NEW s \in Sockets, Credit(s) PROVE BalanceInv'
  <2>1. /\ conn[s] = "open" /\ acks[s] > 0
        /\ acks' = [acks EXCEPT ![s] = @ - 1]
        /\ inFlight' = [inFlight EXCEPT ![s] = IF @ > 0 THEN @ - 1 ELSE 0]
        /\ wire' = wire
    BY <1>3, Zenon DEF Credit
  <2>0. inFlight[s] > 0
    BY <2>1, SMT DEF BalanceInv, Balanced
  <2>2. /\ inFlight[s] - 1 \in Nat /\ wire[s] \in Nat /\ acks[s] - 1 \in Nat
        /\ conn[s] \in {"new", "open"} =>
             inFlight[s] - 1 = wire[s] + (acks[s] - 1) /\ inFlight[s] - 1 <= MaxInFlight
    BY <2>1, LiveAssumption, SMT DEF LiveAssumption, BalanceInv, Balanced
  <2>3. /\ inFlight' = [inFlight EXCEPT ![s] = inFlight[s] - 1]
        /\ wire' = [wire EXCEPT ![s] = wire[s]]
        /\ acks' = [acks EXCEPT ![s] = acks[s] - 1]
    BY <2>0, <2>1, SMT DEF BalanceInv
  <2> QED
    BY <2>2, <2>3, <1>c, Moved
<1>4. ASSUME NEW s \in Sockets, Gateway(s) PROVE BalanceInv'
  BY <1>4, <1>0, Zenon DEF Gateway
<1>5. CASE UNCHANGED lvars
  BY <1>5, <1>0, Zenon DEF lvars
<1> QED
  BY <1>0, <1>1, <1>2, <1>3, <1>4, <1>5, Zenon DEF LNext

\* For any number of credits, those in use are frames or acknowledgements on
\* the connection, the AI call being over or not (vision.service.ts:303-320,
\* stream.gateway.ts:144-153).
THEOREM CreditBalance == LSpec => []CreditsOnTheWire
<1>1. BalanceInv => CreditsOnTheWire
  BY SMT DEF BalanceInv, Balanced, CreditsOnTheWire
<1> QED
  BY <1>1, BalanceInit, BalanceStep, PTL DEF LSpec

\* The browser and its credits take nothing from the gateway: all that is
\* proved of it holds of the live camera (stream.gateway.ts:62-153,
\* metrics.service.ts:34-41).
THEOREM GatewayWithin ==
  LSpec => /\ []TypeOK
           /\ []NoGhostSession
           /\ []MetricsCountEmitted
           /\ []AnswersInOrder
           /\ []RowsAccounted
<1>1. LInit => Init
  BY Zenon DEF LInit
<1>2. AInv => /\ TypeOK /\ NoGhostSession /\ MetricsCountEmitted
              /\ AnswersInOrder /\ RowsAccounted
  BY TypesOf, AnswersAreInOrder, AccountsAreKept, Zenon DEF AInv, TInv, OInv, IInv
<1> QED
  BY <1>1, <1>2, GatewaySteps, AccountsInit, AccountsStep, PTL DEF LSpec

\* The live camera implements the gateway, whose calls it makes as the gateway
\* allows and no others; fairness is another matter (stream.gateway.ts:48-153).
THEOREM LiveRefinesGateway == LSpec => Init /\ [][Next]_vars
<1>1. LInit => Init
  BY Zenon DEF LInit
<1> QED
  BY <1>1, GatewaySteps, PTL DEF LSpec
=============================================================================
