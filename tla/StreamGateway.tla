---------------------------- MODULE StreamGateway ----------------------------
(***************************************************************************)
(* The real-time gateway of the backend (backend/src/stream) with what its *)
(* handlers change: the session registry, the metrics, the journal, and    *)
(* the gRPC call to the AI service that each connection owns.  Every       *)
(* handler runs to its end in one turn of the Node event loop; between two *)
(* turns anything may arrive.                                              *)
(*                                                                         *)
(* A socket id is given to one connection only.  An analysis is known by   *)
(* its frame and by whether it has something to journal.                   *)
(***************************************************************************)
EXTENDS Naturals, Sequences, FiniteSets

CONSTANTS
  Sockets,     \* the ids Socket.IO gives to connections
  MaxFrames    \* bound on the frames a connection sends

ASSUME GatewayAssumption == MaxFrames \in Nat

VARIABLES
  conn,       \* of a socket: "new", "open", "refused", "closed"
  registry,   \* SessionRegistry.sessions, its keys
  metrics,    \* MetricsService.sessions: analyses counted, by session
  streams,    \* StreamGateway.streams, its keys
  call,       \* the gRPC call of a socket, seen from the AI service: "none",
              \* "open", "halfClosed" (the gateway has called end()), "over"
  up,         \* frames written on the call, not yet read by the AI service
  down,       \* what the AI service sent, not yet received by the gateway
  sent,       \* frames accepted so far, by socket
  emitted,    \* history: the frames whose analysis was emitted, by socket
  saving,     \* the saves under way, a set of <<socket, frame>>
  journal,    \* the saves done
  unsaved,    \* history: the saves that failed
  reported,   \* history: the rows the AI service sent, <<socket, frame>>
  gone        \* history: those that were lost with a call that broke

calls == <<call, up, down>>
store == <<saving, journal, unsaved, reported, gone>>
vars == <<conn, registry, metrics, streams, calls, sent, emitted, store>>

Frames == 1..MaxFrames

Analysis == [kind: {"data"}, frame: Frames, rows: BOOLEAN]

\* The last message of a call: its error status, or its end.
Status == [kind: {"error", "end"}]

\* The rows on their way from the AI service to the gateway.
OnTheWay ==
  {x \in Sockets \X Frames :
     \E i \in DOMAIN down[x[1]] :
       LET a == down[x[1]][i] IN a.kind = "data" /\ a.rows /\ a.frame = x[2]}

-----------------------------------------------------------------------------
Init ==
  /\ conn = [s \in Sockets |-> "new"]
  /\ registry = {}
  /\ metrics = [s \in {} |-> 0]
  /\ streams = {}
  /\ call = [s \in Sockets |-> "none"]
  /\ up = [s \in Sockets |-> <<>>]
  /\ down = [s \in Sockets |-> <<>>]
  /\ sent = [s \in Sockets |-> 0]
  /\ emitted = [s \in Sockets |-> <<>>]
  /\ saving = {}
  /\ journal = {}
  /\ unsaved = {}
  /\ reported = {}
  /\ gone = {}

\* handleConnection with a token that verifies.
Connect(s) ==
  /\ conn[s] = "new"
  /\ conn' = [conn EXCEPT ![s] = "open"]
  /\ registry' = registry \cup {s}
  /\ metrics' = [t \in DOMAIN metrics \cup {s} |-> IF t = s THEN 0 ELSE metrics[t]]
  /\ streams' = streams \cup {s}
  /\ call' = [call EXCEPT ![s] = "open"]
  /\ UNCHANGED <<up, down, sent, emitted, store>>

\* handleConnection with one that does not: the socket is closed at once, and
\* its handleDisconnect finds nothing to remove.
Refuse(s) ==
  /\ conn[s] = "new"
  /\ conn' = [conn EXCEPT ![s] = "refused"]
  /\ UNCHANGED <<registry, metrics, streams, calls, sent, emitted, store>>

\* Mutant: the call is forgotten without being ended.
EndedNot(s) == call

\* stream.end(), when the map still has the stream of the socket.
Ended(s) ==
  IF s \in streams /\ call[s] = "open"
  THEN [call EXCEPT ![s] = "halfClosed"] ELSE call

\* Mutant: the metrics of the session stay open.
ClosedMetricsNot(s) == metrics

\* MetricsService.close.
ClosedMetrics(s) == [t \in DOMAIN metrics \ {s} |-> metrics[t]]

\* handleDisconnect.
Disconnect(s) ==
  /\ conn[s] = "open"
  /\ conn' = [conn EXCEPT ![s] = "closed"]
  /\ registry' = registry \ {s}
  /\ metrics' = ClosedMetrics(s)
  /\ streams' = streams \ {s}
  /\ call' = Ended(s)
  /\ UNCHANGED <<up, down, sent, emitted, store>>

\* Mutant: a frame that finds another one waiting is dropped, yet accepted.
WrittenIfIdle(s, f) ==
  IF call[s] = "open" /\ up[s] = <<>> THEN [up EXCEPT ![s] = Append(@, f)] ELSE up

\* stream.write: what is written on a call that is over goes nowhere.
Written(s, f) ==
  IF call[s] = "open" THEN [up EXCEPT ![s] = Append(@, f)] ELSE up

(***************************************************************************)
(* handleFrame: the frame is written and acknowledged, whatever the state  *)
(* of the call.  An open connection is always in the map (NoGhostSession), *)
(* so the refusal for want of a stream has no action.                      *)
(***************************************************************************)
Frame(s) ==
  /\ conn[s] = "open" /\ s \in streams
  /\ sent[s] < MaxFrames
  /\ sent' = [sent EXCEPT ![s] = @ + 1]
  /\ up' = Written(s, sent'[s])
  /\ UNCHANGED <<conn, registry, metrics, streams, call, down, emitted, store>>

-----------------------------------------------------------------------------
\* Mutant: an analysis is counted twice.
RecordTwice(s) == IF s \in DOMAIN metrics THEN [metrics EXCEPT ![s] = @ + 2] ELSE metrics

\* Mutant: an unknown session is opened again by its late analysis.
RecordOpens(s) ==
  [t \in DOMAIN metrics \cup {s} |->
     IF t # s THEN metrics[t] ELSE IF s \in DOMAIN metrics THEN metrics[s] + 1 ELSE 1]

\* MetricsService.record: nothing for a session that is closed.
Record(s) == IF s \in DOMAIN metrics THEN [metrics EXCEPT ![s] = @ + 1] ELSE metrics

\* Mutant: only analyses that reach the browser are journaled.
RowsIfOpen(s, a) == IF a.rows /\ conn[s] = "open" THEN {<<s, a.frame>>} ELSE {}

\* The rows persist() hands to the journal.
Rows(s, a) == IF a.rows THEN {<<s, a.frame>>} ELSE {}

\* The 'data' callback: emit, record, start a save.  An emit on a closed
\* socket is lost.
Data(s) ==
  /\ down[s] # <<>>
  /\ LET a == Head(down[s])
     IN  /\ a.kind = "data"
         /\ emitted' = IF conn[s] = "open"
                       THEN [emitted EXCEPT ![s] = Append(@, a.frame)] ELSE emitted
         /\ metrics' = Record(s)
         /\ saving' = saving \cup Rows(s, a)
  /\ down' = [down EXCEPT ![s] = Tail(@)]
  /\ UNCHANGED <<conn, registry, streams, call, up, sent, journal, unsaved,
                 reported, gone>>

\* The 'error' and 'end' callbacks: the one tells the browser, the other
\* logs.  Neither touches the maps.
Over(s) ==
  /\ down[s] # <<>>
  /\ Head(down[s]).kind \in {"error", "end"}
  /\ down' = [down EXCEPT ![s] = Tail(@)]
  /\ UNCHANGED <<conn, registry, metrics, streams, call, up, sent, emitted, store>>

\* EventStore.save resolves, or rejects and is logged.
SaveDone(x) ==
  /\ x \in saving
  /\ saving' = saving \ {x}
  /\ journal' = journal \cup {x}
  /\ UNCHANGED <<conn, registry, metrics, streams, calls, sent, emitted, unsaved,
                 reported, gone>>

SaveFails(x) ==
  /\ x \in saving
  /\ saving' = saving \ {x}
  /\ unsaved' = unsaved \cup {x}
  /\ UNCHANGED <<conn, registry, metrics, streams, calls, sent, emitted, journal,
                 reported, gone>>

-----------------------------------------------------------------------------
(***************************************************************************)
(* The AI service, Analyze: it answers the frames in their order; it       *)
(* aborts the call when one fails; it ends it when the gateway has closed  *)
(* its side and every frame is read.                                       *)
(***************************************************************************)
Analyze(s, rows) ==
  /\ call[s] \in {"open", "halfClosed"}
  /\ up[s] # <<>>
  /\ up' = [up EXCEPT ![s] = Tail(@)]
  /\ down' = [down EXCEPT ![s] =
       Append(@, [kind |-> "data", frame |-> Head(up[s]), rows |-> rows])]
  /\ reported' = IF rows THEN reported \cup {<<s, Head(up[s])>>} ELSE reported
  /\ UNCHANGED <<conn, registry, metrics, streams, call, sent, emitted, saving,
                 journal, unsaved, gone>>

\* The call is over for the AI service, and says so after what it has sent.
CloseCall(s, status) ==
  /\ call' = [call EXCEPT ![s] = "over"]
  /\ up' = [up EXCEPT ![s] = <<>>]
  /\ down' = [down EXCEPT ![s] = Append(@, [kind |-> status])]
  /\ UNCHANGED <<conn, registry, metrics, streams, sent, emitted, store>>

AnalyzeFails(s) ==
  call[s] \in {"open", "halfClosed"} /\ up[s] # <<>> /\ CloseCall(s, "error")

AnalyzeEnds(s) ==
  call[s] = "halfClosed" /\ up[s] = <<>> /\ CloseCall(s, "end")

\* The connection to the AI service breaks: what was on its way is lost.
AiLost(s) ==
  /\ call[s] \in {"open", "halfClosed"}
  /\ call' = [call EXCEPT ![s] = "over"]
  /\ up' = [up EXCEPT ![s] = <<>>]
  /\ down' = [down EXCEPT ![s] = <<[kind |-> "error"]>>]
  /\ gone' = gone \cup {x \in OnTheWay : x[1] = s}
  /\ UNCHANGED <<conn, registry, metrics, streams, sent, emitted, saving, journal,
                 unsaved, reported>>

Serve(s) ==
  \/ \E rows \in BOOLEAN : Analyze(s, rows)
  \/ AnalyzeFails(s)
  \/ AnalyzeEnds(s)

Deliver(s) == Data(s) \/ Over(s)

Next ==
  \/ \E s \in Sockets :
       \/ Connect(s) \/ Refuse(s) \/ Disconnect(s) \/ Frame(s)
       \/ Deliver(s) \/ Serve(s) \/ AiLost(s)
  \/ \E x \in Sockets \X Frames : SaveDone(x) \/ SaveFails(x)

\* The AI service works through its frames and Node delivers its callbacks;
\* browsers, failures and the network are free.
Fairness ==
  \A s \in Sockets : WF_vars(Serve(s)) /\ WF_vars(Deliver(s))

Spec == Init /\ [][Next]_vars /\ Fairness

-----------------------------------------------------------------------------
\* Every piece of state has its type.
TypeOK ==
  /\ conn \in [Sockets -> {"new", "open", "refused", "closed"}]
  /\ registry \subseteq Sockets
  /\ DOMAIN metrics \subseteq Sockets
  /\ metrics \in [DOMAIN metrics -> 0..MaxFrames]
  /\ streams \subseteq Sockets
  /\ call \in [Sockets -> {"none", "open", "halfClosed", "over"}]
  /\ up \in [Sockets -> Seq(Frames)]
  /\ down \in [Sockets -> Seq(Analysis \cup Status)]
  /\ sent \in [Sockets -> 0..MaxFrames]
  /\ emitted \in [Sockets -> Seq(Frames)]
  /\ saving \subseteq Sockets \X Frames
  /\ journal \subseteq Sockets \X Frames
  /\ unsaved \subseteq Sockets \X Frames
  /\ reported \subseteq Sockets \X Frames
  /\ gone \subseteq Sockets \X Frames

Connected == {s \in Sockets : conn[s] = "open"}

\* /sessions, /stats and the relay always speak of the same sessions, those
\* of the open connections: an analysis, an error or an end that arrives
\* after the disconnection brings nothing back (stream.gateway.ts:62-94,
\* metrics.service.ts:34-38).
NoGhostSession ==
  /\ registry = Connected
  /\ DOMAIN metrics = Connected
  /\ streams = Connected

\* /stats counts for a session what its browser was sent, no more and no
\* less (stream.gateway.ts:72-75, metrics.service.ts:39).
MetricsCountEmitted ==
  \A s \in DOMAIN metrics : metrics[s] = Len(emitted[s])

\* The frames of a connection: emitted, on their way back, to be analysed.
InFlightOrder(s) ==
  emitted[s] \o [i \in DOMAIN down[s] |-> down[s][i].frame] \o up[s]

\* A browser gets the analyses of its frames in their order, none twice, and
\* only a broken call makes it miss one: while the call is sound, every frame
\* accepted is emitted, on its way back, or still to be analysed, in this
\* order (stream.gateway.ts:72-75,144, server.py:90-100).
AnswersInOrder ==
  \A s \in Sockets :
    /\ \A i, j \in DOMAIN emitted[s] : i < j => emitted[s][i] < emitted[s][j]
    /\ conn[s] = "open" /\ call[s] = "open" =>
         InFlightOrder(s) = [i \in 1..sent[s] |-> i]

\* No report is lost or saved twice but for two reasons: of what the AI
\* service sent, each is on its way, being saved, in the journal, or its save
\* failed, or it was lost with its call, and it is in one of these places
\* only.  The browser may have gone, its call may be over, other saves may
\* end before or fail: an analysis that is received is journaled all the
\* same.  A save that fails is not tried again: its rows are in `unsaved`
\* for good (stream.gateway.ts:72-94,104-131).
RowsAccounted ==
  /\ reported = OnTheWay \cup saving \cup journal \cup unsaved \cup gone
  /\ \A x \in reported :
       LET places == <<OnTheWay, saving, journal, unsaved, gone>>
       IN  \A i, j \in DOMAIN places :
             x \in places[i] /\ x \in places[j] => i = j

\* A frame that was accepted is answered, or its connection closes, or its
\* call breaks: none waits for ever (stream.gateway.ts:144-153).
FrameAnswered ==
  \A s \in Sockets : \A f \in Frames :
    sent[s] >= f ~> \/ \E i \in DOMAIN emitted[s] : emitted[s][i] = f
                    \/ conn[s] = "closed"
                    \/ call[s] = "over"

\* The call of a browser that left does not stay open on the AI service
\* (stream.gateway.ts:89-93).
CallReleased ==
  \A s \in Sockets : conn[s] = "closed" ~> call[s] = "over"

\* stream.gateway.ts:28: "Une connexion Socket.IO = une session = un flux
\* gRPC bidirectionnel": a session that is listed has a call.
SessionHasStream ==
  \A s \in registry : call[s] = "open" \/ down[s] # <<>>
=============================================================================
