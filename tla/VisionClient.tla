----------------------------- MODULE VisionClient -----------------------------
(***************************************************************************)
(* The browser's link with the backend (frontend/src/app/vision.service.ts *)
(* over the Socket.IO client): connection and reconnection, the fallback   *)
(* on simulated data, the credits that limit the frames under way, the     *)
(* feed and the history it is primed with.                                 *)
(*                                                                         *)
(* Entries of the feed and rows of the journal are known by their date     *)
(* (atMs); every analysis here carries one event.  A page makes one peer   *)
(* connection at a time: CaptureLoop has the starts that overlap, and the  *)
(* AI side.  The count of skipped frames, only displayed, is left out.     *)
(***************************************************************************)
EXTENDS Naturals, Sequences, SequencesExt

CONSTANTS
  MaxInFlight,    \* VisionService.MAX_IN_FLIGHT
  HistoryLimit,   \* rows asked for on connection (30)
  FeedLimit,      \* entries the feed keeps (50)
  DemoMode,       \* environment.demoMode
  Refusing,       \* the backend may refuse the token of this browser
  MaxAt,          \* bound on the rows journaled
  MaxShocks       \* bound on the calls of connect() and the network losses

ASSUME ClientAssumption ==
  {MaxInFlight, HistoryLimit, FeedLimit, MaxAt, MaxShocks} \subseteq Nat

VARIABLES
  net,         \* the backend can be reached
  link,        \* the socket: "none", "opening", "open", "waiting" (for the
               \* next attempt), "dead" (closed by the backend: no more attempt)
  served,      \* history: the socket has been open since connect()
  connected,   \* VisionService.connected
  demo,        \* VisionService.demo
  timer,       \* demoTimer is set
  inFlight,    \* VisionService.inFlight
  unacked,     \* frames emitted on the open connection, not yet acknowledged
  down,        \* analyses on their way to the browser
  overlay,     \* the detections shown: "empty", "live", "simulated"
  feed,        \* VisionService.feed, newest first
  asked,       \* history requests not yet answered
  answers,     \* answers not yet received
  transport,   \* environment.transport
  peer,        \* startWebrtc: "none", "asking" (for the ICE servers), "made"
               \* (VisionService.pc is set), "open" (its channel is)
  now,         \* the date of the last row of the backend, which has them all
  shocks

demoState == <<demo, timer>>
credits == <<inFlight, unacked>>
history == <<asked, answers>>
webrtc == <<transport, peer>>
vars == <<net, link, served, connected, demoState, credits, down, overlay, feed,
          history, webrtc, now, shocks>>

-----------------------------------------------------------------------------
\* slice(0, n), take: n.
Slice(s, n) == SubSeq(s, 1, IF Len(s) < n THEN Len(s) ELSE n)

\* Mutant: the feed grows without limit.
PushedAll(at) == <<at>> \o feed

\* pushFeed: the entry goes to the head, the feed keeps its limit.
Pushed(at) == Slice(<<at>> \o feed, FeedLimit)

\* loadHistory's update: the history goes below what is there.
Primed(items) == Slice(feed \o items, FeedLimit)

\* EventStore.recent: the last rows, newest first.
Recent == Slice([i \in 1..now |-> now + 1 - i], HistoryLimit)

Init ==
  /\ net \in BOOLEAN
  /\ link = "none"
  /\ served = FALSE
  /\ connected = FALSE
  /\ demo = FALSE
  /\ timer = FALSE
  /\ inFlight = 0
  /\ unacked = 0
  /\ down = <<>>
  /\ overlay = "empty"
  /\ feed = <<>>
  /\ asked = 0
  /\ answers = <<>>
  /\ transport \in {"ws", "webrtc"}
  /\ peer = "none"
  /\ now = 0
  /\ shocks = 0

\* What was on a connection that is over never arrives.
LinkLost == unacked' = 0 /\ down' = <<>>

\* Mutant: the socket goes on retrying behind the demo.
EnableDemoRetrying ==
  /\ link' = "waiting"
  /\ demo' = TRUE
  /\ timer' = TRUE
  /\ feed' = Pushed(now)

\* enableDemo: the socket is given up, the peer connection is not.
EnableDemo ==
  /\ link' = "none"
  /\ demo' = TRUE
  /\ timer' = TRUE
  /\ feed' = Pushed(now)

\* connect(): nothing when there is a socket or in demo mode.
Connect ==
  /\ link = "none" /\ ~demo
  /\ shocks < MaxShocks
  /\ shocks' = shocks + 1
  /\ IF DemoMode
     THEN EnableDemo
     ELSE link' = "opening" /\ UNCHANGED <<demoState, feed>>
  /\ UNCHANGED <<net, served, connected, credits, down, overlay, history, webrtc, now>>

\* Mutant: what the lost connection owed is still counted.
CreditsKept == inFlight

\* The credits a new connection starts with.
FreshCredits == 0

\* The 'connect' handler, on the first connection and on the later ones.
OnConnect ==
  /\ link = "opening" /\ net
  /\ link' = "open"
  /\ served' = TRUE
  /\ connected' = TRUE
  /\ inFlight' = FreshCredits
  /\ asked' = asked + 1
  /\ UNCHANGED <<net, demoState, unacked, down, overlay, feed, answers, webrtc, now, shocks>>

\* The network or the backend fails and the client notices: 'disconnect',
\* then another attempt after a delay.
OnDisconnect ==
  /\ link = "open" /\ ~net
  /\ link' = "waiting"
  /\ connected' = FALSE
  /\ LinkLost
  /\ UNCHANGED <<net, served, demoState, inFlight, overlay, feed, history, webrtc, now, shocks>>

\* The backend refuses the token: 'stream-error', then 'disconnect', and the
\* client library makes no other attempt.
OnRefused ==
  /\ link = "open" /\ net /\ Refusing
  /\ link' = "dead"
  /\ connected' = FALSE
  /\ feed' = Pushed(now)
  /\ LinkLost
  /\ UNCHANGED <<net, served, demoState, inFlight, overlay, history, webrtc, now, shocks>>

Retry ==
  /\ link = "waiting"
  /\ link' = "opening"
  /\ UNCHANGED <<net, served, connected, demoState, credits, down, overlay, feed,
                 history, webrtc, now, shocks>>

\* The 'connect_error' handler: an attempt fails, the first one or a later one.
OnConnectError ==
  /\ link = "opening" /\ ~net
  /\ IF ~connected /\ ~demo
     THEN EnableDemo
     ELSE link' = "waiting" /\ UNCHANGED <<demoState, feed>>
  /\ UNCHANGED <<net, served, connected, credits, down, overlay, history, webrtc, now, shocks>>

\* stopWebrtc: pc?.close(); a start that has no pc yet is missed.
StopWebrtc ==
  /\ peer' = IF peer \in {"made", "open"} THEN "none" ELSE peer
  /\ UNCHANGED transport

\* disconnect(), on logout.
Disconnect ==
  /\ link' = "none"
  /\ served' = FALSE
  /\ connected' = FALSE
  /\ timer' = FALSE
  /\ demo' = FALSE
  /\ overlay' = "empty"
  /\ LinkLost
  /\ StopWebrtc
  /\ UNCHANGED <<net, inFlight, feed, history, now, shocks>>

-----------------------------------------------------------------------------
\* sendFrame with a credit left; without one, the frame is skipped.
SendFrame ==
  /\ transport = "ws"
  /\ link = "open"
  /\ inFlight < MaxInFlight
  /\ inFlight' = inFlight + 1
  /\ unacked' = unacked + 1
  /\ UNCHANGED <<net, link, served, connected, demoState, down, overlay, feed,
                 history, webrtc, now, shocks>>

\* Math.max(0, inFlight - 1).
Freed == IF inFlight > 0 THEN inFlight - 1 ELSE 0

\* The acknowledgement of the oldest frame arrives.
OnAck ==
  /\ link = "open" /\ net
  /\ unacked > 0
  /\ unacked' = unacked - 1
  /\ inFlight' = Freed
  /\ UNCHANGED <<net, link, served, connected, demoState, down, overlay, feed,
                 history, webrtc, now, shocks>>

\* onAnalysis, of an analysis with an event of that date.
Analysed(at) ==
  /\ overlay' = "live"
  /\ feed' = Pushed(at)

\* The 'analysis' handler.
OnAnalysis ==
  /\ link = "open" /\ net
  /\ down # <<>>
  /\ down' = Tail(down)
  /\ Analysed(Head(down))
  /\ UNCHANGED <<net, link, served, connected, demoState, credits, history, webrtc, now, shocks>>

\* startWebrtc, up to its first await.
StartWebrtc ==
  /\ transport = "webrtc" /\ peer = "none"
  /\ link # "none" /\ ~demo
  /\ peer' = "asking"
  /\ UNCHANGED <<net, link, served, connected, demoState, credits, down, overlay,
                 feed, history, transport, now, shocks>>

\* fetchIceServers answers, or falls back: the peer connection is made,
\* whatever has become of the link.
GotIceServers ==
  /\ peer = "asking"
  /\ peer' = "made"
  /\ UNCHANGED <<net, link, served, connected, demoState, credits, down, overlay,
                 feed, history, transport, now, shocks>>

\* The offer and its answer have gone over the socket: the channel opens.
ChannelOpens ==
  /\ peer = "made"
  /\ link = "open" /\ net
  /\ peer' = "open"
  /\ UNCHANGED <<net, link, served, connected, demoState, credits, down, overlay,
                 feed, history, transport, now, shocks>>

\* stop() or the end of the connection.
PeerCloses ==
  /\ peer \in {"made", "open"}
  /\ StopWebrtc
  /\ UNCHANGED <<net, link, served, connected, demoState, credits, down, overlay,
                 feed, history, now, shocks>>

\* channel.onmessage: it asks for no socket and goes on in the demo.
OnChannelAnalysis ==
  /\ peer = "open"
  /\ Analysed(now)
  /\ UNCHANGED <<net, link, served, connected, demoState, credits, down, history,
                 webrtc, now, shocks>>

\* The 'stream-error' handler.
OnStreamError ==
  /\ link = "open" /\ net
  /\ feed' = Pushed(now)
  /\ UNCHANGED <<net, link, served, connected, demoState, credits, down, overlay,
                 history, webrtc, now, shocks>>

\* stepDemo: a tick of the demo timer shows simulated objects and may push
\* entries.
StepDemo ==
  /\ timer
  /\ overlay' = "simulated"
  /\ \E n \in 0..FeedLimit :
       feed' = Slice([i \in 1..n |-> now] \o feed, FeedLimit)
  /\ UNCHANGED <<net, link, served, connected, demoState, credits, down,
                 history, webrtc, now, shocks>>

\* loadHistory gets its answer and puts it in the feed, whatever has become
\* of the link meanwhile.
LoadHistory(i) ==
  /\ i \in DOMAIN answers
  /\ answers' = RemoveAt(answers, i)
  /\ feed' = Primed(answers[i])
  /\ UNCHANGED <<net, link, served, connected, demoState, credits, down, overlay,
                 asked, webrtc, now, shocks>>

\* The request fails, or its answer is an error.
LoadHistoryFails ==
  /\ asked > 0
  /\ asked' = asked - 1
  /\ UNCHANGED <<net, link, served, connected, demoState, credits, down, overlay,
                 feed, answers, webrtc, now, shocks>>

-----------------------------------------------------------------------------
\* The backend answers a history request.
Answer ==
  /\ asked > 0 /\ net
  /\ asked' = asked - 1
  /\ answers' = Append(answers, Recent)
  /\ UNCHANGED <<net, link, served, connected, demoState, credits, down, overlay,
                 feed, webrtc, now, shocks>>

\* The backend journals a row, of this browser (and emits it, if it still has
\* its connection) or of another camera.
Report ==
  /\ now < MaxAt
  /\ now' = now + 1
  /\ down' \in {down} \cup
               (IF link = "open" /\ transport = "ws" THEN {Append(down, now')} ELSE {})
  /\ UNCHANGED <<net, link, served, connected, demoState, credits, overlay, feed,
                 history, webrtc, shocks>>

NetLost ==
  /\ net /\ shocks < MaxShocks
  /\ net' = FALSE
  /\ shocks' = shocks + 1
  /\ UNCHANGED <<link, served, connected, demoState, credits, down, overlay, feed,
                 history, webrtc, now>>

NetBack ==
  /\ ~net
  /\ net' = TRUE
  /\ UNCHANGED <<link, served, connected, demoState, credits, down, overlay, feed,
                 history, webrtc, now, shocks>>

Next ==
  \/ Connect \/ OnConnect \/ OnDisconnect \/ OnRefused \/ Retry
  \/ OnConnectError \/ Disconnect
  \/ SendFrame \/ OnAck \/ OnAnalysis \/ OnStreamError \/ StepDemo
  \/ StartWebrtc \/ GotIceServers \/ ChannelOpens \/ PeerCloses \/ OnChannelAnalysis
  \/ (\E i \in DOMAIN answers : LoadHistory(i)) \/ LoadHistoryFails
  \/ Answer \/ Report \/ NetLost \/ NetBack

\* Losses of the network end; the client library connects, retries, and
\* notices a lost connection (its ping timeout); the backend acknowledges
\* every frame it receives.
Fairness ==
  /\ WF_vars(NetBack)
  /\ WF_vars(OnConnect) /\ WF_vars(OnConnectError) /\ WF_vars(Retry)
  /\ WF_vars(OnDisconnect)
  /\ WF_vars(OnAck)

Spec == Init /\ [][Next]_vars /\ Fairness

-----------------------------------------------------------------------------
\* Every piece of state has its type, and the feed its limit.
TypeOK ==
  /\ net \in BOOLEAN
  /\ link \in {"none", "opening", "open", "waiting", "dead"}
  /\ served \in BOOLEAN
  /\ connected \in BOOLEAN
  /\ demo \in BOOLEAN
  /\ timer \in BOOLEAN
  /\ inFlight \in 0..MaxInFlight
  /\ unacked \in 0..MaxInFlight
  /\ down \in Seq(1..MaxAt)
  /\ overlay \in {"empty", "live", "simulated"}
  /\ feed \in Seq(0..MaxAt) /\ Len(feed) <= FeedLimit
  /\ asked \in Nat
  /\ answers \in Seq(Seq(1..MaxAt))
  /\ transport \in {"ws", "webrtc"}
  /\ peer \in {"none", "asking", "made", "open"}
  /\ now \in 0..MaxAt
  /\ shocks \in 0..MaxShocks

\* On an open connection the credits in use are exactly the frames that will
\* still be acknowledged: acknowledgements lost with an earlier connection
\* take none for good, and none is given back twice
\* (vision.service.ts:64,303-320).
CreditsExact == link = "open" => inFlight = unacked

\* The status in the header tells the truth: "connecté" when the socket is
\* open, "démo" when there is no socket and the timer runs; a demo never
\* goes on behind a connection, and simulated objects are shown in the demo
\* only.  The converse does not hold: the demo leaves the peer connection
\* open, and its analyses then alternate with the simulated objects
\* (vision.service.ts:39-41,67,88-97,128,198-208,229-232).
StatusHonest ==
  /\ connected <=> link = "open"
  /\ demo => link = "none"
  /\ demo <=> timer
  /\ overlay = "simulated" => demo

\* vision.service.ts:48, "reconnection: true par défaut → résilience aux
\* coupures réseau": a client that was connected and lost the network is
\* connected again once it is back, unless the user logged out.
ConnectionComesBack == served ~> connected \/ ~served
=============================================================================
