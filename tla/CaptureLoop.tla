----------------------------- MODULE CaptureLoop -----------------------------
(***************************************************************************)
(* The capture of the camera in the browser (frontend/src/app:             *)
(* app.component.ts, toggle, start, stop, captureAndSend;                  *)
(* vision.service.ts, startWebrtc, stopWebrtc), with the peers it makes on *)
(* the AI side.  start() waits for the camera, for the player and, with    *)
(* WebRTC, for the negotiation; the button is live meanwhile and calls     *)
(* start() again as long as `running` is false.                            *)
(*                                                                         *)
(* A start is known by its number, and with it the camera stream, the      *)
(* interval timer and the peer connection it makes; 0 stands for           *)
(* undefined.  The link with the backend is VisionClient's: here, there is *)
(* a socket or not.  Frames are counted, not drawn.                        *)
(***************************************************************************)
EXTENDS WebrtcPeer

CONSTANTS
  MaxStarts,  \* bound on the starts
  MaxTicks    \* bound on the captures of a page

ASSUME CaptureAssumption ==
  Peers = 1..MaxStarts /\ MaxStarts \in Nat /\ MaxTicks \in Nat

Starts == 1..MaxStarts

VARIABLES
  transport,    \* environment.transport
  socket,       \* VisionService.socket is set, and not in demo mode
  starts,       \* the starts made
  stage,        \* where each is: "none", "asking", "playing", "ice",
                \* "offering", "done"
  cams,         \* the camera streams that are on
  stream,       \* AppComponent.stream
  running,      \* AppComponent.running
  timers,       \* the interval timers that are on
  captureTimer, \* AppComponent.captureTimer
  pc,           \* VisionService.pc
  ticks, encoding, \* the captures made, and those being encoded
  frameId,      \* AppComponent.frameId
  clean         \* history: no start overlapped another, none failed in
                \* play(), and no stop came before the peer connection was made

capture == <<cams, stream, running, timers, captureTimer>>
encoder == <<ticks, encoding, frameId>>
vars == <<transport, socket, starts, stage, capture, pc, encoder, clean,
          remote, offer, ai>>

Init ==
  /\ PInit
  /\ transport \in {"ws", "webrtc"}
  /\ socket \in BOOLEAN
  /\ starts = 0
  /\ stage = [s \in Starts |-> "none"]
  /\ cams = {} /\ stream = 0
  /\ running = FALSE
  /\ timers = {} /\ captureTimer = 0
  /\ pc = 0
  /\ ticks = 0 /\ encoding = {} /\ frameId = 0
  /\ clean = TRUE

\* No start waits for anything.
Settled == \A s \in Starts : stage[s] \in {"none", "done"}

-----------------------------------------------------------------------------
\* toggle, the button saying "Démarrer": start() asks for the camera.
Start ==
  /\ ~running /\ starts < MaxStarts
  /\ starts' = starts + 1
  /\ stage' = [stage EXCEPT ![starts'] = "asking"]
  /\ clean' = (clean /\ Settled)
  /\ UNCHANGED <<transport, socket, capture, pc, encoder, remote, offer, ai>>

\* getUserMedia resolves: the stream goes to the player.
GotCamera(s) ==
  /\ stage[s] = "asking"
  /\ stage' = [stage EXCEPT ![s] = "playing"]
  /\ cams' = cams \cup {s}
  /\ stream' = s
  /\ UNCHANGED <<transport, socket, starts, running, timers, captureTimer, pc,
                 encoder, clean, remote, offer, ai>>

\* getUserMedia rejects: an error message.
CameraRefused(s) ==
  /\ stage[s] = "asking"
  /\ stage' = [stage EXCEPT ![s] = "done"]
  /\ UNCHANGED <<transport, socket, starts, capture, pc, encoder, clean, remote, offer, ai>>

\* play() rejects: an error message, and the stream stays on.
PlayFails(s) ==
  /\ stage[s] = "playing"
  /\ stage' = [stage EXCEPT ![s] = "done"]
  /\ clean' = FALSE
  /\ UNCHANGED <<transport, socket, starts, capture, pc, encoder, remote, offer, ai>>

\* play() resolves: frames are captured by the timer, or the stream is
\* offered to the AI service (not without socket, nor in demo mode).
Playing(s) ==
  /\ stage[s] = "playing"
  /\ running' = TRUE
  /\ IF transport = "ws"
     THEN /\ timers' = timers \cup {s} /\ captureTimer' = s
          /\ stage' = [stage EXCEPT ![s] = "done"]
     ELSE /\ stage' = [stage EXCEPT ![s] = IF socket THEN "ice" ELSE "done"]
          /\ UNCHANGED <<timers, captureTimer>>
  /\ UNCHANGED <<transport, socket, starts, cams, stream, pc, encoder, clean,
                 remote, offer, ai>>

\* fetchIceServers answers (or falls back): the peer connection is made.
GotIceServers(s) ==
  /\ stage[s] = "ice"
  /\ stage' = [stage EXCEPT ![s] = "offering"]
  /\ remote' = [remote EXCEPT ![s] = "open"]
  /\ pc' = s
  /\ UNCHANGED <<transport, socket, starts, capture, encoder, clean, offer, ai>>

\* createOffer, setLocalDescription and the candidates are done: the offer
\* is emitted.
SendOffer(s) ==
  /\ stage[s] = "offering" /\ remote[s] = "open" /\ socket
  /\ stage' = [stage EXCEPT ![s] = "done"]
  /\ offer' = [offer EXCEPT ![s] = "sent"]
  /\ UNCHANGED <<transport, socket, starts, capture, pc, encoder, clean, remote, ai>>

\* The connection was closed meanwhile, or the socket is gone: start() throws,
\* an error message.
OfferingFails(s) ==
  /\ stage[s] = "offering" /\ (remote[s] = "closed" \/ ~socket)
  /\ stage' = [stage EXCEPT ![s] = "done"]
  /\ UNCHANGED <<transport, socket, starts, capture, pc, encoder, clean, remote, offer, ai>>

\* The answer arrives.
OnAnswer(s) ==
  /\ offer[s] = "answered" /\ remote[s] = "open" /\ socket
  /\ offer' = [offer EXCEPT ![s] = "applied"]
  /\ UNCHANGED <<transport, socket, starts, stage, capture, pc, encoder, clean, remote, ai>>

\* Mutant: the tracks of the stream go on.
TracksLeft == cams

\* stream.getTracks().forEach(stop).
TracksStopped == cams \ {stream}

\* stopWebrtc: pc?.close().
StopWebrtc ==
  /\ remote' = [s \in Starts |-> IF s = pc THEN "closed" ELSE remote[s]]
  /\ pc' = 0

\* toggle, the button saying "Arrêter": stop().
Stop ==
  /\ running
  /\ running' = FALSE
  /\ timers' = timers \ {captureTimer} /\ captureTimer' = 0
  /\ cams' = TracksStopped /\ stream' = 0
  /\ StopWebrtc
  /\ clean' = (clean /\ \A s \in Starts : stage[s] \in {"none", "offering", "done"})
  /\ UNCHANGED <<transport, socket, starts, stage, encoder, offer, ai>>

\* logout(): the socket and the peer connection go, the capture goes on.
Logout ==
  /\ socket' = FALSE
  /\ StopWebrtc
  /\ UNCHANGED <<transport, starts, stage, capture, encoder, clean, offer, ai>>

\* enableDemo(): the socket goes, not the peer connection.
EnableDemo ==
  /\ socket
  /\ socket' = FALSE
  /\ UNCHANGED <<transport, starts, stage, capture, pc, encoder, clean, remote, offer, ai>>

\* startConnection(), after a login.
Login ==
  /\ ~socket
  /\ socket' = TRUE
  /\ UNCHANGED <<transport, starts, stage, capture, pc, encoder, clean, remote, offer, ai>>

\* The page is closed or reloaded: the browser ends all it has.
Unload ==
  /\ starts > 0
  /\ socket' = FALSE
  /\ stage' = [s \in Starts |-> IF stage[s] = "none" THEN "none" ELSE "done"]
  /\ cams' = {} /\ stream' = 0 /\ running' = FALSE
  /\ timers' = {} /\ captureTimer' = 0
  /\ remote' = [s \in Starts |-> IF remote[s] = "open" THEN "closed" ELSE remote[s]]
  /\ pc' = 0
  /\ ticks' = 0 /\ encoding' = {} /\ frameId' = 0
  /\ clean' = TRUE
  /\ UNCHANGED <<transport, starts, offer, ai>>

-----------------------------------------------------------------------------
\* captureAndSend, at a tick of a timer: the picture goes to the encoder.
CaptureAndSend ==
  /\ timers # {} /\ ticks < MaxTicks
  /\ ticks' = ticks + 1
  /\ encoding' = encoding \cup {ticks'}
  /\ UNCHANGED <<transport, socket, starts, stage, capture, pc, frameId, clean,
                 remote, offer, ai>>

\* Mutant: a frame takes two numbers.
NumberTwice(picture) == frameId + 2

\* ++this.frameId, when the buffer is ready.
Number(picture) == frameId + 1

\* toBlob and arrayBuffer are done, in any order: the frame is numbered and
\* given to sendFrame.
Encoded(picture) ==
  /\ picture \in encoding
  /\ encoding' = encoding \ {picture}
  /\ frameId' = Number(picture)
  /\ UNCHANGED <<transport, socket, starts, stage, capture, pc, ticks, clean,
                 remote, offer, ai>>

\* toBlob gives nothing.
NotEncoded(picture) ==
  /\ picture \in encoding
  /\ encoding' = encoding \ {picture}
  /\ UNCHANGED <<transport, socket, starts, stage, capture, pc, ticks, frameId, clean,
                 remote, offer, ai>>

App(s) ==
  \/ GotCamera(s) \/ CameraRefused(s) \/ PlayFails(s) \/ Playing(s)
  \/ GotIceServers(s) \/ SendOffer(s) \/ OfferingFails(s) \/ OnAnswer(s)

AiStep(s) ==
  /\ Peer(s)
  /\ UNCHANGED <<transport, socket, starts, stage, capture, pc, encoder, clean>>

Next ==
  \/ Start \/ Stop \/ Logout \/ EnableDemo \/ Login \/ Unload
  \/ CaptureAndSend
  \/ \E picture \in encoding : Encoded(picture) \/ NotEncoded(picture)
  \/ \E s \in Starts : App(s) \/ AiStep(s)

\* What the AI service does by itself for a peer: go on with its offer and
\* with a frame, notice that the browser has closed its side, run the handler
\* and the consumer.
Progress(s) ==
  \/ HandleOffer(s) \/ SetRemoteDescription(s) \/ OfferFails(s) \/ Answer(s)
  \/ remote[s] = "closed" /\ Lost(s)
  \/ Close(s) \/ Closed(s) \/ TrackEnds(s)
  \/ \E f \in inProcess[s] : Processed(s, f) \/ ProcessFails(s, f)

\* The AI service does not stop.  Nothing is asked of the browser nor of the
\* network.
Fairness == \A s \in Starts : WF_vars(Progress(s) /\ AiStep(s))

Spec == Init /\ [][Next]_vars /\ Fairness

-----------------------------------------------------------------------------
\* Every piece of state has its type.
TypeOK ==
  /\ PeerTypeOK
  /\ socket \in BOOLEAN /\ running \in BOOLEAN /\ clean \in BOOLEAN
  /\ starts \in 0..MaxStarts
  /\ stage \in [Starts -> {"none", "asking", "playing", "ice", "offering", "done"}]
  /\ cams \subseteq Starts /\ timers \subseteq Starts
  /\ {stream, captureTimer, pc} \subseteq 0..MaxStarts
  /\ ticks \in 0..MaxTicks /\ encoding \subseteq 1..ticks
  /\ frameId \in 0..ticks

\* What stop() ends is all there is.
AllInHand ==
  /\ cams = {stream} \ {0}
  /\ timers = {captureTimer} \ {0}
  /\ {s \in Starts : remote[s] = "open"} = {pc} \ {0}

\* When the starts follow one another, none fails in play() and none is
\* stopped before it has its peer connection, the capture never loses hold of
\* a camera, a timer or a peer connection, and nothing is on while the button
\* says "Démarrer" (app.component.ts:218-256, vision.service.ts:220-259).
CleanStop ==
  clean /\ Settled => AllInHand /\ (~running => cams \cup timers = {} /\ pc = 0)

\* A peer that the browser has closed is forgotten and its consumer ends,
\* unless its offer failed (webrtc.py:73-78,104-106).
PeerReleased ==
  \A s \in Starts :
    remote[s] = "closed" /\ offer[s] # "none"
      ~> \/ offer[s] \in {"failed", "refused"}
         \/ s \notin kept /\ consumer[s] = "done"
=============================================================================
