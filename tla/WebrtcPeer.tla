------------------------------ MODULE WebrtcPeer ------------------------------
(***************************************************************************)
(* The AI side of the WebRTC transport (ai-service/visiocheck_ai/webrtc.py *)
(* and server.py, Connect): an offer makes a peer and its consumer of      *)
(* frames; results go back on the data channel of the browser, if it is    *)
(* open; a connection that is over is closed and the peer forgotten.       *)
(*                                                                         *)
(* Peers are numbered like the starts of the capture that made them; a     *)
(* browser offers one video track and one channel.  What a frame holds and *)
(* what process() makes of it are SessionPipeline's.                       *)
(***************************************************************************)
EXTENDS Naturals, Sequences, FiniteSets

CONSTANTS
  Peers,      \* the peer connections of the browser
  MaxFrames   \* bound on the frames the consumer of each reads

ASSUME PeerAssumption == MaxFrames \in [Peers -> Nat]

VARIABLES
  remote,     \* the browser's RTCPeerConnection: "none", "open", "closed"
  offer,      \* the exchange: "none", "sent", "handled" (the peer exists),
              \* "described", "answered", "applied", or over for an error,
              \* "failed" with a peer or "refused" without
  kept,       \* _peers
  conn,       \* pc.connectionState: "new", "connecting", "connected", "lost"
              \* (failed, disconnected or closed by the browser), "closing",
              \* "closed"
  channel,    \* channel_holder: "none", "open", "closed"
  consumer,   \* _consume: "none", "on", "done"
  frame,      \* frame_id
  inProcess,  \* the frames awaited from process()
  seen        \* history: the frames whose results the browser got, in order

ai == <<kept, conn, channel, consumer, frame, inProcess, seen>>

PInit ==
  /\ remote = [p \in Peers |-> "none"]
  /\ offer = [p \in Peers |-> "none"]
  /\ kept = {}
  /\ conn = [p \in Peers |-> "new"]
  /\ channel = [p \in Peers |-> "none"]
  /\ consumer = [p \in Peers |-> "none"]
  /\ frame = [p \in Peers |-> 0]
  /\ inProcess = [p \in Peers |-> {}]
  /\ seen = [p \in Peers |-> <<>>]

-----------------------------------------------------------------------------
\* Connect cannot be reached, or has no aiortc: the error goes to the browser.
ConnectFails(p) ==
  /\ offer[p] = "sent"
  /\ offer' = [offer EXCEPT ![p] = "refused"]
  /\ UNCHANGED <<remote, ai>>

\* Connect and handle_offer, up to setRemoteDescription.
HandleOffer(p) ==
  /\ offer[p] = "sent"
  /\ offer' = [offer EXCEPT ![p] = "handled"]
  /\ kept' = kept \cup {p}
  /\ UNCHANGED <<remote, conn, channel, consumer, frame, inProcess, seen>>

\* setRemoteDescription: the 'track' event starts the consumer.
SetRemoteDescription(p) ==
  /\ offer[p] = "handled"
  /\ offer' = [offer EXCEPT ![p] = "described"]
  /\ consumer' = [consumer EXCEPT ![p] = "on"]
  /\ UNCHANGED <<remote, kept, conn, channel, frame, inProcess, seen>>

\* handle_offer raises: the error goes to the browser, the peer stays.
OfferFails(p) ==
  /\ offer[p] \in {"handled", "described"}
  /\ offer' = [offer EXCEPT ![p] = "failed"]
  /\ UNCHANGED <<remote, ai>>

\* setLocalDescription starts to connect; the answer is returned.
Answer(p) ==
  /\ offer[p] = "described"
  /\ offer' = [offer EXCEPT ![p] = "answered"]
  /\ conn' = [conn EXCEPT ![p] = "connecting"]
  /\ UNCHANGED <<remote, kept, channel, consumer, frame, inProcess, seen>>

\* Both sides have both descriptions.
Connected(p) ==
  /\ offer[p] = "applied" /\ remote[p] = "open" /\ conn[p] = "connecting"
  /\ conn' = [conn EXCEPT ![p] = "connected"]
  /\ UNCHANGED <<remote, offer, kept, channel, consumer, frame, inProcess, seen>>

\* on_datachannel.
OnDataChannel(p) ==
  /\ conn[p] = "connected" /\ channel[p] = "none"
  /\ channel' = [channel EXCEPT ![p] = "open"]
  /\ UNCHANGED <<remote, offer, kept, conn, consumer, frame, inProcess, seen>>

\* The connection fails, or the browser has closed its side.
Lost(p) ==
  /\ conn[p] \in {"connecting", "connected"}
  /\ conn' = [conn EXCEPT ![p] = "lost"]
  /\ UNCHANGED <<remote, offer, kept, channel, consumer, frame, inProcess, seen>>

\* Mutant: the peer is forgotten while it is being closed.
ForgottenFirst(p) == kept \ {p}

\* What _peers holds while on_state_change awaits pc.close().
KeptWhileClosing(p) == kept

\* on_state_change awaits pc.close(): the receiving track and the channel end.
Close(p) ==
  /\ conn[p] = "lost"
  /\ conn' = [conn EXCEPT ![p] = "closing"]
  /\ kept' = KeptWhileClosing(p)
  /\ UNCHANGED <<remote, offer, channel, consumer, frame, inProcess, seen>>

\* Mutant: a closed peer is never discarded.
DiscardedNot(p) == kept

\* _peers.discard(pc).
Discarded(p) == kept \ {p}

\* close() returns, and on_state_change goes on.
Closed(p) ==
  /\ conn[p] = "closing"
  /\ conn' = [conn EXCEPT ![p] = "closed"]
  /\ channel' = [channel EXCEPT ![p] = IF @ = "open" THEN "closed" ELSE @]
  /\ kept' = Discarded(p)
  /\ UNCHANGED <<remote, offer, consumer, frame, inProcess, seen>>

-----------------------------------------------------------------------------
\* Mutant: process() is started and not awaited.
NotAwaited(p) == consumer[p] = "on"

\* The consumer is back at track.recv().
AtRecv(p) == consumer[p] = "on" /\ inProcess[p] = {}

\* recv() gives a frame.
Recv(p) ==
  /\ AtRecv(p) /\ conn[p] = "connected" /\ remote[p] = "open"
  /\ frame[p] < MaxFrames[p]
  /\ frame' = [frame EXCEPT ![p] = @ + 1]
  /\ inProcess' = [inProcess EXCEPT ![p] = @ \cup {frame'[p]}]
  /\ UNCHANGED <<remote, offer, kept, conn, channel, consumer, seen>>

\* to_image() raises, outside the try: the consumer ends with its frame.
ReadFails(p) ==
  /\ AtRecv(p) /\ conn[p] = "connected" /\ remote[p] = "open"
  /\ frame[p] < MaxFrames[p]
  /\ frame' = [frame EXCEPT ![p] = @ + 1]
  /\ consumer' = [consumer EXCEPT ![p] = "done"]
  /\ UNCHANGED <<remote, offer, kept, conn, channel, inProcess, seen>>

\* process() returns: the result is sent if the channel is open.
Processed(p, f) ==
  /\ f \in inProcess[p]
  /\ inProcess' = [inProcess EXCEPT ![p] = @ \ {f}]
  /\ seen' = [seen EXCEPT ![p] =
                IF channel[p] = "open" /\ remote[p] = "open" THEN Append(@, f) ELSE @]
  /\ UNCHANGED <<remote, offer, kept, conn, channel, consumer, frame>>

\* json.dumps() or send() raises, outside the try: the consumer ends.
SendFails(p, f) ==
  /\ f \in inProcess[p] /\ channel[p] = "open"
  /\ inProcess' = [inProcess EXCEPT ![p] = @ \ {f}]
  /\ consumer' = [consumer EXCEPT ![p] = "done"]
  /\ UNCHANGED <<remote, offer, kept, conn, channel, frame, seen>>

\* process() raises: the next frame.
ProcessFails(p, f) ==
  /\ f \in inProcess[p]
  /\ inProcess' = [inProcess EXCEPT ![p] = @ \ {f}]
  /\ UNCHANGED <<remote, offer, kept, conn, channel, consumer, frame, seen>>

\* recv() raises MediaStreamError: the track has ended.  That aiortc ends it
\* when pc is closed, were it never connected, is an assumption on aiortc.
TrackEnds(p) ==
  /\ AtRecv(p)
  /\ conn[p] \in {"closing", "closed"} \/ (remote[p] = "closed" /\ conn[p] = "connected")
  /\ consumer' = [consumer EXCEPT ![p] = "done"]
  /\ UNCHANGED <<remote, offer, kept, conn, channel, frame, inProcess, seen>>

Peer(p) ==
  \/ ConnectFails(p) \/ HandleOffer(p) \/ SetRemoteDescription(p) \/ OfferFails(p)
  \/ Answer(p)
  \/ Connected(p) \/ OnDataChannel(p) \/ Lost(p)
  \/ Close(p) \/ Closed(p)
  \/ Recv(p) \/ ReadFails(p) \/ TrackEnds(p)
  \/ \E f \in inProcess[p] : Processed(p, f) \/ SendFails(p, f) \/ ProcessFails(p, f)

-----------------------------------------------------------------------------
\* The state of every peer has its type.
PeerTypeOK ==
  /\ remote \in [Peers -> {"none", "open", "closed"}]
  /\ offer \in [Peers -> {"none", "sent", "handled", "described", "answered", "applied",
                       "failed", "refused"}]
  /\ kept \subseteq Peers
  /\ conn \in [Peers -> {"new", "connecting", "connected", "lost", "closing", "closed"}]
  /\ channel \in [Peers -> {"none", "open", "closed"}]
  /\ consumer \in [Peers -> {"none", "on", "done"}]
  /\ \A p \in Peers : frame[p] \in 0..MaxFrames[p]
  /\ \A p \in Peers : inProcess[p] \subseteq 1..frame[p]
  /\ \A p \in Peers : seen[p] \in Seq(1..frame[p])

\* webrtc.py:34, "Conserve les pairs actifs (évite leur ramassage par le GC)":
\* a peer that is not closed is in _peers, at every await of its negotiation
\* and of its closing (webrtc.py:63-78).
ActivePeersKept ==
  \A p \in Peers :
    offer[p] \notin {"none", "sent", "refused"} /\ conn[p] # "closed" => p \in kept

\* The results of a peer reach the browser in the order of its frames,
\* whichever fail or come before the channel is open: the browser's view of
\* the scene never goes back (webrtc.py:101-119).
ResultsInOrder ==
  \A p \in Peers : \A i, j \in DOMAIN seen[p] : i < j => seen[p][i] < seen[p][j]
=============================================================================
