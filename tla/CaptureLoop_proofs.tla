-------------------------- MODULE CaptureLoop_proofs --------------------------
(***************************************************************************)
(* Proofs about the capture and its peers, for any number of starts,       *)
(* captures and frames: the type of the state, the peers that are kept,    *)
(* the order of the results, and what a stop leaves.                       *)
(***************************************************************************)
EXTENDS CaptureLoop, SequenceTheorems, FiniteSetTheorems, TLAPS

\* The state of the peers, by kind of variable.
PType ==
  /\ remote \in [Starts -> {"none", "open", "closed"}]
  /\ offer \in [Starts -> {"none", "sent", "handled", "described", "answered", "applied",
                           "failed", "refused"}]
  /\ kept \subseteq Starts
  /\ conn \in [Starts -> {"new", "connecting", "connected", "lost", "closing", "closed"}]

(***************************************************************************)
(* A start makes its offer once, and its peer does not connect before the  *)
(* answer.                                                                 *)
(***************************************************************************)
OfferedOnce ==
  \A s \in Starts :
    /\ s > starts => stage[s] = "none"
    /\ stage[s] # "done" => offer[s] = "none"
    /\ offer[s] \in {"none", "sent", "handled", "described"} => conn[s] = "new"

PInv == PType /\ OfferedOnce /\ ActivePeersKept

(***************************************************************************)
(* At most one frame of a peer is being processed, the last one read, and  *)
(* its results are not out.                                                *)
(***************************************************************************)
OneFrame(todo, last, out) ==
  /\ last \in Nat
  /\ todo \subseteq {last}
  /\ out \in Seq(Nat)
  /\ \A i \in 1..Len(out) : out[i] <= last
  /\ last \in todo => \A i \in 1..Len(out) : out[i] < last
  /\ \A i, j \in 1..Len(out) : i < j => out[i] < out[j]

FInv ==
  /\ frame \in [Starts -> Nat]
  /\ inProcess \in [Starts -> SUBSET Nat]
  /\ seen \in [Starts -> Seq(Nat)]
  /\ \A p \in Starts : OneFrame(inProcess[p], frame[p], seen[p])

\* The page's own state.
CType ==
  /\ starts \in Nat
  /\ stage \in [Starts -> {"none", "asking", "playing", "ice", "offering", "done"}]
  /\ cams \subseteq Starts /\ timers \subseteq Starts
  /\ {stream, captureTimer, pc} \subseteq Starts \cup {0}
  /\ running \in BOOLEAN /\ clean \in BOOLEAN

(***************************************************************************)
(* A clean capture, at every step of a start: only the last start is under *)
(* way, what is on is in hand, and what a start is about to set is unset.  *)
(***************************************************************************)
Orderly ==
  /\ \A s \in Starts : s # starts => stage[s] \in {"none", "done"}
  /\ AllInHand
  /\ ~running => captureTimer = 0 /\ pc = 0
  /\ ~running => stream = 0 \/ \E s \in Starts : stage[s] = "playing"
  /\ \A s \in Starts :
       /\ stage[s] = "asking" => ~running /\ stream = 0
       /\ stage[s] = "playing" => ~running
       /\ stage[s] = "ice" => running /\ pc = 0

CInv == CType /\ (clean => Orderly)

IInv == PInv /\ FInv /\ CInv

-----------------------------------------------------------------------------
LEMMA PeersAreStarts == Peers = Starts /\ MaxStarts \in Nat /\ 0 \notin Starts
BY CaptureAssumption, SMT DEF Starts

LEMMA InitInv == Init => IInv
<1> SUFFICES ASSUME Init PROVE IInv
  OBVIOUS
<1> USE DEF Init, PInit
<1>1. PInv
  BY PeersAreStarts, SMT DEF PInv, PType, OfferedOnce, ActivePeersKept
<1>2. FInv
  <2>1. OneFrame({}, 0, <<>>)
    BY SMT DEF OneFrame
  <2>2. \A p \in Starts : frame[p] = 0 /\ inProcess[p] = {} /\ seen[p] = <<>>
    BY PeersAreStarts, SMT
  <2>3. /\ frame \in [Starts -> Nat]
        /\ inProcess \in [Starts -> SUBSET Nat]
        /\ seen \in [Starts -> Seq(Nat)]
    BY PeersAreStarts, SMT
  <2> QED
    BY <2>1, <2>2, <2>3, Zenon DEF FInv
<1>3. CInv
  <2>1. CType
    <3>1. running \in BOOLEAN /\ clean \in BOOLEAN
      BY Zenon
    <3>2. starts \in Nat /\ stage \in [Starts -> {"none", "asking", "playing", "ice", "offering", "done"}]
      BY SMT
    <3>3. cams \subseteq Starts /\ timers \subseteq Starts /\ {stream, captureTimer, pc} \subseteq Starts \cup {0}
      BY Zenon
    <3> QED
      BY <3>1, <3>2, <3>3, Zenon DEF CType
  <2>2. AllInHand
    BY PeersAreStarts, SMT DEF AllInHand
  <2> QED
    BY <2>1, <2>2, PeersAreStarts, SMT DEF CInv, Orderly
<1> QED
  BY <1>1, <1>2, <1>3, Zenon DEF IInv

-----------------------------------------------------------------------------
\* Every step keeps the peers that are active.
LEMMA PeersStep ==
  ASSUME PInv, CType, [Next]_vars PROVE PInv'
<1> USE PeersAreStarts DEF PInv, PType, OfferedOnce, ActivePeersKept
<1>t. starts \in Nat /\ stage \in [Starts -> {"none", "asking", "playing", "ice", "offering", "done"}]
  BY Zenon DEF CType
<1>1. ASSUME UNCHANGED <<starts, stage, offer, kept, conn>>,
             remote' \in [Starts -> {"none", "open", "closed"}]
      PROVE  PInv'
  BY <1>1, SMT
<1>2. CASE EnableDemo \/ Login \/ CaptureAndSend \/ UNCHANGED vars
  BY <1>1, <1>2, Zenon DEF EnableDemo, Login, CaptureAndSend, vars, ai, encoder, capture
<1>3. ASSUME NEW picture, Encoded(picture) \/ NotEncoded(picture) PROVE PInv'
  BY <1>1, <1>3, Zenon DEF Encoded, NotEncoded, ai
<1>4. CASE Start
  <2>1. starts < MaxStarts /\ starts' = starts + 1 /\ stage' = [stage EXCEPT ![starts'] = "asking"]
        /\ UNCHANGED <<remote, offer, kept, conn>>
    BY <1>4, Zenon DEF Start, ai
  <2> QED
    BY <2>1, <1>t, SMT DEF Starts
<1>5. CASE Stop \/ Logout
  <2>1. remote' \in [Starts -> {"none", "open", "closed"}]
    BY <1>5, SMT DEF Stop, Logout, StopWebrtc
  <2>2. UNCHANGED <<starts, stage, offer, kept, conn>>
    BY <1>5, Zenon DEF Stop, Logout, ai
  <2> QED
    BY <1>1, <2>1, <2>2, Zenon
<1>6. CASE Unload
  BY <1>6, <1>t, SMT DEF Unload, ai
<1>7. ASSUME NEW s \in Starts, App(s) PROVE PInv'
  <2>1. ASSUME NEW next \in {"playing", "ice", "offering", "done"},
               stage[s] \notin {"none", "done"}, stage' = [stage EXCEPT ![s] = next],
               remote' \in [Starts -> {"none", "open", "closed"}],
               UNCHANGED <<starts, offer, kept, conn>>
        PROVE  PInv'
    BY <2>1, <1>t, SMT
  <2>2. CASE GotCamera(s)
    BY <2>1, <2>2, SMT DEF GotCamera, ai
  <2>3. CASE CameraRefused(s) \/ PlayFails(s) \/ OfferingFails(s)
    BY <2>1, <2>3, SMT DEF CameraRefused, PlayFails, OfferingFails, ai
  <2>4. CASE Playing(s)
    <3>1. PICK next \in {"ice", "done"} : stage' = [stage EXCEPT ![s] = next]
      BY <2>4, Zenon DEF Playing
    <3>2. stage[s] = "playing" /\ UNCHANGED <<starts, remote, offer, kept, conn>>
      BY <2>4, Zenon DEF Playing, ai
    <3> QED
      BY <2>1, <3>1, <3>2, SMT
  <2>5. CASE GotIceServers(s)
    BY <2>1, <2>5, SMT DEF GotIceServers, ai
  <2>6. CASE SendOffer(s)
    BY <2>6, <1>t, SMT DEF SendOffer, ai
  <2>7. CASE OnAnswer(s)
    BY <2>7, <1>t, SMT DEF OnAnswer, ai
  <2> QED
    BY <1>7, <2>2, <2>3, <2>4, <2>5, <2>6, <2>7, Zenon DEF App
<1>8. ASSUME NEW s \in Starts, Peer(s), UNCHANGED <<starts, stage>> PROVE PInv'
  <2>1. CASE ConnectFails(s) \/ HandleOffer(s) \/ OfferFails(s)
    BY <1>8, <2>1, SMT DEF ConnectFails, HandleOffer, OfferFails, ai
  <2>2. CASE SetRemoteDescription(s) \/ Answer(s)
    BY <1>8, <2>2, SMT DEF SetRemoteDescription, Answer
  <2>3. CASE Connected(s) \/ Lost(s)
    BY <1>8, <2>3, SMT DEF Connected, Lost
  <2>4. CASE Close(s)
    BY <1>8, <2>4, SMT DEF Close, KeptWhileClosing
  <2>5. CASE Closed(s)
    BY <1>8, <2>5, SMT DEF Closed, Discarded
  <2>6. CASE OnDataChannel(s) \/ Recv(s) \/ ReadFails(s) \/ TrackEnds(s)
    BY <1>1, <1>8, <2>6, Zenon DEF OnDataChannel, Recv, ReadFails, TrackEnds
  <2>7. ASSUME NEW f, Processed(s, f) \/ SendFails(s, f) \/ ProcessFails(s, f) PROVE PInv'
    BY <1>1, <1>8, <2>7, Zenon DEF Processed, SendFails, ProcessFails
  <2> QED
    BY <1>8, <2>1, <2>2, <2>3, <2>4, <2>5, <2>6, <2>7, Zenon DEF Peer
<1> QED
  BY <1>2, <1>3, <1>4, <1>5, <1>6, <1>7, <1>8, Zenon DEF Next, AiStep

-----------------------------------------------------------------------------
\* A frame read when nothing is being processed is the only one.
LEMMA Read ==
  ASSUME NEW last \in Nat, NEW out, OneFrame({}, last, out)
  PROVE  OneFrame({} \cup {last + 1}, last + 1, out) /\ OneFrame({}, last + 1, out)
BY SMT DEF OneFrame

\* The results of the frame being processed come after those that are out.
LEMMA Sent ==
  ASSUME NEW todo, NEW last \in Nat, NEW out, OneFrame(todo, last, out),
         NEW f \in todo
  PROVE  OneFrame(todo \ {f}, last, Append(out, f)) /\ OneFrame(todo \ {f}, last, out)
<1>1. f = last /\ out \in Seq(Nat) /\ f \in Nat
  BY Zenon DEF OneFrame
<1>2. /\ Append(out, f) \in Seq(Nat) /\ Len(Append(out, f)) = Len(out) + 1
      /\ \A i \in 1..Len(out) : Append(out, f)[i] = out[i]
      /\ Append(out, f)[Len(out) + 1] = f
  BY <1>1, AppendProperties, SMT
<1>3. last \notin todo \ {f} /\ todo \ {f} \subseteq {last}
  BY <1>1, Zenon DEF OneFrame
<1>4. OneFrame(todo \ {f}, last, out)
  BY <1>3, Zenon DEF OneFrame
<1> DEFINE more == Append(out, f)
<1>5. /\ \A i \in 1..Len(more) : more[i] <= last
      /\ \A i, j \in 1..Len(more) : i < j => more[i] < more[j]
  <2>1. \A i \in 1..Len(out) : out[i] < f /\ out[i] \in Nat
    BY <1>1, SMT DEF OneFrame
  <2>2. \A i, j \in 1..Len(out) : i < j => out[i] < out[j]
    BY Zenon DEF OneFrame
  <2>3. Len(out) \in Nat
    BY <1>1, SMT
  <2> HIDE DEF more
  <2>4. /\ Len(more) = Len(out) + 1 /\ more[Len(out) + 1] = f
        /\ \A i \in 1..Len(out) : more[i] = out[i]
    BY <1>2, Zenon DEF more
  <2>5. \A i \in 1..Len(more) : i \in 1..Len(out) \/ i = Len(out) + 1
    BY <2>3, <2>4, SMT
  <2>6. \A i \in 1..Len(more) : more[i] <= last
    <3>1. \A n \in Nat : n < f => n <= last
      BY <1>1, SMT
    <3>2. f <= last
      BY <1>1, SMT
    <3> QED
      BY <2>1, <2>4, <2>5, <3>1, <3>2, Zenon
  <2>7. ASSUME NEW i \in 1..Len(more), NEW j \in 1..Len(more), i < j
        PROVE  more[i] < more[j]
    <3>1. i \in 1..Len(out)
      BY <2>3, <2>4, <2>7, SMT
    <3>2. more[i] = out[i]
      BY <2>4, <3>1, Zenon
    <3>3. CASE j \in 1..Len(out)
      BY <2>2, <2>4, <2>7, <3>1, <3>2, <3>3, Zenon
    <3>4. CASE j = Len(out) + 1
      BY <2>1, <2>4, <3>1, <3>2, <3>4, Zenon
    <3> QED
      BY <2>5, <3>3, <3>4, Zenon
  <2> QED
    BY <2>6, <2>7, Zenon
<1> QED
  BY <1>2, <1>3, <1>4, <1>5, Zenon DEF OneFrame

LEMMA FrameStep ==
  ASSUME FInv, [Next]_vars PROVE FInv'
<1>1. ASSUME UNCHANGED <<frame, inProcess, seen>> PROVE FInv'
  BY <1>1, Zenon DEF FInv
<1>2. CASE \/ Start \/ Stop \/ Logout \/ EnableDemo \/ Login \/ Unload
           \/ CaptureAndSend \/ UNCHANGED vars
  BY <1>1, <1>2, Zenon
  DEF Start, Stop, Logout, EnableDemo, Login, Unload, CaptureAndSend, vars, ai
<1>3. ASSUME NEW picture, Encoded(picture) \/ NotEncoded(picture) PROVE FInv'
  BY <1>1, <1>3, Zenon DEF Encoded, NotEncoded, ai
<1>4. ASSUME NEW s \in Starts, App(s) PROVE FInv'
  BY <1>1, <1>4, Zenon
  DEF App, GotCamera, CameraRefused, PlayFails, Playing, GotIceServers, SendOffer,
      OfferingFails, OnAnswer, ai
<1>5. ASSUME NEW s \in Starts, Peer(s) PROVE FInv'
  <2>1. CASE \/ ConnectFails(s) \/ HandleOffer(s) \/ SetRemoteDescription(s)
             \/ OfferFails(s) \/ Answer(s) \/ Connected(s) \/ OnDataChannel(s)
             \/ Lost(s) \/ Close(s) \/ Closed(s) \/ TrackEnds(s)
    BY <1>1, <2>1, Zenon
    DEF ConnectFails, HandleOffer, SetRemoteDescription, OfferFails, Answer, Connected,
        OnDataChannel, Lost, Close, Closed, TrackEnds, ai
  <2>2. CASE Recv(s)
    <3>1. inProcess[s] = {} /\ frame' = [frame EXCEPT ![s] = @ + 1] /\ UNCHANGED seen
          /\ inProcess' = [inProcess EXCEPT ![s] = @ \cup {frame'[s]}]
      BY <2>2, Zenon DEF Recv, AtRecv
    <3>2. frame[s] \in Nat /\ frame'[s] = frame[s] + 1 /\ seen'[s] = seen[s]
          /\ inProcess'[s] = {} \cup {frame[s] + 1}
      BY <3>1, SMT DEF FInv
    <3>3. /\ frame' \in [Starts -> Nat] /\ inProcess' \in [Starts -> SUBSET Nat]
          /\ seen' \in [Starts -> Seq(Nat)]
          /\ \A p \in Starts \ {s} :
               frame'[p] = frame[p] /\ inProcess'[p] = inProcess[p] /\ seen'[p] = seen[p]
      BY <3>1, SMT DEF FInv
    <3>4. OneFrame({}, frame[s], seen[s])
      BY <3>1, Zenon DEF FInv
    <3>5. OneFrame(inProcess'[s], frame'[s], seen'[s])
      BY <3>2, <3>4, Read, Zenon
    <3>6. \A p \in Starts : OneFrame(inProcess'[p], frame'[p], seen'[p])
      BY <3>3, <3>5, Zenon DEF FInv
    <3> QED
      BY <3>3, <3>6, Zenon DEF FInv
  <2>3. ASSUME NEW f \in inProcess[s],
               Processed(s, f) \/ SendFails(s, f) \/ ProcessFails(s, f)
        PROVE  FInv'
    <3>1. /\ inProcess' = [inProcess EXCEPT ![s] = @ \ {f}] /\ UNCHANGED frame
      BY <2>3, Zenon DEF Processed, SendFails, ProcessFails
    <3>0. PICK out \in {seen[s], Append(seen[s], f)} : seen' = [seen EXCEPT ![s] = out]
      <4>1. CASE Processed(s, f)
        BY <4>1, Zenon DEF Processed
      <4>2. CASE SendFails(s, f) \/ ProcessFails(s, f)
        <5>1. seen = [seen EXCEPT ![s] = seen[s]]
          BY SMT DEF FInv
        <5> QED
          BY <4>2, <5>1, Zenon DEF SendFails, ProcessFails
      <4> QED
        BY <2>3, <4>1, <4>2, Zenon
    <3>2. seen'[s] = out /\ inProcess'[s] = inProcess[s] \ {f}
      BY <3>0, <3>1, SMT DEF FInv
    <3>3. frame[s] \in Nat /\ OneFrame(inProcess[s], frame[s], seen[s])
      BY SMT DEF FInv
    <3>4. OneFrame(inProcess'[s], frame'[s], seen'[s])
      <4>1. f \in inProcess[s] /\ frame'[s] = frame[s]
        BY <3>1, Zenon
      <4>2. /\ OneFrame(inProcess[s] \ {f}, frame[s], Append(seen[s], f))
            /\ OneFrame(inProcess[s] \ {f}, frame[s], seen[s])
        BY <3>3, <4>1, Sent, Zenon
      <4> QED
        BY <3>0, <3>2, <4>1, <4>2, Zenon
    <3>5. /\ frame' \in [Starts -> Nat] /\ inProcess' \in [Starts -> SUBSET Nat]
          /\ \A p \in Starts \ {s} :
               frame'[p] = frame[p] /\ inProcess'[p] = inProcess[p] /\ seen'[p] = seen[p]
      BY <3>0, <3>1, SMT DEF FInv
    <3>6. seen'[s] \in Seq(Nat)
      BY <3>4, Zenon DEF OneFrame
    <3>7. seen' \in [Starts -> Seq(Nat)]
      BY <3>0, <3>2, <3>6, SMT DEF FInv
    <3>8. \A p \in Starts : OneFrame(inProcess'[p], frame'[p], seen'[p])
      BY <3>4, <3>5, Zenon DEF FInv
    <3> QED
      BY <3>5, <3>7, <3>8, Zenon DEF FInv
  <2>4. CASE ReadFails(s)
    <3>1. inProcess[s] = {} /\ frame' = [frame EXCEPT ![s] = @ + 1]
          /\ UNCHANGED <<inProcess, seen>>
      BY <2>4, Zenon DEF ReadFails, AtRecv
    <3>2. frame[s] \in Nat /\ frame'[s] = frame[s] + 1
      BY <3>1, SMT DEF FInv
    <3>3. /\ frame' \in [Starts -> Nat]
          /\ \A p \in Starts \ {s} : frame'[p] = frame[p]
      BY <3>1, SMT DEF FInv
    <3>4. OneFrame(inProcess'[s], frame'[s], seen'[s])
      <4>1. OneFrame({}, frame[s], seen[s])
        BY <3>1, Zenon DEF FInv
      <4>2. OneFrame({}, frame[s] + 1, seen[s])
        BY <3>2, <4>1, Read, Zenon
      <4> QED
        BY <3>1, <3>2, <4>2, Zenon
    <3>5. \A p \in Starts : OneFrame(inProcess'[p], frame'[p], seen'[p])
      BY <3>1, <3>3, <3>4, Zenon DEF FInv
    <3> QED
      BY <3>1, <3>3, <3>5, Zenon DEF FInv
  <2> QED
    BY <1>5, <2>1, <2>2, <2>3, <2>4, Zenon DEF Peer
<1> QED
  BY <1>2, <1>3, <1>4, <1>5, Zenon DEF Next, AiStep

-----------------------------------------------------------------------------
\* A camera, a timer or a peer connection that is the one in hand is on.
Held(on, hand) == \A s \in Starts : s \in on <=> s = hand

LEMMA InHand ==
  ASSUME CType, PType
  PROVE  AllInHand <=> /\ Held(cams, stream) /\ Held(timers, captureTimer)
                       /\ \A s \in Starts : remote[s] = "open" <=> s = pc
BY PeersAreStarts, SMT DEF CType, PType, AllInHand, Held

\* The page's variables keep their type.
LEMMA CTypeStep ==
  ASSUME CType, [Next]_vars PROVE CType'
<1> USE PeersAreStarts DEF CType
<1>1. ASSUME UNCHANGED <<starts, stage, capture, pc>>, clean' \in BOOLEAN PROVE CType'
  BY <1>1, Zenon DEF capture
<1>2. CASE EnableDemo \/ Login \/ CaptureAndSend \/ UNCHANGED vars
  BY <1>1, <1>2, Zenon DEF EnableDemo, Login, CaptureAndSend, vars
<1>3. ASSUME NEW picture, Encoded(picture) \/ NotEncoded(picture) PROVE CType'
  BY <1>1, <1>3, Zenon DEF Encoded, NotEncoded
<1>4. CASE Start
  <2>1. /\ starts' = starts + 1 /\ stage' = [stage EXCEPT ![starts'] = "asking"]
        /\ clean' \in BOOLEAN /\ UNCHANGED <<cams, stream, running, timers, captureTimer, pc>>
    BY <1>4, Zenon DEF Start, capture
  <2>a. starts < MaxStarts
    BY <1>4, Zenon DEF Start
  <2>2. starts' \in Nat /\ starts' \in Starts
    BY <2>1, <2>a, SMT DEF Starts
  <2>3. \A n \in Starts : [stage EXCEPT ![n] = "asking"]
                 \in [Starts -> {"none", "asking", "playing", "ice", "offering", "done"}]
    BY SMT
  <2> QED
    BY <2>1, <2>2, <2>3, Zenon
<1>5. CASE Stop \/ Logout
  <2>1. /\ cams' \subseteq Starts /\ timers' \subseteq Starts
        /\ {stream', captureTimer', pc'} \subseteq Starts \cup {0}
        /\ running' \in BOOLEAN /\ clean' \in BOOLEAN /\ UNCHANGED <<starts, stage>>
    BY <1>5, Zenon DEF Stop, Logout, StopWebrtc, TracksStopped, capture
  <2> QED
    BY <2>1, Zenon
<1>6. CASE Unload
  <2>1. /\ cams' = {} /\ timers' = {} /\ stream' = 0 /\ captureTimer' = 0 /\ pc' = 0
        /\ running' = FALSE /\ clean' = TRUE /\ UNCHANGED starts
    BY <1>6, Zenon DEF Unload
  <2>2. stage' \in [Starts -> {"none", "asking", "playing", "ice", "offering", "done"}]
    BY <1>6, SMT DEF Unload
  <2> QED
    BY <2>1, <2>2, Zenon
<1>7. ASSUME NEW s \in Starts, App(s) PROVE CType'
  <2>1. starts' = starts /\ running' \in BOOLEAN /\ clean' \in BOOLEAN
    BY <1>7, Zenon
    DEF App, GotCamera, CameraRefused, PlayFails, Playing, GotIceServers, SendOffer,
        OfferingFails, OnAnswer, capture
  <2>2. \/ stage' = stage
        \/ \E next \in {"playing", "ice", "offering", "done"} :
             stage' = [stage EXCEPT ![s] = next]
    BY <1>7, SMT
    DEF App, GotCamera, CameraRefused, PlayFails, Playing, GotIceServers, SendOffer,
        OfferingFails, OnAnswer
  <2>3. stage' \in [Starts -> {"none", "asking", "playing", "ice", "offering", "done"}]
    BY <2>2, SMT
  <2>4. /\ cams' \in {cams, cams \cup {s}} /\ timers' \in {timers, timers \cup {s}}
        /\ stream' \in {stream, s} /\ captureTimer' \in {captureTimer, s} /\ pc' \in {pc, s}
    BY <1>7, Zenon
    DEF App, GotCamera, CameraRefused, PlayFails, Playing, GotIceServers, SendOffer,
        OfferingFails, OnAnswer, capture
  <2>5. /\ cams' \subseteq Starts /\ timers' \subseteq Starts
        /\ {stream', captureTimer', pc'} \subseteq Starts \cup {0}
    BY <2>4, SMT
  <2> QED
    BY <2>1, <2>3, <2>5, Zenon
<1>8. ASSUME NEW s \in Starts, AiStep(s) PROVE CType'
  BY <1>1, <1>8, Zenon DEF AiStep
<1> QED
  BY <1>2, <1>3, <1>4, <1>5, <1>6, <1>7, <1>8, Zenon DEF Next

-----------------------------------------------------------------------------
\* Orderly, the sets of what is on replaced by their members.
Order ==
  /\ \A s \in Starts : s # starts => stage[s] \in {"none", "done"}
  /\ Held(cams, stream) /\ Held(timers, captureTimer)
  /\ \A s \in Starts : remote[s] = "open" <=> s = pc
  /\ ~running => captureTimer = 0 /\ pc = 0
  /\ ~running => stream = 0 \/ \E s \in Starts : stage[s] = "playing"
  /\ \A s \in Starts :
       /\ stage[s] = "asking" => ~running /\ stream = 0
       /\ stage[s] = "playing" => ~running
       /\ stage[s] = "ice" => running /\ pc = 0

LEMMA OrderStep ==
  ASSUME CType, PType, clean => Order, [Next]_vars, clean' PROVE Order'
<1> USE PeersAreStarts DEF CType, PType, Order, Held
<1>1. ASSUME UNCHANGED <<starts, stage, capture, pc, clean, remote>> PROVE Order'
  BY <1>1, Zenon DEF capture
<1>2. CASE EnableDemo \/ Login \/ CaptureAndSend \/ UNCHANGED vars
  BY <1>1, <1>2, Zenon DEF EnableDemo, Login, CaptureAndSend, vars
<1>3. ASSUME NEW picture, Encoded(picture) \/ NotEncoded(picture) PROVE Order'
  BY <1>1, <1>3, Zenon DEF Encoded, NotEncoded
<1>4. CASE Start
  <2>1. /\ ~running /\ starts < MaxStarts /\ starts' = starts + 1
        /\ stage' = [stage EXCEPT ![starts'] = "asking"]
        /\ UNCHANGED <<cams, stream, running, timers, captureTimer, pc, remote>>
        /\ clean' = (clean /\ Settled)
    BY <1>4, Zenon DEF Start, capture
  <2>2. clean /\ \A s \in Starts : stage[s] \in {"none", "done"}
    BY <2>1, Zenon DEF Settled
  <2>3. starts' \in Starts
    BY <2>1, SMT DEF Starts
  <2>4. \A s \in Starts : stage'[s] = IF s = starts' THEN "asking" ELSE stage[s]
    BY <2>1, <2>3, Zenon
  <2>5. \A s \in Starts :
          /\ s # starts' => stage'[s] \in {"none", "done"}
          /\ stage'[s] \notin {"playing", "ice"}
    BY <2>2, <2>4, SMT
  <2>6. stream = 0
    BY <2>1, <2>2, SMT
  <2> QED
    BY <2>1, <2>2, <2>5, <2>6, Zenon
<1>5. CASE Stop
  <2>1. /\ running' = FALSE /\ captureTimer' = 0 /\ stream' = 0 /\ pc' = 0
        /\ timers' = timers \ {captureTimer} /\ cams' = cams \ {stream}
        /\ remote' = [s \in Starts |-> IF s = pc THEN "closed" ELSE remote[s]]
        /\ UNCHANGED <<starts, stage>>
    BY <1>5, Zenon DEF Stop, StopWebrtc, TracksStopped
  <2>2. clean /\ \A s \in Starts : stage[s] \in {"none", "offering", "done"}
    BY <1>5, Zenon DEF Stop
  <2>3. Held(cams', stream') /\ Held(timers', captureTimer')
    BY <2>1, <2>2, SMT
  <2>4. \A s \in Starts : remote'[s] = "open" <=> s = pc'
    BY <2>1, <2>2, SMT
  <2>5. \A s \in Starts : stage[s] \notin {"asking", "playing", "ice"}
    BY <2>2, SMT
  <2> QED
    BY <2>1, <2>2, <2>3, <2>4, <2>5, SMT
<1>6. CASE Logout
  BY <1>6, SMT DEF Logout, StopWebrtc, capture
<1>7. CASE Unload
  BY <1>7, SMT DEF Unload
<1>8. ASSUME NEW s \in Starts, App(s) PROVE Order'
  <2>1. CASE GotCamera(s)
    BY <2>1, SMT DEF GotCamera
  <2>2. CASE CameraRefused(s)
    BY <2>2, SMT DEF CameraRefused, capture
  <2>3. CASE PlayFails(s)
    BY <2>3, Zenon DEF PlayFails
  <2>4. CASE Playing(s)
    BY <2>4, SMT DEF Playing
  <2>5. CASE GotIceServers(s)
    BY <2>5, SMT DEF GotIceServers, capture
  <2>6. CASE SendOffer(s) \/ OfferingFails(s)
    <3>1. /\ stage[s] = "offering" /\ stage' = [stage EXCEPT ![s] = "done"]
          /\ UNCHANGED <<starts, capture, pc, clean, remote>>
      BY <2>6, Zenon DEF SendOffer, OfferingFails
    <3>2. \A t \in Starts : stage'[t] = IF t = s THEN "done" ELSE stage[t]
      BY <3>1, SMT
    <3>3. \A t \in Starts : stage[t] = "playing" => stage'[t] = "playing"
      BY <3>1, <3>2, SMT
    <3> QED
      BY <3>1, <3>2, <3>3, SMT DEF capture
  <2>7. CASE OnAnswer(s)
    BY <1>1, <2>7, Zenon DEF OnAnswer
  <2> QED
    BY <1>8, <2>1, <2>2, <2>3, <2>4, <2>5, <2>6, <2>7, Zenon DEF App
<1>9. ASSUME NEW s \in Starts, AiStep(s) PROVE Order'
  <2>1. remote' = remote
    BY <1>9, Zenon
    DEF AiStep, Peer, ConnectFails, HandleOffer, SetRemoteDescription, OfferFails, Answer,
        Connected, OnDataChannel, Lost, Close, Closed, Recv, ReadFails, TrackEnds, Processed,
        SendFails, ProcessFails
  <2> QED
    BY <1>1, <1>9, <2>1, Zenon DEF AiStep
<1> QED
  BY <1>2, <1>3, <1>4, <1>5, <1>6, <1>7, <1>8, <1>9, Zenon DEF Next

-----------------------------------------------------------------------------
LEMMA StepInv ==
  ASSUME IInv, [Next]_vars PROVE IInv'
<1>1. PInv' /\ FInv' /\ CType'
  BY PeersStep, FrameStep, CTypeStep, Zenon DEF IInv, CInv
<1>2. clean => Order
  BY InHand, Zenon DEF IInv, PInv, CInv, Orderly, Order
<1>3. clean' => Order'
  BY <1>2, OrderStep, Zenon DEF IInv, PInv, CInv
<1>4. clean' => AllInHand'
  <2> SUFFICES ASSUME clean' PROVE AllInHand'
    OBVIOUS
  <2>1. /\ Held(cams', stream') /\ Held(timers', captureTimer')
        /\ \A s \in Starts : remote'[s] = "open" <=> s = pc'
    BY <1>3, Zenon DEF Order, Held
  <2>2. CType' /\ PType'
    BY <1>1, Zenon DEF PInv
  <2> QED
    BY <2>1, <2>2, PeersAreStarts, SMT DEF CType, PType, AllInHand, Held
<1>5. clean' => Orderly'
  BY <1>3, <1>4, Zenon DEF Orderly, Order
<1> QED
  BY <1>1, <1>5, Zenon DEF IInv, CInv

THEOREM Invariance == Spec => []IInv
<1> QED
  BY InitInv, StepInv, PTL DEF Spec

\* For any number of starts, a peer that is not closed is in _peers at every
\* await of its negotiation and of its closing (webrtc.py:34,63-78).
THEOREM PeersKept == Spec => []ActivePeersKept
<1>1. IInv => ActivePeersKept
  BY Zenon DEF IInv, PInv
<1> QED
  BY <1>1, Invariance, PTL

\* For any number of peers and frames, the results of a peer reach the browser
\* in the order of its frames (webrtc.py:101-119).
THEOREM Results == Spec => []ResultsInOrder
<1>1. IInv => ResultsInOrder
  <2> SUFFICES ASSUME IInv, NEW p \in Starts
               PROVE  \A i, j \in DOMAIN seen[p] : i < j => seen[p][i] < seen[p][j]
    BY PeersAreStarts, Zenon DEF ResultsInOrder
  <2>1. OneFrame(inProcess[p], frame[p], seen[p])
    BY Zenon DEF IInv, FInv
  <2>2. DOMAIN seen[p] = 1..Len(seen[p])
    BY <2>1, SMT DEF OneFrame
  <2> QED
    BY <2>1, <2>2, Zenon DEF OneFrame
<1> QED
  BY <1>1, Invariance, PTL

\* For any number of starts, a capture whose starts follow one another and
\* succeed never loses hold of a camera, a timer or a peer connection, and a
\* stop leaves none on (app.component.ts:218-256, vision.service.ts:220-259).
THEOREM StopsClean == Spec => []CleanStop
<1>1. IInv => CleanStop
  <2> SUFFICES ASSUME IInv, clean, Settled
               PROVE  AllInHand /\ (~running => cams \cup timers = {} /\ pc = 0)
    BY Zenon DEF CleanStop
  <2>1. Orderly
    BY Zenon DEF IInv, CInv
  <2>2. \A s \in Starts : stage[s] # "playing"
    BY SMT DEF Settled
  <2>3. ~running => stream = 0 /\ captureTimer = 0 /\ pc = 0
    BY <2>1, <2>2, Zenon DEF Orderly
  <2> QED
    BY <2>1, <2>3, Zenon DEF Orderly, AllInHand
<1> QED
  BY <1>1, Invariance, PTL

-----------------------------------------------------------------------------
(***************************************************************************)
(* What is left of the types.  A capture that is being encoded has no      *)
(* number yet, so that there are never more numbers than captures; the     *)
(* frames of a peer are numbered from 1 and end at its bound.              *)
(***************************************************************************)
EncoderInv ==
  /\ ticks \in 0..MaxTicks /\ frameId \in Nat
  /\ encoding \subseteq 1..ticks
  /\ frameId + Cardinality(encoding) <= ticks

NumberInv ==
  /\ socket \in BOOLEAN /\ starts <= MaxStarts
  /\ channel \in [Starts -> {"none", "open", "closed"}]
  /\ consumer \in [Starts -> {"none", "on", "done"}]
  /\ \A p \in Starts : frame[p] <= MaxFrames[p] /\ 0 \notin inProcess[p]
  /\ \A p \in Starts : \A i \in 1..Len(seen[p]) : seen[p][i] # 0

\* A sequence whose elements are all in T is a sequence over T.
LEMMA Narrowed ==
  ASSUME NEW S, NEW T, NEW seq \in Seq(S), \A i \in 1..Len(seq) : seq[i] \in T
  PROVE  seq \in Seq(T)
<1>1. seq \in [1..Len(seq) -> T] /\ Len(seq) \in Nat
  BY LenProperties
<1> QED
  BY <1>1, SMT

\* The captures under way are finitely many.
LEMMA Pictures ==
  ASSUME EncoderInv
  PROVE  IsFiniteSet(encoding) /\ Cardinality(encoding) \in Nat
<1>1. IsFiniteSet(1..ticks)
  BY FS_Interval, SMT DEF EncoderInv
<1>2. IsFiniteSet(encoding)
  BY <1>1, FS_Subset, Zenon DEF EncoderInv
<1> QED
  BY <1>2, FS_CardinalityType

LEMMA EncoderInit == Init => EncoderInv
<1> SUFFICES ASSUME Init PROVE EncoderInv
  OBVIOUS
<1>1. ticks = 0 /\ encoding = {} /\ frameId = 0
  BY Zenon DEF Init
<1>2. Cardinality(encoding) = 0
  BY <1>1, FS_EmptySet
<1> QED
  BY <1>1, <1>2, CaptureAssumption, SMT DEF EncoderInv

\* Every step takes at most one number for a capture.
LEMMA EncoderStep == EncoderInv /\ [Next]_vars => EncoderInv'
<1> SUFFICES ASSUME EncoderInv, [Next]_vars PROVE EncoderInv'
  OBVIOUS
<1>c. IsFiniteSet(encoding) /\ Cardinality(encoding) \in Nat
  BY Pictures
<1>1. ASSUME UNCHANGED <<ticks, encoding, frameId>> PROVE EncoderInv'
  BY <1>1, Zenon DEF EncoderInv
<1>2. CASE Start \/ Stop \/ Logout \/ EnableDemo \/ Login \/ UNCHANGED vars
  BY <1>1, <1>2, Zenon DEF Start, Stop, Logout, EnableDemo, Login, vars, encoder
<1>3. CASE Unload
  <2>1. ticks' = 0 /\ encoding' = {} /\ frameId' = 0
    BY <1>3, Zenon DEF Unload
  <2>2. Cardinality(encoding') = 0
    BY <2>1, FS_EmptySet
  <2> QED
    BY <2>1, <2>2, CaptureAssumption, SMT DEF EncoderInv
<1>4. CASE CaptureAndSend
  <2>1. /\ ticks < MaxTicks /\ ticks' = ticks + 1
        /\ encoding' = encoding \cup {ticks + 1} /\ frameId' = frameId
    BY <1>4, Zenon DEF CaptureAndSend
  <2>2. ticks + 1 \notin encoding
    BY SMT DEF EncoderInv
  <2>3. Cardinality(encoding') = Cardinality(encoding) + 1
    BY <1>c, <2>1, <2>2, FS_AddElement, Zenon
  <2> QED
    BY <1>c, <2>1, <2>3, CaptureAssumption, SMT DEF EncoderInv
<1>5. ASSUME NEW picture \in encoding, Encoded(picture) \/ NotEncoded(picture)
      PROVE  EncoderInv'
  <2>1. /\ ticks' = ticks /\ encoding' = encoding \ {picture}
        /\ frameId' \in {frameId, frameId + 1}
    BY <1>5, Zenon DEF Encoded, NotEncoded, Number
  <2>2. Cardinality(encoding') = Cardinality(encoding) - 1
    BY <1>c, <2>1, FS_RemoveElement, Zenon
  <2> QED
    BY <1>c, <2>1, <2>2, SMT DEF EncoderInv
<1>6. ASSUME NEW s \in Starts, App(s) PROVE EncoderInv'
  BY <1>1, <1>6, Zenon
  DEF App, GotCamera, CameraRefused, PlayFails, Playing, GotIceServers, SendOffer,
      OfferingFails, OnAnswer, encoder
<1>7. ASSUME NEW s \in Starts, AiStep(s) PROVE EncoderInv'
  BY <1>1, <1>7, Zenon DEF AiStep, encoder
<1> QED
  BY <1>2, <1>3, <1>4, <1>5, <1>6, <1>7, Zenon DEF Next

LEMMA NumberInit == Init => NumberInv
<1> SUFFICES ASSUME Init PROVE NumberInv
  OBVIOUS
<1>1. /\ channel = [p \in Starts |-> "none"] /\ consumer = [p \in Starts |-> "none"]
      /\ frame = [p \in Starts |-> 0] /\ inProcess = [p \in Starts |-> {}]
      /\ seen = [p \in Starts |-> <<>>] /\ starts = 0 /\ socket \in BOOLEAN
  BY PeersAreStarts, Zenon DEF Init, PInit
<1>2. /\ channel \in [Starts -> {"none", "open", "closed"}]
      /\ consumer \in [Starts -> {"none", "on", "done"}]
  BY <1>1, SMT
<1>3. \A p \in Starts : frame[p] <= MaxFrames[p] /\ 0 \notin inProcess[p]
  BY <1>1, PeerAssumption, PeersAreStarts, SMT
<1>4. \A p \in Starts : \A i \in 1..Len(seen[p]) : seen[p][i] # 0
  BY <1>1, SMT
<1> QED
  BY <1>1, <1>2, <1>3, <1>4, CaptureAssumption, SMT DEF NumberInv

\* Every step of a peer keeps its numbers in their bounds.
LEMMA NumberStep == FInv /\ CType /\ NumberInv /\ [Next]_vars => NumberInv'
<1> SUFFICES ASSUME FInv, CType, NumberInv, [Next]_vars PROVE NumberInv'
  OBVIOUS
<1>1. ASSUME UNCHANGED <<channel, consumer, frame, inProcess, seen>>,
             socket' \in BOOLEAN, starts' <= MaxStarts
      PROVE  NumberInv'
  BY <1>1, Zenon DEF NumberInv
<1>2. CASE Start
  <2>1. starts < MaxStarts /\ starts' = starts + 1 /\ UNCHANGED <<socket, ai>>
    BY <1>2, Zenon DEF Start
  <2>2. starts' <= MaxStarts
    BY <2>1, PeersAreStarts, SMT DEF CType
  <2> QED
    BY <1>1, <2>1, <2>2, Zenon DEF NumberInv, ai
<1>3. CASE \/ Stop \/ Logout \/ EnableDemo \/ Login \/ Unload \/ CaptureAndSend
           \/ UNCHANGED vars
  <2>1. /\ socket' \in {socket, TRUE, FALSE} /\ starts' = starts
        /\ UNCHANGED <<channel, consumer, frame, inProcess, seen>>
    BY <1>3, Zenon
    DEF Stop, Logout, EnableDemo, Login, Unload, CaptureAndSend, vars, ai
  <2> QED
    BY <1>1, <2>1, Zenon DEF NumberInv
<1>4. ASSUME NEW picture, Encoded(picture) \/ NotEncoded(picture) PROVE NumberInv'
  BY <1>1, <1>4, Zenon DEF Encoded, NotEncoded, NumberInv, ai
<1>5. ASSUME NEW s \in Starts, App(s) PROVE NumberInv'
  BY <1>1, <1>5, Zenon
  DEF App, GotCamera, CameraRefused, PlayFails, Playing, GotIceServers, SendOffer,
      OfferingFails, OnAnswer, ai, NumberInv
<1>6. ASSUME NEW s \in Starts, Peer(s), UNCHANGED <<socket, starts>> PROVE NumberInv'
  <2>1. CASE \/ ConnectFails(s) \/ HandleOffer(s) \/ OfferFails(s) \/ Answer(s)
             \/ Connected(s) \/ Lost(s) \/ Close(s)
    BY <1>1, <1>6, <2>1, Zenon
    DEF ConnectFails, HandleOffer, OfferFails, Answer, Connected, Lost, Close, ai, NumberInv
  <2>2. CASE SetRemoteDescription(s) \/ TrackEnds(s)
    <3>1. /\ \/ consumer' = [consumer EXCEPT ![s] = "on"]
             \/ consumer' = [consumer EXCEPT ![s] = "done"]
          /\ UNCHANGED <<channel, frame, inProcess, seen>>
      BY <2>2, Zenon DEF SetRemoteDescription, TrackEnds
    <3>2. consumer' \in [Starts -> {"none", "on", "done"}]
      BY <3>1, SMT DEF NumberInv
    <3> QED
      BY <1>6, <3>1, <3>2, Zenon DEF NumberInv
  <2>3. CASE OnDataChannel(s) \/ Closed(s)
    <3>1. /\ \E c \in {"open", "closed", channel[s]} : channel' = [channel EXCEPT ![s] = c]
          /\ UNCHANGED <<consumer, frame, inProcess, seen>>
      BY <2>3, Zenon DEF OnDataChannel, Closed
    <3>2. channel' \in [Starts -> {"none", "open", "closed"}]
      BY <3>1, SMT DEF NumberInv
    <3> QED
      BY <1>6, <3>1, <3>2, Zenon DEF NumberInv
  <2>4. CASE Recv(s)
    <3>1. /\ frame[s] < MaxFrames[s] /\ frame' = [frame EXCEPT ![s] = @ + 1]
          /\ inProcess' = [inProcess EXCEPT ![s] = @ \cup {frame'[s]}]
          /\ UNCHANGED <<channel, consumer, seen>>
      BY <2>4, Zenon DEF Recv
    <3>2. frame[s] \in Nat /\ MaxFrames[s] \in Nat
      BY PeerAssumption, PeersAreStarts, SMT DEF FInv
    <3>3. frame'[s] = frame[s] + 1 /\ inProcess'[s] = inProcess[s] \cup {frame[s] + 1}
      BY <3>1, SMT DEF FInv
    <3>4. \A p \in Starts \ {s} : frame'[p] = frame[p] /\ inProcess'[p] = inProcess[p]
      BY <3>1, SMT DEF FInv
    <3>5. \A p \in Starts : frame'[p] <= MaxFrames[p] /\ 0 \notin inProcess'[p]
      BY <3>1, <3>2, <3>3, <3>4, SMT DEF NumberInv
    <3> QED
      BY <1>6, <3>1, <3>5, Zenon DEF NumberInv
  <2>5. ASSUME NEW f \in inProcess[s],
               Processed(s, f) \/ SendFails(s, f) \/ ProcessFails(s, f)
        PROVE  NumberInv'
    <3>1. /\ inProcess' = [inProcess EXCEPT ![s] = @ \ {f}]
          /\ UNCHANGED <<channel, frame>>
      BY <2>5, Zenon DEF Processed, SendFails, ProcessFails
    <3>8. consumer' \in [Starts -> {"none", "on", "done"}]
      <4>1. consumer' = consumer \/ consumer' = [consumer EXCEPT ![s] = "done"]
        BY <2>5, Zenon DEF Processed, SendFails, ProcessFails
      <4> QED
        BY <4>1, SMT DEF NumberInv
    <3>2. f \in Nat /\ f # 0 /\ seen[s] \in Seq(Nat)
      BY SMT DEF FInv, NumberInv
    <3>3. PICK out \in {seen[s], Append(seen[s], f)} :
            seen' = [seen EXCEPT ![s] = out] \/ (out = seen[s] /\ seen' = seen)
      BY <2>5, Zenon DEF Processed, SendFails, ProcessFails
    <3>4. \A i \in 1..Len(out) : out[i] # 0
      <4>1. \A i \in 1..Len(seen[s]) : seen[s][i] # 0
        BY Zenon DEF NumberInv
      <4> QED
        BY <3>2, <3>3, <4>1, SMT
    <3>5. seen'[s] = out /\ \A p \in Starts \ {s} : seen'[p] = seen[p]
      BY <3>3, SMT DEF FInv
    <3>6. \A p \in Starts : \A i \in 1..Len(seen'[p]) : seen'[p][i] # 0
      BY <3>4, <3>5, Zenon DEF NumberInv
    <3>7. \A p \in Starts : 0 \notin inProcess'[p]
      BY <3>1, SMT DEF FInv, NumberInv
    <3> QED
      BY <1>6, <3>1, <3>6, <3>7, <3>8, Zenon DEF NumberInv
  <2>6. CASE ReadFails(s)
    <3>1. /\ frame[s] < MaxFrames[s] /\ frame' = [frame EXCEPT ![s] = @ + 1]
          /\ consumer' = [consumer EXCEPT ![s] = "done"]
          /\ UNCHANGED <<channel, inProcess, seen>>
      BY <2>6, Zenon DEF ReadFails
    <3>2. frame[s] \in Nat /\ MaxFrames[s] \in Nat
      BY PeerAssumption, PeersAreStarts, SMT DEF FInv
    <3>3. \A p \in Starts : frame'[p] <= MaxFrames[p]
      BY <3>1, <3>2, SMT DEF FInv, NumberInv
    <3>4. consumer' \in [Starts -> {"none", "on", "done"}]
      BY <3>1, SMT DEF NumberInv
    <3> QED
      BY <1>6, <3>1, <3>3, <3>4, Zenon DEF NumberInv
  <2> QED
    BY <1>6, <2>1, <2>2, <2>3, <2>4, <2>5, <2>6, Zenon DEF Peer
<1>7. ASSUME NEW s \in Starts, AiStep(s) PROVE NumberInv'
  BY <1>6, <1>7, Zenon DEF AiStep
<1> QED
  BY <1>2, <1>3, <1>4, <1>5, <1>7, Zenon DEF Next

\* For any number of starts, captures and frames, every piece of state has its
\* type: above all, no frame is numbered that was not captured, nor processed
\* or shown that was not read (app.component.ts:258-291, webrtc.py:101-119).
THEOREM CaptureTyped == Spec => []TypeOK
<1>1. IInv /\ EncoderInv /\ NumberInv => TypeOK
  <2> SUFFICES ASSUME IInv, EncoderInv, NumberInv PROVE TypeOK
    OBVIOUS
  <2>1. ASSUME NEW p \in Starts
        PROVE  /\ frame[p] \in 0..MaxFrames[p] /\ inProcess[p] \subseteq 1..frame[p]
               /\ seen[p] \in Seq(1..frame[p])
    <3>1. OneFrame(inProcess[p], frame[p], seen[p]) /\ MaxFrames[p] \in Nat
      BY PeerAssumption, PeersAreStarts, SMT DEF IInv, FInv
    <3>2. /\ frame[p] <= MaxFrames[p] /\ 0 \notin inProcess[p]
          /\ \A i \in 1..Len(seen[p]) : seen[p][i] # 0
      BY Zenon DEF NumberInv
    <3>3. frame[p] \in 0..MaxFrames[p] /\ inProcess[p] \subseteq 1..frame[p]
      BY <3>1, <3>2, SMT DEF OneFrame
    <3>4. seen[p] \in Seq(Nat) /\ \A i \in 1..Len(seen[p]) : seen[p][i] \in 1..frame[p]
      BY <3>1, <3>2, SMT DEF OneFrame
    <3>5. seen[p] \in Seq(1..frame[p])
      BY <3>4, Narrowed, Zenon
    <3> QED
      BY <3>3, <3>5
  <2>2. PeerTypeOK
    BY <2>1, PeersAreStarts, Zenon DEF PeerTypeOK, IInv, PInv, PType, NumberInv
  <2>3. Cardinality(encoding) \in Nat
    BY Pictures
  <2>4. ticks \in 0..MaxTicks /\ encoding \subseteq 1..ticks /\ frameId \in 0..ticks
    BY <2>3, SMT DEF EncoderInv
  <2>5. starts \in 0..MaxStarts /\ {stream, captureTimer, pc} \subseteq 0..MaxStarts
    BY PeersAreStarts, SMT DEF IInv, CInv, CType, NumberInv, Starts
  <2> QED
    BY <2>2, <2>4, <2>5, Zenon DEF TypeOK, IInv, CInv, CType, NumberInv
<1>2. IInv => FInv /\ CType
  BY Zenon DEF IInv, CInv
<1> QED
  BY <1>1, <1>2, Invariance, EncoderInit, EncoderStep, NumberInit, NumberStep, PTL DEF Spec

=============================================================================
