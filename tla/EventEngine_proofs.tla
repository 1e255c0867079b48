-------------------------- MODULE EventEngine_proofs --------------------------
(***************************************************************************)
(* Proofs about the scene event engine, for any set of objects, labels and *)
(* scores, any debounce settings and any movement of the clock.            *)
(***************************************************************************)
EXTENDS EventEngine, FiniteSetTheorems, TLAPS

\* The inductive invariant: types (the counter an integer only), the counter
\* in step with the tracks, and no track past its grace.
TypeInv ==
  /\ DOMAIN tracks \subseteq TrackIds
  /\ tracks \in [DOMAIN tracks -> Track]
  /\ confirmed_count \in Int
  /\ now_ms \in Int
  /\ frames \in Nat
  /\ events \subseteq SceneEvent

IInv == TypeInv /\ CountMatches /\ NoStaleTrack

\* The confirmed tracks are finitely many.
LEMMA ConfirmedFinite ==
  ASSUME NEW trk, DOMAIN trk \subseteq TrackIds
  PROVE  IsFiniteSet(Confirmed(trk))
<1>1. Confirmed(trk) \subseteq TrackIds
  BY DEF Confirmed
<1>. QED  BY <1>1, EngineAssumption, FS_Subset DEF EngineAssumption

\* A new sighting changes the label, the date and the counter, nothing else.
LEMMA TouchedFacts ==
  ASSUME NEW track \in Track, NEW det \in Detection, NEW now \in Int
  PROVE  /\ Touched(track, det, now) \in Track
         /\ Touched(track, det, now).last_seen_ms = now
         /\ Touched(track, det, now).confirmed = track.confirmed
<1>. DEFINE a == [track EXCEPT !.label = det.label]
            b == [a EXCEPT !.last_seen_ms = now]
            c == [b EXCEPT !.frames_seen = track.frames_seen + 1]
<1>1. a \in Track /\ a.confirmed = track.confirmed
  BY DEF Track, Detection
<1>. HIDE DEF a
<1>2. b \in Track /\ b.confirmed = track.confirmed /\ b.last_seen_ms = now
  BY <1>1 DEF Track
<1>. HIDE DEF b
<1>3. c \in Track /\ c.confirmed = track.confirmed /\ c.last_seen_ms = now
  BY <1>2 DEF Track
<1>4. Touched(track, det, now) = c
  BY DEF Touched, a, b
<1>. QED  BY <1>3, <1>4

\* Taking in the detections of a frame keeps the tracks well formed, leaves
\* the confirmed ones as they are, and dates every seen track with the frame.
LEMMA IntegratedFacts ==
  ASSUME TypeInv, NEW dets \in Detections, NEW now \in Int
  PROVE  LET trk == Integrated(tracks, dets, now) IN
         /\ DOMAIN trk = DOMAIN tracks \cup Seen(dets)
         /\ DOMAIN trk \subseteq TrackIds
         /\ trk \in [DOMAIN trk -> Track]
         /\ Confirmed(trk) = Confirmed(tracks)
         /\ \A id \in Seen(dets) : trk[id].last_seen_ms = now
<1>. DEFINE trk == Integrated(tracks, dets, now)
<1>1. /\ DOMAIN dets \subseteq TrackIds
      /\ Seen(dets) \subseteq DOMAIN dets
      /\ \A id \in Seen(dets) : dets[id] \in Detection
  BY DEF Detections, Seen
<1>2. DOMAIN trk = DOMAIN tracks \cup Seen(dets)
  BY DEF Integrated
<1>3. ASSUME NEW id \in DOMAIN trk
      PROVE  /\ trk[id] \in Track
             /\ trk[id].confirmed <=> id \in Confirmed(tracks)
             /\ id \in Seen(dets) => trk[id].last_seen_ms = now
  <2>1. CASE id \notin Seen(dets)
    <3>1. id \in DOMAIN tracks /\ trk[id] = tracks[id]
      BY <2>1, <1>2 DEF Integrated
    <3>. QED  BY <3>1, <2>1 DEF TypeInv, Confirmed
  <2>2. CASE id \in Seen(dets) /\ id \notin DOMAIN tracks
    <3>1. trk[id] = NewTrack(dets[id], now)
      BY <2>2, <1>2 DEF Integrated
    <3>2. dets[id] \in Detection
      BY <1>1, <2>2
    <3>. QED  BY <3>1, <3>2, <2>2 DEF NewTrack, Track, Detection, Confirmed
  <2>3. CASE id \in Seen(dets) /\ id \in DOMAIN tracks
    <3>1. trk[id] = Touched(tracks[id], dets[id], now)
      BY <2>3, <1>2 DEF Integrated
    <3>2. dets[id] \in Detection /\ tracks[id] \in Track
      BY <1>1, <2>3 DEF TypeInv
    <3>3. /\ trk[id] \in Track
          /\ trk[id].last_seen_ms = now
          /\ trk[id].confirmed = tracks[id].confirmed
      BY <3>1, <3>2, TouchedFacts
    <3>. QED  BY <3>3, <2>3 DEF Confirmed
  <2>. QED  BY <2>1, <2>2, <2>3
<1>4. DOMAIN trk \subseteq TrackIds
  BY <1>1, <1>2 DEF TypeInv
<1>5. trk \in [DOMAIN trk -> Track]
  BY <1>3 DEF Integrated
<1>6. Confirmed(trk) = Confirmed(tracks)
  BY <1>2, <1>3 DEF Confirmed
<1>. QED  BY <1>2, <1>3, <1>4, <1>5, <1>6

(***************************************************************************)
(* What one call of update at clock now does, in terms of the objects that *)
(* enter and those that leave.                                             *)
(***************************************************************************)
Moves(enter, leave, now) ==
  /\ enter \cap Confirmed(tracks) = {}
  /\ leave \subseteq Confirmed(tracks)
  /\ Confirmed(tracks') = (Confirmed(tracks) \cup enter) \ leave
  /\ confirmed_count' =
       confirmed_count + Cardinality(enter) - Cardinality(leave)

KeepsOnlyFresh(now) ==
  \A id \in DOMAIN tracks' : now - tracks'[id].last_seen_ms < LeaveGraceMs

KeepsTypes ==
  /\ DOMAIN tracks' \subseteq TrackIds
  /\ tracks' \in [DOMAIN tracks' -> Track]
  /\ events' \subseteq SceneEvent

Announces(enter, leave) ==
  /\ Scene!Reported("OBJECT_ENTERED", events') = enter
  /\ Scene!Reported("OBJECT_LEFT", events') = leave
  /\ \A e, f \in events' : e.track_id = f.track_id => e = f

LEMMA UpdateFacts ==
  ASSUME TypeInv, NEW dets \in Detections, NEW now \in Int, Update(dets, now)
  PROVE  /\ KeepsTypes
         /\ KeepsOnlyFresh(now)
         /\ \E enter, leave \in SUBSET TrackIds :
              Moves(enter, leave, now) /\ Announces(enter, leave)
<1>. DEFINE seen  == Seen(dets)
            trk   == Integrated(tracks, dets, now)
            enter == Confirmable(trk, seen, now)
            gone  == Expired(trk, seen, now)
            leave == Leavers(trk, gone)
<1>1. /\ DOMAIN trk = DOMAIN tracks \cup seen
      /\ DOMAIN trk \subseteq TrackIds
      /\ trk \in [DOMAIN trk -> Track]
      /\ Confirmed(trk) = Confirmed(tracks)
      /\ \A id \in seen : trk[id].last_seen_ms = now
  BY IntegratedFacts
<1>2. /\ tracks' = [id \in DOMAIN trk \ gone |->
                      [trk[id] EXCEPT !.confirmed = @ \/ id \in enter]]
      /\ confirmed_count' =
           confirmed_count + Cardinality(enter) - Cardinality(leave)
      /\ events' = {Event("OBJECT_ENTERED", id, trk, now) : id \in enter}
                     \cup {Event("OBJECT_LEFT", id, trk, now) : id \in leave}
  BY DEF Update
<1>. HIDE DEF trk, seen
<1>3. /\ enter \subseteq seen /\ enter \subseteq DOMAIN trk
      /\ enter \cap Confirmed(trk) = {}
      /\ leave \subseteq Confirmed(trk)
      /\ leave = gone \cap Confirmed(trk)
      /\ gone \cap seen = {}
      /\ gone \subseteq DOMAIN trk
  BY <1>1 DEF Confirmable, Confirmed, Leavers, Expired
<1>4. enter \cap leave = {} /\ enter \cap gone = {}
  BY <1>3
<1>5. ASSUME NEW id \in DOMAIN trk \ gone
      PROVE  /\ tracks'[id] \in Track
             /\ tracks'[id].last_seen_ms = trk[id].last_seen_ms
             /\ tracks'[id].confirmed <=> (id \in Confirmed(trk) \/ id \in enter)
  <2>1. trk[id] \in Track
    BY <1>1
  <2>2. tracks'[id] = [trk[id] EXCEPT !.confirmed = @ \/ id \in enter]
    BY <1>2
  <2>. HIDE DEF enter, gone
  <2>. QED  BY <2>1, <2>2 DEF Track, Confirmed
<1>6. DOMAIN tracks' = DOMAIN trk \ gone
  BY <1>2
<1>7. Confirmed(tracks') = (Confirmed(trk) \cup enter) \ leave
  <2>. HIDE DEF enter, gone, leave
  <2>. QED  BY <1>3, <1>4, <1>5, <1>6 DEF Confirmed
<1>8. ASSUME NEW id \in DOMAIN tracks'
      PROVE  now - tracks'[id].last_seen_ms < LeaveGraceMs
  <2>1. tracks'[id].last_seen_ms = trk[id].last_seen_ms
    BY <1>5, <1>6
  <2>2. CASE id \in seen
    BY <2>1, <2>2, <1>1, EngineAssumption DEF EngineAssumption
  <2>3. CASE id \notin seen
    <3>1. id \in DOMAIN trk \ seen /\ id \notin gone
      BY <2>3, <1>6
    <3>2. ~(now - trk[id].last_seen_ms >= LeaveGraceMs)
      BY <3>1 DEF Expired
    <3>3. trk[id].last_seen_ms \in Int
      BY <3>1, <1>1 DEF Track
    <3>. QED  BY <2>1, <3>2, <3>3, EngineAssumption DEF EngineAssumption
  <2>. QED  BY <2>2, <2>3
<1>9. tracks' \in [DOMAIN tracks' -> Track]
  <2>1. \A id \in DOMAIN tracks' : tracks'[id] \in Track
    BY <1>5, <1>6
  <2>. QED  BY <2>1, <1>2
<1>10. ASSUME NEW type \in EventTypes, NEW id \in DOMAIN trk
       PROVE  /\ Event(type, id, trk, now) \in SceneEvent
              /\ Event(type, id, trk, now).type = type
              /\ Event(type, id, trk, now).track_id = id
  BY <1>1 DEF Event, SceneEvent, Track
<1>11. /\ enter \subseteq DOMAIN trk /\ leave \subseteq DOMAIN trk
       /\ enter \in SUBSET TrackIds /\ leave \in SUBSET TrackIds
       /\ "OBJECT_ENTERED" \in EventTypes /\ "OBJECT_LEFT" \in EventTypes
  BY <1>1, <1>3 DEF Confirmed, EventTypes
<1>. HIDE DEF enter, leave, gone
<1>12. events' \subseteq SceneEvent
  BY <1>2, <1>10, <1>11
<1>13. \A e \in events' :
         \/ /\ e.type = "OBJECT_ENTERED" /\ e.track_id \in enter
            /\ e = Event("OBJECT_ENTERED", e.track_id, trk, now)
         \/ /\ e.type = "OBJECT_LEFT" /\ e.track_id \in leave
            /\ e = Event("OBJECT_LEFT", e.track_id, trk, now)
  BY <1>2, <1>10, <1>11
<1>14. /\ \A id \in enter : \E e \in events' :
            e.type = "OBJECT_ENTERED" /\ e.track_id = id
       /\ \A id \in leave : \E e \in events' :
            e.type = "OBJECT_LEFT" /\ e.track_id = id
  BY <1>2, <1>10, <1>11
<1>15. Announces(enter, leave)
  <2>1. \A e, f \in events' : e.track_id = f.track_id => e = f
    BY <1>13, <1>4
  <2>2. Scene!Reported("OBJECT_ENTERED", events') = enter
    BY <1>13, <1>14 DEF Scene!Reported
  <2>3. Scene!Reported("OBJECT_LEFT", events') = leave
    BY <1>13, <1>14 DEF Scene!Reported
  <2>. QED  BY <2>1, <2>2, <2>3 DEF Announces
<1>16. Moves(enter, leave, now)
  BY <1>1, <1>2, <1>3, <1>7 DEF Moves
<1>17. KeepsTypes /\ KeepsOnlyFresh(now)
  BY <1>1, <1>6, <1>8, <1>9, <1>12 DEF KeepsTypes, KeepsOnlyFresh
<1>. QED
  BY <1>11, <1>15, <1>16, <1>17

-----------------------------------------------------------------------------
LEMMA InitIInv == Init => IInv
<1>. SUFFICES ASSUME Init PROVE IInv
  OBVIOUS
<1>1. DOMAIN tracks = {} /\ Confirmed(tracks) = {}
  BY DEF Init, Confirmed
<1>2. tracks \in [DOMAIN tracks -> Track]
  BY DEF Init
<1>. QED
  BY <1>1, <1>2, FS_EmptySet, EngineAssumption
  DEF Init, IInv, TypeInv, CountMatches, NoStaleTrack, EngineAssumption

LEMMA NextIInv == IInv /\ [Next]_vars => IInv'
<1>. SUFFICES ASSUME IInv, [Next]_vars PROVE IInv'
  OBVIOUS
<1>1. CASE UNCHANGED vars
  BY <1>1 DEF vars, IInv, TypeInv, CountMatches, NoStaleTrack, Confirmed
<1>2. CASE Next
  <2>1. PICK dets \in Detections, step \in ClockSteps :
          frames' = frames + 1 /\ Update(dets, now_ms + step)
    BY <1>2 DEF Next, Frame
  <2>2. now_ms + step \in Int /\ now_ms' = now_ms + step
    BY <2>1, EngineAssumption DEF IInv, TypeInv, EngineAssumption, Update
  <2>3. PICK enter, leave \in SUBSET TrackIds : Moves(enter, leave, now_ms + step)
    BY <2>1, <2>2, UpdateFacts DEF IInv
  <2>4. KeepsTypes /\ NoStaleTrack'
    <3>1. KeepsTypes /\ KeepsOnlyFresh(now_ms')
      BY <2>1, <2>2, UpdateFacts DEF IInv
    <3>. QED  BY <3>1 DEF KeepsOnlyFresh, NoStaleTrack
  <2>5. /\ IsFiniteSet(enter) /\ IsFiniteSet(leave)
        /\ IsFiniteSet(Confirmed(tracks))
        /\ Cardinality(enter) \in Nat /\ Cardinality(leave) \in Nat
        /\ Cardinality(Confirmed(tracks)) \in Nat
    BY ConfirmedFinite, FS_Subset, FS_CardinalityType, EngineAssumption
    DEF EngineAssumption, IInv, TypeInv
  <2>6. CountMatches'
    <3>1. /\ IsFiniteSet(Confirmed(tracks) \cup enter)
          /\ Cardinality(Confirmed(tracks) \cup enter)
               = Cardinality(Confirmed(tracks)) + Cardinality(enter)
      <4>1. Cardinality(Confirmed(tracks) \cap enter) = 0
        BY <2>3, FS_EmptySet DEF Moves
      <4>. QED  BY <4>1, <2>5, FS_Union
    <3>2. Cardinality((Confirmed(tracks) \cup enter) \ leave)
            = Cardinality(Confirmed(tracks) \cup enter) - Cardinality(leave)
      <4>1. (Confirmed(tracks) \cup enter) \cap leave = leave
        BY <2>3 DEF Moves
      <4>. QED  BY <4>1, <3>1, FS_Difference
    <3>. QED  BY <2>3, <2>5, <3>1, <3>2 DEF IInv, CountMatches, Moves
  <2>7. TypeInv'
    BY <2>1, <2>2, <2>3, <2>4, <2>5 DEF IInv, TypeInv, Moves, KeepsTypes
  <2>. QED  BY <2>4, <2>6, <2>7 DEF IInv
<1>. QED  BY <1>1, <1>2

LEMMA Invariance == Spec => []IInv
BY InitIInv, NextIInv, PTL DEF Spec

\* The state is well typed and the counter never goes below zero, whatever
\* the frames show and however the clock moves (event_engine.py:89-146).
THEOREM TypeCorrect == Spec => []TypeOK
<1>1. IInv => TypeOK
  BY ConfirmedFinite, FS_CardinalityType
  DEF IInv, TypeInv, CountMatches, TypeOK
<1>. QED  BY <1>1, Invariance, PTL

\* confirmed_count, kept apart from the tracks, always is the number of
\* confirmed tracks (event_engine.py:125,141).
THEOREM CounterExact == Spec => []CountMatches
<1>1. IInv => CountMatches
  BY DEF IInv
<1>. QED  BY <1>1, Invariance, PTL

\* Whatever was not seen for the whole grace has been forgotten
\* (event_engine.py:130-139).
THEOREM NothingStale == Spec => []NoStaleTrack
<1>1. IInv => NoStaleTrack
  BY DEF IInv
<1>. QED  BY <1>1, Invariance, PTL

-----------------------------------------------------------------------------
\* One call of update is one report of the abstract scene.
LEMMA UpdateReports ==
  ASSUME TypeInv, NEW dets \in Detections, NEW now \in Int, Update(dets, now)
  PROVE  Scene!Next
<1>1. KeepsTypes
  BY UpdateFacts
<1>2. PICK enter, leave \in SUBSET TrackIds :
        Moves(enter, leave, now) /\ Announces(enter, leave)
  BY UpdateFacts
<1>3. events' \subseteq Scene!SceneEvent
  BY <1>1 DEF KeepsTypes, SceneEvent, Scene!SceneEvent, EventTypes, Scene!EventTypes
<1>4. /\ enter \cap Confirmed(tracks) = {}
      /\ leave \subseteq Confirmed(tracks)
      /\ Confirmed(tracks') = (Confirmed(tracks) \cup enter) \ leave
  BY <1>2 DEF Moves
<1>5. /\ enter = Scene!Reported("OBJECT_ENTERED", events')
      /\ leave = Scene!Reported("OBJECT_LEFT", events')
      /\ \A e, f \in events' : e.track_id = f.track_id => e = f
  BY <1>2 DEF Announces
<1>. QED  BY <1>3, <1>4, <1>5 DEF Scene!Next, Scene!Report

\* The engine implements the scene: its events are those of a set that
\* objects enter and leave, one report per frame (event_engine.py:118-144).
THEOREM EngineIsAScene == Spec => SceneSpec
<1>1. Init => Scene!Init
  BY DEF Init, Scene!Init, Confirmed
<1>2. IInv /\ [Next]_vars => [Scene!Next]_(Scene!vars)
  <2>1. ASSUME IInv, Next PROVE Scene!Next
    <3>1. PICK dets \in Detections, step \in ClockSteps : Update(dets, now_ms + step)
      BY <2>1 DEF Next, Frame
    <3>2. now_ms + step \in Int /\ TypeInv
      BY <2>1, EngineAssumption DEF IInv, TypeInv, EngineAssumption
    <3>. QED  BY <3>1, <3>2, UpdateReports
  <2>2. ASSUME UNCHANGED vars PROVE UNCHANGED Scene!vars
    BY <2>2 DEF vars, Scene!vars, Confirmed
  <2>. QED  BY <2>1, <2>2
<1>. QED  BY <1>1, <1>2, Invariance, PTL DEF Spec, SceneSpec, Scene!Spec
=============================================================================
