----------------------------- MODULE EventEngine -----------------------------
(***************************************************************************)
(* The scene event engine (ai-service/visiocheck_ai/event_engine.py): pure *)
(* logic that turns the detections of successive frames into debounced     *)
(* ENTERED / LEFT events.  A step is one call of EventEngine.update.       *)
(*                                                                         *)
(* Detections come from ByteTrack, which names every object of a frame     *)
(* with an identifier of its own: the detections of a frame are a function *)
(* from identifiers.  The box of a detection is copied and never read by   *)
(* the engine, so it is left out.  Events of one frame are a set; they all *)
(* carry the same at_ms.                                                   *)
(***************************************************************************)
EXTENDS Integers, FiniteSets

CONSTANTS
  TrackIds,        \* identifiers the tracker gives to objects
  Labels,          \* classes the detector knows
  Confidences,     \* scores a detection may have
  MinFrames,       \* EngineConfig.min_frames
  MinDurationMs,   \* EngineConfig.min_duration_ms
  LeaveGraceMs,    \* EngineConfig.leave_grace_ms
  MinConfidence,   \* EngineConfig.min_confidence
  StartMs,         \* the clock when the stream opens
  ClockSteps,      \* what the frame clock may move by between two frames:
                   \* it is the wall clock of the browser, so a step may be
                   \* negative
  MaxFrames        \* bound on the number of frames of the stream

ASSUME EngineAssumption ==
  /\ IsFiniteSet(TrackIds)
  /\ Confidences \subseteq Int
  /\ MinFrames \in Nat
  /\ MinDurationMs \in Int
  /\ LeaveGraceMs \in Nat \ {0}
  /\ MinConfidence \in Int
  /\ StartMs \in Int
  /\ ClockSteps \subseteq Int
  /\ MaxFrames \in Nat

VARIABLES
  tracks,           \* EventEngine._tracks: the remembered pistes, by id
  confirmed_count,  \* EventEngine._confirmed_count
  now_ms,           \* the now_ms of the last update
  frames,           \* number of updates so far
  events            \* what the last update returned

vars == <<tracks, confirmed_count, now_ms, frames, events>>

-----------------------------------------------------------------------------
Detection == [label: Labels, confidence: Confidences]

Detections == UNION {[S -> Detection] : S \in SUBSET TrackIds}

Track == [label: Labels, first_seen_ms: Int, last_seen_ms: Int,
          frames_seen: Nat, confirmed: BOOLEAN]

EventTypes == {"OBJECT_ENTERED", "OBJECT_LEFT"}

SceneEvent ==
  [type: EventTypes, track_id: TrackIds, label: Labels, at_ms: Int]

\* The ids whose track has already emitted OBJECT_ENTERED.
Confirmed(trk) == {id \in DOMAIN trk : trk[id].confirmed}

-----------------------------------------------------------------------------
\* The ids the frame counts as seen: weak detections are skipped.
Seen(dets) == {id \in DOMAIN dets : dets[id].confidence >= MinConfidence}

NewTrack(det, now) ==
  [label |-> det.label, first_seen_ms |-> now, last_seen_ms |-> now,
   frames_seen |-> 1, confirmed |-> FALSE]

\* Mutant: the last sighting is not refreshed, so a visible object ages.
TouchedNoRefresh(track, det, now) ==
  [track EXCEPT !.label = det.label, !.frames_seen = @ + 1]

Touched(track, det, now) ==
  [track EXCEPT !.label = det.label,
                !.last_seen_ms = now,
                !.frames_seen = @ + 1]

\* The tracks once the detections of the frame are taken in.
Integrated(trk, dets, now) ==
  [id \in DOMAIN trk \cup Seen(dets) |->
     IF id \notin Seen(dets) THEN trk[id]
     ELSE IF id \notin DOMAIN trk THEN NewTrack(dets[id], now)
     ELSE Touched(trk[id], dets[id], now)]

\* Mutant: an already confirmed track is announced again.
ConfirmableAgain(trk, seen, now) ==
  {id \in seen : /\ trk[id].frames_seen >= MinFrames
                 /\ now - trk[id].first_seen_ms >= MinDurationMs}

\* The seen tracks that this frame confirms.
Confirmable(trk, seen, now) ==
  {id \in seen : /\ ~trk[id].confirmed
                 /\ trk[id].frames_seen >= MinFrames
                 /\ now - trk[id].first_seen_ms >= MinDurationMs}

\* Mutant: only announced tracks are ever forgotten.
ExpiredConfirmedOnly(trk, seen, now) ==
  {id \in DOMAIN trk \ seen : /\ trk[id].confirmed
                              /\ now - trk[id].last_seen_ms >= LeaveGraceMs}

\* The unseen tracks whose grace is over.
Expired(trk, seen, now) ==
  {id \in DOMAIN trk \ seen : now - trk[id].last_seen_ms >= LeaveGraceMs}

Event(type, id, trk, now) ==
  [type |-> type, track_id |-> id, label |-> trk[id].label, at_ms |-> now]

\* Mutant: every forgotten track counts as a confirmed one that left.
LeaversAll(trk, gone) == gone

\* The forgotten tracks whose departure is reported.
Leavers(trk, gone) == gone \cap Confirmed(trk)

-----------------------------------------------------------------------------
Init ==
  /\ tracks = [id \in {} |-> 0]
  /\ confirmed_count = 0
  /\ now_ms = StartMs
  /\ frames = 0
  /\ events = {}

(***************************************************************************)
(* EventEngine.update(detections, now_ms), the whole call: take in the     *)
(* detections, confirm entries, then drop the tracks absent for too long.  *)
(***************************************************************************)
Update(dets, now) ==
  LET seen  == Seen(dets)
      trk   == Integrated(tracks, dets, now)
      enter == Confirmable(trk, seen, now)
      gone  == Expired(trk, seen, now)
      leave == Leavers(trk, gone)
  IN  /\ tracks' = [id \in DOMAIN trk \ gone |->
                      [trk[id] EXCEPT !.confirmed = @ \/ id \in enter]]
      /\ confirmed_count' =
           confirmed_count + Cardinality(enter) - Cardinality(leave)
      /\ events' = {Event("OBJECT_ENTERED", id, trk, now) : id \in enter}
                     \cup {Event("OBJECT_LEFT", id, trk, now) : id \in leave}
      /\ now_ms' = now

\* The next frame of the stream, whatever it shows.
Frame ==
  \E dets \in Detections, step \in ClockSteps :
    /\ frames < MaxFrames
    /\ frames' = frames + 1
    /\ Update(dets, now_ms + step)

Next == Frame

Spec == Init /\ [][Next]_vars

-----------------------------------------------------------------------------
\* EventEngine.active_tracks, by id: what the overlay would draw.
active_tracks == Confirmed(tracks)

-----------------------------------------------------------------------------
\* Every piece of state has its type; the counter is never negative: no
\* departure is counted that no entry paid for (event_engine.py:125,141).
TypeOK ==
  /\ DOMAIN tracks \subseteq TrackIds
  /\ tracks \in [DOMAIN tracks -> Track]
  /\ confirmed_count \in Nat
  /\ now_ms \in Int
  /\ frames \in Nat
  /\ events \subseteq SceneEvent

\* The running counter (+1 on entry, -1 on exit, kept apart from the tracks)
\* never drifts from the number of confirmed tracks, whatever the frames
\* and the clock do (event_engine.py:125,141).
CountMatches == confirmed_count = Cardinality(Confirmed(tracks))

\* The engine forgets: after a frame, each remembered track, confirmed or
\* not, was seen less than leave_grace_ms ago.  Pistes that flickered once
\* do not pile up in _tracks (event_engine.py:130-139).
NoStaleTrack ==
  \A id \in DOMAIN tracks : now_ms - tracks[id].last_seen_ms < LeaveGraceMs

\* The event stream is the one of a set that objects enter and leave
\* (event_engine.py:118-144): the abstract set is the confirmed tracks.
Scene == INSTANCE SceneMembership WITH present <- Confirmed(tracks)
SceneSpec == Scene!Spec
=============================================================================
