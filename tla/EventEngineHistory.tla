-------------------------- MODULE EventEngineHistory --------------------------
(***************************************************************************)
(* What the events of EventEngine.update mean, stated from the history of  *)
(* the frames alone and without the engine's bookkeeping (track records,   *)
(* counters, flags).  The state machine is the one of EventEngine with one *)
(* history variable, the frames of the stream so far; the property says    *)
(* that after every frame the events are exactly those of the definition.  *)
(***************************************************************************)
EXTENDS EventEngine, Sequences, FiniteSetsExt

VARIABLE log   \* the frames so far: their clock and their detections

hvars == <<vars, log>>

HInit == Init /\ log = <<>>

HFrame ==
  \E dets \in Detections, step \in ClockSteps :
    /\ frames < MaxFrames
    /\ frames' = frames + 1
    /\ Update(dets, now_ms + step)
    /\ log' = Append(log, [now |-> now_ms + step, dets |-> dets])

HSpec == HInit /\ [][HFrame]_hvars

-----------------------------------------------------------------------------
(***************************************************************************)
(* The reference.  Frames are numbered from 1 to Len(log).                 *)
(***************************************************************************)

\* Frame n shows the object with enough confidence.
Sighted(id, n) ==
  /\ id \in DOMAIN log[n].dets
  /\ log[n].dets[id].confidence >= MinConfidence

Sightings(id, from, to) == {k \in from..to : Sighted(id, k)}

\* At frame n the object, absent, has been out of sight for the whole grace.
Lost(id, n) ==
  /\ ~Sighted(id, n)
  /\ Sightings(id, 1, n - 1) # {}
  /\ log[n].now - log[Max(Sightings(id, 1, n - 1))].now >= LeaveGraceMs

\* The last frame before n that lost the object, 0 when there is none.
LastLoss(id, n) == Max({0} \cup {k \in 1..(n - 1) : Lost(id, k)})

\* The sightings of the current stay of the object, up to frame n.
Stay(id, n) == Sightings(id, LastLoss(id, n) + 1, n)

\* Frame n shows the object, and its stay has lasted long enough.
Established(id, n) ==
  /\ Sighted(id, n)
  /\ Cardinality(Stay(id, n)) >= MinFrames
  /\ log[n].now - log[Min(Stay(id, n))].now >= MinDurationMs

\* The object was established at some frame of its current stay, before n.
Announced(id, n) == \E k \in (LastLoss(id, n) + 1)..(n - 1) : Established(id, k)

\* What frame n has to report.
ReferenceEvents(n) ==
  {[type |-> "OBJECT_ENTERED", track_id |-> id,
    label |-> log[n].dets[id].label, at_ms |-> log[n].now] :
      id \in {i \in TrackIds : Established(i, n) /\ ~Announced(i, n)}}
  \cup
  {[type |-> "OBJECT_LEFT", track_id |-> id,
    label |-> log[Max(Stay(id, n))].dets[id].label, at_ms |-> log[n].now] :
      id \in {i \in TrackIds : Lost(i, n) /\ Announced(i, n)}}

-----------------------------------------------------------------------------
\* After every frame the engine has reported exactly what the history of the
\* stream calls for: an entry at the first frame of a stay that has enough
\* sightings over enough time, a departure at the first frame that finds an
\* announced object out of sight for the whole grace, each under the label
\* of the last sighting (event_engine.py:89-146).
EventsMatchReference ==
  frames > 0 => events = ReferenceEvents(frames)
=============================================================================
