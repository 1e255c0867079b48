--------------------------- MODULE SceneMembership ---------------------------
(***************************************************************************)
(* What the scene event engine promises its consumers (the feed of the     *)
(* browser, the event journal of the backend): objects enter and leave a   *)
(* set.  A consumer that folds the reports of the frames, in order, always *)
(* knows exactly who is in the scene: nobody enters twice without leaving, *)
(* nobody leaves who did not enter, and a frame never reports two things   *)
(* of the same object.                                                     *)
(***************************************************************************)
EXTENDS Integers

CONSTANTS
  TrackIds,   \* identifiers the tracker gives to objects
  Labels      \* classes the detector knows

VARIABLES
  present,    \* the objects announced and not yet declared gone
  events      \* the report of the last frame

vars == <<present, events>>

EventTypes == {"OBJECT_ENTERED", "OBJECT_LEFT"}

SceneEvent ==
  [type: EventTypes, track_id: TrackIds, label: Labels, at_ms: Int]

\* The objects a report says something of, by what it says.
Reported(type, evs) == {e.track_id : e \in {x \in evs : x.type = type}}

Init ==
  /\ present = {}
  /\ events = {}

(***************************************************************************)
(* One frame: some absent objects enter, some present ones leave, each     *)
(* announced by one event.                                                 *)
(***************************************************************************)
Report(report) ==
  LET entered == Reported("OBJECT_ENTERED", report)
      left    == Reported("OBJECT_LEFT", report)
  IN  /\ report \subseteq SceneEvent
      /\ \A e, f \in report : e.track_id = f.track_id => e = f
      /\ entered \cap present = {}
      /\ left \subseteq present
      /\ present' = (present \cup entered) \ left
      /\ events' = report

Next == Report(events')

Spec == Init /\ [][Next]_vars
=============================================================================
