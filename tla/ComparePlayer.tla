---------------------------- MODULE ComparePlayer ----------------------------
(***************************************************************************)
(* The window that plays a section of a video beside the same place of the *)
(* reference cycle (VideoAnalysis.tsx: CompareDialog). Linked, every       *)
(* operation goes to both and the reference follows; apart, it goes to the *)
(* one in focus. Time is counted in frames; the rate of playback only sets *)
(* how fast a drift is caught up.                                          *)
(***************************************************************************)
EXTENDS Integers, FiniteSets

CONSTANTS Length,     \* of the section
          CurStart,   \* where it starts in its video
          RefStart,   \* the same place in the video of the reference
          SeekDrift,  \* a drift that is corrected by a seek (COMPARE_SEEK_S)
          Jump,       \* A, D: a second
          MaxNudge,   \* bound
          MaxAt       \* bound: the videos end here

Sides == {"cur", "ref"}
LOCAL Top(a, b) == IF a > b THEN a ELSE b
LOCAL Low(a, b) == IF a < b THEN a ELSE b
Clamp(t) == Low(Top(t, 0), Length)

VARIABLES pos,      \* [side -> the frame the video is at]
          shown,    \* [side -> the frame the window knows of] (at)
          plays,    \* [side -> is it playing]
          link      \* [linked, focus, nudge, loop, loaded]; due: a frame has passed that the window has
                    \* not read; clipped: the reference was put where its video does not reach

compareVars == <<pos, shown, plays, link>>

CompareInit ==
  /\ pos = [k \in Sides |-> 0] /\ shown = [k \in Sides |-> 0] /\ plays = [k \in Sides |-> FALSE]
  /\ link = [linked |-> TRUE, focus |-> "cur", nudge |-> 0, loop |-> TRUE, loaded |-> {}, clipped |-> FALSE, due |-> FALSE]

Fits(nudge) == RefStart + nudge \in 0..(MaxAt - Length)
RefFrom(nudge) == Top(0, RefStart + nudge)
StartOf(k) == IF k = "ref" THEN RefFrom(link.nudge) ELSE CurStart
Targets == IF link.linked THEN Sides ELSE {link.focus}
Rel(k) == shown[k] - StartOf(k)
Loaded == link.loaded = Sides
InVideo(t) == Low(Top(0, t), MaxAt)

\* seekRel: inside the section if linked, anywhere in the video if not.
Placed(p, k, t) == [p EXCEPT ![k] = InVideo(StartOf(k) + IF link.linked THEN Clamp(t) ELSE t)]
Both(p, t) == Placed(Placed(p, "cur", t), "ref", t)
Stopped(p, ks) == [k \in Sides |-> IF k \in ks THEN FALSE ELSE p[k]]

\* A video is loaded: it goes to its start, and with the second one the reference is set in step.
Follows(p, nudge) == [p EXCEPT !.ref = InVideo(Top(0, RefFrom(nudge) + p.cur - CurStart))]
Load == \E k \in Sides \ link.loaded :
  /\ link' = [link EXCEPT !.loaded = @ \cup {k}]
  /\ pos' = LET p == [pos EXCEPT ![k] = StartOf(k)]
            IN IF link.linked /\ link'.loaded = Sides THEN Follows(p, link.nudge) ELSE p
  /\ UNCHANGED <<shown, plays>>

(***************************************************************************)
(* The frames that pass.                                                   *)
(***************************************************************************)

\* A linked reference is played a little faster or slower while it drifts; a video stops at its end.
Advance ==
  /\ ~link.due /\ \E k \in Sides : plays[k]
  /\ link' = [link EXCEPT !.due = TRUE]
  /\ \E by \in (IF link.linked THEN 0..2 ELSE {1}) :
       pos' = [k \in Sides |-> IF plays[k] THEN InVideo(pos[k] + IF k = "ref" THEN by ELSE 1) ELSE pos[k]]
  /\ plays' = [k \in Sides |-> plays[k] /\ pos'[k] < MaxAt]
  /\ UNCHANGED shown

AtEnd(k) == pos[k] - StartOf(k) >= Length
Drift == pos["ref"] - (StartOf("ref") + pos["cur"] - CurStart)
LinkedTick ==
  IF plays["cur"] /\ AtEnd("cur")
  THEN IF link.loop THEN pos' = [cur |-> CurStart, ref |-> StartOf("ref")] /\ UNCHANGED plays
       ELSE plays' = Stopped(plays, Sides) /\ UNCHANGED pos
  ELSE /\ pos' = IF plays["cur"] /\ (Drift > SeekDrift \/ Drift < -SeekDrift) THEN Follows(pos, link.nudge) ELSE pos
       /\ UNCHANGED plays
ApartTick ==
  /\ pos' = [k \in Sides |-> IF plays[k] /\ AtEnd(k) /\ link.loop THEN StartOf(k) ELSE pos[k]]
  /\ plays' = [k \in Sides |-> plays[k] /\ (~AtEnd(k) \/ link.loop)]
\* The window reads the positions once for every frame it draws.
Tick ==
  /\ Loaded
  /\ IF link.linked THEN LinkedTick ELSE ApartTick
  /\ shown' = pos' /\ link' = [link EXCEPT !.due = FALSE]

(***************************************************************************)
(* The user.                                                               *)
(***************************************************************************)

\* Stopped, the reference is set to where the section stands (pauseTargets).
InStep(p) == IF link.linked THEN Placed(p, "ref", p.cur - CurStart) ELSE p
Pause ==
  /\ Loaded /\ \E k \in Targets : plays[k]
  /\ plays' = Stopped(plays, Targets) /\ pos' = InStep(pos)
  /\ UNCHANGED <<shown, link>>

\* From the start again if it stands at the end (playTargets).
Play ==
  /\ Loaded /\ ~\E k \in Targets : plays[k]
  /\ plays' = [k \in Sides |-> k \in Targets \/ plays[k]]
  /\ LET t == pos["cur"] - CurStart
     IN pos' = IF link.linked THEN Both(pos, IF t >= Length - 1 \/ t < 0 THEN 0 ELSE t)
               ELSE IF Rel(link.focus) >= Length - 1 THEN Placed(pos, link.focus, 0) ELSE pos
  /\ UNCHANGED <<shown, link>>

Step == \E by \in {-1, 1} :
  /\ Loaded
  /\ plays' = Stopped(plays, Targets)
  /\ pos' = IF link.linked THEN Both(pos, pos["cur"] - CurStart + by) ELSE Placed(pos, link.focus, Rel(link.focus) + by)
  /\ UNCHANGED <<shown, link>>

\* A, D and the slider: from the place the window knows of.
JumpTo(t) == pos' = IF link.linked THEN Both(pos, t) ELSE Placed(pos, link.focus, t)
Seek ==
  /\ Loaded /\ \E t \in {Rel(IF link.linked THEN "cur" ELSE link.focus) + j : j \in {-Jump, Jump}} \cup {0, Length} : JumpTo(t)
  /\ UNCHANGED <<shown, plays, link>>

\* A bug: linked again, the two jump back to where they were linked before.
OldNudge(p) == link.nudge
\* Linked again: how far the two are apart becomes the place of the reference.
NewNudge(p) == p.ref - Clamp(p.cur - CurStart) - RefStart
ToggleLinked ==
  /\ Loaded
  /\ plays' = Stopped(plays, Sides)
  /\ IF link.linked THEN link' = [link EXCEPT !.linked = FALSE] /\ UNCHANGED pos
     ELSE LET p == [pos EXCEPT !.cur = CurStart + Clamp(pos["cur"] - CurStart)]
          IN /\ link' = [link EXCEPT !.linked = TRUE, !.nudge = NewNudge(pos), !.clipped = @ \/ ~Fits(NewNudge(pos))]
             /\ pos' = IF RefFrom(link.nudge) = RefFrom(link'.nudge) THEN p ELSE Follows(p, link'.nudge)
  /\ UNCHANGED shown

Focus ==
  /\ ~link.linked /\ link' = [link EXCEPT !.focus = IF @ = "ref" THEN "cur" ELSE "ref"]
  /\ UNCHANGED <<pos, shown, plays>>

\* The reference is moved by hand; back to zero.
Nudge == \E to \in {link.nudge - 1, link.nudge + 1, 0} :
  /\ Loaded /\ link.linked /\ to # link.nudge /\ to \in -MaxNudge..MaxNudge
  /\ link' = [link EXCEPT !.nudge = to, !.clipped = @ \/ ~Fits(to)]
  /\ pos' = IF RefFrom(link.nudge) = RefFrom(to) THEN pos ELSE Follows(pos, to)
  /\ UNCHANGED <<shown, plays>>

Loop ==
  /\ link' = [link EXCEPT !.loop = ~@]
  /\ UNCHANGED <<pos, shown, plays>>

\* Bound: nothing more is looked at once the reference lies where its video does not reach.
InReach == ~link.clipped
CompareNext ==
  \/ (InReach /\ Load) \/ (InReach /\ Advance) \/ (InReach /\ Tick) \/ (InReach /\ Pause) \/ (InReach /\ Play)
  \/ (InReach /\ Step) \/ (InReach /\ Seek) \/ (InReach /\ ToggleLinked) \/ (InReach /\ Focus) \/ (InReach /\ Nudge)
  \/ (InReach /\ Loop)
CompareSpec == CompareInit /\ [][CompareNext]_compareVars

\* Stopped and linked, the two pictures are of the same moment of the section, unless it has run to
\* its end, or the reference was once put where its video does not reach (toggleLinked, the effect of refStart).
SameMoment ==
  Loaded /\ link.linked /\ ~plays["cur"] /\ ~plays["ref"] /\ ~AtEnd("cur") /\ ~link.clipped => Drift = 0

\* Linked again, the two go on as they stand (the text of the bar, VideoAnalysis.tsx:932), unless the
\* section was left or the place of the reference would lie before its video.
GoesOnAsIs ==
  ~link.linked /\ link'.linked /\ pos["cur"] \in CurStart..(CurStart + Length) /\ pos["ref"] >= pos["cur"] - CurStart
    => pos' = pos /\ Drift' = 0

\* Does not hold: they do in these cases too.
AlwaysGoesOn == [][~link.linked /\ link'.linked => pos'["ref"] - pos'["cur"] = pos["ref"] - pos["cur"]]_compareVars
==============================================================================
