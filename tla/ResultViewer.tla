---------------------------- MODULE ResultViewer ----------------------------
(***************************************************************************)
(* The view of a Result (ResultViewer.tsx: Viewer, VideoTransport.tsx):    *)
(* the table of steps, one video at a time, and the panels that share a    *)
(* place. A step that is picked moves the video to it, which may first     *)
(* have to be changed and to load; the time the video reports moves the    *)
(* step that is marked.                                                    *)
(*                                                                         *)
(* First, where a step lies in the videos of its run, and which step a     *)
(* place of a video belongs to (sync.ts). Times are counted in halves of a *)
(* second; no screen changes the correction and the rate, which are 0 and  *)
(* 1 unless a stored Result brought others.                                *)
(***************************************************************************)
EXTENDS Integers, Sequences, FiniteSetsExt

CONSTANTS Videos,  \* [1.. -> [start |-> its wall clock or Unknown, length |-> ...]]
          Rows,    \* the steps of the Result in order of time: [1.. -> [time |-> ..., length |-> .. or Unknown]]
          Places,  \* where a result of the analysis may lie: set of [video, at]
          Margins  \* what may be added before and after the steps of a clip

VARIABLES absolute,  \* the Result tells wall clocks, else times since its start
          ready,     \* the videos that can be played (session.videos: prep)
          screen,    \* the video element: [video, loaded, at, runs]
          ask,       \* what waits for it to load: [to, play] (pendingSeek, pendingPlay), for: the video meant
          mark,      \* [playing, picked, told]: the step shown as running, the one that holds it, the time last reported
          panels     \* what shares the place under the video: [search, analysis, trim]

viewerVars == <<absolute, ready, screen, ask, mark, panels>>

\* The trimming alone, with the element it previews in.
VARIABLES elapsed,  \* the Result tells times since its start
          trim,     \* [start, end: steps or None; before, after]
          preview,  \* [on, video, loaded, at, runs]: the trimming and the element it previews in
          cut       \* [busy: the agent is cutting, told: the file it saved is shown]

trimVars == <<elapsed, trim, preview, cut>>

Unknown == -1
None == 0           \* no video, no step

(***************************************************************************)
(* The steps and the videos.                                               *)
(***************************************************************************)

Earliest == Min(DOMAIN Videos)

\* With times since the start of the run every video begins with it.
BaseSeconds(time, v, wall) ==
  IF ~wall THEN time ELSE IF v = None \/ Videos[v].start = Unknown THEN Unknown ELSE time - Videos[v].start
ToRowTime(place, v, wall) ==
  IF ~wall THEN place ELSE IF v = None \/ Videos[v].start = Unknown THEN Unknown ELSE Videos[v].start + place
Placed(v, wall) == ~wall \/ (v # None /\ Videos[v].start # Unknown)

Gap(time, v) ==
  LET end == Videos[v].start + Videos[v].length
  IN IF time < Videos[v].start THEN Videos[v].start - time ELSE IF time > end THEN time - end ELSE 0

\* The video a step is in, the one on the screen first; else the nearest one.
VideoForRow(time, current, wall) ==
  LET timed == {v \in DOMAIN Videos : Videos[v].start # Unknown}
      least == Min({Gap(time, v) : v \in timed})
  IN IF ~wall \/ timed = {} THEN IF current # None THEN current ELSE Earliest
     ELSE IF current \in timed /\ Gap(time, current) = 0 THEN current
     ELSE Min({v \in timed : Gap(time, v) = least})

\* The last step that has begun.
RowAtTime(time) == Max({None} \cup {r \in DOMAIN Rows : Rows[r].time <= time})

\* A step seen from the screen: its video and its place there, from the video on.
Position(r, current, wall) ==
  LET v == VideoForRow(Rows[r].time, current, wall)
  IN [video |-> v, at |-> BaseSeconds(Rows[r].time, v, wall), known |-> Placed(v, wall)]

(***************************************************************************)
(* The view.                                                               *)
(***************************************************************************)

NoAsk == [to |-> Unknown, play |-> FALSE, for |-> None]
Put(v) == [video |-> v, loaded |-> FALSE, at |-> 0, runs |-> FALSE]
Bound(v, t) == IF t < 0 THEN 0 ELSE IF t > Videos[v].length THEN Videos[v].length ELSE t

ViewerInit ==
  /\ absolute \in BOOLEAN /\ ready \in SUBSET DOMAIN Videos
  /\ screen = Put(Earliest) /\ ask = NoAsk
  /\ mark = [playing |-> None, picked |-> None, told |-> Unknown]
  /\ panels = [search |-> FALSE, analysis |-> FALSE, trim |-> FALSE]

\* seekVideo, only with an element to move.
SeekVideo(t) == IF screen.video \in ready THEN [screen EXCEPT !.at = Bound(screen.video, t)] ELSE screen

Forget(m) == [m EXCEPT !.told = Unknown]

\* The other video comes first, and the place waits for it.
SeekToRow(r) ==
  LET to == Position(r, screen.video, absolute)
  IN /\ mark' = Forget([mark EXCEPT !.playing = r, !.picked = r])
     /\ IF ~to.known THEN UNCHANGED <<screen, ask>>
        ELSE IF to.video # screen.video
        THEN ask' = [ask EXCEPT !.to = to.at, !.for = to.video] /\ screen' = Put(to.video)
        ELSE screen' = SeekVideo(to.at) /\ UNCHANGED ask
PickStep == \E r \in DOMAIN Rows : SeekToRow(r) /\ UNCHANGED <<absolute, ready, panels>>

\* A result of the analysis or of the search, from the list, the chart or the slides.
SeekTo == \E p \in Places, play \in BOOLEAN :
  /\ panels.search \/ panels.analysis
  /\ mark' = Forget(mark)
  /\ IF p.video # screen.video
     THEN ask' = [to |-> p.at, play |-> play, for |-> p.video] /\ screen' = Put(p.video)
     ELSE screen' = [SeekVideo(p.at) EXCEPT !.runs = @ \/ (play /\ screen.video \in ready)] /\ UNCHANGED ask
  /\ UNCHANGED <<absolute, ready, panels>>

\* F, R, or the list of the videos.
SwitchVideo == \E v \in DOMAIN Videos \ {screen.video} :
  /\ screen' = Put(v) /\ mark' = Forget(mark) /\ UNCHANGED <<absolute, ready, ask, panels>>

(***************************************************************************)
(* The video element.                                                      *)
(***************************************************************************)

Prepared == \E v \in DOMAIN Videos \ ready :
  ready' = ready \cup {v} /\ UNCHANGED <<absolute, screen, ask, mark, panels>>

\* onLoaded: what waits is done now, whatever video it is.
Loads ==
  /\ screen.video \in ready /\ ~screen.loaded
  /\ screen' = IF ask.to = Unknown THEN [screen EXCEPT !.loaded = TRUE]
               ELSE [screen EXCEPT !.loaded = TRUE, !.at = Bound(screen.video, ask.to), !.runs = @ \/ ask.play]
  /\ ask' = IF ask.to = Unknown THEN [ask EXCEPT !.play = FALSE] ELSE NoAsk
  /\ UNCHANGED <<absolute, ready, mark, panels>>

Plays ==
  /\ screen.loaded /\ screen.runs
  /\ screen' = IF screen.at < Videos[screen.video].length THEN [screen EXCEPT !.at = @ + 1] ELSE [screen EXCEPT !.runs = FALSE]
  /\ mark' = Forget(mark) /\ UNCHANGED <<absolute, ready, ask, panels>>

TogglePlay ==
  /\ screen.video \in ready
  /\ screen' = [screen EXCEPT !.runs = ~@] /\ UNCHANGED <<absolute, ready, ask, mark, panels>>

\* A, D, Q, E and the seek bar.
SeekBy == \E by \in {-2, 2} :
  /\ screen.loaded
  /\ screen' = [screen EXCEPT !.at = Bound(screen.video, @ + by)]
  /\ mark' = Forget(mark) /\ UNCHANGED <<absolute, ready, ask, panels>>

\* The picked step stays until the video has left it: a second before it, or at a step of a later time.
Left(wall, row) ==
  LET time == Rows[mark.picked].time
  IN wall < time - 2 \/ (wall > time /\ row # None /\ Rows[row].time > time)

\* onTime: a step counts from half a second before it begins.
TimeUpdate ==
  LET wall == ToRowTime(screen.at, screen.video, absolute)
      row == RowAtTime(wall + 1)
      holds == mark.picked # None /\ ~Left(wall, row)
  IN /\ screen.loaded
     /\ mark' = [playing |-> IF ~Placed(screen.video, absolute) \/ holds \/ row = None THEN mark.playing ELSE row,
                 picked |-> IF ~Placed(screen.video, absolute) \/ holds THEN mark.picked ELSE None,
                 told |-> screen.at]
     /\ UNCHANGED <<absolute, ready, screen, ask, panels>>

(***************************************************************************)
(* The panels.                                                             *)
(***************************************************************************)

\* Trimming and its panels: opening one closes the other two, but a panel leaves the trimming as it is.
OpenOnly(kind) == [k \in DOMAIN panels |-> k = kind \/ (k = "trim" /\ panels.trim)]

TogglePanel == \E kind \in {"search", "analysis"} :
  /\ screen.video \in ready /\ ~panels.trim
  /\ panels' = IF panels[kind] THEN [panels EXCEPT ![kind] = FALSE] ELSE OpenOnly(kind)
  /\ UNCHANGED <<absolute, ready, screen, ask, mark>>

\* The list of jobs, in this tab or another one, asks for the panel of its job.
PanelRequested == \E kind \in {"search", "analysis"} :
  panels' = OpenOnly(kind) /\ UNCHANGED <<absolute, ready, screen, ask, mark>>

ToggleTrim ==
  /\ panels' = IF panels.trim THEN [panels EXCEPT !.trim = FALSE] ELSE OpenOnly("trim")
  /\ UNCHANGED <<absolute, ready, screen, ask, mark>>

ViewerNext ==
  \/ PickStep \/ SeekTo \/ SwitchVideo \/ Prepared \/ Loads \/ Plays \/ TogglePlay \/ SeekBy \/ TimeUpdate
  \/ TogglePanel \/ PanelRequested \/ ToggleTrim
ViewerSpec == ViewerInit /\ [][ViewerNext]_viewerVars

(***************************************************************************)
(* The trimming of a video between two steps (trimRange, pickTrim,         *)
(* TrimPanel, VideoTransport). The steps are picked in the table; while    *)
(* trimming the video shows the clip alone; what was picked outlives the   *)
(* trimming.                                                               *)
(***************************************************************************)

NoClip == [video |-> None, from |-> 0, to |-> 0]
EmptyTrim == [start |-> None, end |-> None, before |-> 0, after |-> 0]
LengthOf(r) ==
  IF Rows[r].length # Unknown THEN Rows[r].length
  ELSE IF r = Len(Rows) THEN 0 ELSE Rows[r + 1].time - Rows[r].time

\* trimRange: from the start step less the margin to the end of the end step and the margin, in one video.
PlaceOf(r, current) ==
  IF r = None THEN [video |-> None, at |-> 0, known |-> FALSE] ELSE Position(r, current, ~elapsed)
Problem(t, first, last, from, to) ==
  IF (t.start # None /\ ~first.known) \/ (t.end # None /\ ~last.known) THEN "unplaced"
  ELSE IF first.known /\ last.known /\ first.video # last.video THEN "two videos"
  ELSE IF first.known /\ from >= Videos[first.video].length THEN "after the end"
  ELSE IF first.known /\ last.known /\ to <= 0 THEN "before the start"
  ELSE "none"
Clip(first, last, problem, from, to) ==
  IF problem = "none" /\ first.known /\ last.known /\ to > from THEN [video |-> first.video, from |-> from, to |-> to] ELSE NoClip
RangeOf(t, first, last, from, to) ==
  [problem |-> Problem(t, first, last, from, to), clip |-> Clip(first, last, Problem(t, first, last, from, to), from, to)]
RangeFrom(t, first, last) ==
  RangeOf(t, first, last, Max({0, first.at - t.before}),
          IF t.end = None \/ ~first.known THEN 0 ELSE Min({Videos[first.video].length, last.at + LengthOf(t.end) + t.after}))
TrimRange(t, current) == RangeFrom(t, PlaceOf(t.start, current), PlaceOf(t.end, current))
ClipOf(t, video) == TrimRange(t, video).clip
ClipNow == IF preview.on THEN ClipOf(trim, preview.video) ELSE NoClip
\* Only the video of the clip is held to it.
HeldTo(p, c) == IF p.on /\ c.video = p.video THEN c ELSE NoClip
Held(p, t) == HeldTo(p, ClipOf(t, p.video))

TrimInit ==
  /\ elapsed \in BOOLEAN /\ trim = EmptyTrim
  /\ preview = [on |-> FALSE, video |-> Earliest, loaded |-> FALSE, at |-> 0, runs |-> FALSE]
  /\ cut = [busy |-> FALSE, told |-> FALSE]

\* The effects of a clip that is new: its video comes on the screen, and stops at its start.
Opened(p, v) == [p EXCEPT !.video = v, !.loaded = FALSE, !.at = 0, !.runs = FALSE]
Settled(p, t) ==
  LET c == IF p.on THEN ClipOf(t, p.video) ELSE NoClip
  IN IF c \in {NoClip, ClipNow} THEN p
     ELSE IF c.video # p.video THEN Opened(p, c.video)
     ELSE [p EXCEPT !.runs = FALSE, !.at = IF p.loaded THEN c.from ELSE @]

ToggleTrimming ==
  LET p == [preview EXCEPT !.on = ~@]
  IN preview' = Settled(p, trim) /\ UNCHANGED <<elapsed, trim, cut>>

Changed(t) == trim' = t /\ preview' = Settled(preview, t) /\ UNCHANGED elapsed
\* pickTrim: the end is no step before the start, and is picked again if the start passes it.
PickStart == \E r \in DOMAIN Rows :
  preview.on /\ Changed([trim EXCEPT !.start = r, !.end = IF @ # None /\ @ < r THEN None ELSE @]) /\ UNCHANGED cut
CanEnd(r) == trim.start # None /\ r >= trim.start
PickEnd == \E r \in DOMAIN Rows : preview.on /\ CanEnd(r) /\ Changed([trim EXCEPT !.end = r]) /\ UNCHANGED cut
SetMargin == \E before, after \in Margins :
  /\ preview.on /\ Changed([trim EXCEPT !.before = before, !.after = after])
  /\ cut' = [cut EXCEPT !.told = FALSE]
Reset == preview.on /\ Changed(EmptyTrim) /\ cut' = [cut EXCEPT !.told = FALSE]

\* The video: picking a step, F and R, or the list.
Look ==
  \/ \E v \in DOMAIN Videos \ {preview.video} : preview' = Opened(preview, v)
  \/ \E r \in DOMAIN Rows : LET to == Position(r, preview.video, ~elapsed) IN
       preview' = IF to.known /\ to.video # preview.video THEN Opened(preview, to.video)
                  ELSE IF to.known /\ preview.loaded THEN [preview EXCEPT !.at = Min({Videos[to.video].length, Max({0, to.at})})]
                  ELSE preview
LookAway == Look /\ UNCHANGED <<elapsed, trim, cut>>

Load ==
  /\ ~preview.loaded
  /\ preview' = [preview EXCEPT !.loaded = TRUE, !.at = Held(preview, trim).from]
  /\ UNCHANGED <<elapsed, trim, cut>>

\* Playing stops at the end of the clip, and a place outside it is put back to its edge.
Last == LET c == Held(preview, trim) IN IF c = NoClip THEN Videos[preview.video].length ELSE c.to
Play ==
  /\ preview.loaded /\ preview.runs
  /\ preview' = IF preview.at < Last THEN [preview EXCEPT !.at = @ + 1] ELSE [preview EXCEPT !.runs = FALSE, !.at = Last]
  /\ UNCHANGED <<elapsed, trim, cut>>
HoldToClip ==
  LET c == Held(preview, trim)
  IN /\ preview.loaded /\ c # NoClip /\ preview.at \notin c.from..c.to
     /\ preview' = [preview EXCEPT !.runs = FALSE, !.at = IF @ < c.from THEN c.from ELSE c.to]
     /\ UNCHANGED <<elapsed, trim, cut>>
\* At the end of the clip playing begins with it again.
PlayClip ==
  LET c == Held(preview, trim)
  IN /\ preview.loaded
     /\ preview' = [preview EXCEPT !.runs = ~@, !.at = IF ~preview.runs /\ c # NoClip /\ @ >= c.to THEN c.from ELSE @]
     /\ UNCHANGED <<elapsed, trim, cut>>

\* The agent cuts the clip; what it says is shown until a margin changes.
Run ==
  /\ preview.on /\ ~cut.busy /\ ClipNow # NoClip
  /\ cut' = [cut EXCEPT !.busy = TRUE] /\ UNCHANGED <<elapsed, trim, preview>>
RunEnds == \E ok \in BOOLEAN :
  cut.busy /\ cut' = [busy |-> FALSE, told |-> cut.told \/ ok] /\ UNCHANGED <<elapsed, trim, preview>>

TrimNext ==
  \/ ToggleTrimming \/ PickStart \/ PickEnd \/ SetMargin \/ Reset \/ LookAway \/ Load \/ Play \/ HoldToClip \/ PlayClip
  \/ Run \/ RunEnds
TrimSpec == TrimInit /\ [][TrimNext]_trimVars

(***************************************************************************)
(* Properties                                                              *)
(***************************************************************************)

\* One panel at a time has the place under the video: the buttons, a request of the list of jobs and the
\* trimming close the others. (A request while trimming opens a panel behind it.)
OnePanel == ~(panels.search /\ panels.analysis)

\* The step shown as running fits the time the video last told: it begins at most a second later (a step that
\* was picked is held), and no step of a later time has begun since. Only before the first step, where there
\* is none to show, the last one stays marked.
MarkIsNear ==
  LET wall == ToRowTime(screen.at, screen.video, absolute)
      time(r) == Rows[r].time
  IN mark.told = screen.at /\ Placed(screen.video, absolute) /\ RowAtTime(wall + 1) # None
     => /\ mark.playing # None /\ time(mark.playing) <= wall + 2
        /\ ~\E r \in DOMAIN Rows : time(mark.playing) < time(r) /\ time(r) <= wall

\* The end step is never before the start step, whatever was picked in which order, and two steps that are
\* both picked give a clip, or the reason why they give none, unless there is nothing between them.
TrimIsClear ==
  LET range == TrimRange(trim, preview.video)
      empty == Rows[trim.start].time - trim.before >= Rows[trim.end].time + LengthOf(trim.end) + trim.after
  IN trim.start # None /\ trim.end # None =>
       /\ trim.start <= trim.end
       /\ range.clip # NoClip \/ range.problem # "none" \/ empty

\* What is cut lies in one video, from before the start step to after the end step as far as the video goes.
CutIsInside ==
  LET c == ClipOf(trim, preview.video)
  IN c # NoClip =>
       /\ 0 <= c.from /\ c.from < c.to /\ c.to <= Videos[c.video].length
       /\ c.from <= Max({0, Position(trim.start, preview.video, ~elapsed).at})

\* While the clip is previewed, playing never shows what is outside it: at most a place that was just sought.
PreviewStays == Play /\ Held(preview, trim) # NoClip /\ preview.at \in (Held(preview, trim).from)..(Held(preview, trim).to)
                => preview'.at \in (Held(preview, trim).from)..(Held(preview, trim).to)

\* Does not hold:
\* A place that was asked for in one video is never sought in another one (pendingSeek is one for all).
SoughtWhereMeant == [][Loads /\ ask.to # Unknown => ask.for = screen.video]_viewerVars
=============================================================================
