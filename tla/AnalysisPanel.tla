--------------------------- MODULE AnalysisPanel ---------------------------
(***************************************************************************)
(* The panel of the video analysis (VideoAnalysis.tsx: VideoAnalysisPanel, *)
(* MemoBar, ExcludeBar, VideoAnalysisResults): what is open and in which   *)
(* order Escape closes it, a section of a video that is picked for a memo  *)
(* or for a comparison, and the steps between which nothing is reported.   *)
(***************************************************************************)
EXTENDS Integers, SequencesExt

CONSTANTS Places,      \* seconds of a video at which something is picked
          FirstStep,   \* [video -> the second at which the first step of the Result file starts]
          Rows,        \* the rows of the Result file, by their index, in the order of time
          MaxNotes     \* bound: memos and exclusions that are made

Clips == DOMAIN FirstStep
Unset == -1
Nowhere == <<Unset, Unset>>
NoMemo == [start |-> Nowhere, end |-> Nowhere, clip |-> Unset, text |-> FALSE, editing |-> Unset]
NoSteps == [start |-> Unset, end |-> Unset, editing |-> Unset]

VARIABLES panel,   \* [open, picking, defaults, comparing, compared, memo, exclude]: compared is a picked section
          draft,   \* the memo being written: its ends are <<video, second>>
          memos,   \* Seq([id, clip, start, end])
          steps,   \* the exclusion being picked
          excludes, \* Seq([id, start, end])
          clip,    \* the video that is shown, Unset if none
          lastId

panelVars == <<panel, draft, memos, steps, excludes, clip, lastId>>

PanelInit ==
  /\ panel = [open |-> TRUE, picking |-> FALSE, defaults |-> FALSE, comparing |-> FALSE, compared |-> FALSE,
              memo |-> FALSE, exclude |-> FALSE]
  /\ draft = NoMemo /\ memos = <<>>
  /\ steps = NoSteps /\ excludes = <<>>
  /\ clip = Unset /\ lastId = 0

Order(row) == SelectInSeq(Rows, LAMBDA r : r = row)
\* A window over the panel: nothing below it can be clicked.
Covered == panel.picking \/ panel.defaults \/ panel.compared
Free == panel.open /\ ~Covered
Turned(field, on) == panel' = [panel EXCEPT ![field] = on]

(***************************************************************************)
(* What is open.                                                           *)
(***************************************************************************)

Closed == [panel EXCEPT !.open = FALSE, !.picking = FALSE, !.exclude = FALSE, !.memo = FALSE, !.comparing = FALSE, !.compared = FALSE]

Escape ==
  /\ panel.open
  /\ panel' = IF panel.defaults THEN [panel EXCEPT !.defaults = FALSE]
              ELSE IF panel.picking THEN [panel EXCEPT !.picking = FALSE]
              ELSE IF panel.compared THEN [panel EXCEPT !.compared = FALSE]
              ELSE IF panel.comparing THEN [panel EXCEPT !.comparing = FALSE]
              ELSE IF panel.memo THEN [panel EXCEPT !.memo = FALSE]
              ELSE IF panel.exclude THEN [panel EXCEPT !.exclude = FALSE]
              ELSE Closed
  /\ draft' = IF panel.memo /\ ~panel'.memo THEN NoMemo ELSE draft
  /\ UNCHANGED <<memos, steps, excludes, clip, lastId>>

Show ==
  /\ \/ panel.open /\ Free /\ panel' = Closed /\ draft' = NoMemo
     \/ ~panel.open /\ Turned("open", TRUE) /\ UNCHANGED draft
     \/ Free /\ \E what \in {"picking", "defaults"} : Turned(what, TRUE) /\ UNCHANGED draft
  /\ UNCHANGED <<memos, steps, excludes, clip, lastId>>

\* The corners of the screen are picked in a frame (applyPick).
PickRegion ==
  /\ panel.picking
  /\ panel' = [panel EXCEPT !.picking = FALSE]
  /\ UNCHANGED <<draft, memos, steps, excludes, clip, lastId>>

\* The buttons of the bar: a memo and a comparison are not picked at the same time.
ToggleMemo ==
  /\ Free
  /\ panel' = [panel EXCEPT !.comparing = FALSE, !.memo = ~@]
  /\ draft' = IF panel.memo THEN NoMemo ELSE [NoMemo EXCEPT !.clip = clip]
  /\ UNCHANGED <<memos, steps, excludes, clip, lastId>>
ToggleCompare ==
  /\ Free
  /\ panel' = [panel EXCEPT !.comparing = ~@, !.memo = FALSE]
  /\ draft' = NoMemo
  /\ UNCHANGED <<memos, steps, excludes, clip, lastId>>
ToggleExclude ==
  /\ Free /\ Turned("exclude", ~panel.exclude)
  /\ UNCHANGED <<draft, memos, steps, excludes, clip, lastId>>

ShowClip ==
  /\ ~Covered /\ clip' \in Clips \cup {Unset} /\ clip' # clip
  /\ UNCHANGED <<panel, draft, memos, steps, excludes, lastId>>

(***************************************************************************)
(* The section of a memo.                                                  *)
(***************************************************************************)

\* Dragged in the chart: for the comparison if that is on, else for the memo.
Drag == \E a, b \in Places :
  /\ Free /\ clip # Unset /\ a <= b
  /\ IF panel.comparing THEN panel' = [panel EXCEPT !.compared = a < b] /\ UNCHANGED draft
     ELSE /\ panel.memo /\ draft' = [draft EXCEPT !.clip = clip, !.start = <<clip, a>>, !.end = <<clip, b>>]
          /\ UNCHANGED panel
  /\ UNCHANGED <<memos, steps, excludes, clip, lastId>>

\* A bug: the other end is kept whatever video it is of.
KeptAlways == TRUE
\* The place of the playback becomes the start or the end; in another video the other end is dropped.
SameClip == draft.clip = clip
SetNow == \E t \in Places, start \in BOOLEAN :
  /\ Free /\ panel.memo /\ clip # Unset
  /\ draft' = LET kept == IF SameClip THEN draft ELSE [draft EXCEPT !.start = Nowhere, !.end = Nowhere]
              IN IF start THEN [kept EXCEPT !.clip = clip, !.start = <<clip, t>>] ELSE [kept EXCEPT !.clip = clip, !.end = <<clip, t>>]
  /\ UNCHANGED <<panel, memos, steps, excludes, clip, lastId>>

\* The button at a detection: its place is picked, and the bar of the memos opens.
MemoAt == \E v \in Clips, a \in Places :
  /\ ~Covered
  /\ Turned("memo", TRUE)
  /\ draft' = [draft EXCEPT !.clip = v, !.start = <<v, a>>, !.end = <<v, a + 1>>, !.editing = Unset]
  /\ clip' = v
  /\ UNCHANGED <<memos, steps, excludes, lastId>>

Write ==
  /\ Free /\ panel.memo /\ ~draft.text /\ draft' = [draft EXCEPT !.text = TRUE]
  /\ UNCHANGED <<panel, memos, steps, excludes, clip, lastId>>

First(d) == IF d.start[2] <= d.end[2] THEN d.start[2] ELSE d.end[2]
Last2(d) == IF d.start[2] <= d.end[2] THEN d.end[2] ELSE d.start[2]
Anchored(v, t) == FirstStep[v] <= t
Ready(d) ==
  /\ d.start # Nowhere /\ d.end # Nowhere /\ First(d) < Last2(d)
  /\ Anchored(d.clip, First(d)) /\ Anchored(d.clip, Last2(d))
  /\ d.text
Has(list, id) == \E i \in DOMAIN list : list[i].id = id
Put(list, entry) == IF Has(list, entry.id) THEN [i \in DOMAIN list |-> IF list[i].id = entry.id THEN entry ELSE list[i]]
                    ELSE Append(list, entry)
Without(list, id) == SelectSeq(list, LAMBDA m : m.id # id)
Emptied(d) == [NoMemo EXCEPT !.clip = d.clip]

\* The memo that is edited is replaced; if it is gone by now a new one is made.
AddMemo ==
  LET edits == Has(memos, draft.editing)
      id == IF edits THEN draft.editing ELSE lastId + 1
  IN /\ Free /\ panel.memo /\ Ready(draft) /\ (edits \/ lastId < MaxNotes)
     /\ memos' = Put(memos, [id |-> id, clip |-> draft.clip, start |-> First(draft), end |-> Last2(draft)])
     /\ lastId' = IF edits THEN lastId ELSE id
     /\ draft' = Emptied(draft)
     /\ UNCHANGED <<panel, steps, excludes, clip>>

\* Its place in the video, if it has one there (places); once more: no longer edited.
EditMemo == \E i \in DOMAIN memos, placed \in BOOLEAN :
  LET m == memos[i]
  IN /\ Free /\ panel.memo
     /\ IF draft.editing = m.id THEN draft' = Emptied(draft) /\ UNCHANGED clip
        ELSE /\ draft' = [text |-> TRUE, editing |-> m.id, clip |-> IF placed THEN m.clip ELSE draft.clip,
                          start |-> IF placed THEN <<m.clip, m.start>> ELSE Nowhere, end |-> IF placed THEN <<m.clip, m.end>> ELSE Nowhere]
             /\ clip' = IF placed THEN m.clip ELSE clip
     /\ UNCHANGED <<panel, memos, steps, excludes, lastId>>

RemoveMemo == \E i \in DOMAIN memos :
  /\ Free /\ panel.memo
  /\ memos' = Without(memos, memos[i].id)
  /\ draft' = IF draft.editing = memos[i].id THEN Emptied(draft) ELSE draft
  /\ UNCHANGED <<panel, steps, excludes, clip, lastId>>

(***************************************************************************)
(* The steps of an exclusion.                                              *)
(***************************************************************************)

\* An end before the new start is dropped.
EndAfter(row) == IF steps.end # Unset /\ Order(steps.end) < Order(row) THEN Unset ELSE steps.end
PickStart == \E row \in Range(Rows) :
  /\ Free /\ panel.exclude
  /\ steps' = [steps EXCEPT !.start = row, !.end = EndAfter(row)]
  /\ UNCHANGED <<panel, draft, memos, excludes, clip, lastId>>
PickEnd == \E row \in Range(Rows) :
  /\ Free /\ panel.exclude /\ steps.start # Unset /\ Order(row) >= Order(steps.start)
  /\ steps' = [steps EXCEPT !.end = row]
  /\ UNCHANGED <<panel, draft, memos, excludes, clip, lastId>>
AddExclude ==
  LET edits == Has(excludes, steps.editing)
      id == IF edits THEN steps.editing ELSE lastId + 1
  IN /\ Free /\ panel.exclude /\ steps.start # Unset /\ steps.end # Unset /\ (edits \/ lastId < MaxNotes)
     /\ excludes' = Put(excludes, [id |-> id, start |-> steps.start, end |-> steps.end])
     /\ lastId' = IF edits THEN lastId ELSE id
     /\ steps' = NoSteps
     /\ UNCHANGED <<panel, draft, memos, clip>>
EditExclude == \E i \in DOMAIN excludes :
  LET x == excludes[i]
  IN /\ Free /\ panel.exclude
     /\ steps' = IF steps.editing = x.id THEN NoSteps ELSE [start |-> x.start, end |-> x.end, editing |-> x.id]
     /\ UNCHANGED <<panel, draft, memos, excludes, clip, lastId>>
RemoveExclude == \E i \in DOMAIN excludes :
  /\ Free /\ panel.exclude
  /\ excludes' = Without(excludes, excludes[i].id)
  /\ steps' = IF steps.editing = excludes[i].id THEN NoSteps ELSE steps
  /\ UNCHANGED <<panel, draft, memos, clip, lastId>>

\* The settings of an earlier analysis are taken up (useVideoAnalysis): what is picked stays.
Restore ==
  /\ memos # <<>> \/ excludes # <<>>
  /\ memos' = <<>> /\ excludes' = <<>>
  /\ UNCHANGED <<panel, draft, steps, clip, lastId>>

PanelNext ==
  \/ Escape \/ Show \/ PickRegion \/ ToggleMemo \/ ToggleCompare \/ ToggleExclude \/ ShowClip
  \/ Drag \/ SetNow \/ MemoAt \/ Write \/ AddMemo \/ EditMemo \/ RemoveMemo
  \/ PickStart \/ PickEnd \/ AddExclude \/ EditExclude \/ RemoveExclude \/ Restore
PanelSpec == PanelInit /\ [][PanelNext]_panelVars

\* The two ends of a section lie in one video, whatever was shown in between, so that a memo is
\* never made of two places that do not belong together (MemoBar: setNow).
OneSection == \A e \in {draft.start, draft.end} : e = Nowhere \/ e[1] = draft.clip

\* An exclusion never ends before it starts, picked in any order, taken up again or replaced
\* (ExcludeBar: pickStart, canEnd).
ExclusionForward ==
  /\ steps.start # Unset /\ steps.end # Unset => Order(steps.start) <= Order(steps.end)
  /\ \A i \in DOMAIN excludes : Order(excludes[i].start) <= Order(excludes[i].end)

\* Editing replaces the one that is edited: the others stay as they are, and none is there twice.
NotesKept == \A list \in {memos, excludes} : IsInjective([i \in DOMAIN list |-> list[i].id])

\* Does not hold:
\* The comment of memoDraft (videoAnalysisState.ts:249): while the line of the memo is open, a section is picked by
\* dragging in the chart.
DragPicksMemo == panel.memo => ~panel.comparing

-----------------------------------------------------------------------------
(***************************************************************************)
(* The chart of the measured brightness in it, and a result that is picked *)
(* (VideoAnalysis.tsx: AnalysisChart).  The wheel and a drag choose the    *)
(* part of the video that is drawn, the time played pulls it along, and    *)
(* while a section is being chosen a drag chooses it.  The chart stays as  *)
(* another video comes into it.                                            *)
(***************************************************************************)
CONSTANTS Lengths,   \* the lengths the videos have
          Lead       \* a result is played from this long before it

VARIABLES shown,   \* the video in it: [video, end, now]; the end grows while it is measured
          view,    \* the part drawn: [from, to], the same twice for all of it
          grip,    \* a drag: [on, moved, at, from, to]
          chart    \* [follow, choosing, due]: follow the time, a section is chosen by a drag, a frame will move the view

chartVars == <<shown, view, grip, chart>>

All == [from |-> 0, to |-> 0]
Whole == view = All
Longest == CHOOSE n \in Lengths : \A l \in Lengths : l <= n
Within(x, lo, hi) == IF x > hi /\ lo < hi THEN hi ELSE IF x < lo \/ lo >= hi THEN lo ELSE x
Drawn(w, end) == IF w = All THEN [from |-> 0, to |-> end] ELSE w
At(from, span) == [from |-> from, to |-> from + span]
Span(w) == w.to - w.from
NoGrip == [on |-> FALSE, moved |-> FALSE, at |-> 0, from |-> 0, to |-> 0]

ChartInit ==
  /\ \E n \in Lengths : shown = [video |-> 1, end |-> n, now |-> 0]
  /\ view = All /\ grip = NoGrip
  /\ chart \in [follow : BOOLEAN, choosing : {FALSE}, due : {FALSE}]

\* The effect that follows: a frame is asked for as the time leaves what is drawn, and
\* called off when the view or the length changes before it.
Outside(w, t) == w # All /\ (t < w.from \/ t > w.to)
Redrawn(w) == view' = w /\ chart' = [chart EXCEPT !.due = FALSE] /\ UNCHANGED shown
Reported(s) ==
  /\ shown' = s /\ UNCHANGED view
  /\ chart' = [chart EXCEPT !.due = IF s.now # shown.now THEN chart.follow /\ Outside(view, s.now) /\ ~grip.moved
                                    ELSE @ /\ s.end = shown.end]
MovedTo(t) == [shown EXCEPT !.now = t]

(***************************************************************************)
(* The wheel: nearer and farther about the pointer, or with Shift along.   *)
(***************************************************************************)
Zoomed(w, end, at, span) ==
  IF span >= end THEN All
  ELSE At(Within(at - ((at - w.from) * span) \div Span(w), 0, end - span), span)
Zoom == \E near \in BOOLEAN :
  LET w == Drawn(view, shown.end)
      span == IF near THEN (Span(w) + 1) \div 2 ELSE 2 * Span(w)
  IN \E at \in w.from .. w.to : Redrawn(Zoomed(w, shown.end, at, span))
  /\ UNCHANGED <<grip>>

Along(w, by, end) == At(Within(w.from + by, 0, end - Span(w)), Span(w))
PanWheel == \E by \in {-1, 1} :
  Redrawn(Along(Drawn(view, shown.end), by, shown.end)) /\ UNCHANGED <<grip>>

DoubleClick == Redrawn(All) /\ UNCHANGED <<grip>>

(***************************************************************************)
(* Dragging.                                                               *)
(***************************************************************************)
PointerDown ==
  LET w == Drawn(view, shown.end)
  IN \E at \in w.from .. w.to :
       ~grip.on /\ grip' = [on |-> TRUE, moved |-> FALSE, at |-> at, from |-> w.from, to |-> w.to]
  /\ UNCHANGED <<shown, view, chart>>

\* Along from where it was taken, unless it is all of the video or a section is chosen.
PointerMove == \E by \in {-1, 1} :
  /\ grip.on /\ grip' = [grip EXCEPT !.moved = TRUE]
  /\ IF chart.choosing \/ Span(grip) >= shown.end THEN UNCHANGED <<view, shown, chart>>
     ELSE Redrawn(Along([from |-> grip.from, to |-> grip.to], by, shown.end))

\* A click moves the video there; a drag that chose gives the section from grip.at.
PointerUp == \E at \in Drawn(view, shown.end).from .. Drawn(view, shown.end).to :
  /\ grip.on /\ grip' = NoGrip
  /\ Reported(IF grip.moved THEN shown ELSE MovedTo(Within(at, 0, shown.end)))
PointerCancel == grip.on /\ grip' = NoGrip /\ UNCHANGED <<shown, view, chart>>

(***************************************************************************)
(* Following the time.                                                     *)
(***************************************************************************)
Brought(w, t, end) == At(Within(t - Span(w) \div 4, 0, end - Span(w)), Span(w))

Plays == \E t \in 0 .. shown.end : Reported(MovedTo(t)) /\ UNCHANGED <<grip>>

Followed ==
  /\ chart.due /\ Redrawn(Brought(view, shown.now, shown.end))
  /\ UNCHANGED <<grip>>

ToggleFollow ==
  /\ chart' = [chart EXCEPT !.follow = ~@, !.due = FALSE]
  /\ view' = IF ~chart.follow /\ Outside(view, shown.now) THEN Brought(view, shown.now, shown.end) ELSE view
  /\ UNCHANGED <<shown, grip>>

(***************************************************************************)
(* What comes into the chart.                                              *)
(***************************************************************************)
Measured == shown.end < Longest /\ Reported([shown EXCEPT !.end = @ + 1]) /\ UNCHANGED <<grip>>
OtherVideo == \E n \in Lengths :
  Reported([video |-> 3 - shown.video, end |-> n, now |-> 0]) /\ UNCHANGED <<grip>>
Choose == ~grip.on /\ chart' = [chart EXCEPT !.choosing = ~@] /\ UNCHANGED <<shown, view, grip>>

\* A result is picked: the video plays from a little before it.
PickItem == \E t \in 0 .. shown.end :
  Reported(MovedTo(Within(t - Lead, 0, t))) /\ UNCHANGED <<grip>>

ChartNext ==
  \/ Zoom \/ PanWheel \/ DoubleClick \/ PointerDown \/ PointerMove \/ PointerUp \/ PointerCancel
  \/ Plays \/ Followed \/ ToggleFollow \/ Measured \/ OtherVideo \/ Choose
  \/ PickItem

ChartSpec == ChartInit /\ [][ChartNext]_chartVars

(***************************************************************************)
(* Properties.                                                             *)
(***************************************************************************)

\* While it follows, the time played is drawn once the frame has run, whatever was
\* zoomed, moved or left from another video before (the effect that follows).
FollowKeepsUp ==
  Followed => ~Outside(view', shown.now)

\* What is drawn is a part of the time line, at least as long as the least zoom, and
\* a result never starts before the video (view, onWheel, onMove, pick).
DrawnIsReal == view = All \/ (view.from >= 0 /\ view.to > view.from)

\* Does not hold:
\* "The section being chosen, in seconds inside the video" (VideoAnalysis.tsx:183): a
\* drag that chooses one starts within the video.
ChosenIsInside == grip.on /\ chart.choosing => grip.at <= shown.end

\* Does not hold:
\* "null = the whole video" (VideoAnalysis.tsx:202): moving along a chart that shows all
\* of the video leaves it showing all of it as the video grows.
WholeStaysWhole == [][PanWheel /\ Whole => view' = All]_chartVars
=============================================================================
