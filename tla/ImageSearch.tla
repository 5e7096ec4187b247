----------------------------- MODULE ImageSearch -----------------------------
(***************************************************************************)
(* The search for an image in the videos of a test (ImageSearch.tsx,       *)
(* imageSearchState.ts): which parts of the videos are searched, what is   *)
(* found of the scores that come back, and the panel with its crop window  *)
(* and slide show.                                                         *)
(***************************************************************************)
EXTENDS Integers, SequencesExt, FiniteSetsExt

LOCAL Larger(a, b) == IF a > b THEN a ELSE b
LOCAL Smaller(a, b) == IF a < b THEN a ELSE b

(***************************************************************************)
(* The parts around the steps that were picked. A step is                  *)
(* [index, video, at], of video 0 if its place is not known.               *)
(***************************************************************************)

Around(step, before, after, duration) ==
  [video |-> step.video, start |-> Larger(0, step.at - before), end |-> Smaller(duration[step.video], step.at + after), steps |-> {step.index}]
Usable(step, before, after, duration) ==
  step.video # 0 /\ LET w == Around(step, before, after, duration) IN w.start < w.end

Joins(prev, w) == prev.video = w.video /\ w.start <= prev.end
StepWindows(steps, before, after, duration) ==
  LET usable == SelectSeq(steps, LAMBDA s : Usable(s, before, after, duration))
      earlier(a, b) == a.video < b.video \/ (a.video = b.video /\ a.start < b.start)
      list == SortSeq([i \in DOMAIN usable |-> Around(usable[i], before, after, duration)], earlier)
      join(windows, w) == IF windows # <<>> /\ Joins(Last(windows), w)
                          THEN [windows EXCEPT ![Len(windows)].end = Larger(@, w.end), ![Len(windows)].steps = @ \cup w.steps]
                          ELSE Append(windows, w)
  IN [windows |-> FoldLeft(join, <<>>, list), outside |-> Len(steps) - Len(usable)]

(***************************************************************************)
(* What is found: runs of frames above the limit, short gaps included.     *)
(* Frames are counted from 0.                                              *)
(***************************************************************************)

Continues(segment, i, gap) == i - segment.last - 1 <= gap
FindSegments(scores, limit, gap) ==
  LET frame(list, i) ==
        IF scores[i] < limit THEN list
        ELSE IF list # <<>> /\ Continues(Last(list), i - 1, gap)
        THEN [list EXCEPT ![Len(list)].last = i - 1, ![Len(list)].peak = Larger(@, scores[i])]
        ELSE Append(list, [first |-> i - 1, last |-> i - 1, peak |-> scores[i]])
  IN FoldLeft(frame, <<>>, [i \in DOMAIN scores |-> i])

\* A segment belongs to the part in which it starts, and there to the nearest of its steps (stepOf).
Starts(segment, w) == segment.first >= w.start /\ segment.first < w.end
Listed(segment, w) == segment.video = w.video /\ Starts(segment, w)
StepOf(segment, windows, at) ==
  LET k == SelectInSeq(windows, LAMBDA w : Listed(segment, w))
      far(s) == IF at[s] > segment.first THEN at[s] - segment.first ELSE segment.first - at[s]
  IN IF k = 0 THEN 0 ELSE CHOOSE s \in windows[k].steps : \A o \in windows[k].steps : far(s) <= far(o)

(***************************************************************************)
(* The panel. The hits of the list grow while a search is under way.       *)
(***************************************************************************)

CONSTANTS Sizes,     \* of the frames of a video
          MaxHits    \* bound

NoFrame == 0
NoHit == 0

VARIABLES search,    \* [crop, size, picker, template, mode, custom]: sizes of the frames they were picked in
          hits,      \* the list, in the order it is shown
          show       \* [sliding, picked, arrived, playing]: the slide show and the video

searchVars == <<search, hits, show>>

SearchInit ==
  /\ search = [crop |-> "none", size |-> NoFrame, picker |-> FALSE, template |-> NoFrame, mode |-> "same", custom |-> NoFrame]
  /\ hits = <<>>
  /\ show = [sliding |-> FALSE, picked |-> NoHit, arrived |-> FALSE, playing |-> FALSE]

\* A frame is taken of the video, which stops; the show ends.
OpenCrop == \E kind \in {"template", "area"}, size \in Sizes :
  /\ search.crop = "none" /\ (kind = "area" /\ search.template = NoFrame => search.mode # "custom")
  /\ search' = [search EXCEPT !.crop = kind, !.size = size, !.mode = IF kind = "area" THEN "custom" ELSE @]
  /\ show' = [show EXCEPT !.sliding = FALSE, !.playing = FALSE]
  /\ UNCHANGED hits

\* The area is kept in the size of the frame the image was cropped from; a new image drops it.
NewTemplate == [search EXCEPT !.template = search.size, !.mode = "same", !.custom = NoFrame, !.crop = "none"]
Cropped == IF search.crop = "template" THEN NewTemplate ELSE [search EXCEPT !.custom = IF search.template = NoFrame THEN search.size ELSE search.template, !.mode = "custom", !.crop = "none"]
Crop ==
  /\ search.crop # "none" /\ search' = Cropped
  /\ UNCHANGED <<hits, show>>

Mode == \E mode \in {"same", "full", "custom"} :
  /\ search.crop = "none" /\ (mode = "custom" => search.custom # NoFrame) /\ mode # search.mode
  /\ search' = [search EXCEPT !.mode = mode]
  /\ UNCHANGED <<hits, show>>

Pick(hit, sliding) == show' = [show EXCEPT !.picked = hit, !.arrived = FALSE, !.sliding = sliding]
At(hit) == SelectInSeq(hits, LAMBDA h : h = hit)

Picker ==
  /\ search.crop = "none" /\ search' = [search EXCEPT !.picker = ~@]
  /\ UNCHANGED <<hits, show>>

CancelSearch ==
  \/ search.crop # "none" /\ search' = [search EXCEPT !.crop = "none"] /\ UNCHANGED <<hits, show>>
  \/ search.crop = "none" /\ search.picker /\ search' = [search EXCEPT !.picker = FALSE] /\ UNCHANGED <<hits, show>>
  \/ search.crop = "none" /\ ~search.picker /\ show.sliding /\ show' = [show EXCEPT !.sliding = FALSE] /\ UNCHANGED <<search, hits>>

\* Another search, or another limit: the list is another one. What comes of a search is put at its place.
Found(hit) == \E at \in 0..Len(hits) :
  /\ At(hit) = 0 /\ hits' = InsertAt(hits, at + 1, hit)
  /\ UNCHANGED <<search, show>>
ListChanges ==
  \/ \E hit \in 1..MaxHits : Found(hit)
  \/ \E i \in DOMAIN hits : hits' = RemoveAt(hits, i) /\ UNCHANGED <<search, show>>

Click == \E i \in DOMAIN hits :
  /\ search.crop = "none" /\ Pick(hits[i], show.sliding)
  /\ UNCHANGED <<search, hits>>

\* From the picked hit on; from the first one if it was the last.
StartAt == IF At(show.picked) \in 1..(Len(hits) - 1) THEN At(show.picked) ELSE 1
Slides ==
  /\ search.crop = "none"
  /\ IF show.sliding THEN show' = [show EXCEPT !.sliding = FALSE]
     ELSE hits # <<>> /\ show' = [show EXCEPT !.picked = hits[StartAt], !.arrived = FALSE, !.sliding = TRUE, !.playing = FALSE]
  /\ UNCHANGED <<search, hits>>

\* The frame of the hit is on the screen.
Arrives ==
  /\ show.picked # NoHit /\ ~show.arrived
  /\ show' = [show EXCEPT !.arrived = TRUE]
  /\ UNCHANGED <<search, hits>>

\* Its time is over, or it did not come for too long, or it is gone: the next one, and after the last
\* one the show ends.
Onward == At(show.picked) + 1
NextSlide ==
  /\ show.sliding
  /\ IF At(show.picked) \in {0, Len(hits)} THEN show' = [show EXCEPT !.sliding = FALSE] ELSE Pick(hits[Onward], TRUE)
  /\ UNCHANGED <<search, hits>>

Plays == [show EXCEPT !.sliding = FALSE]
Play ==
  /\ search.crop = "none"
  /\ show' = [Plays EXCEPT !.playing = ~@]
  /\ UNCHANGED <<search, hits>>

SearchNext ==
  \/ OpenCrop \/ Crop \/ Mode \/ Picker \/ CancelSearch \/ ListChanges
  \/ Click \/ Slides \/ Arrives \/ NextSlide \/ Play
SearchSpec == SearchInit /\ [][SearchNext]_searchVars

(***************************************************************************)
(* What is promised.                                                       *)
(***************************************************************************)

\* The parts that are searched do not touch, hold all of what is around the steps and nothing else,
\* and every step is in one of them or counted as outside (stepWindows).
WindowsAreExact(steps, before, after, duration) ==
  LET plan == StepWindows(steps, before, after, duration)
      windows == Range(plan.windows)
      usable == {s \in Range(steps) : Usable(s, before, after, duration)}
      around(s) == Around(s, before, after, duration)
  IN /\ \A v, w \in windows : v # w /\ v.video = w.video => v.end < w.start \/ w.end < v.start
     /\ \A s \in usable : \E w \in windows : /\ w.video = s.video /\ s.index \in w.steps
                                             /\ w.start <= around(s).start /\ around(s).end <= w.end
     /\ \A w \in windows : \A t \in w.start..(w.end - 1) :
          \E s \in usable : s.index \in w.steps /\ around(s).start <= t /\ t < around(s).end
     /\ plan.outside + Cardinality(usable) = Len(steps)

\* What is found around a step is listed under that step or a nearer one, and what is found around
\* none is listed under none (stepOf): the parts that were joined do not matter. (A step that is
\* nearer, but not looked around that far, may be passed over: ImageSearch.tsx:232.)
ListedUnderTheNearest(steps, before, after, duration) ==
  LET windows == StepWindows(steps, before, after, duration).windows
      at == [s \in {x.index : x \in Range(steps)} |-> (CHOOSE x \in Range(steps) : x.index = s).at]
      far(s, t) == IF at[s] > t THEN at[s] - t ELSE t - at[s]
      near(v, t) == {s \in Range(steps) : /\ Usable(s, before, after, duration) /\ s.video = v
                                         /\ Starts([first |-> t], Around(s, before, after, duration))}
  IN \A v \in DOMAIN duration : \A t \in 0..duration[v] :
       LET under == StepOf([video |-> v, first |-> t], windows, at)
       IN IF near(v, t) = {} THEN under = 0 ELSE under # 0 /\ \A s \in near(v, t) : far(under, t) <= far(s.index, t)

\* Hits that are at most the gap apart are one segment, all others are apart, and the segments hold
\* every hit (findSegments).
SegmentsAreRuns(scores, limit, gap) ==
  LET found == FindSegments(scores, limit, gap)
      hit == {i - 1 : i \in {k \in DOMAIN scores : scores[k] >= limit}}
      near(a, b) == a < b /\ b - a - 1 <= gap
  IN /\ \A h \in hit : Cardinality({k \in DOMAIN found : found[k].first <= h /\ h <= found[k].last}) = 1
     /\ \A a, b \in hit : near(a, b) => \E k \in DOMAIN found : found[k].first <= a /\ b <= found[k].last
     /\ \A k \in DOMAIN found :
          /\ {found[k].first, found[k].last} \subseteq hit
          /\ \A h \in hit : found[k].first <= h /\ h < found[k].last => \E g \in hit : near(h, g)
          /\ found[k].peak = Max({scores[h + 1] : h \in {x \in hit : found[k].first <= x /\ x <= found[k].last}})

\* The area that is searched lies in the frame of the image that is looked for, also after another
\* image was cropped from a video of another size.
AreaFits == search.custom # NoFrame /\ search.template # NoFrame => search.custom = search.template

\* While the slides are shown the video stands still.
SlidesStandStill == show.sliding => ~show.playing /\ search.crop = "none"
==============================================================================
