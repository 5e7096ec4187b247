--------------------------- MODULE VideoDetection ---------------------------
(***************************************************************************)
(* The detector of blinks, black screens, still pictures and screen        *)
(* changes (videoDetect.ts: Detector), and the page that feeds it with the *)
(* measurements of one video as they arrive (videoAnalysisState.ts).       *)
(*                                                                         *)
(* The agent measures a video section by section; an answer brings some    *)
(* frames, and the marks where a section ended.  The page judges at each   *)
(* mark, with thresholds taken from the frames before it, and judges all   *)
(* again when the floor of the brightness falls or a setting changes.      *)
(*                                                                         *)
(* A frame is its brightness y, the outlines e left in its fullest part,   *)
(* its difference d from the frame before, and whether it is coloured;     *)
(* frames are one tick apart, so a frame's time is its place.  Shares are  *)
(* percentages of whole numbers, rounded down.                             *)
(***************************************************************************)
EXTENDS Integers, SequencesExt

CONSTANTS Pictures,    \* the frames a video is made of: [y, e, d, coloured]
          MaxFrames, MaxBatch,   \* bounds: frames of the video, and of an answer
          Statics,     \* the values staticS is set to
          Hold, RefWin,          \* HOLD_S: the end of a piece, judged with the next one; REF_WIN_S
          FloorWin, FloorStep,   \* FLOOR_WIN_S, FLOOR_STEP
          OffLevel, OffFloor, OffOn,       \* offAbs, OFF_FLOOR_REL, offOnPct: how dark is off
          FullAbs, FullShare, EdgeShare, LitEdge,  \* OFF_GRID_ABS, OFF_GRID_REL, edgeOffPct, LIT_EDGE_S
          DropWin, RampWin, Ramp, Drop, DropShare, \* DROP_WIN_S, RAMP_WIN_S, rampS, dropAbs, dropPct
          BlinkMax, BlinkGroup,          \* blinkMaxS, blinkGroupS
          QuietMin, JumpMin, JumpTimes,  \* the 0.3 of feed, transitionMin, transitionX
          Margin, Merge, Settle  \* margin(), transitionMergeS, the 2 s of flushTransitions

ASSUME DetectBounds ==
  /\ {MaxFrames, MaxBatch, Hold, RefWin, FloorWin, FloorStep, OffLevel, OffFloor, OffOn, FullAbs, FullShare, EdgeShare, LitEdge,
      DropWin, RampWin, Ramp, Drop, DropShare, BlinkMax, BlinkGroup, QuietMin, JumpMin, JumpTimes, Margin, Merge, Settle} \subseteq Nat
  /\ Statics \subseteq Nat /\ Statics # {} /\ FloorStep > 0 /\ Margin <= Settle
  /\ \A p \in Pictures : {p.y, p.e, p.d} \subseteq Nat /\ p.coloured \in BOOLEAN

Unset == <<>>
DropTol == 1

VARIABLES frames,   \* framesRef: the frames that arrived
          marks,    \* marksRef: how many frames there were where each section ended
          fed,      \* fedRef: how many marks the detector has been fed up to
          floor,    \* the floor of the brightness, Unset before the first frame
          static,   \* staticRef
          done,     \* the agent has measured the video and all of it arrived
          closed,   \* the job was stopped or given up: no answer comes any more
          det       \* the detector

detectVars == <<frames, marks, fed, floor, static, done, closed, det>>

Smaller(a, b) == IF a < b THEN a ELSE b
Larger(a, b) == IF a < b THEN b ELSE a
Brightest(f, a, b) == Max({f[j].y : j \in a..b})

\* Statistics of the values v(j) of the frames a to b: the upper quartile, and twice the median.
Ascending(v, a, b) == SortSeq([j \in 1..b-a+1 |-> v[a+j-1]], <=)
Q75(v, a, b) == IF a > b THEN 0 ELSE Ascending(v, a, b)[(3 * (b - a + 1)) \div 4 + 1]
Median2(v, a, b) ==
  LET n == b - a + 1
      s == Ascending(v, a, b)
  IN IF a > b THEN 0 ELSE s[(n + 1) \div 2] + s[n \div 2 + 1]

\* The steps of a computation, one after the other, each as the set of its only result.
Only(S) == CHOOSE x \in S : TRUE

Segment(kind, a, b) == [kind |-> kind, start |-> a, end |-> b + 1]

Fresh == [pos |-> 1, segments |-> <<>>, transitions |-> {}, trLast |-> Unset, trPending |-> {},
          flSpans |-> {}, off |-> Unset, quiet |-> Unset, group |-> <<>>, flick |-> {}]

(***************************************************************************)
(* What is dark, still, or a large change, by the last frames judged.      *)
(***************************************************************************)

Level(f, fl, j) == Larger(0, f[j].y - fl)

Thresholds(f, fl, upto) ==
  LET lo == Larger(1, upto - RefWin)
      bright == Q75([j \in DOMAIN f |-> Level(f, fl, j)], lo, upto)
      edges == Q75([j \in DOMAIN f |-> f[j].e], lo, upto)
      noise2 == Median2([j \in DOMAIN f |-> f[j].d], Larger(lo, 2), upto)
  IN [floor |-> fl,
      off |-> Larger(OffLevel, Larger((OffFloor * fl) \div 100, (OffOn * bright) \div 100)),
      full |-> Larger(FullAbs, (FullShare * edges) \div 100),
      quiet |-> Larger(QuietMin, noise2),
      big |-> Larger(JumpMin, (JumpTimes * noise2) \div 2)]

\* Dark at the first look: as dark as a screen that is off, and without colour.
Dim(f, th, j) == Level(f, th.floor, j) <= th.off /\ ~f[j].coloured

(***************************************************************************)
(* The beginning of a dark run.                                            *)
(***************************************************************************)

Fall(f, j) == f[j-1].y - f[j].y

\* The first of the largest falls.
Steepest(f, near) == Min({j \in near : \A i \in near : Fall(f, i) <= Fall(f, j)})

\* A fall that counts with the largest one, and falls with at most one halt between two.
Falls(f, top, j) == Fall(f, j) >= Larger(Fall(f, top) \div 4, DropTol)
Chained(f, top, lo, hi) == \A j \in lo..hi-1 : Falls(f, top, j) \/ Falls(f, top, j+1)

\* ramp: the frames around the largest fall near a that fall too.
RampOf(f, k, a) ==
  LET near == Larger(k + 1, a - RampWin)..Smaller(Len(f), a + 2)
      end(top) == Larger(top, Smaller(Len(f), a + RampWin))
      first(top) == Min({j \in k+1..top : Falls(f, top, j) /\ Chained(f, top, j, top)})
      last(top) == Max({j \in top..end(top) : Falls(f, top, j) /\ Chained(f, top, top, j)})
  IN IF near = {} THEN Unset
     ELSE Only({IF Fall(f, top) < DropTol THEN Unset ELSE <<[from |-> first(top) - 1, to |-> last(top)]>> : top \in {Steepest(f, near)}})

\* No frame from k to a is much brighter than the three before it.
LitFrom(f, w, k, a) == \A j \in k+1..a-1 : Brightest(f, Larger(w, j - 3), j - 1) >= f[j].y - DropTol

\* onset: since when the screen was lit before a, where it began to go dark, and whether at once.
Onset(f, a) ==
  LET w == Larger(1, a - DropWin)
      need(base) == Larger((DropShare * base) \div 100, Drop)
      lit(k, base) == {q \in k..a-1 : base - f[q].y < need(base)}
      began(k, base, r) ==
        IF r # Unset /\ f[r[1].from].y - f[r[1].to].y >= need(base) /\ r[1].to - r[1].from <= Ramp
        THEN <<[k |-> k, i0 |-> r[1].from + 1, sudden |-> TRUE]>>
        ELSE <<[k |-> k, i0 |-> IF lit(k, base) = {} THEN k ELSE Max(lit(k, base)) + 1, sudden |-> FALSE]>>
  IN IF a = w THEN Unset
     ELSE Only({began(k, Brightest(f, k, a - 1), RampOf(f, k, a)) : k \in {Min({x \in w..a-1 : LitFrom(f, w, x, a)})}})

\* edgeRef: the outlines a dark picture may have, a share of those before it went dark (times 200).
EdgeRef(f, th, on) ==
  LET from == Larger(on[1].k, on[1].i0 - LitEdge)
  IN IF on = Unset \/ from >= on[1].i0 THEN 200 * th.full
     ELSE Larger(200 * th.full, EdgeShare * Median2([j \in DOMAIN f |-> f[j].e], from, on[1].i0 - 1))

(***************************************************************************)
(* Closing what is open.                                                   *)
(***************************************************************************)

GroupSegment(d) == Segment("flicker", d.group[1].i0, Last(d.group).i1)
CloseGroup(d) ==
  IF d.group = <<>> THEN d
  ELSE LET seg == GroupSegment(d)
       IN [d EXCEPT !.segments = Append(@, seg), !.flSpans = @ \cup {<<seg.start, seg.end>>}, !.group = <<>>]

\* A dark run longer than a blink is a black screen; a shorter one that came at once is a blink.
CloseOff(d, cut) ==
  LET run == d.off[1]
      sudden == run.on # Unset /\ run.on[1].sudden
      start == IF sudden THEN run.on[1].i0 ELSE run.a
      ended == [d EXCEPT !.off = Unset]
      grouped == IF d.group # <<>> /\ start - d.group[1].i0 > BlinkGroup THEN CloseGroup(ended) ELSE ended
  IN IF run.b - start + 1 > BlinkMax THEN [ended EXCEPT !.segments = Append(@, Segment("black_screen", start, run.b))]
     ELSE IF ~sudden \/ cut THEN ended
     ELSE [grouped EXCEPT !.group = Append(@, [i0 |-> start, i1 |-> run.b]), !.flick = @ \cup {<<start, run.b>>},
                          !.trLast = IF @ # Unset /\ @[1] >= start - Margin THEN Unset ELSE @]

\* A still run counts unless the screen was dark all the time.
CloseQuiet(d, s) ==
  LET q == d.quiet[1]
      ended == [d EXCEPT !.quiet = Unset]
  IN IF q.b - q.a + 1 >= s /\ q.dark < q.b - q.a + 1
     THEN [ended EXCEPT !.segments = Append(@, Segment("static", q.a, q.b))] ELSE ended

\* A candidate waits until it is known whether it belongs to a blink.  (Mutant: only for the
\* blinks that have ended already.)
Waits_ForGroup(d, now, final, x) == ~final /\ d.group # <<>> /\ x >= d.group[1].i0 - Margin
Waits(d, now, final, x) == ~final /\ (now - x < BlinkMax + Settle \/ (d.group # <<>> /\ x >= d.group[1].i0 - Margin))
FlushTransitions(d, now, final) ==
  LET blinks(x) == \E s \in d.flSpans : s[1] - Margin <= x /\ x <= s[2] + Margin
  IN [d EXCEPT !.trPending = {x \in @ : Waits(d, now, final, x)},
               !.transitions = @ \cup {x \in d.trPending : ~Waits(d, now, final, x) /\ ~blinks(x)}]

(***************************************************************************)
(* Frames.                                                                 *)
(***************************************************************************)

\* Off begins by the outlines there were before it; it lasts while they stay below that value, whatever the
\* thresholds of later pieces are.
Darkness(f, th, d, i) ==
  LET dim == Dim(f, th, i)
      lasts == d.off # Unset /\ dim /\ 200 * f[i].e <= d.off[1].edgeOff
      left == IF d.off # Unset THEN CloseOff(d, FALSE) ELSE d
      began(on, ref) ==
        IF dim /\ 200 * f[i].e <= ref THEN [left EXCEPT !.off = <<[a |-> i, b |-> i, on |-> on, edgeOff |-> ref]>>] ELSE left
  IN IF lasts THEN [d EXCEPT !.off[1].b = i] ELSE Only({began(on, EdgeRef(f, th, on)) : on \in {Onset(f, i)}})

Stillness(f, th, s, d, i) ==
  LET dark == IF d.off # Unset THEN 1 ELSE 0
      run == IF d.quiet = Unset THEN [a |-> i, b |-> i, dark |-> dark]
                                ELSE [d.quiet[1] EXCEPT !.b = i, !.dark = @ + dark]
  IN IF f[i].d < th.quiet THEN [d EXCEPT !.quiet = <<run>>]
     ELSE IF d.quiet # Unset THEN CloseQuiet(d, s) ELSE d

\* A large change is a screen change, except near a blink; those that follow closely are one.
Change(f, th, d, i) ==
  IF f[i].d <= th.big \/ \E s \in d.flick : s[1] - Margin <= i /\ i <= s[2] + 1 + Margin THEN d
  ELSE [d EXCEPT !.trPending = IF d.trLast = Unset \/ i - d.trLast[1] > Merge THEN @ \cup {i} ELSE @, !.trLast = <<i>>]

Judge(f, th, s, d, i) ==
  LET moved(x) == Only({Change(f, th, y, i) : y \in {Stillness(f, th, s, x, i)}})
  IN Only({IF i = 1 THEN x ELSE moved(x) : x \in {Darkness(f, th, d, i)}})

\* The frames up to one, judged one after the other.
Judged(f, th, s, d, upto) ==
  LET state[i \in d.pos-1..upto] == IF i < d.pos THEN d ELSE Only({Judge(f, th, s, x, i) : x \in {state[i-1]}})
  IN state[upto]

\* The group is closed once no blink that is still to end can belong to it.
GroupOver(d, now, final) == final \/ now - d.group[1].i0 > BlinkGroup + BlinkMax

\* The end of a piece: what is open is closed with the last one, and old blinks are let go.
Ended(d, s, final) ==
  LET dark(x) == IF final /\ x.off # Unset THEN CloseOff(x, TRUE) ELSE x
      still(x) == IF final /\ x.quiet # Unset THEN CloseQuiet(x, s) ELSE x
  IN Only({still(x) : x \in {dark(d)}})
Grouped(d, upto, final) == IF d.group # <<>> /\ GroupOver(d, upto, final) THEN CloseGroup(d) ELSE d
LetGo(d, upto) ==
  LET keep == IF d.off # Unset THEN d.off[1].a ELSE upto + 1
  IN [d EXCEPT !.flick = {x \in @ : x[2] >= Smaller(keep, upto + 1) - 2}, !.pos = upto + 1]
PieceOver(d, s, upto, final) ==
  Only({LetGo(x, upto) : x \in {FlushTransitions(y, upto, final) : y \in {Grouped(Ended(d, s, final), upto, final)}}})

JudgedTo(f, final) == IF final THEN Len(f) ELSE Len(f) - Hold - 1

\* feed: judges the frames that are new, except those of the last Hold ticks of a piece.
Feed(f, fl, s, d, final) ==
  LET upto == JudgedTo(f, final)
  IN IF Len(f) < 3 THEN IF final THEN [d EXCEPT !.pos = Len(f) + 1] ELSE d
     ELSE IF upto < d.pos THEN d
     ELSE Only({PieceOver(x, s, upto, final) : x \in {Judged(f, th, s, d, upto) : th \in {Thresholds(f, fl[1], upto)}}})

(***************************************************************************)
(* The page.                                                               *)
(***************************************************************************)

Prefix(f, n) == SubSeq(f, 1, n)

\* feedVideo: a detector that has been fed up to k marks is fed at each of the others; the last one closes a
\* video that is over.
FedFrom(f, fl, s, ms, closing, k, d) ==
  LET fedTo[i \in k..Len(ms)] ==
        IF i = k THEN d ELSE Only({Feed(Prefix(f, ms[i]), fl, s, x, i = closing) : x \in {fedTo[i-1]}})
  IN fedTo[Len(ms)]
FedMarks(f, fl, s, ms, over, k, d) == FedFrom(f, fl, s, ms, IF over THEN Len(ms) ELSE 0, k, d)
FeedVideo(f, fl, s, ms, over, close, k, d) ==
  Only({IF over \/ close THEN Feed(f, fl, s, x, TRUE) ELSE x : x \in {FedMarks(f, fl, s, ms, over, k, d)}})

\* scanFloor: the least brightness that lasted for FloorWin, of a shorter video the least of all.
Lowest(f) ==
  IF Len(f) > FloorWin THEN Min({Brightest(f, i - FloorWin, i) : i \in FloorWin+1..Len(f)})
                       ELSE Min({f[i].y : i \in DOMAIN f})

\* updateFloor: a floor that fell makes the page judge from the first mark again.  (Mutant: a
\* new detector goes on at the next mark.)
FloorFell(f, fl) == f # <<>> /\ (fl = Unset \/ Lowest(f) <= fl[1] - FloorStep)
FloorOf(f, fl) == IF FloorFell(f, fl) THEN <<Lowest(f)>> ELSE fl
FedBefore_Kept(f, fl, k) == k
FedBefore(f, fl, k) == IF FloorFell(f, fl) THEN 0 ELSE k
Before(f, fl, d) == IF FloorFell(f, fl) THEN Fresh ELSE d

\* publish: the floor, then the judgement.
Publish(f, ms, over, close) ==
  /\ floor' = FloorOf(f, floor)
  /\ fed' = Len(ms)
  /\ det' = FeedVideo(f, FloorOf(f, floor), static, ms, over, close, FedBefore(f, floor, fed), Before(f, floor, det))

\* An answer: some frames and marks.  The agent adds the frames of a section and its mark together, and
\* says that a video is over with the last frames it has.
Answered ==
  /\ ~closed /\ ~done
  /\ \E n \in 0..MaxBatch, over \in BOOLEAN : \E k \in 0..n :
       \E batch \in [1..n -> Pictures], ends \in [1..k -> 1..n] :
         /\ Len(frames) + n <= MaxFrames
         /\ \A i \in 2..k : ends[i-1] < ends[i]
         /\ IF over THEN n > 0 => k > 0 /\ ends[k] = n ELSE n > 0
         /\ over /\ n = 0 => frames = <<>> \/ (marks # <<>> /\ Last(marks) = Len(frames))
         /\ frames' = frames \o batch
         /\ marks' = marks \o [i \in 1..k |-> Len(frames) + ends[i]]
         /\ done' = over
         /\ Publish(frames', marks', over, FALSE)
  /\ UNCHANGED <<static, closed>>

\* The job was stopped, or its answers were given up: what arrived is judged to its end.  Of a video that is
\* over all frames are judged, and feed returns at once.
Stopped ==
  /\ ~closed /\ ~done
  /\ closed' = TRUE
  /\ Publish(frames, marks, done, TRUE)
  /\ UNCHANGED <<frames, marks, done, static>>

\* rejudge: a setting was changed or the project's settings came, and all that arrived is judged again.
Rejudged ==
  /\ static' \in Statics
  /\ frames # <<>>
  /\ fed' = Len(marks)
  /\ det' = FeedVideo(frames, floor, static', marks, done, closed, 0, Fresh)
  /\ UNCHANGED <<frames, marks, floor, done, closed>>

Init ==
  /\ frames = <<>> /\ marks = <<>> /\ fed = 0 /\ floor = Unset /\ det = Fresh
  /\ static \in Statics /\ done = FALSE /\ closed = FALSE

Next == Answered \/ Stopped \/ Rejudged

DetectSpec == Init /\ [][Next]_detectVars

(***************************************************************************)
(* Properties.                                                             *)
(***************************************************************************)

\* What a page shows that judges all that arrived anew; at the last mark the end of the video may be known.
Replayed(over) == FeedVideo(frames, floor, static, marks, over, closed \/ done, 0, Fresh)

\* What is shown is what a new detector finds that is fed at each mark, with the floor and the setting of
\* now: it does not depend on how the measurements were cut into answers, nor on when the floor fell or a
\* setting changed (videoAnalysisState.ts:281, judged at the same marks to give the same result).
JudgedAtMarks == fed = Len(marks) /\ det \in {Replayed(over) : over \in {FALSE, done}}

\* No screen change is reported within the margin of a blink: one that is found before the blink has ended
\* is kept until it is known (videoDetect.ts: flushTransitions).
NoChangeInBlink ==
  \A i \in DOMAIN det.segments : det.segments[i].kind = "flicker" =>
    \A x \in det.transitions : x < det.segments[i].start - Margin \/ x > det.segments[i].end + Margin

\* Does not hold:
\* The comment of rejudge (videoAnalysisState.ts), judging anew at the same marks: when the last section
\* has no frames or fails, the last mark is judged before the video is known to be over.
RejudgedIsSame == done => det = Replayed(TRUE)

\* Does not hold:
\* The result depends on the marks, as the comment of marksRef says (videoAnalysisState.ts:282): the
\* thresholds of a piece are those of the frames before its end.
MarksDoNotMatter ==
  done => ToSet(det.segments) = ToSet(Feed(frames, floor, static, Fresh, TRUE).segments)
=============================================================================
