-------------------------- MODULE VideoExclusions --------------------------
(***************************************************************************)
(* What an analysis of a video leaves out (videoExclude.ts): the steps     *)
(* picked in the Result table, in one cycle or in every one, become spans  *)
(* of time; the spans are merged and cut out of what was detected.         *)
(*                                                                         *)
(* A row of the Result is [cycle, name, time, dur]; dur is None where the  *)
(* Result does not tell.  Rows are in the order of their times.            *)
(***************************************************************************)
EXTENDS Integers, FiniteSets, SequencesExt

CONSTANTS Forever,    \* Infinity: the time of an end that was not recorded
          MinStill, MinBlack   \* the shortest still picture and black screen (staticS, MIN_BLACK_S)

ASSUME ExcludeBounds == Forever \in Nat /\ MinStill \in Nat \ {0} /\ MinBlack \in Nat \ {0}

None == <<>>

\* The later and the earlier of two times.
Later(a, b) == IF a < b THEN b ELSE a
Earlier(a, b) == IF a < b THEN a ELSE b

\* stepKeys: the same step of each cycle has the same key.
StepKey(rows, i) == <<rows[i].name, Cardinality({j \in 1..i-1 : rows[j].cycle = rows[i].cycle /\ rows[j].name = rows[i].name})>>

StepEnd(rows, i) ==
  IF rows[i].dur # None THEN rows[i].time + rows[i].dur[1]
  ELSE IF i < Len(rows) THEN rows[i+1].time ELSE Forever

(***************************************************************************)
(* spansOf: the spans one exclusion leaves out.                            *)
(***************************************************************************)

Places(rows, ex, end) == {i \in DOMAIN rows : StepKey(rows, i) = StepKey(rows, IF end THEN ex.last ELSE ex.first)}

\* In each cycle from the start step to the first end step from there on.
Closed(rows, ex) ==
  {<<rows[i].time, StepEnd(rows, j)>> : <<i, j>> \in
     {p \in Places(rows, ex, FALSE) \X Places(rows, ex, TRUE) : p[1] <= p[2] /\ rows[p[1]].cycle = rows[p[2]].cycle}}

\* A bug: cycles that were cut short are left as they are.
NotCutShort(rows, ex) == {}

\* A cycle that has the start step and stops before the end step: to the first row after it.
CutShort(rows, ex) ==
  LET left == {i \in Places(rows, ex, FALSE) : ~\E j \in Places(rows, ex, TRUE) : i <= j /\ rows[i].cycle = rows[j].cycle}
      lastOf(c) == CHOOSE i \in DOMAIN rows : rows[i].cycle = c /\ \A j \in i+1..Len(rows) : rows[j].cycle # c
      next(c) == IF lastOf(c) < Len(rows) THEN rows[lastOf(c) + 1].time ELSE Forever
  IN {<<rows[i].time, next(rows[i].cycle)>> : i \in left}

SpansOf(rows, ex) ==
  IF ex.last < ex.first THEN {}
  ELSE IF ~ex.everyCycle THEN {<<rows[ex.first].time, StepEnd(rows, ex.last)>>}
  ELSE Closed(rows, ex) \cup CutShort(rows, ex)

(***************************************************************************)
(* mergeSpans, applyExclusions.                                            *)
(***************************************************************************)

\* mergeSpans: spans that overlap or touch become one.
MergeSpans(spans) ==
  LET sorted == SetToSortSeq(spans, LAMBDA x, y : x[1] < y[1] \/ (x[1] = y[1] /\ x[2] < y[2]))
      merge(out, s) == IF out # <<>> /\ s[1] <= Last(out)[2]
                       THEN [out EXCEPT ![Len(out)] = <<@[1], Later(@[2], s[2])>>]
                       ELSE Append(out, s)
  IN FoldLeft(merge, <<>>, sorted)

\* What is left of a segment: from is where the part that is not yet cut begins.
PartsOf(seg, spans) ==
  LET cut(acc, s) ==
        IF s[2] <= acc.from \/ s[1] >= seg.end \/ acc.from >= seg.end THEN acc
        ELSE [parts |-> IF s[1] > acc.from THEN acc.parts \cup {<<acc.from, s[1]>>} ELSE acc.parts,
              from |-> Later(acc.from, s[2])]
      done == FoldLeft(cut, [parts |-> {}, from |-> seg.start], spans)
  IN IF done.from < seg.end THEN done.parts \cup {<<done.from, seg.end>>} ELSE done.parts

Shortest(seg) == IF seg.kind = "static" THEN MinStill ELSE MinBlack

\* A segment is kept whole, in parts that are long enough, or not at all; a blink that is
\* touched goes altogether.
Kept(seg, spans) ==
  IF ~\E i \in DOMAIN spans : spans[i][1] < seg.end /\ seg.start < spans[i][2] THEN {seg}
  ELSE IF seg.kind = "flicker" THEN {}
  ELSE {[seg EXCEPT !.start = p[1], !.end = p[2]] : p \in {q \in PartsOf(seg, spans) : q[2] - q[1] >= Shortest(seg)}}

\* Whether a screen change is left out: the ends of a span belong to it.
ChangeLeftOut(t, spans) == \E i \in DOMAIN spans : spans[i][1] <= t /\ t <= spans[i][2]

Applied(result, spans) ==
  [segments |-> UNION {Kept(seg, spans) : seg \in result.segments},
   changes |-> {t \in result.changes : ~ChangeLeftOut(t, spans)},
   removed |-> Cardinality({seg \in result.segments : Kept(seg, spans) = {}})
               + Cardinality({t \in result.changes : ChangeLeftOut(t, spans)})]

(***************************************************************************)
(* What is promised, instant by instant: an instant is a tick of time.     *)
(***************************************************************************)

Ticks(spans) == UNION {s[1]..s[2]-1 : s \in spans}
Runs(T) == {<<a, b>> \in T \X {t + 1 : t \in T} : a < b /\ a..b-1 \subseteq T /\ a-1 \notin T /\ b \notin T}

\* What remains of a segment are the longest stretches outside of all the spans, those that
\* are too short left out, whatever the spans overlap.
RemainsOutside(seg, spans) ==
  LET outside == (seg.start..seg.end-1) \ Ticks(spans)
      left == {<<k.start, k.end>> : k \in Kept(seg, MergeSpans(spans))}
  IN IF outside = seg.start..seg.end-1 THEN left = {<<seg.start, seg.end>>}
     ELSE IF seg.kind = "flicker" THEN left = {}
     ELSE left = {r \in Runs(outside) : r[2] - r[1] >= Shortest(seg)}

\* An exclusion of steps of one cycle leaves out at least as much when it is made for every cycle,
\* and never a step before the start step of its cycle.
EveryCycleCovers(rows, first, last) ==
  LET one == Ticks(SpansOf(rows, [first |-> first, last |-> last, everyCycle |-> FALSE]))
      all == Ticks(SpansOf(rows, [first |-> first, last |-> last, everyCycle |-> TRUE]))
      starts == {i \in DOMAIN rows : StepKey(rows, i) = StepKey(rows, first)}
  IN rows[first].cycle = rows[last].cycle =>
       /\ one \subseteq all
       /\ \A i \in DOMAIN rows : rows[i].time \in all =>
            \E j \in starts : j <= i /\ \A k \in j..i : rows[k].time \in all

\* A cycle that stopped after the start step is left out to its end, so nothing is judged in the
\* part where the test had been cut off.
NoCutCycleJudged(rows, first, last) ==
  LET all == Ticks(SpansOf(rows, [first |-> first, last |-> last, everyCycle |-> TRUE]))
  IN first <= last => \A i \in DOMAIN rows : StepKey(rows, i) = StepKey(rows, first) =>
       \/ \E j \in i..Len(rows) : rows[j].cycle = rows[i].cycle /\ StepKey(rows, j) = StepKey(rows, last)
       \/ \A j \in i..Len(rows) : rows[j].cycle = rows[i].cycle => rows[j].time \in all

(***************************************************************************)
(* Memos on a piece of the video of one cycle (videoMemo.ts): what was     *)
(* seen there is normal, so the same detection at the same place of every  *)
(* cycle is left out.                                                      *)
(*                                                                         *)
(* Rows are as above, all in one video, at their times.  A memo is         *)
(* [start, from, end, to, everyCycle]: rows, and how far after             *)
(* them it begins and ends.  A brightness is None where there is no frame. *)
(***************************************************************************)
CONSTANTS Reach,         \* SHIFT_S in bins
          Penalty,       \* SHIFT_PENALTY of a bin
          MemoTol,       \* tolS
          MemoLength,    \* durAbsS, and the share durPct is 0
          ChangeTol      \* TRANSITION_TOL_S

ASSUME MemoBounds == {Reach, Penalty, MemoTol, MemoLength, ChangeTol} \subseteq Nat

Size(x) == IF x < 0 THEN -x ELSE x
Total(f, S) == FoldSet(LAMBDA i, sum : f[i] + sum, 0, S)

(***************************************************************************)
(* bestShift: where the brightness of the other cycle looks most like the  *)
(* one of the memo; each is compared around its own mean.                  *)
(***************************************************************************)

Seen(ya, yb, s) == {i \in DOMAIN ya : ya[i] # None /\ i + s \in DOMAIN yb /\ yb[i+s] # None}

\* The cost of a shift as a fraction <<numerator, denominator>>.
CostOf(ya, yb, s) ==
  LET own == {i \in DOMAIN ya : ya[i] # None}
      na == Cardinality(own)
      sa == Total([i \in own |-> ya[i][1]], own)
      both == Seen(ya, yb, s)
      n == Cardinality(both)
      sb == Total([i \in both |-> yb[i+s][1]], both)
      off == Total([i \in both |-> Size(n * (na * ya[i][1] - sa) - na * (n * yb[i+s][1] - sb))], both)
  IN <<off + Penalty * Size(s) * na * n * n, na * n * n>>

Cheaper(a, b) == a[1] * b[2] < b[1] * a[2]

\* Fewer than half of the bins tell nothing.
Comparable(ya, yb) == {s \in -Reach..Reach : 2 * Cardinality(Seen(ya, yb, s)) >= Len(ya)}

\* The first of the cheapest, none moved if there is nothing to compare.
BestShift(ya, yb) ==
  LET cost == [s \in Comparable(ya, yb) |-> CostOf(ya, yb, s)]
      cheapest == {s \in DOMAIN cost : \A t \in DOMAIN cost : ~Cheaper(cost[t], cost[s])}
  IN IF Len(ya) < 3 \/ 2 * Cardinality({i \in DOMAIN ya : ya[i] # None}) < Len(ya) \/ cheapest = {} THEN 0
     ELSE CHOOSE s \in cheapest : \A t \in cheapest : s <= t

(***************************************************************************)
(* placeMemos: where a memo lies in each cycle; shift is what bestShift    *)
(* says of a cycle.                                                        *)
(***************************************************************************)

PlaceOf(rows, memo, i, j, move) ==
  LET from == rows[i].time + memo.from
      to == rows[j].time + memo.to
  IN IF to > from THEN {[cycle |-> rows[i].cycle, start |-> from + move, end |-> to + move]} ELSE {}

\* In another cycle: the first row of the start step, and the first of the end step from there on.
OtherEnds(rows, memo, c) ==
  LET starts == {i \in DOMAIN rows : rows[i].cycle = c /\ StepKey(rows, i) = StepKey(rows, memo.start)}
      first == CHOOSE i \in starts : \A j \in starts : i <= j
      ends == {j \in DOMAIN rows : rows[j].cycle = c /\ first <= j /\ StepKey(rows, j) = StepKey(rows, memo.end)}
  IN IF starts = {} \/ ends = {} THEN {} ELSE {<<first, CHOOSE j \in ends : \A k \in ends : j <= k>>}

SourcePlace(rows, memo) == IF memo.end < memo.start THEN {} ELSE PlaceOf(rows, memo, memo.start, memo.end, 0)

PlaceMemo(rows, memo, shift) ==
  IF SourcePlace(rows, memo) = {} \/ ~memo.everyCycle THEN SourcePlace(rows, memo)
  ELSE SourcePlace(rows, memo) \cup
       UNION {UNION {PlaceOf(rows, memo, p[1], p[2], shift[c]) : p \in OtherEnds(rows, memo, c)} :
                c \in {rows[i].cycle : i \in DOMAIN rows} \ {rows[memo.start].cycle}}

(***************************************************************************)
(* applyMemos: a detection with its like in the memo is cut by it.         *)
(***************************************************************************)

\* The part of a segment inside of a place, as kind, offset and length.
Rel(seg, place) ==
  LET a == Later(seg.start, place.start)
      b == Earlier(seg.end, place.end)
  IN IF b > a THEN {[kind |-> seg.kind, at |-> a - place.start, for |-> b - a]} ELSE {}

Alike(g, x) ==
  /\ g.kind = x.kind /\ Size(g.at - x.at) <= MemoTol
  /\ x.kind = "static" \/ Size(g.for - x.for) <= MemoLength

Cuts(seg, places, sources) ==
  {<<p.start, p.end>> : p \in {q \in places : \E x \in Rel(seg, q), g \in sources : Alike(g, x)}}

AfterMemo(seg, places, sources) ==
  LET cuts == Cuts(seg, places, sources)
  IN IF cuts = {} THEN {seg}
     ELSE IF seg.kind = "flicker" THEN {}
     ELSE {[seg EXCEPT !.start = p[1], !.end = p[2]] :
             p \in {q \in PartsOf(seg, MergeSpans(cuts)) : q[2] - q[1] >= Shortest(seg)}}

ChangeIsKnown(t, places, known) ==
  \E p \in places : p.start <= t /\ t <= p.end /\ \E k \in known : Size(k - (t - p.start)) <= ChangeTol

ApplyMemo(result, places, source) ==
  LET segs == UNION {Rel(s, source) : s \in result.segments}
      known == {t - source.start : t \in {x \in result.changes : source.start <= x /\ x <= source.end}}
  IN [segments |-> UNION {AfterMemo(s, places, segs) : s \in result.segments},
      changes |-> {t \in result.changes : ~ChangeIsKnown(t, places, known)}]

(***************************************************************************)
(* What is promised.                                                       *)
(***************************************************************************)

\* A cycle that does the same as the memo's, some bins later or earlier, is met where it does:
\* no part of the difference is left, unless staying nearer costs less than the difference.
ShiftIsFound(ya, by) ==
  LET yb == [i \in (1 - Reach)..(Len(ya) + Reach) |-> IF i - by \in DOMAIN ya THEN ya[i-by] ELSE ya[IF i - by < 1 THEN 1 ELSE Len(ya)]]
      s == BestShift(ya, yb)
  IN by \in -Reach..Reach /\ (\A i \in DOMAIN ya : ya[i] # None) /\ Len(ya) >= 3 =>
       /\ s = by \/ Penalty * Size(s) * CostOf(ya, yb, s)[2] <= CostOf(ya, yb, s)[1]
       /\ Size(s) <= Size(by)
       /\ (\A i, j \in DOMAIN ya : ya[i] = ya[j]) => s = 0

\* A memo lies at most once in each cycle, in its own as it was made, and never starts before
\* the start step of the cycle has begun by more than the shift.
OnePlaceEach(rows, memo, shift) ==
  LET places == PlaceMemo(rows, memo, shift)
  IN /\ \A p, q \in places : p.cycle = q.cycle => p = q
     /\ \A p \in places : \E i \in DOMAIN rows :
          /\ rows[i].cycle = p.cycle /\ StepKey(rows, i) = StepKey(rows, memo.start)
          /\ p.start = rows[i].time + memo.from + (IF p.cycle = rows[memo.start].cycle THEN 0 ELSE shift[p.cycle])

\* In the memo's own cycle nothing is left of what it covers; what no place touches is kept as it is.
NothingLeftInside(result, places, source) ==
  LET done == ApplyMemo(result, places, source)
  IN source \in places =>
       /\ \A s \in done.segments : Rel(s, source) = {}
       /\ \A t \in done.changes : ~(source.start <= t /\ t <= source.end)
       /\ \A s \in result.segments : (\A p \in places : Rel(s, p) = {}) => s \in done.segments

\* A detection whose like is not in the memo's cycle is still reported.
NewIsReported(result, places, source) ==
  LET known == UNION {Rel(s, source) : s \in result.segments}
  IN \A s \in result.segments : (\A p \in places : \A x \in Rel(s, p) :
       \A g \in known : g.kind # x.kind \/ Size(g.at - x.at) > MemoTol) => s \in ApplyMemo(result, places, source).segments
=============================================================================
