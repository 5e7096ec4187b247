-------------------------- MODULE CycleComparison --------------------------
(***************************************************************************)
(* The comparison of a cycle of a test with the reference cycle            *)
(* (videoCycle.ts: compareCycles): what went dark, what reacted late or    *)
(* not at all, what stood still, and what looked different.                *)
(*                                                                         *)
(* Two cycles of the same steps are one video: position is the time of the *)
(* Result.  A span is a step of a cycle with its key.  Events are what the *)
(* detector found, after the exclusions: dark and still ones are segments  *)
(* [start, end], changes are times.                                        *)
(***************************************************************************)
EXTENDS VideoExclusions

CONSTANTS EventTol, OffAbs, OffShare,  \* eventTolS, offDurAbsS, offDurPct
          Early, Late, Gap, Delay,     \* earlyS, lateS, GAP_S, delayS
          OffMargin,                   \* OFF_MARGIN_S
          Shift, MinBins, Edge, Diff   \* SHIFT_BINS, screenMinS, EDGE_S in bins, the brightness that counts

ASSUME CompareBounds ==
  {EventTol, OffAbs, OffShare, Early, Late, Gap, Delay, OffMargin, Shift, MinBins, Edge, Diff} \subseteq Nat

\* The distance of two times.
Distance(a, b) == IF a < b THEN b - a ELSE a - b
InOrder(S) == SetToSortSeq(S, <)

(***************************************************************************)
(* Steps: in is the comparison's input [ref, own, offs, changes, stills,   *)
(* excluded, end]: the spans of the reference cycle and of the compared    *)
(* one, the detections, and how far the video has been measured.           *)
(***************************************************************************)

\* find: the last step that has begun; a late reaction still belongs to it.
StepsAt(spans, t) == {s \in spans : s.start <= t /\ t <= s.end + Late /\ \A r \in spans : r.start <= t => r.start <= s.start}
StepAt(in, t) == StepsAt(in.ref \cup in.own, t)
OfCycle(in, spans, t) == \E s \in spans : s \in StepAt(in, t)

SameStep(spans, s) == CHOOSE r \in spans : r.key = s.key
HasStep(spans, s) == \E r \in spans : r.key = s.key

\* toRef: the time of the reference cycle that a time of the compared one stands for.
ToRef(in, t) == LET s == CHOOSE x \in StepAt(in, t) : TRUE IN SameStep(in.ref, s).start + t - s.start

\* fromRef: the last reference step that has begun; its place in the compared cycle.
RefStep(in, w) == {r \in in.ref : r.start <= w /\ \A x \in in.ref : x.start <= w => x.start <= r.start}
FromRef(in, w) == LET r == CHOOSE x \in RefStep(in, w) : TRUE IN SameStep(in.own, r).start + w - r.start

Inside(in, t) == \E s \in in.excluded : s[1] <= t /\ t < s[2]

\* The events of the compared cycle that have a place in the reference, neither left out.
Mapped(in, times) ==
  {t \in times : /\ OfCycle(in, in.own, t) /\ ~Inside(in, t)
                 /\ \A s \in StepAt(in, t) : HasStep(in.ref, s)
                 /\ ~Inside(in, ToRef(in, t))}

\* The events of the reference that can be seen in the compared cycle.
Visible(in, times) ==
  {w \in times : /\ OfCycle(in, in.ref, w)
                 /\ \E r \in RefStep(in, w) : HasStep(in.own, r)
                 /\ ~Inside(in, FromRef(in, w)) /\ FromRef(in, w) <= in.end}

(***************************************************************************)
(* 1. Dark times: each one takes the nearest of the reference that is free.*)
(***************************************************************************)

Starts(segs) == {s.start : s \in segs}
Length(segs, t) == LET s == CHOOSE x \in segs : x.start = t IN s.end - s.start

RefOffs(in) == {w \in Starts(in.offs) : OfCycle(in, in.ref, w)}

\* A bug: any dark time of the reference that is near enough, taken or not.
TakeAny(in, used, t) == {w \in RefOffs(in) : Distance(w, ToRef(in, t)) <= EventTol}

Free(in, used, t) == {w \in RefOffs(in) : w \notin used /\ Distance(w, ToRef(in, t)) <= EventTol}

PairsOfOffs(in) ==
  LET take(acc, t) ==
        LET used == {p[1] : p \in acc}
            near == Free(in, used, t)
            best == {w \in near : \A v \in near : Distance(w, ToRef(in, t)) <= Distance(v, ToRef(in, t))}
        IN IF near = {} THEN acc ELSE acc \cup {<<CHOOSE w \in best : \A v \in best : v <= w, t>>}
  IN FoldLeft(take, {}, InOrder(Mapped(in, Starts(in.offs))))

LengthChanged(in, p) ==
  LET own == Length(in.offs, p[2])
      ref == Length(in.offs, p[1])
  IN Distance(own, ref) > Later(OffAbs, (OffShare * ref) \div 100)

OffAnomalies(in) ==
  LET pairs == PairsOfOffs(in)
      used == {p[1] : p \in pairs}
      found == {p[2] : p \in pairs}
  IN {<<"off-extra", t>> : t \in Mapped(in, Starts(in.offs)) \ found}
     \cup {<<"off-length", p[2]>> : p \in {q \in pairs : LengthChanged(in, q)}}
     \cup {<<"off-missing", w>> : w \in Visible(in, RefOffs(in) \ used)}

(***************************************************************************)
(* 2. Reactions: the screen changes, in order.  align pairs them so that   *)
(* the sum of the lags, with Gap for each that is left alone, is least.    *)
(***************************************************************************)

\* The beginning and the end of a dark time are changes too: they belong to it.
NearOff(in, t) == \E o \in in.offs : o.start - OffMargin <= t /\ t <= o.end + OffMargin
Reactions(in) == {t \in in.changes : ~NearOff(in, t)}

CanPair(g, c) == c - g >= -Early /\ c - g <= Late

\* The table of align: the least cost of the first i and j changes.
Costs(g, c) ==
  LET cost[p \in (0..Len(g)) \X (0..Len(c))] ==
        LET i == p[1]
            j == p[2]
        IN IF i = 0 THEN j * Gap ELSE IF j = 0 THEN i * Gap
           ELSE LET alone == Earlier(cost[<<i-1, j>>], cost[<<i, j-1>>]) + Gap
                IN IF CanPair(g[i], c[j]) THEN Earlier(alone, cost[<<i-1, j-1>>] + Distance(g[i], c[j])) ELSE alone
  IN cost

\* The way back through the table: alone rather than paired where the costs are the same.
Align(g, c) ==
  LET cost == Costs(g, c)
      pairs[p \in (0..Len(g)) \X (0..Len(c))] ==
        LET i == p[1]
            j == p[2]
        IN IF i = 0 \/ j = 0 THEN {}
           ELSE IF cost[p] = cost[<<i-1, j>>] + Gap THEN pairs[<<i-1, j>>]
           ELSE IF cost[p] = cost[<<i, j-1>>] + Gap THEN pairs[<<i, j-1>>]
           ELSE pairs[<<i-1, j-1>>] \cup {p}
  IN pairs[<<Len(g), Len(c)>>]

ReactionAnomalies(in) ==
  LET gs == InOrder(Visible(in, Reactions(in)))
      cs == InOrder(Mapped(in, Reactions(in)))
      walls == [j \in DOMAIN cs |-> ToRef(in, cs[j])]
      pairs == Align(gs, walls)
  IN {<<"delay", cs[p[2]]>> : p \in {q \in pairs : walls[q[2]] - gs[q[1]] > Delay}}
     \cup {<<"no-response", gs[i]>> : i \in {k \in DOMAIN gs : ~(\E p \in pairs : p[1] = k) /\ ~NearOff(in, FromRef(in, gs[k]))}}

(***************************************************************************)
(* 3. Still times that the reference was moving in for more than half.     *)
(***************************************************************************)

StillAnomalies(in) ==
  LET refs == {s \in in.stills : OfCycle(in, in.ref, s.start)}
      wall(s) == ToRef(in, s.start)
      common(s) == Cardinality({t \in wall(s)..wall(s) + (s.end - s.start) - 1 : \E r \in refs : r.start <= t /\ t < r.end})
  IN {<<"frozen", s.start>> : s \in {x \in in.stills : x.start \in Mapped(in, Starts(in.stills))
                                                        /\ 2 * common(x) < x.end - x.start}}

(***************************************************************************)
(* 4. The picture, bin by bin: a and b are the brightness of the bins of a *)
(* step in the two cycles, None where no frame was measured.               *)
(***************************************************************************)

\* The reference's bins around k: the picture may be up to Shift bins early or late.
Around(b, k) == {j \in DOMAIN b : Distance(j, k) <= Shift /\ b[j] # None}
Different(a, b, k) ==
  /\ a[k] # None /\ Around(b, k) # {}
  /\ \A j \in Around(b, k) : Distance(a[k][1], b[j][1]) >= Diff

\* Each stretch of different bins that is long enough, the step's ends left out.
ScreenAnomalies(a, b) ==
  LET bins == Earlier(Len(a), Len(b))
      bad == {k \in Edge+1..bins-Edge : Different(a, b, k)}
  IN IF bins - 2 * Edge < MinBins THEN {}
     ELSE {r \in Runs(bad) : r[2] - r[1] >= MinBins}

Anomalies(in) == OffAnomalies(in) \cup ReactionAnomalies(in) \cup StillAnomalies(in)

(***************************************************************************)
(* What is promised.                                                       *)
(***************************************************************************)

\* A dark time that is reported as new and one that is reported as missing are never within the
\* tolerance of each other: they would have been the same one.
NoPairLeft(in) ==
  \A x, y \in OffAnomalies(in) :
    x[1] = "off-extra" /\ y[1] = "off-missing" => Distance(ToRef(in, x[2]), y[2]) > EventTol

\* No dark time of the reference explains two of the compared cycle.
NoOffTwice(in) == \A p, q \in PairsOfOffs(in) : p[1] = q[1] <=> p[2] = q[2]

\* The pairs of align keep the order, and no other pairs that do cost less.
AlignIsBest(g, c) ==
  LET pairings == {P \in SUBSET ((1..Len(g)) \X (1..Len(c))) :
                     /\ \A p \in P : CanPair(g[p[1]], c[p[2]])
                     /\ \A p, q \in P : p # q => (p[1] < q[1] /\ p[2] < q[2]) \/ (p[1] > q[1] /\ p[2] > q[2])}
      costOf(P) == MapThenSumSet(LAMBDA p : Distance(g[p[1]], c[p[2]]), P) + Gap * (Len(g) + Len(c) - 2 * Cardinality(P))
  IN Align(g, c) \in pairings /\ \A P \in pairings : costOf(Align(g, c)) <= costOf(P)

\* A cycle in which everything happened as in the reference has nothing to report, also where
\* both have an exclusion at the same place.
SameIsNormal(in) == Anomalies(in) = {}

\* A picture that comes up to Shift bins early or late is not a different one.
ShiftedIsNormal(a, by) ==
  LET shifted == [k \in DOMAIN a |-> IF k + by \in DOMAIN a THEN a[k + by] ELSE a[k]]
  IN by <= Shift => ScreenAnomalies(shifted, a) = {}
=============================================================================
