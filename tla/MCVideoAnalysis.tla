--------------------------- MODULE MCVideoAnalysis ---------------------------
(***************************************************************************)
(* The analysis of a video of a test, on small inputs: the detector is fed *)
(* frame by frame; the Result file, the exclusions, the memos and the      *)
(* comparison of cycles are given one input each.                          *)
(***************************************************************************)
EXTENDS VideoDetection, ResultFile, CycleComparison, VideoExclusions

VARIABLE in   \* [of, ...]: the input of an algorithm, none while the detector runs
allVars == <<detectVars, in>>

Picture(y, e, d) == [y |-> y, e |-> e, d |-> d, coloured |-> FALSE]
MCPictures == {Picture(4, 4, 0), Picture(4, 4, 3), Picture(0, 2, 3)}

Given(x) == in' = x /\ UNCHANGED detectVars
SeqsUpTo(S, n) == UNION {[1..k -> S] : k \in 1..n}
Rising(s) == \A i \in 2..Len(s) : s[i-1] <= s[i]

\* Tables of two rows and columns whose cells are up to two characters long.
Cells == {<<>>} \cup SeqsUpTo({"q", "d", "r", "n", " ", "x"}, 2)
Csv == \E a, b \in Cells, last \in {<<"x">>, <<"n", "q">>} :
         Given([of |-> "csv", rows |-> <<<<a, b>>, <<last>>>>])

\* Times that rise, or go back a little, with one row at most whose time cannot be read.
Times == \E real \in SeqsUpTo(0..12, 4), lost \in {{}, {1}, {2}, {3}} :
           /\ \A i \in 2..Len(real) : real[i-1] - Back <= real[i] /\ real[i] - real[i-1] < Day
           /\ Given([of |-> "times", real |-> real, lost |-> lost])

Column(roles, time, number, statuses) ==
  [roles |-> roles, statuses |-> statuses,
   score |-> [r \in {"time", "cycle", "status", "name", "duration", "message"} |-> IF r = "time" THEN time ELSE IF r = "cycle" THEN number + 1 ELSE number]]
SomeColumns ==
  {Column({"time", "duration"}, 2, 0, 0), Column({"status"}, 0, 1, 0), Column({"status", "message"}, 0, 2, 1), Column({"name"}, 0, 2, 2),
   Column({"name", "cycle"}, 0, 1, 0), Column({}, 0, 0, 1), Column({"duration", "cycle"}, 1, 2, 0)}
Guess == \E cs \in [1..4 -> SomeColumns] : Given([of |-> "columns", columns |-> cs])

\* Two loops, one in the other: laps[i] is how often the inner one ran in the i-th round.
Loops(laps) ==
  [outer |-> FlattenSeq([i \in DOMAIN laps |-> [k \in 1..laps[i] |-> <<i>>]]),
   inner |-> FlattenSeq([i \in DOMAIN laps |-> [k \in 1..laps[i] |-> <<k>>]])]
Loop == \E laps \in SeqsUpTo(1..3, 3), swapped \in BOOLEAN :
          LET l == Loops(laps) IN Given([of |-> "loop", columns |-> IF swapped THEN <<l.inner, l.outer>> ELSE <<l.outer, l.inner>>])

Line(time, width) == [time |-> time, width |-> width]
Lines == \E ls \in SeqsUpTo({Line("no", 0), Line("no", 1), Line("no", 5), Line("read", 5), Line("unread", 5)}, 4) :
           Given([of |-> "lines", lines |-> ls])

Sorted == \E g, c \in {<<>>} \cup SeqsUpTo(0..4, 3) :
            Rising(g) /\ Rising(c) /\ Given([of |-> "align", g |-> g, c |-> c])

Step(key, a, b) == [key |-> key, start |-> a, end |-> b]
RefSteps == {Step("a", 0, 3), Step("b", 3, 6)}
Slower == {Step("a", 10, 14), Step("b", 14, 17)}
Same == {Step("a", 10, 13), Step("b", 13, 16)}
Apart(S) == \A x, y \in S : x # y => x[2] < y[1] \/ y[2] < x[1]
Sets(S) == {T \in SUBSET S : Apart(T)}
RefSpans == {<<0, 1>>, <<1, 2>>, <<2, 4>>, <<4, 5>>}
OwnSpans == {<<10, 12>>, <<11, 12>>, <<12, 14>>, <<14, 15>>}
Of(kind, spans) == {[kind |-> kind, start |-> s[1], end |-> s[2]] : s \in spans}
Cycle(own, offs, changes, stills, excluded, end) ==
  [of |-> "cycle", ref |-> RefSteps, own |-> own, offs |-> offs, changes |-> changes, stills |-> stills,
   excluded |-> excluded, end |-> end]

Offs == \E R \in Sets(RefSpans), O \in Sets(OwnSpans), own \in {Same, Slower}, e \in {14, 20}, x \in {{}, {<<1, 2>>}, {<<11, 12>>}} :
          Given(Cycle(own, Of("black", R \cup O), {}, {}, x, e))

\* The compared cycle is the reference again, ten later, exclusions too.
Later10(S) == S \cup {<<s[1] + 10, s[2] + 10>> : s \in S}
Repeats == \E R, S \in Sets(RefSpans), C \in SUBSET (0..4), x \in {{}, {<<1, 2>>}, {<<2, 4>>}} :
             LET all == [segments |-> Of("black", Later10(R)) \cup Of("static", Later10(S)), changes |-> C \cup {c + 10 : c \in C}]
                 left == Applied(all, MergeSpans(Later10(x)))
             IN Given([Cycle(Same, {s \in left.segments : s.kind = "black"}, left.changes,
                             {s \in left.segments : s.kind = "static"}, Later10(x), 20) EXCEPT !.of = "repeat"])

Bins == \E a \in [1..6 -> {None, <<0>>, <<5>>}], by \in 0..2 : Given([of |-> "bins", a |-> a, by |-> by])

Rows(n) == {rs \in [1..n -> [cycle : 1..2, name : {"a", "b"}, dur : {None, <<1>>, <<3>>}]] : \A i \in 2..n : rs[i-1].cycle <= rs[i].cycle}
Timed(rs) == [i \in DOMAIN rs |-> [cycle |-> rs[i].cycle, name |-> rs[i].name, dur |-> rs[i].dur, time |-> 2 * i]]
Excluded == \E rs \in Rows(3), first, last \in 1..3 : Given([of |-> "steps", rows |-> Timed(rs), first |-> first, last |-> last])
SomeSpans == {x \in (0..5) \X (1..6) : x[1] < x[2]}
Cut == \E k \in {"static", "flicker"}, s, e \in 0..5, x, y \in SomeSpans :
         s < e /\ Given([of |-> "cut", seg |-> [kind |-> k, start |-> s, end |-> e], spans |-> {x, y}])

Shifted == \E ya \in [1..5 -> {<<0>>, <<2>>, <<4>>}], by \in -Reach..Reach : Given([of |-> "shift", ya |-> ya, by |-> by])
Placed == \E rs \in {x \in Rows(4) : \A i \in 1..4 : x[i].dur = None}, a, b \in 1..4, from \in 0..1, to \in {1}, every \in BOOLEAN, s \in {-1, 1} :
            Given([of |-> "place", rows |-> Timed(rs), shift |-> [c \in 1..2 |-> s],
                   memo |-> [start |-> a, end |-> b, from |-> from, to |-> to, everyCycle |-> every]])
Memo == \E kinds \in [1..2 -> {"static", "black", "flicker"}], a, b \in {<<0, 2>>, <<1, 3>>, <<2, 4>>}, c, d \in {<<10, 12>>, <<11, 13>>, <<12, 15>>},
          T \in SUBSET {1, 3, 11, 14} :
          Given([of |-> "memo",
                 result |-> [segments |-> {[kind |-> kinds[1], start |-> a[1], end |-> a[2]], [kind |-> kinds[2], start |-> b[1], end |-> b[2]],
                                           [kind |-> kinds[1], start |-> c[1], end |-> c[2]], [kind |-> kinds[2], start |-> d[1], end |-> d[2]]},
                             changes |-> T]])

\* Rows of image comparisons: a shot, the reference, or the difference of an image.
Comparisons(n) == [1..n -> [cycle : {1}, images : {<<>>} \cup {<<[name |-> "i", of |-> o, shot |-> k]>> : o \in {"ref", "result"}, k \in 1..2}]]
Shots == \E rows \in Comparisons(4) : Given([of |-> "shots", rows |-> rows])

Start == Init /\ in = [of |-> "none"]
Unused == in.of = "none" /\ frames = <<>> /\ ~done /\ ~closed
Detect == in.of = "none" /\ Next /\ UNCHANGED in
Steps ==
  \/ Detect
  \/ (Unused /\ Csv)
  \/ (Unused /\ Times)
  \/ (Unused /\ Guess)
  \/ (Unused /\ Loop)
  \/ (Unused /\ Lines)
  \/ (Unused /\ Sorted)
  \/ (Unused /\ Offs)
  \/ (Unused /\ Repeats)
  \/ (Unused /\ Bins)
  \/ (Unused /\ Excluded)
  \/ (Unused /\ Cut)
  \/ (Unused /\ Shifted)
  \/ (Unused /\ Placed)
  \/ (Unused /\ Memo)
  \/ (Unused /\ Shots)
AnalysisSpec == Start /\ [][Steps]_allVars

\* A Result file is read as it was written: the cells that were copied out of a table, the days of
\* times of the day, one role for a column, the loop that counts the cycles, the lines of data
\* (resultCsv.ts).
FileIsRead ==
  /\ in.of = "csv" => CopyReadsBack(in.rows)
  /\ in.of = "times" => DaysAreCounted(in.real, in.lost)
  /\ in.of = "columns" => OneRoleEach(in.columns)
  /\ in.of = "loop" => NoCycleComesBack(in.columns)
  /\ in.of = "lines" => DataIsFound(in.lines)

\* The comparison of a cycle reports what differs from the reference and nothing else
\* (videoCycle.ts: compareCycles).
ComparisonIsSound ==
  /\ in.of = "cycle" => NoPairLeft(in) /\ NoOffTwice(in)
  /\ in.of = "align" => AlignIsBest(in.g, in.c)
  /\ in.of = "repeat" => SameIsNormal(in)
  /\ in.of = "bins" => ShiftedIsNormal(in.a, in.by)

\* What was excluded or explained by a memo is left out at its place in every cycle, all of it and
\* nothing else (videoExclude.ts, videoMemo.ts).
LeftOutIsExplained ==
  LET source == [cycle |-> 1, start |-> 0, end |-> 3]
      places == {source, [cycle |-> 2, start |-> 10, end |-> 13]}
  IN /\ in.of = "cut" => RemainsOutside(in.seg, in.spans)
     /\ in.of = "steps" => EveryCycleCovers(in.rows, in.first, in.last) /\ NoCutCycleJudged(in.rows, in.first, in.last)
     /\ in.of = "shift" => ShiftIsFound(in.ya, in.by)
     /\ in.of = "place" => OnePlaceEach(in.rows, in.memo, in.shift)
     /\ in.of = "memo" => NothingLeftInside(in.result, places, source) /\ NewIsReported(in.result, places, source)

\* Does not hold:
\* The comment of AtsImages.result (resultCsv.ts:46): the picture cut from the screen at that time.
OwnShot == in.of = "shots" => OwnShotIsShown(in.rows)

\* Does not hold:
\* The comment of parseResult (resultCsv.ts:450): a day is added for each midnight that is passed.
MidnightIsSeen == in.of = "times" /\ in.lost = {} /\ Rising(in.real) => \A start \in 0..in.real[1] : in.real[1] - start <= Back => DayOfStart(start, in.real)
===============================================================================
