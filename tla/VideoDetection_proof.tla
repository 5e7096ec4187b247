------------------------- MODULE VideoDetection_proof -------------------------
(***************************************************************************)
(* Proofs about VideoDetection, for any pictures, any length of a video,   *)
(* any thresholds, wherever its sections end and however it is cut into    *)
(* answers: what the page shows is what a new detector finds at the same   *)
(* marks.  The argument is about the page.  What a judgement of a piece    *)
(* does is not looked into: the proof holds for any detector that is given *)
(* the frames up to a mark and its own memory.                             *)
(***************************************************************************)
EXTENDS VideoDetection, MessageTheorems

-----------------------------------------------------------------------------
(* The states a detector goes through, from one mark to the next.          *)

\* The only member of a set of one.
LEMMA OnlyOf ==
  ASSUME NEW e
  PROVE  Only({e}) = e
BY DEF Only

\* A detector in state x is fed at the i-th mark; the closing one is the end of the video.
FedAt(f, fl, s, ms, closing, x, i) == Feed(Prefix(f, ms[i]), fl, s, x, i = closing)

\* The states of a detector that was in state d at the k-th mark, up to the n-th.
States(h, f, fl, s, ms, closing, k, d, n) ==
  h = [i \in k..n |-> IF i = k THEN d ELSE Only({Feed(Prefix(f, ms[i]), fl, s, x, i = closing) : x \in {h[i-1]}})]

\* The same without the form the tools ask for.
LEMMA StatesAre ==
  ASSUME NEW f, NEW fl, NEW s, NEW ms, NEW closing, NEW k, NEW d, NEW n, NEW h
  PROVE  States(h, f, fl, s, ms, closing, k, d, n) <=>
           h = [i \in k..n |-> IF i = k THEN d ELSE FedAt(f, fl, s, ms, closing, h[i-1], i)]
<1>1. \A i : {Feed(Prefix(f, ms[i]), fl, s, x, i = closing) : x \in {h[i-1]}} = {FedAt(f, fl, s, ms, closing, h[i-1], i)}
  BY DEF FedAt
<1>2. \A i : Only({Feed(Prefix(f, ms[i]), fl, s, x, i = closing) : x \in {h[i-1]}}) = FedAt(f, fl, s, ms, closing, h[i-1], i)
  BY <1>1, OnlyOf
<1> QED BY <1>2 DEF States

\* One state follows from the one before.
LEMMA StateIs ==
  ASSUME NEW f, NEW fl, NEW s, NEW ms, NEW closing, NEW k \in Nat, NEW d, NEW n \in Nat, NEW h,
         States(h, f, fl, s, ms, closing, k, d, n), NEW i \in k..n
  PROVE  h[i] = IF i = k THEN d ELSE FedAt(f, fl, s, ms, closing, h[i-1], i)
<1> DEFINE F(j) == IF j = k THEN d ELSE FedAt(f, fl, s, ms, closing, h[j-1], j)
<1>1. h = [j \in k..n |-> F(j)]
  BY StatesAre
<1>2. h[i] = F(i)
  <2> HIDE DEF F
  <2> QED BY <1>1
<1> QED BY <1>2

\* The first state.
LEMMA FirstState ==
  ASSUME NEW f, NEW fl, NEW s, NEW ms, NEW closing, NEW k \in Nat, NEW d, NEW n \in Nat, k <= n, NEW h,
         States(h, f, fl, s, ms, closing, k, d, n)
  PROVE  h[k] = d
<1> DEFINE F(j) == IF j = k THEN d ELSE FedAt(f, fl, s, ms, closing, h[j-1], j)
<1>1. h = [j \in k..n |-> F(j)]
  BY StatesAre
<1>2. k \in k..n
  OBVIOUS
<1>3. F(k) = d
  OBVIOUS
<1> HIDE DEF F
<1> QED BY <1>1, <1>2, <1>3

\* There are such states, however many marks there are.
LEMMA StatesExist ==
  ASSUME NEW f, NEW fl, NEW s, NEW ms, NEW closing, NEW k \in Nat, NEW d, NEW n \in Nat, k <= n
  PROVE  \E h : States(h, f, fl, s, ms, closing, k, d, n)
<1> DEFINE Filled(j) == \E h : States(h, f, fl, s, ms, closing, k, d, j)
           Bad == {j \in k..n : ~Filled(j)}
<1>1. Bad = {}
  <2> SUFFICES ASSUME Bad # {} PROVE FALSE
    OBVIOUS
  <2>1. PICK m \in Bad : \A l \in Bad : m <= l
    <3>1. Bad \in SUBSET Nat
      OBVIOUS
    <3> HIDE DEF Bad
    <3> QED BY <3>1, LeastMember
  <2>2. m \in k..n /\ m \in Nat /\ ~Filled(m)
    OBVIOUS
  <2>3. m # k
    <3> SUFFICES ASSUME m = k PROVE FALSE
      OBVIOUS
    <3> DEFINE h == [i \in k..m |-> d]
    <3>1. \A i \in k..m : i = k
      BY <2>2
    <3>2. h = [i \in k..m |-> IF i = k THEN d ELSE FedAt(f, fl, s, ms, closing, h[i-1], i)]
      BY <3>1
    <3> HIDE DEF h
    <3>3. States(h, f, fl, s, ms, closing, k, d, m)
      BY <3>2, StatesAre
    <3> QED BY <3>3, <2>2
  <2>4. PICK p \in Nat : p = m - 1 /\ p \in k..n /\ ~(m <= p)
    BY <2>2, <2>3
  <2>5. Filled(p)
    <3>1. p \notin Bad
      <4> HIDE DEF Bad
      <4> QED BY <2>1, <2>4
    <3> HIDE DEF Filled
    <3> QED BY <3>1, <2>4
  <2>6. PICK g : States(g, f, fl, s, ms, closing, k, d, p)
    BY <2>5
  <2>7. g = [i \in k..p |-> IF i = k THEN d ELSE FedAt(f, fl, s, ms, closing, g[i-1], i)]
    BY <2>6, StatesAre
  <2> DEFINE h == [i \in k..m |-> IF i < m THEN g[i] ELSE FedAt(f, fl, s, ms, closing, g[p], m)]
  <2>8. ASSUME NEW i \in k..m
        PROVE  h[i] = IF i = k THEN d ELSE FedAt(f, fl, s, ms, closing, h[i-1], i)
    <3>1. CASE i < m
      <4>1. i \in k..p /\ h[i] = g[i]
        BY <3>1, <2>2, <2>4
      <4>2. g[i] = IF i = k THEN d ELSE FedAt(f, fl, s, ms, closing, g[i-1], i)
        BY <2>6, <4>1, StateIs
      <4>3. i # k => i - 1 \in k..m /\ i - 1 < m
        BY <2>2, <3>1
      <4>4. i # k => h[i-1] = g[i-1]
        BY <4>3
      <4> HIDE DEF h
      <4> QED BY <4>1, <4>2, <4>4
    <3>2. CASE ~(i < m)
      <4>1. i = m /\ i # k /\ i - 1 \in k..m /\ i - 1 < m /\ i - 1 = p
        BY <3>2, <2>2, <2>3, <2>4
      <4>2. h[i-1] = g[p] /\ h[i] = FedAt(f, fl, s, ms, closing, g[p], m)
        BY <4>1
      <4> HIDE DEF h
      <4> QED BY <4>1, <4>2
    <3> QED BY <3>1, <3>2
  <2>9. h = [i \in k..m |-> IF i = k THEN d ELSE FedAt(f, fl, s, ms, closing, h[i-1], i)]
    BY <2>8
  <2> HIDE DEF h
  <2>10. States(h, f, fl, s, ms, closing, k, d, m)
    BY <2>9, StatesAre
  <2> QED BY <2>10, <2>2
<1>2. n \in k..n
  OBVIOUS
<1> HIDE DEF Filled
<1> QED BY <1>1, <1>2 DEF Filled

\* What a detector that is fed at each mark ends in is the last of these states.
LEMMA FedIsState ==
  ASSUME NEW f, NEW fl, NEW s, NEW ms, NEW closing, NEW k \in Nat, NEW d, NEW n \in Nat, n = Len(ms), k <= n
  PROVE  \E h : States(h, f, fl, s, ms, closing, k, d, n) /\ FedFrom(f, fl, s, ms, closing, k, d) = h[n]
<1> DEFINE h == CHOOSE g : g = [i \in k..Len(ms) |-> IF i = k THEN d ELSE
                                  Only({Feed(Prefix(f, ms[i]), fl, s, x, i = closing) : x \in {g[i-1]}})]
<1>1. PICK g : States(g, f, fl, s, ms, closing, k, d, n)
  BY StatesExist
<1>2. h = [i \in k..Len(ms) |-> IF i = k THEN d ELSE Only({Feed(Prefix(f, ms[i]), fl, s, x, i = closing) : x \in {h[i-1]}})]
  BY <1>1 DEF States
<1>3. FedFrom(f, fl, s, ms, closing, k, d) = h[Len(ms)]
  BY DEF FedFrom
<1> QED BY <1>2, <1>3 DEF States

\* A detector in the state of another at one mark stays in its states.
LEMMA StatesMeet ==
  ASSUME NEW f, NEW fl, NEW s, NEW ms, NEW closing, NEW k \in Nat, NEW n \in Nat, k <= n,
         NEW g, NEW x, States(g, f, fl, s, ms, closing, k, x, n), NEW h, NEW d, States(h, f, fl, s, ms, closing, 0, d, n),
         g[k] = h[k]
  PROVE  g[n] = h[n]
<1> DEFINE Bad == {i \in k..n : g[i] # h[i]}
<1>1. Bad = {}
  <2> SUFFICES ASSUME Bad # {} PROVE FALSE
    OBVIOUS
  <2>1. PICK i \in Bad : \A l \in Bad : i <= l
    <3>1. Bad \in SUBSET Nat
      OBVIOUS
    <3> HIDE DEF Bad
    <3> QED BY <3>1, LeastMember
  <2>2. i \in k..n /\ g[i] # h[i] /\ i # k
    OBVIOUS
  <2>3. i - 1 \in k..n /\ ~(i <= i - 1) /\ i \in 0..n /\ i # 0 /\ 0 \in Nat
    BY <2>2
  <2>4. g[i-1] = h[i-1]
    BY <2>1, <2>3
  <2>5. g[i] = IF i = k THEN x ELSE FedAt(f, fl, s, ms, closing, g[i-1], i)
    BY <2>2, StateIs
  <2>6. h[i] = IF i = 0 THEN d ELSE FedAt(f, fl, s, ms, closing, h[i-1], i)
    BY <2>3, StateIs
  <2> QED BY <2>2, <2>3, <2>4, <2>5, <2>6
<1>2. n \in k..n
  OBVIOUS
<1> QED BY <1>1, <1>2

\* Two new detectors that are fed alike at the first marks are in the same state then.
LEMMA StatesBegin ==
  ASSUME NEW f, NEW fl, NEW s, NEW ms, NEW closing, NEW d, NEW n \in Nat, NEW h, States(h, f, fl, s, ms, closing, 0, d, n),
         NEW f2, NEW ms2, NEW closing2, NEW n2 \in Nat, NEW h2, States(h2, f2, fl, s, ms2, closing2, 0, d, n2),
         n <= n2, h[0] = d, h2[0] = d,
         \A i \in 1..n : \A x : FedAt(f, fl, s, ms, closing, x, i) = FedAt(f2, fl, s, ms2, closing2, x, i)
  PROVE  h[n] = h2[n]
<1> DEFINE Bad == {i \in 0..n : h[i] # h2[i]}
<1>1. Bad = {}
  <2> SUFFICES ASSUME Bad # {} PROVE FALSE
    OBVIOUS
  <2>1. PICK i \in Bad : \A l \in Bad : i <= l
    <3>1. Bad \in SUBSET Nat
      OBVIOUS
    <3> HIDE DEF Bad
    <3> QED BY <3>1, LeastMember
  <2>2. i \in 0..n /\ h[i] # h2[i] /\ i # 0 /\ 0 \in Nat
    OBVIOUS
  <2>4. i - 1 \in 0..n /\ ~(i <= i - 1) /\ i \in 1..n /\ i \in 0..n2
    BY <2>2
  <2>5. h[i-1] = h2[i-1]
    BY <2>1, <2>4
  <2>6. h[i] = IF i = 0 THEN d ELSE FedAt(f, fl, s, ms, closing, h[i-1], i)
    BY <2>2, StateIs
  <2>7. h2[i] = IF i = 0 THEN d ELSE FedAt(f2, fl, s, ms2, closing2, h2[i-1], i)
    BY <2>2, <2>4, StateIs
  <2> QED BY <2>2, <2>4, <2>5, <2>6, <2>7
<1>2. n \in 0..n
  OBVIOUS
<1> QED BY <1>1, <1>2

\* A detector that has been fed at all marks stays as it is.
LEMMA FedAlready ==
  ASSUME NEW f, NEW fl, NEW s, NEW ms, NEW closing, NEW d, NEW n \in Nat, n = Len(ms)
  PROVE  FedFrom(f, fl, s, ms, closing, n, d) = d
<1>1. PICK h : States(h, f, fl, s, ms, closing, n, d, n) /\ FedFrom(f, fl, s, ms, closing, n, d) = h[n]
  BY FedIsState
<1>2. n <= n
  OBVIOUS
<1>3. h[n] = d
  BY <1>1, <1>2, FirstState
<1> QED BY <1>1, <1>3

\* More frames and more marks: a detector that was fed at the first marks, when there were no others, goes on
\* as a new one would, unless the last of them is now known to be the end of the video.
LEMMA FedFurther ==
  ASSUME NEW f, NEW f2, NEW fl, NEW s, NEW closing \in Nat, NEW d,
         NEW ms, NEW ms2, NEW n \in Nat, NEW n2 \in Nat, n = Len(ms), n2 = Len(ms2), n <= n2, closing \notin 1..n,
         \A i \in 1..n : ms2[i] = ms[i] /\ Prefix(f2, ms[i]) = Prefix(f, ms[i])
  PROVE  FedFrom(f2, fl, s, ms2, closing, n, FedFrom(f, fl, s, ms, 0, 0, d)) = FedFrom(f2, fl, s, ms2, closing, 0, d)
<1> DEFINE x == FedFrom(f, fl, s, ms, 0, 0, d)
<1>1. 0 \in Nat /\ 0 <= n /\ 0 <= n2 /\ n <= n /\ n2 <= n2 /\ 0 <= 0 /\ n + 1 \in Nat
  OBVIOUS
<1>2. PICK h : States(h, f, fl, s, ms, 0, 0, d, n) /\ x = h[n]
  BY <1>1, FedIsState
<1>3. PICK h2 : States(h2, f2, fl, s, ms2, closing, 0, d, n2) /\ FedFrom(f2, fl, s, ms2, closing, 0, d) = h2[n2]
  BY <1>1, FedIsState
<1> HIDE DEF x
<1>4. PICK g : States(g, f2, fl, s, ms2, closing, n, x, n2) /\ FedFrom(f2, fl, s, ms2, closing, n, x) = g[n2]
  BY <1>1, FedIsState
<1>5. h[n] = h2[n]
  <2>1. \A i \in 0+1..n : \A y : FedAt(f, fl, s, ms, 0, y, i) = FedAt(f2, fl, s, ms2, closing, y, i)
    <3> SUFFICES ASSUME NEW i \in 1..n, NEW y
                 PROVE  FedAt(f, fl, s, ms, 0, y, i) = FedAt(f2, fl, s, ms2, closing, y, i)
      OBVIOUS
    <3>1. ms2[i] = ms[i] /\ Prefix(f2, ms[i]) = Prefix(f, ms[i])
      OBVIOUS
    <3>2. (i = closing) = FALSE /\ (i = 0) = FALSE
      OBVIOUS
    <3> QED BY <3>1, <3>2 DEF FedAt
  <2>3. h[0] = d
    BY <1>1, <1>2, FirstState
  <2>4. h2[0] = d
    BY <1>1, <1>3, FirstState
  <2>5. h[0] = h2[0]
    BY <2>3, <2>4
  <2>6. n \in Nat /\ n2 \in Nat /\ n <= n2 /\ \A i \in 1..n : \A y : FedAt(f, fl, s, ms, 0, y, i) = FedAt(f2, fl, s, ms2, closing, y, i)
    BY <2>1
  <2> QED BY <2>6, <2>3, <2>4, <1>2, <1>3, StatesBegin
<1>6. g[n] = x
  BY <1>1, <1>4, FirstState
<1>7. g[n2] = h2[n2]
  <2>1. g[n] = h2[n]
    BY <1>2, <1>5, <1>6
  <2> QED BY <2>1, <1>3, <1>4, StatesMeet
<1> QED BY <1>3, <1>4, <1>7 DEF x

-----------------------------------------------------------------------------
(* The page.                                                               *)

\* Where the marks are, and what the detector is before the end of the video: fed at each of them.
PageInvariant ==
  /\ frames \in Seq(Pictures) /\ marks \in Seq(Nat) /\ \A i \in DOMAIN marks : marks[i] \in 0..Len(frames)
  /\ done \in BOOLEAN /\ closed \in BOOLEAN
  /\ ~done /\ ~closed => det = FedFrom(frames, floor, static, marks, 0, 0, Fresh)
  /\ JudgedAtMarks

\* The first frames stay the same when others are added.
LEMMA PrefixStays ==
  ASSUME NEW f \in Seq(Pictures), NEW b \in Seq(Pictures), NEW m \in 0..Len(f)
  PROVE  Prefix(f \o b, m) = Prefix(f, m)
<1> DEFINE g == f \o b
<1>1. g \in Seq(Pictures) /\ Len(g) = Len(f) + Len(b) /\ \A i \in 1..Len(f) : g[i] = f[i]
  BY ConcatProperties, LenProperties
<1>2. Len(f) \in Nat /\ Len(b) \in Nat /\ m \in 0..Len(g)
  BY <1>1, LenProperties
<1> HIDE DEF g
<1>3. /\ Len(SubSeq(f, 1, m)) = m /\ \A i \in 1..m : SubSeq(f, 1, m)[i] = f[i]
      /\ Len(SubSeq(g, 1, m)) = m /\ \A i \in 1..m : SubSeq(g, 1, m)[i] = g[i]
      /\ SubSeq(f, 1, m) \in Seq(Pictures) /\ SubSeq(g, 1, m) \in Seq(Pictures)
  BY <1>1, <1>2, PrefixType, SubSeqProperties
<1>4. SubSeq(g, 1, m) = SubSeq(f, 1, m)
  BY <1>1, <1>2, <1>3, SeqEqual
<1> QED BY <1>4 DEF Prefix, g

\* Which mark closes the video.
Closing(ms, over) == IF over THEN Len(ms) ELSE 0

\* What a judgement of all that arrived is.
LEMMA JudgedAnew ==
  ASSUME NEW f, NEW fl, NEW s, NEW ms, NEW over, NEW close, NEW k, NEW d
  PROVE  FeedVideo(f, fl, s, ms, over, close, k, d) =
           IF over \/ close THEN Feed(f, fl, s, FedFrom(f, fl, s, ms, Closing(ms, over), k, d), TRUE)
                            ELSE FedFrom(f, fl, s, ms, Closing(ms, over), k, d)
<1> DEFINE x == FedMarks(f, fl, s, ms, over, k, d)
<1>1. {IF over \/ close THEN Feed(f, fl, s, y, TRUE) ELSE y : y \in {x}} = {IF over \/ close THEN Feed(f, fl, s, x, TRUE) ELSE x}
  OBVIOUS
<1>2. x = FedFrom(f, fl, s, ms, Closing(ms, over), k, d)
  BY DEF FedMarks, Closing
<1> QED BY <1>1, <1>2, OnlyOf DEF FeedVideo

\* The invariant holds of a page that has received nothing.
LEMMA PageInit == Init => PageInvariant
<1> SUFFICES ASSUME Init PROVE PageInvariant
  OBVIOUS
<1>1. frames = <<>> /\ marks = <<>> /\ fed = 0 /\ det = Fresh /\ done = FALSE /\ closed = FALSE
  BY DEF Init
<1>2. Len(marks) = 0 /\ DOMAIN marks = {} /\ frames \in Seq(Pictures) /\ marks \in Seq(Nat)
  BY <1>1
<1>3. FedFrom(frames, floor, static, marks, 0, 0, Fresh) = Fresh
  <2> DEFINE n == 0
  <2>1. n \in Nat /\ n = Len(marks)
    BY <1>2
  <2> HIDE DEF n
  <2>2. FedFrom(frames, floor, static, marks, 0, n, Fresh) = Fresh
    BY <2>1, FedAlready
  <2> QED BY <2>2 DEF n
<1>4. Replayed(FALSE) = Fresh
  BY <1>1, <1>3, JudgedAnew DEF Replayed, Closing
<1>5. JudgedAtMarks
  BY <1>1, <1>2, <1>4 DEF JudgedAtMarks
<1> QED BY <1>1, <1>2, <1>3, <1>5 DEF PageInvariant

\* The page goes on where it was unless the floor fell; then it begins anew.
LEMMA FloorCases ==
  ASSUME NEW f, NEW k, NEW d
  PROVE  \/ FedBefore(f, floor, k) = 0 /\ Before(f, floor, d) = Fresh
         \/ FloorOf(f, floor) = floor /\ FedBefore(f, floor, k) = k /\ Before(f, floor, d) = d
BY DEF FedBefore, Before, FloorOf

\* What is published is what is judged anew with the floor that was found.
LEMMA PublishIs ==
  ASSUME PageInvariant, ~closed, ~done, NEW f \in Seq(Pictures), NEW ms \in Seq(Nat), NEW over \in BOOLEAN, NEW close \in BOOLEAN,
         Len(marks) <= Len(ms), \A i \in 1..Len(marks) : ms[i] = marks[i] /\ Prefix(f, marks[i]) = Prefix(frames, marks[i])
  PROVE  \E last \in {FALSE, over} :
           FeedVideo(f, FloorOf(f, floor), static, ms, over, close, FedBefore(f, floor, fed), Before(f, floor, det)) =
             LET d == FedFrom(f, FloorOf(f, floor), static, ms, Closing(ms, last), 0, Fresh)
             IN IF over \/ close THEN Feed(f, FloorOf(f, floor), static, d, TRUE) ELSE d
<1> DEFINE fl == FloorOf(f, floor)
           k == FedBefore(f, floor, fed)
           b == Before(f, floor, det)
           c == Closing(ms, over)
<1>1. FeedVideo(f, fl, static, ms, over, close, k, b) =
        IF over \/ close THEN Feed(f, fl, static, FedFrom(f, fl, static, ms, c, k, b), TRUE) ELSE FedFrom(f, fl, static, ms, c, k, b)
  BY JudgedAnew
<1>2. fed = Len(marks) /\ det = FedFrom(frames, floor, static, marks, 0, 0, Fresh) /\ marks \in Seq(Nat) /\ frames \in Seq(Pictures)
  BY DEF PageInvariant, JudgedAtMarks
<1>3. Len(marks) \in Nat /\ Len(ms) \in Nat /\ 0 \notin 1..Len(marks)
  BY <1>2, LenProperties
<1>4. c \in Nat /\ (c = 0 \/ (c = Len(ms) /\ over)) /\ Closing(ms, FALSE) = 0
  BY <1>3 DEF Closing
<1>5. \E last \in {FALSE, over} : FedFrom(f, fl, static, ms, c, k, b) = FedFrom(f, fl, static, ms, Closing(ms, last), 0, Fresh)
  <2>1. CASE k = 0 /\ b = Fresh
    BY <2>1
  <2>2. CASE fl = floor /\ k = fed /\ b = det
    <3>1. PICK n \in Nat, n2 \in Nat : n = Len(marks) /\ n2 = Len(ms) /\ n <= n2
      BY <1>3
    <3>p. \A i \in 1..n : ms[i] = marks[i] /\ Prefix(f, marks[i]) = Prefix(frames, marks[i])
      BY <3>1
    <3>2. CASE c \notin 1..n
      <4> HIDE DEF fl, k, b, c
      <4>0. c \in Nat
        BY <1>4
      <4>1. FedFrom(f, floor, static, ms, c, n, FedFrom(frames, floor, static, marks, 0, 0, Fresh)) =
              FedFrom(f, floor, static, ms, c, 0, Fresh)
        BY <3>1, <3>2, <3>p, <4>0, FedFurther
      <4>2. FedFrom(f, fl, static, ms, c, k, b) = FedFrom(f, fl, static, ms, c, 0, Fresh)
        BY <4>1, <2>2, <1>2, <3>1
      <4> QED BY <4>2 DEF c
    <3>3. CASE c \in 1..n
      <4> HIDE DEF fl, k, b, c
      <4>1. n = n2
        BY <3>3, <3>1, <1>4
      <4>2. FedFrom(f, floor, static, ms, c, n2, det) = det
        BY <3>1, FedAlready
      <4>z. 0 \in Nat /\ 0 \notin 1..n
        OBVIOUS
      <4>3. FedFrom(f, floor, static, ms, 0, n, FedFrom(frames, floor, static, marks, 0, 0, Fresh)) =
              FedFrom(f, floor, static, ms, 0, 0, Fresh)
        BY <3>1, <4>z, <3>p, FedFurther
      <4>4. FedFrom(f, floor, static, ms, 0, n2, det) = det
        BY <3>1, FedAlready
      <4>5. FedFrom(f, fl, static, ms, c, k, b) = FedFrom(f, fl, static, ms, Closing(ms, FALSE), 0, Fresh)
        BY <4>1, <4>2, <4>3, <4>4, <2>2, <1>2, <1>4, <3>1
      <4> QED BY <4>5
    <3> QED BY <3>2, <3>3
  <2> HIDE DEF fl, k, b, c
  <2> QED BY <2>1, <2>2, FloorCases DEF fl, k, b
<1> HIDE DEF fl, k, b, c
<1>6. PICK last \in {FALSE, over} : FedFrom(f, fl, static, ms, c, k, b) = FedFrom(f, fl, static, ms, Closing(ms, last), 0, Fresh)
  BY <1>5
<1> QED BY <1>1, <1>6 DEF fl, k, b

\* An answer keeps it: the marks known before lie among the same frames.
LEMMA AnsweredKeeps == PageInvariant /\ Answered => PageInvariant'
<1> SUFFICES ASSUME PageInvariant, Answered PROVE PageInvariant'
  OBVIOUS
<1>1. PICK n \in 0..MaxBatch, over \in BOOLEAN : \E k \in 0..n :
       \E batch \in [1..n -> Pictures], ends \in [1..k -> 1..n] :
         /\ Len(frames) + n <= MaxFrames
         /\ \A i \in 2..k : ends[i-1] < ends[i]
         /\ IF over THEN n > 0 => k > 0 /\ ends[k] = n ELSE n > 0
         /\ over /\ n = 0 => frames = <<>> \/ (marks # <<>> /\ Last(marks) = Len(frames))
         /\ frames' = frames \o batch
         /\ marks' = marks \o [i \in 1..k |-> Len(frames) + ends[i]]
         /\ done' = over
         /\ Publish(frames', marks', over, FALSE)
  BY DEF Answered
<1>k. PICK k \in 0..n : \E batch \in [1..n -> Pictures], ends \in [1..k -> 1..n] :
         /\ Len(frames) + n <= MaxFrames
         /\ \A i \in 2..k : ends[i-1] < ends[i]
         /\ IF over THEN n > 0 => k > 0 /\ ends[k] = n ELSE n > 0
         /\ over /\ n = 0 => frames = <<>> \/ (marks # <<>> /\ Last(marks) = Len(frames))
         /\ frames' = frames \o batch
         /\ marks' = marks \o [i \in 1..k |-> Len(frames) + ends[i]]
         /\ done' = over
         /\ Publish(frames', marks', over, FALSE)
  BY <1>1
<1>b. PICK batch \in [1..n -> Pictures], ends \in [1..k -> 1..n] :
         /\ Len(frames) + n <= MaxFrames
         /\ \A i \in 2..k : ends[i-1] < ends[i]
         /\ IF over THEN n > 0 => k > 0 /\ ends[k] = n ELSE n > 0
         /\ over /\ n = 0 => frames = <<>> \/ (marks # <<>> /\ Last(marks) = Len(frames))
         /\ frames' = frames \o batch
         /\ marks' = marks \o [i \in 1..k |-> Len(frames) + ends[i]]
         /\ done' = over
         /\ Publish(frames', marks', over, FALSE)
  BY <1>k
<1>2. /\ frames' = frames \o batch
      /\ marks' = marks \o [i \in 1..k |-> Len(frames) + ends[i]]
      /\ done' = over
      /\ Publish(frames', marks', over, FALSE)
  BY <1>b
<1>3. ~closed /\ ~done /\ static' = static /\ closed' = closed
  BY DEF Answered
<1> DEFINE new == [i \in 1..k |-> Len(frames) + ends[i]]
<1>4. frames \in Seq(Pictures) /\ marks \in Seq(Nat) /\ n \in Nat /\ k \in Nat /\ Len(frames) \in Nat /\ Len(marks) \in Nat
  BY DetectBounds, LenProperties DEF PageInvariant
<1>5. batch \in Seq(Pictures) /\ Len(batch) = n
  BY <1>4, SeqDef, LenProperties
<1>6. new \in Seq(Nat) /\ Len(new) = k /\ \A i \in 1..k : new[i] \in 0..Len(frames)+n
  <2>1. \A i \in 1..k : ends[i] \in 1..n
    OBVIOUS
  <2>2. new \in [1..k -> Nat] /\ \A i \in 1..k : new[i] \in 0..Len(frames)+n
    BY <2>1, <1>4
  <2> HIDE DEF new
  <2> QED BY <2>2, <1>4, SeqDef, LenProperties
<1> HIDE DEF new
<1>7. frames' \in Seq(Pictures) /\ Len(frames') = Len(frames) + n
  BY <1>2, <1>4, <1>5, ConcatProperties
<1>8. /\ marks' \in Seq(Nat) /\ Len(marks') = Len(marks) + k /\ DOMAIN marks' = 1..Len(marks) + k
      /\ \A i \in 1..Len(marks) + k : marks'[i] = IF i <= Len(marks) THEN marks[i] ELSE new[i - Len(marks)]
  BY <1>2, <1>4, <1>6, ConcatProperties, LenProperties DEF new
<1>9. \A i \in 1..Len(marks) : marks'[i] = marks[i] /\ marks[i] \in 0..Len(frames)
  <2>1. \A i \in 1..Len(marks) : i \in 1..Len(marks) + k /\ i <= Len(marks) /\ i \in DOMAIN marks
    BY <1>4, LenProperties
  <2> QED BY <2>1, <1>8 DEF PageInvariant
<1>10. \A i \in DOMAIN marks' : marks'[i] \in 0..Len(frames')
  <2> SUFFICES ASSUME NEW i \in 1..Len(marks) + k PROVE marks'[i] \in 0..Len(frames')
    BY <1>8
  <2>1. CASE i <= Len(marks)
    <3>1. i \in 1..Len(marks)
      BY <2>1, <1>4
    <3>2. marks'[i] \in 0..Len(frames)
      BY <3>1, <1>9
    <3>3. Len(frames') \in Nat /\ Len(frames) <= Len(frames')
      BY <1>7, <1>4
    <3> QED BY <3>2, <3>3, <1>4
  <2>2. CASE ~(i <= Len(marks))
    <3>1. i - Len(marks) \in 1..k
      BY <2>2, <1>4
    <3>2. marks'[i] = new[i - Len(marks)]
      BY <2>2, <1>8
    <3> QED BY <3>1, <3>2, <1>6, <1>7
  <2> QED BY <2>1, <2>2
<1>11. \A i \in 1..Len(marks) : Prefix(frames', marks[i]) = Prefix(frames, marks[i])
  BY <1>9, <1>2, <1>4, <1>5, PrefixStays
<1>12. PICK last \in {FALSE, over} : det' =
         LET d == FedFrom(frames', floor', static, marks', Closing(marks', last), 0, Fresh)
         IN IF over \/ FALSE THEN Feed(frames', floor', static, d, TRUE) ELSE d
  <2>1. /\ floor' = FloorOf(frames', floor)
        /\ det' = FeedVideo(frames', FloorOf(frames', floor), static, marks', over, FALSE, FedBefore(frames', floor, fed), Before(frames', floor, det))
    BY <1>2 DEF Publish
  <2>2. Len(marks) <= Len(marks')
    BY <1>4, <1>8
  <2> DEFINE f == frames'
             ms == marks'
  <2> HIDE DEF f, ms
  <2>3. /\ f \in Seq(Pictures) /\ ms \in Seq(Nat) /\ Len(marks) <= Len(ms) /\ FALSE \in BOOLEAN
        /\ \A i \in 1..Len(marks) : ms[i] = marks[i] /\ Prefix(f, marks[i]) = Prefix(frames, marks[i])
    BY <1>7, <1>8, <1>9, <1>11, <2>2 DEF f, ms
  <2>4. \E last \in {FALSE, over} :
           FeedVideo(f, FloorOf(f, floor), static, ms, over, FALSE, FedBefore(f, floor, fed), Before(f, floor, det)) =
             LET d == FedFrom(f, FloorOf(f, floor), static, ms, Closing(ms, last), 0, Fresh)
             IN IF over \/ FALSE THEN Feed(f, FloorOf(f, floor), static, d, TRUE) ELSE d
    BY <2>3, <1>3, PublishIs
  <2> QED BY <2>1, <2>4 DEF f, ms
<1>13. fed' = Len(marks')
  BY <1>2 DEF Publish
<1>14. det' = FeedVideo(frames', floor', static', marks', last, closed' \/ done', 0, Fresh)
  <2>1. FeedVideo(frames', floor', static', marks', last, closed' \/ done', 0, Fresh) = IF last \/ closed' \/ done' THEN Feed(frames', floor', static', FedFrom(frames', floor', static', marks', Closing(marks', last), 0, Fresh), TRUE)
                                              ELSE FedFrom(frames', floor', static', marks', Closing(marks', last), 0, Fresh)
    BY JudgedAnew
  <2>2. (last \/ closed' \/ done') <=> (over \/ FALSE)
    <3>1. done' = over /\ closed' = closed /\ ~closed
      BY <1>2, <1>3
    <3>2. last = FALSE \/ last = over
      OBVIOUS
    <3>3. CASE over = TRUE
      BY <3>1, <3>3
    <3>4. CASE over = FALSE
      <4>1. last = FALSE
        BY <3>2, <3>4
      <4>2. closed' = FALSE
        BY <3>1 DEF PageInvariant
      <4> QED BY <4>1, <4>2, <3>1, <3>4
    <3> QED BY <3>3, <3>4
  <2> QED BY <2>1, <2>2, <1>12, <1>3
<1>15. JudgedAtMarks'
  BY <1>2, <1>12, <1>13, <1>14 DEF JudgedAtMarks, Replayed
<1>16. ~done' /\ ~closed' => det' = FedFrom(frames', floor', static', marks', 0, 0, Fresh)
  <2>1. ~done' => last = FALSE /\ over = FALSE
    BY <1>2, <1>12
  <2>2. Closing(marks', FALSE) = 0
    BY DEF Closing
  <2> QED BY <2>1, <2>2, <1>2, <1>3, <1>12
<1> QED BY <1>2, <1>3, <1>7, <1>8, <1>10, <1>15, <1>16 DEF PageInvariant

\* A stop judges what arrived to its end.
LEMMA StoppedKeeps == PageInvariant /\ Stopped => PageInvariant'
<1> SUFFICES ASSUME PageInvariant, Stopped PROVE PageInvariant'
  OBVIOUS
<1>1. /\ ~closed /\ done = FALSE /\ closed' = TRUE /\ frames' = frames /\ marks' = marks /\ done' = done /\ static' = static
      /\ Publish(frames, marks, done, TRUE)
  BY DEF Stopped, PageInvariant
<1>2. frames \in Seq(Pictures) /\ marks \in Seq(Nat) /\ Len(marks) <= Len(marks)
  BY LenProperties DEF PageInvariant
<1>3. \E last \in {FALSE, done} :
           FeedVideo(frames, FloorOf(frames, floor), static, marks, done, TRUE, FedBefore(frames, floor, fed), Before(frames, floor, det)) =
             LET d == FedFrom(frames, FloorOf(frames, floor), static, marks, Closing(marks, last), 0, Fresh)
             IN IF done \/ TRUE THEN Feed(frames, FloorOf(frames, floor), static, d, TRUE) ELSE d
  BY <1>1, <1>2, PublishIs
<1>4. det' = Feed(frames, floor', static, FedFrom(frames, floor', static, marks, 0, 0, Fresh), TRUE) /\ fed' = Len(marks)
  BY <1>1, <1>3 DEF Publish, Closing
<1>5. FeedVideo(frames', floor', static', marks', FALSE, closed' \/ done', 0, Fresh) = Feed(frames', floor', static', FedFrom(frames', floor', static', marks', 0, 0, Fresh), TRUE)
  BY <1>1, JudgedAnew DEF Closing
<1>6. JudgedAtMarks'
  BY <1>1, <1>4, <1>5 DEF JudgedAtMarks, Replayed
<1> QED BY <1>1, <1>6 DEF PageInvariant

\* A changed setting judges everything anew.
LEMMA RejudgedKeeps == PageInvariant /\ Rejudged => PageInvariant'
<1> SUFFICES ASSUME PageInvariant, Rejudged PROVE PageInvariant'
  OBVIOUS
<1>1. /\ fed' = Len(marks) /\ frames' = frames /\ marks' = marks /\ floor' = floor /\ done' = done /\ closed' = closed
      /\ det' = FeedVideo(frames, floor, static', marks, done, closed, 0, Fresh)
  BY DEF Rejudged
<1>2. det' = FeedVideo(frames', floor', static', marks', done', closed' \/ done', 0, Fresh)
  <2>1. (done \/ closed) <=> (done \/ (closed \/ done))
    OBVIOUS
  <2> QED BY <1>1, <2>1, JudgedAnew
<1>3. done' \in {FALSE, done'}
  OBVIOUS
<1>4. JudgedAtMarks'
  BY <1>1, <1>2, <1>3 DEF JudgedAtMarks, Replayed
<1>5. ~done' /\ ~closed' => det' = FedFrom(frames', floor', static', marks', 0, 0, Fresh)
  <2> SUFFICES ASSUME ~done, ~closed PROVE det' = FedFrom(frames, floor, static', marks, 0, 0, Fresh)
    BY <1>1
  <2>1. done = FALSE /\ closed = FALSE
    BY DEF PageInvariant
  <2> QED BY <2>1, <1>1, JudgedAnew DEF Closing
<1> QED BY <1>1, <1>4, <1>5 DEF PageInvariant

-----------------------------------------------------------------------------

\* The inductive invariant: the marks lie among the frames that arrived, and before the end the detector is
\* one that was fed at each of them (videoAnalysisState.ts: feedVideo).
THEOREM PageCorrect == DetectSpec => []PageInvariant
<1>1. PageInvariant /\ [Next]_detectVars => PageInvariant'
  <2> SUFFICES ASSUME PageInvariant, [Next]_detectVars PROVE PageInvariant'
    OBVIOUS
  <2>1. CASE Answered
    BY <2>1, AnsweredKeeps
  <2>2. CASE Stopped
    BY <2>2, StoppedKeeps
  <2>3. CASE Rejudged
    BY <2>3, RejudgedKeeps
  <2>4. CASE UNCHANGED detectVars
    BY <2>4 DEF detectVars, PageInvariant, JudgedAtMarks, Replayed
  <2> QED BY <2>1, <2>2, <2>3, <2>4 DEF Next
<1> QED BY <1>1, PageInit, PTL DEF DetectSpec

\* What the page shows is what it would find if it judged all that arrived anew at the same marks, with the
\* floor and the setting of now (videoAnalysisState.ts:281).
THEOREM JudgedCorrect == DetectSpec => []JudgedAtMarks
<1>1. PageInvariant => JudgedAtMarks
  BY DEF PageInvariant
<1> QED BY <1>1, PageCorrect, PTL
=============================================================================
