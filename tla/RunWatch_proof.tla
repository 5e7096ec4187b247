---------------------------- MODULE RunWatch_proof ----------------------------
(***************************************************************************)
(* Proofs about RunWatch, for any number of lines, lost connections and    *)
(* failing calls, and any size of the screen: every line that is logged is *)
(* received or on its way to who watches, so that once nothing is on its   *)
(* way an open viewer has them all; and the panel shows the newest of what *)
(* it received, in order, whatever comes first, so that it then shows the  *)
(* end of the log.                                                         *)
(***************************************************************************)
EXTENDS RunWatch, MessageTheorems, FunctionTheorems, TLAPS

-----------------------------------------------------------------------------
(* Sequences of lines in the order of their numbers.                       *)

Increasing(s) == \A i, j \in DOMAIN s : i < j => s[i] < s[j]

\* Two lines of a sequence in order.
LEMMA IncreasingIs ==
  ASSUME NEW s, Increasing(s), NEW i \in DOMAIN s, NEW j \in DOMAIN s, i < j
  PROVE  s[i] < s[j]
BY DEF Increasing

\* A sequence in order has every line once.
LEMMA IncreasingIsInjective ==
  ASSUME NEW s \in Seq(Nat), Increasing(s)
  PROVE  IsInjective(s)
<1> SUFFICES ASSUME NEW i \in DOMAIN s, NEW j \in DOMAIN s, s[i] = s[j]
             PROVE  i = j
  BY DEF IsInjective
<1>1. i \in Nat /\ j \in Nat /\ s[i] \in Nat
  OBVIOUS
<1> QED BY <1>1 DEF Increasing

\* The lines of a set can be put in order in one way only.
LEMMA IncreasingIsUnique ==
  ASSUME NEW s \in Seq(Nat), NEW t \in Seq(Nat), Increasing(s), Increasing(t), ToSet(s) = ToSet(t)
  PROVE  s = t
<1> DEFINE Differs(i) == ~(i \in DOMAIN s /\ i \in DOMAIN t /\ s[i] = t[i])
           D == {i \in DOMAIN s \cup DOMAIN t : Differs(i)}
<1>0. /\ DOMAIN s = 1..Len(s) /\ DOMAIN t = 1..Len(t) /\ Len(s) \in Nat /\ Len(t) \in Nat
      /\ \A i \in DOMAIN s : s[i] \in Nat
      /\ \A i \in DOMAIN t : t[i] \in Nat
  OBVIOUS
<1>s. \A i \in DOMAIN s : \E j \in DOMAIN t : s[i] = t[j]
  BY DEF ToSet
<1>t. \A i \in DOMAIN t : \E j \in DOMAIN s : t[i] = s[j]
  BY DEF ToSet
<1>1. ASSUME D # {}
      PROVE  FALSE
  <2>1. D \in SUBSET Nat
    BY <1>0
  <2>2. PICK d \in D : \A y \in D : d <= y
    BY <1>1, <2>1, LeastMember
  <2>3. d \in Nat \ {0}
    BY <1>0
  <2>4. ASSUME NEW i \in 1..d-1
        PROVE  i \in DOMAIN s /\ i \in DOMAIN t /\ s[i] = t[i]
    <3>1. i < d /\ i \in Nat /\ i # 0
      BY <2>3
    <3>2. i \in DOMAIN s \cup DOMAIN t
      BY <1>0, <2>3, <3>1
    <3> QED BY <2>2, <3>1, <3>2, <2>3
  <2>5. ASSUME d \in DOMAIN s
        PROVE  FALSE
    <3>1. PICK j \in DOMAIN t : s[d] = t[j]
      BY <1>s, <2>5
    <3>2. ~(j < d)
      <4> SUFFICES ASSUME j < d PROVE FALSE
        OBVIOUS
      <4>1. j \in 1..d-1
        BY <1>0, <2>3
      <4>2. j \in DOMAIN s /\ s[j] = t[j]
        BY <4>1, <2>4
      <4> QED BY <4>2, <3>1, <2>5, <1>0 DEF Increasing
    <3>3. d \in DOMAIN t
      BY <3>2, <1>0, <2>3
    <3>4. s[d] # t[d]
      BY <2>5, <3>3
    <3>5. t[d] < s[d]
      BY <3>1, <3>2, <3>3, <3>4, <1>0, <2>3 DEF Increasing
    <3>6. PICK m \in DOMAIN s : t[d] = s[m]
      BY <1>t, <3>3
    <3>7. CASE m < d
      <4>1. m \in 1..d-1
        BY <3>7, <1>0, <2>3
      <4>2. s[m] = t[m] /\ m \in DOMAIN t
        BY <4>1, <2>4
      <4> QED BY <4>2, <3>6, <3>3, <3>7, <1>0 DEF Increasing
    <3>8. CASE ~(m < d)
      BY SMTT(30), <3>8, <3>5, <3>6, <2>5, <1>0, <2>3 DEF Increasing
    <3> QED BY <3>7, <3>8
  <2>6. ASSUME d \in DOMAIN t, d \notin DOMAIN s
        PROVE  FALSE
    <3>1. PICK m \in DOMAIN s : t[d] = s[m]
      BY <1>t, <2>6
    <3>2. m \in 1..d-1
      BY <2>6, <1>0, <2>3
    <3>3. m \in DOMAIN t /\ s[m] = t[m] /\ m < d
      BY <3>2, <2>4, <2>3
    <3> QED BY <3>3, <3>1, <2>6, <1>0 DEF Increasing
  <2> QED BY <2>5, <2>6
<1>2. DOMAIN s = DOMAIN t /\ \A i \in DOMAIN s : s[i] = t[i]
  <2>1. \A i \in DOMAIN s \cup DOMAIN t : ~Differs(i)
    BY <1>1
  <2> QED BY <2>1
<1>3. Len(s) = Len(t)
  <2>1. 1..Len(s) = 1..Len(t)
    BY <1>2, <1>0
  <2>2. \A m, n \in Nat : m < n => n \in 1..n /\ n \notin 1..m
    OBVIOUS
  <2>3. ~(Len(s) < Len(t)) /\ ~(Len(t) < Len(s))
    BY <2>1, <2>2, <1>0
  <2>4. Len(s) \in Nat /\ Len(t) \in Nat
    BY LenProperties
  <2> QED BY <2>3, <2>4
<1> QED BY SMTT(30), <1>2, <1>3, SeqEqual

\* Every finite set of lines can be put in order.
LEMMA CanBeOrdered ==
  ASSUME NEW S \in SUBSET Nat, IsFiniteSet(S)
  PROVE  \E s \in [1..Cardinality(S) -> S] :
           \A i, j \in 1..Cardinality(S) : i < j => s[i] < s[j]
<1> DEFINE Ordered(T) == \E s \in [1..Cardinality(T) -> T] :
             \A i, j \in 1..Cardinality(T) : i < j => s[i] < s[j]
           Bad == {n \in Nat : \E T \in SUBSET Nat : IsFiniteSet(T) /\ Cardinality(T) = n /\ ~Ordered(T)}
<1> SUFFICES Bad = {}
  BY FS_CardinalityType
<1> SUFFICES ASSUME Bad # {}
             PROVE  FALSE
  OBVIOUS
<1>1. PICK n \in Bad : \A m \in Bad : n <= m
  BY LeastMember
<1>2. PICK T \in SUBSET Nat : IsFiniteSet(T) /\ Cardinality(T) = n /\ ~Ordered(T)
  OBVIOUS
<1>3. T # {}
  <2> SUFFICES ASSUME T = {} PROVE FALSE
    OBVIOUS
  <2>1. Cardinality(T) = 0
    BY FS_EmptySet
  <2>2. [i \in 1..0 |-> 0] \in [1..Cardinality(T) -> T]
    BY <2>1
  <2>3. 1..Cardinality(T) = {}
    BY <2>1
  <2> QED BY <1>2, <2>2, <2>3
<1>4. PICK x \in T : \A y \in T : x <= y
  BY <1>3, LeastMember
<1> DEFINE U == T \ {x}
<1>5. IsFiniteSet(U) /\ Cardinality(U) = n - 1 /\ U \in SUBSET Nat /\ n - 1 \in Nat
  <2>1. IsFiniteSet(U) /\ Cardinality(U) = Cardinality(T) - 1
    BY <1>2, FS_RemoveElement, Zenon
  <2>2. U \in SUBSET Nat /\ n \in Nat
    OBVIOUS
  <2>3. Cardinality(U) \in Nat
    BY <2>1, FS_CardinalityType
  <2> HIDE DEF U, Bad, Ordered
  <2> QED BY <1>2, <2>1, <2>2, <2>3
<1>6. Ordered(U)
  <2>1. n - 1 \notin Bad
    BY <1>1, <1>5
  <2> HIDE DEF Ordered, U
  <2> QED BY <2>1, <1>5
<1>7. PICK s \in [1..n-1 -> U] : \A i, j \in 1..n-1 : i < j => s[i] < s[j]
  BY <1>5, <1>6
<1> DEFINE t == [i \in 1..n |-> IF i = 1 THEN x ELSE s[i - 1]]
<1>8. ASSUME NEW i \in 1..n, i # 1
      PROVE  i - 1 \in 1..n-1 /\ t[i] = s[i-1] /\ t[i] \in U
  BY <1>5, <1>7, <1>8
<1>9. t \in [1..n -> T]
  BY <1>4, <1>8
<1>10. ASSUME NEW i \in 1..n, NEW j \in 1..n, i < j
       PROVE  t[i] < t[j]
  <2>1. j # 1
    BY <1>10
  <2>2. CASE i = 1
    <3>1. t[i] = x
      BY <2>2
    <3>2. t[j] \in T /\ t[j] # x
      BY <2>1, <1>8
    <3>3. x <= t[j] /\ x \in Nat /\ t[j] \in Nat
      BY <3>2, <1>4
    <3> QED BY <3>1, <3>2, <3>3
  <2>3. CASE i # 1
    <3>1. t[i] = s[i-1] /\ t[j] = s[j-1] /\ i - 1 \in 1..n-1 /\ j - 1 \in 1..n-1 /\ i - 1 < j - 1
      BY <2>3, <2>1, <1>8, <1>10
    <3> HIDE DEF t
    <3> QED BY <3>1, <1>7
  <2> QED BY <2>2, <2>3
<1>11. Ordered(T)
  <2> HIDE DEF t
  <2> QED BY <1>2, <1>9, <1>10
<1> QED BY <1>2, <1>11

\* InOrder is the lines of a set in order: none is missing, none twice.
LEMMA InOrderIs ==
  ASSUME NEW S \in SUBSET Nat, IsFiniteSet(S)
  PROVE  /\ InOrder(S) \in Seq(S) /\ Len(InOrder(S)) = Cardinality(S)
         /\ Increasing(InOrder(S)) /\ ToSet(InOrder(S)) = S
<1> DEFINE s == InOrder(S)  n == Cardinality(S)
<1>1. n \in Nat
  BY FS_CardinalityType
<1>2. s \in [1..n -> S] /\ \A i, j \in 1..n : i < j => s[i] < s[j]
  BY CanBeOrdered DEF InOrder
<1> HIDE DEF s, n
<1>3. s \in Seq(S) /\ Len(s) = n /\ DOMAIN s = 1..n
  BY <1>1, <1>2
<1>4. Increasing(s)
  BY <1>2, <1>3 DEF Increasing
<1>5. s \in Injection(1..n, S)
  <2>1. IsInjective(s)
    <3>1. s \in Seq(Nat)
      BY <1>3, SeqMonotonic
    <3> QED BY <3>1, <1>4, IncreasingIsInjective
  <2> QED BY <2>1, <1>2, <1>3 DEF Injection, IsInjective
<1>6. s \in Surjection(1..n, S)
  <2>1. IsFiniteSet(1..n) /\ Cardinality(1..n) = n
    BY <1>1, FS_Interval
  <2> QED BY <2>1, <1>5, FS_Injection DEF n
<1>7. ToSet(s) = S
  BY <1>6, <1>3 DEF Surjection, ToSet
<1> QED BY <1>3, <1>4, <1>7 DEF s, n

-----------------------------------------------------------------------------
(* What the screen shows of the lines that have come.                      *)

\* The members of two sequences that follow each other, and where they are.
LEMMA ConcatIs ==
  ASSUME NEW s \in Seq(Nat), NEW t \in Seq(Nat)
  PROVE  /\ s \o t \in Seq(Nat) /\ Len(s \o t) = Len(s) + Len(t)
         /\ \A i \in 1..Len(s) : (s \o t)[i] = s[i]
         /\ \A i \in 1..Len(t) : (s \o t)[Len(s) + i] = t[i]
         /\ ToSet(s \o t) = ToSet(s) \cup ToSet(t)
<1>1. /\ s \o t \in Seq(Nat) /\ Len(s \o t) = Len(s) + Len(t)
      /\ \A i \in 1..Len(s) + Len(t) : (s \o t)[i] = IF i <= Len(s) THEN s[i] ELSE t[i - Len(s)]
  BY ConcatProperties
<1>0. Len(s) \in Nat /\ Len(t) \in Nat /\ DOMAIN s = 1..Len(s) /\ DOMAIN t = 1..Len(t) /\ DOMAIN (s \o t) = 1..Len(s \o t)
  BY <1>1
<1>2. \A i \in 1..Len(s) : (s \o t)[i] = s[i]
  BY <1>0, <1>1
<1>3. \A i \in 1..Len(t) : (s \o t)[Len(s) + i] = t[i]
  BY <1>0, <1>1
<1>4. ToSet(s \o t) \subseteq ToSet(s) \cup ToSet(t)
  <2> SUFFICES ASSUME NEW i \in 1..Len(s) + Len(t)
               PROVE  (s \o t)[i] \in ToSet(s) \cup ToSet(t)
    BY <1>0, <1>1 DEF ToSet
  <2>1. CASE i <= Len(s)
    <3>1. i \in 1..Len(s)
      BY <2>1, <1>0
    <3>2. s[i] \in ToSet(s)
      BY <3>1, <1>0 DEF ToSet
    <3> QED BY <3>1, <3>2, <1>2
  <2>2. CASE ~(i <= Len(s))
    <3>1. i - Len(s) \in 1..Len(t)
      BY <2>2, <1>0
    <3> QED BY <3>1, <2>2, <1>0, <1>1 DEF ToSet
  <2> QED BY <2>1, <2>2
<1>5. ToSet(s) \cup ToSet(t) \subseteq ToSet(s \o t)
  <2>1. ASSUME NEW i \in 1..Len(s)
        PROVE  s[i] \in ToSet(s \o t)
    <3>1. i \in 1..Len(s \o t)
      BY <1>0, <1>1
    <3> QED BY <3>1, <1>0, <1>2 DEF ToSet
  <2>2. ASSUME NEW i \in 1..Len(t)
        PROVE  t[i] \in ToSet(s \o t)
    <3>1. Len(s) + i \in 1..Len(s \o t)
      BY <1>0, <1>1
    <3> QED BY <3>1, <1>0, <1>3 DEF ToSet
  <2> QED BY <2>1, <2>2, <1>0 DEF ToSet
<1> QED BY <1>1, <1>2, <1>3, <1>4, <1>5

\* No line comes twice in what follows a sequence if none does in either and none is in both.
LEMMA ConcatIsInjective ==
  ASSUME NEW s \in Seq(Nat), NEW t \in Seq(Nat), IsInjective(s), IsInjective(t), ToSet(s) \cap ToSet(t) = {}
  PROVE  IsInjective(s \o t)
<1>1. /\ Len(s) \in Nat /\ Len(t) \in Nat /\ DOMAIN s = 1..Len(s) /\ DOMAIN t = 1..Len(t)
      /\ DOMAIN (s \o t) = 1..Len(s) + Len(t)
  BY ConcatProperties
<1>2. \A i \in DOMAIN (s \o t) : (s \o t)[i] = IF i <= Len(s) THEN s[i] ELSE t[i - Len(s)]
  BY <1>1, ConcatProperties
<1>3. ASSUME NEW i \in DOMAIN (s \o t)
      PROVE  \/ i \in DOMAIN s /\ (s \o t)[i] = s[i] /\ s[i] \in ToSet(s)
             \/ i \notin DOMAIN s /\ i - Len(s) \in DOMAIN t /\ (s \o t)[i] = t[i - Len(s)] /\ t[i - Len(s)] \in ToSet(t)
  <2>1. CASE i <= Len(s)
    BY <2>1, <1>1, <1>2 DEF ToSet
  <2>2. CASE ~(i <= Len(s))
    <3>1. i - Len(s) \in DOMAIN t
      BY <2>2, <1>1
    <3> QED BY <3>1, <2>2, <1>1, <1>2 DEF ToSet
  <2> QED BY <2>1, <2>2
<1> SUFFICES ASSUME NEW i \in DOMAIN (s \o t), NEW j \in DOMAIN (s \o t), (s \o t)[i] = (s \o t)[j]
             PROVE  i = j
  BY DEF IsInjective
<1>4. CASE i \in DOMAIN s /\ j \in DOMAIN s
  BY <1>4, <1>3 DEF IsInjective
<1>5. CASE i \notin DOMAIN s /\ j \notin DOMAIN s
  <2>1. i - Len(s) = j - Len(s)
    BY <1>5, <1>3 DEF IsInjective
  <2> QED BY <2>1, <1>1
<1>6. CASE (i \in DOMAIN s) # (j \in DOMAIN s)
  BY <1>6, <1>3
<1> QED BY <1>4, <1>5, <1>6

\* The last lines of a sequence that is too long, and where they were.
LEMMA LastLinesAre ==
  ASSUME NEW s \in Seq(Nat), Len(s) > MaxShown
  PROVE  /\ LastLines(s) \in Seq(Nat) /\ Len(LastLines(s)) = MaxShown
         /\ \A i \in 1..MaxShown : /\ Len(s) - MaxShown + i \in DOMAIN s
                                   /\ LastLines(s)[i] = s[Len(s) - MaxShown + i]
         /\ ToSet(LastLines(s)) \subseteq ToSet(s)
<1>1. Len(s) \in Nat /\ DOMAIN s = 1..Len(s) /\ MaxShown \in Nat /\ MaxShown > 0
  BY WatchBounds
<1>2. Len(s) - MaxShown + 1 \in 1..Len(s) /\ Len(s) \in 1..Len(s)
  BY <1>1
<1>3. /\ LastLines(s) \in Seq(Nat)
      /\ Len(LastLines(s)) = Len(s) - (Len(s) - MaxShown + 1) + 1
      /\ \A i \in 1..Len(s) - (Len(s) - MaxShown + 1) + 1 : LastLines(s)[i] = s[Len(s) - MaxShown + 1 + i - 1]
  BY SMTT(30), <1>1, <1>2, SubSeqProperties DEF LastLines
<1>4. Len(LastLines(s)) = MaxShown
  BY <1>1, <1>3
<1>5. ASSUME NEW i \in 1..MaxShown
      PROVE  Len(s) - MaxShown + i \in DOMAIN s /\ LastLines(s)[i] = s[Len(s) - MaxShown + i]
  <2>1. i \in 1..Len(s) - (Len(s) - MaxShown + 1) + 1
    BY <1>1
  <2>2. Len(s) - MaxShown + 1 + i - 1 = Len(s) - MaxShown + i
    BY <1>1
  <2>3. LastLines(s)[i] = s[Len(s) - MaxShown + i]
    BY <1>3, <2>1, <2>2
  <2> QED BY <1>1, <2>3
<1>6. DOMAIN LastLines(s) = 1..MaxShown
  BY <1>3, <1>4
<1>7. ToSet(LastLines(s)) \subseteq ToSet(s)
  BY <1>5, <1>6 DEF ToSet
<1> QED BY <1>3, <1>4, <1>5, <1>7

\* A sequence of lines that the screen has room for.
Fits(s) == s \in Seq(Nat) /\ IsInjective(s) /\ Len(s) <= MaxShown

\* In order, and what is left out of the lines is older than what is there, which fills the screen.
Newest(s, lines) ==
  /\ Increasing(s)
  /\ \A x \in lines \ ToSet(s) : Len(s) = MaxShown /\ \A i \in DOMAIN s : x < s[i]

\* Merged before it is cut to the size of the screen.
Sorted(old, fresh) ==
  IF viewer = "panel" /\ Unsorted(old, fresh) THEN InOrder(ToSet(old \o fresh)) ELSE old \o fresh

\* As many lines are in a sequence as it has places, if none comes twice.
LEMMA CountOfLines ==
  ASSUME NEW s \in Seq(Nat), IsInjective(s)
  PROVE  ToSet(s) \in SUBSET Nat /\ IsFiniteSet(ToSet(s)) /\ Cardinality(ToSet(s)) = Len(s)
<1>1. Len(s) \in Nat /\ DOMAIN s = 1..Len(s) /\ ToSet(s) \in SUBSET Nat
  BY DEF ToSet
<1>2. IsFiniteSet(1..Len(s)) /\ Cardinality(1..Len(s)) = Len(s)
  BY <1>1, FS_Interval
<1>3. s \in [1..Len(s) -> ToSet(s)]
  BY <1>1 DEF ToSet
<1>4. s \in Surjection(1..Len(s), ToSet(s))
  BY <1>1, <1>3 DEF Surjection, ToSet
<1>5. s \in Injection(1..Len(s), ToSet(s))
  BY <1>1, <1>3 DEF Injection, IsInjective
<1> QED BY <1>1, <1>2, <1>4, <1>5, FS_Surjection

\* What is new is put to what is there; in the panel it is in order.
LEMMA SortedIs ==
  ASSUME NEW old \in Seq(Nat), IsInjective(old), NEW F \in SUBSET Nat, IsFiniteSet(F), F \cap ToSet(old) = {}, F # {}
  PROVE  LET s == Sorted(old, InOrder(F)) IN
         /\ s \in Seq(Nat) /\ IsInjective(s) /\ ToSet(s) = ToSet(old) \cup F /\ Len(s) > Len(old)
         /\ viewer = "panel" /\ Increasing(old) => Increasing(s)
<1> DEFINE fresh == InOrder(F)  all == old \o fresh  s == Sorted(old, fresh)
<1>1. /\ fresh \in Seq(Nat) /\ Len(fresh) = Cardinality(F) /\ Increasing(fresh) /\ ToSet(fresh) = F
      /\ IsInjective(fresh)
  <2>1. fresh \in Seq(F) /\ Len(fresh) = Cardinality(F) /\ Increasing(fresh) /\ ToSet(fresh) = F
    BY InOrderIs
  <2>2. fresh \in Seq(Nat)
    BY <2>1, SeqMonotonic
  <2> HIDE DEF fresh
  <2> QED BY <2>1, <2>2, IncreasingIsInjective
<1> HIDE DEF fresh
<1>2. Len(fresh) \in Nat /\ Len(old) \in Nat /\ Len(fresh) > 0
  <2>1. Len(fresh) \in Nat /\ Len(old) \in Nat /\ DOMAIN fresh = 1..Len(fresh)
    BY <1>1
  <2>2. Len(fresh) # 0
    <3> SUFFICES ASSUME Len(fresh) = 0 PROVE FALSE
      OBVIOUS
    <3>1. DOMAIN fresh = {}
      BY <2>1
    <3> QED BY <3>1, <1>1 DEF ToSet
  <2> QED BY <2>1, <2>2
<1>3. /\ all \in Seq(Nat) /\ Len(all) = Len(old) + Len(fresh) /\ ToSet(all) = ToSet(old) \cup F
      /\ \A i \in 1..Len(old) : all[i] = old[i]
      /\ \A i \in 1..Len(fresh) : all[Len(old) + i] = fresh[i]
  <2>1. /\ all \in Seq(Nat) /\ Len(all) = Len(old) + Len(fresh)
        /\ \A i \in 1..Len(old) : all[i] = old[i]
        /\ \A i \in 1..Len(fresh) : all[Len(old) + i] = fresh[i]
        /\ ToSet(all) = ToSet(old) \cup ToSet(fresh)
    BY <1>1, ConcatIs
  <2> HIDE DEF all
  <2> QED BY <2>1, <1>1
<1>4. IsInjective(all)
  BY <1>1, ConcatIsInjective
<1> HIDE DEF all
<1>5. /\ ToSet(all) \in SUBSET Nat /\ IsFiniteSet(ToSet(all)) /\ Cardinality(ToSet(all)) = Len(all)
  BY <1>3, <1>4, CountOfLines
<1>6. CASE viewer = "panel" /\ Unsorted(old, fresh)
  <2>1. s = InOrder(ToSet(all))
    BY <1>6 DEF Sorted, all
  <2>2. s \in Seq(ToSet(all)) /\ Len(s) = Len(all) /\ Increasing(s) /\ ToSet(s) = ToSet(all)
    BY <2>1, <1>5, InOrderIs
  <2> HIDE DEF s
  <2>3. s \in Seq(Nat)
    BY <2>2, <1>5, SeqMonotonic
  <2>4. IsInjective(s)
    BY <2>2, <2>3, IncreasingIsInjective
  <2>5. Len(s) > Len(old)
    BY <2>2, <1>2, <1>3
  <2> QED BY <2>2, <2>3, <2>4, <2>5, <1>3 DEF s, fresh
<1>7. CASE ~(viewer = "panel" /\ Unsorted(old, fresh))
  <2>1. s = all
    BY <1>7 DEF Sorted, all
  <2>2. ASSUME viewer = "panel", Increasing(old)
        PROVE  Increasing(all)
    <3>1. DOMAIN old = 1..Len(old) /\ DOMAIN fresh = 1..Len(fresh) /\ DOMAIN all = 1..Len(old) + Len(fresh)
      BY <1>1, <1>3
    <3> SUFFICES ASSUME NEW i \in DOMAIN all, NEW j \in DOMAIN all, i < j
                 PROVE  all[i] < all[j]
      BY DEF Increasing
    <3>2. i \in Nat /\ j \in Nat
      BY <3>1, <1>2
    <3>3. CASE j <= Len(old)
      <4>1. i \in 1..Len(old) /\ j \in 1..Len(old)
        BY <3>1, <3>2, <3>3, <1>2
      <4> QED BY <4>1, <3>1, <2>2, <1>3 DEF Increasing
    <3>4. CASE i > Len(old)
      <4>1. i - Len(old) \in 1..Len(fresh) /\ j - Len(old) \in 1..Len(fresh) /\ i - Len(old) < j - Len(old)
        BY <3>1, <3>2, <3>4, <1>2
      <4>2. all[Len(old) + (i - Len(old))] = fresh[i - Len(old)] /\ all[Len(old) + (j - Len(old))] = fresh[j - Len(old)]
        BY <4>1, <1>3
      <4>3. Len(old) + (i - Len(old)) = i /\ Len(old) + (j - Len(old)) = j
        BY <1>2, <3>2
      <4> QED BY <4>1, <4>2, <4>3, <3>1, <1>1 DEF Increasing
    <3>5. CASE i <= Len(old) /\ j > Len(old)
      <4>1. i \in 1..Len(old) /\ Len(old) \in 1..Len(old) /\ j - Len(old) \in 1..Len(fresh) /\ 1 \in 1..Len(fresh)
        BY <3>1, <3>2, <3>5, <1>2
      <4>2. Len(old) + (j - Len(old)) = j
        BY <1>2, <3>2
      <4>3. all[i] = old[i] /\ all[j] = fresh[j - Len(old)]
        BY <4>1, <4>2, <1>3
      <4>4. /\ old[i] \in Nat /\ old[Len(old)] \in Nat /\ fresh[1] \in Nat /\ fresh[j - Len(old)] \in Nat
        BY SMTT(30), <4>1, <1>1, <3>1
      <4>5. old[i] <= old[Len(old)]
        <5>1. CASE i = Len(old)
          BY <5>1, <4>4
        <5>2. CASE i # Len(old)
          <6>1. i \in DOMAIN old /\ Len(old) \in DOMAIN old /\ i < Len(old)
            BY <5>2, <4>1, <3>1
          <6>2. old[i] < old[Len(old)]
            BY <6>1, <2>2, IncreasingIs
          <6> QED BY <6>2, <4>4
        <5> QED BY <5>1, <5>2
      <4>6. fresh[1] <= fresh[j - Len(old)]
        <5>1. CASE j - Len(old) = 1
          BY <5>1, <4>4
        <5>2. CASE j - Len(old) # 1
          <6>1. 1 < j - Len(old) /\ 1 \in DOMAIN fresh /\ j - Len(old) \in DOMAIN fresh
            BY <5>2, <4>1, <3>1
          <6>2. fresh[1] < fresh[j - Len(old)]
            BY <6>1, <1>1, IncreasingIs
          <6> QED BY <6>2, <4>4
        <5> QED BY <5>1, <5>2
      <4>7. old # <<>> /\ Last(old) = old[Len(old)]
        BY <4>1 DEF Last
      <4>8. ~(fresh[1] < old[Len(old)])
        BY <4>7, <2>2, <1>7 DEF Unsorted
      <4>9. fresh[1] # old[Len(old)]
        <5>1. fresh[1] \in F /\ old[Len(old)] \in ToSet(old)
          BY <4>1, <3>1, <1>1 DEF ToSet
        <5> QED BY <5>1
      <4> QED BY <4>3, <4>4, <4>5, <4>6, <4>8, <4>9
    <3> QED BY <3>2, <3>3, <3>4, <3>5, <1>2
  <2>3. Len(all) > Len(old)
    BY <1>2, <1>3
  <2> QED BY <2>1, <2>2, <2>3, <1>3, <1>4 DEF fresh
<1> QED BY <1>6, <1>7

\* What is merged is cut to the size of the screen.
LEMMA MergedIsCut ==
  ASSUME NEW old, NEW fresh
  PROVE  LET s == Sorted(old, fresh) IN Merged(old, fresh) = IF Len(s) > MaxShown THEN LastLines(s) ELSE s
BY DEF Merged, Sorted

\* A line that was shown or is new is on the screen afterwards, no line twice.
LEMMA MergedFits ==
  ASSUME NEW old, Fits(old), NEW F \in SUBSET Nat, IsFiniteSet(F), F \cap ToSet(old) = {}, F # {}
  PROVE  LET m == Merged(old, InOrder(F)) IN Fits(m) /\ ToSet(m) \subseteq ToSet(old) \cup F
<1> DEFINE s == Sorted(old, InOrder(F))  m == Merged(old, InOrder(F))
<1>1. s \in Seq(Nat) /\ IsInjective(s) /\ ToSet(s) = ToSet(old) \cup F /\ m = IF Len(s) > MaxShown THEN LastLines(s) ELSE s
  BY SortedIs, MergedIsCut DEF Fits
<1> HIDE DEF s, m
<1>2. CASE Len(s) > MaxShown
  <2>1. /\ m \in Seq(Nat) /\ Len(m) = MaxShown /\ ToSet(m) \subseteq ToSet(s)
        /\ \A i \in 1..MaxShown : Len(s) - MaxShown + i \in DOMAIN s /\ m[i] = s[Len(s) - MaxShown + i]
    BY <1>1, <1>2, LastLinesAre
  <2>2. DOMAIN m = 1..MaxShown /\ MaxShown \in Nat /\ Len(s) \in Nat
    BY <2>1, <1>1, WatchBounds
  <2>3. IsInjective(m)
    <3> SUFFICES ASSUME NEW i \in 1..MaxShown, NEW j \in 1..MaxShown, m[i] = m[j]
                 PROVE  i = j
      BY <2>2 DEF IsInjective
    <3>1. Len(s) - MaxShown + i = Len(s) - MaxShown + j
      BY <2>1, <1>1 DEF IsInjective
    <3> QED BY <3>1, <2>2
  <2> QED BY <2>1, <2>2, <2>3, <1>1 DEF Fits, m
<1>3. CASE ~(Len(s) > MaxShown)
  <2>1. Len(s) <= MaxShown
    BY <1>3, <1>1, WatchBounds
  <2> QED BY <1>1, <1>3, <2>1 DEF Fits, m
<1> QED BY <1>2, <1>3

\* The panel shows the newest of the lines that have come, whatever comes next.
LEMMA MergedIsNewest ==
  ASSUME NEW old, Fits(old), NEW F \in SUBSET Nat, IsFiniteSet(F), F # {},
         NEW lines \in SUBSET Nat, ToSet(old) \subseteq lines, F \cap lines = {},
         Newest(old, lines), viewer = "panel"
  PROVE  Newest(Merged(old, InOrder(F)), lines \cup F)
<1> DEFINE s == Sorted(old, InOrder(F))  m == Merged(old, InOrder(F))
<1>1. /\ s \in Seq(Nat) /\ IsInjective(s) /\ ToSet(s) = ToSet(old) \cup F /\ Len(s) > Len(old) /\ Increasing(s)
      /\ m = IF Len(s) > MaxShown THEN LastLines(s) ELSE s
  BY SortedIs, MergedIsCut DEF Fits, Newest
<1>2. Fits(m)
  BY MergedFits
<1> HIDE DEF s, m
<1>3. /\ Len(s) \in Nat /\ Len(old) \in Nat /\ MaxShown \in Nat \ {0} /\ DOMAIN s = 1..Len(s) /\ DOMAIN old = 1..Len(old)
      /\ Len(m) \in Nat /\ DOMAIN m = 1..Len(m) /\ m \in Seq(Nat)
  BY <1>1, <1>2, WatchBounds DEF Fits
<1>4. CASE ~(Len(s) > MaxShown)
  <2>1. m = s /\ Len(old) < MaxShown
    BY <1>4, <1>1, <1>3
  <2>2. lines \ ToSet(old) = {}
    <3> SUFFICES ASSUME NEW x \in lines \ ToSet(old) PROVE FALSE
      OBVIOUS
    <3>1. Len(old) = MaxShown
      BY DEF Newest
    <3> QED BY <3>1, <2>1, <1>3
  <2> QED BY <2>1, <2>2, <1>1 DEF Newest, m
<1>5. CASE Len(s) > MaxShown
  <2>1. /\ m = LastLines(s) /\ Len(m) = MaxShown
        /\ \A i \in 1..MaxShown : Len(s) - MaxShown + i \in DOMAIN s /\ m[i] = s[Len(s) - MaxShown + i]
    BY <1>1, <1>5, LastLinesAre
  <2>2. Increasing(m)
    <3> SUFFICES ASSUME NEW i \in 1..MaxShown, NEW j \in 1..MaxShown, i < j
                 PROVE  m[i] < m[j]
      BY <2>1, <1>3 DEF Increasing
    <3>1. Len(s) - MaxShown + i < Len(s) - MaxShown + j
      BY <1>3
    <3> QED BY <3>1, <2>1, <1>1 DEF Increasing
  \* What is cut is older.
  <2>3. ASSUME NEW x \in ToSet(s), x \notin ToSet(m), NEW i \in 1..MaxShown
        PROVE  x < m[i]
    <3>1. PICK k \in 1..Len(s) : x = s[k]
      BY <1>3 DEF ToSet
    <3>2. k <= Len(s) - MaxShown
      <4> SUFFICES ASSUME ~(k <= Len(s) - MaxShown) PROVE FALSE
        OBVIOUS
      <4>1. k - (Len(s) - MaxShown) \in 1..MaxShown
        BY <1>3
      <4>2. Len(s) - MaxShown + (k - (Len(s) - MaxShown)) = k
        BY <1>3
      <4>3. m[k - (Len(s) - MaxShown)] = x
        BY <4>1, <4>2, <2>1, <3>1
      <4> QED BY <4>1, <4>3, <2>1, <2>3, <1>3 DEF ToSet
    <3>3. k < Len(s) - MaxShown + i
      BY <3>2, <1>3
    <3> QED BY <3>1, <3>3, <2>1, <1>1, <1>3 DEF Increasing
  \* So is what was cut before: the screen was full of newer lines.
  <2>4. ASSUME NEW x \in lines, x \notin ToSet(old), NEW i \in 1..MaxShown
        PROVE  x < m[i]
    <3>1. Len(old) = MaxShown /\ \A k \in DOMAIN old : x < old[k]
      BY <2>4 DEF Newest
    <3>2. m[i] \in Nat /\ x \in Nat
      BY SMTT(30), <1>3, <2>1
    <3> SUFFICES ASSUME m[i] <= x PROVE FALSE
      BY <3>2
    <3>3. ASSUME NEW k \in DOMAIN old
          PROVE  old[k] \in ToSet(m) /\ old[k] # m[i]
      <4>1. old[k] \in ToSet(s) /\ old[k] \in Nat /\ x < old[k]
        BY <3>1, <1>1, <1>3 DEF ToSet, Fits
      <4>2. ~(old[k] < m[i])
        BY <4>1, <3>2
      <4> QED BY <4>1, <4>2, <3>2, <2>3
    <3>4. m[i] \in ToSet(m) /\ m[i] \notin ToSet(old)
      BY <3>3, <1>3, <2>1 DEF ToSet
    <3>5. ToSet(old) \cup {m[i]} \subseteq ToSet(m)
      BY <3>3, <3>4 DEF ToSet
    <3>6. IsFiniteSet(ToSet(old)) /\ Cardinality(ToSet(old)) = MaxShown
      BY <3>1, CountOfLines DEF Fits
    <3>7. IsFiniteSet(ToSet(m)) /\ Cardinality(ToSet(m)) = MaxShown
      BY <1>2, <2>1, CountOfLines DEF Fits
    <3>8. Cardinality(ToSet(old) \cup {m[i]}) = MaxShown + 1
      BY <3>4, <3>6, FS_AddElement
    <3>9. MaxShown + 1 <= MaxShown
      BY <3>5, <3>7, <3>8, FS_Subset
    <3> QED BY <3>9, <1>3
  <2>5. ASSUME NEW x \in (lines \cup F) \ ToSet(m), NEW i \in 1..MaxShown
        PROVE  x < m[i]
    <3>1. CASE x \in ToSet(s)
      BY <3>1, <2>3
    <3>2. CASE x \notin ToSet(s)
      <4>1. x \in lines /\ x \notin ToSet(old)
        BY <3>2, <1>1
      <4> QED BY <4>1, <2>4
    <3> QED BY <3>1, <3>2
  <2> QED BY <2>1, <2>2, <2>5, <1>3 DEF Newest, m
<1> QED BY <1>4, <1>5

\* The newest lines of a log are its end.
LEMMA NewestIsTheEnd ==
  ASSUME NEW s \in Seq(Nat), NEW n \in Nat, Len(s) <= MaxShown, ToSet(s) \subseteq 1..n, Newest(s, 1..n)
  PROVE  s = Lines(IF n > MaxShown THEN n - MaxShown + 1 ELSE 1, n)
<1>1. Len(s) \in Nat /\ DOMAIN s = 1..Len(s) /\ MaxShown \in Nat \ {0} /\ \A i \in DOMAIN s : s[i] \in 1..n
  BY WatchBounds DEF ToSet
<1>2. CASE Len(s) = 0
  <2>1. n = 0
    <3> SUFFICES ASSUME n # 0 PROVE FALSE
      OBVIOUS
    <3>1. ToSet(s) = {}
      BY <1>1, <1>2 DEF ToSet
    <3>2. 1 \in (1..n) \ ToSet(s)
      BY <3>1
    <3> QED BY <3>2, <1>1, <1>2 DEF Newest
  <2>2. s = <<>>
    BY <1>2
  <2>3. Lines(1, 0) = <<>>
    BY DEF Lines
  <2> QED BY <2>1, <2>2, <2>3, <1>1
<1>3. CASE Len(s) # 0
  <2> DEFINE c == s[1]  t == Lines(c, n)
  <2>1. 1 \in DOMAIN s /\ c \in 1..n
    BY <1>1, <1>3
  <2>2. t \in Seq(Nat) /\ Len(t) = n - c + 1 /\ DOMAIN t = 1..(n - c + 1) /\ \A i \in 1..(n - c + 1) : t[i] = c + i - 1
    <3>1. n - c + 1 \in Nat
      BY <2>1
    <3>2. \A i \in 1..(n - c + 1) : c + i - 1 \in Nat
      BY <2>1
    <3> HIDE DEF c
    <3> QED BY <3>1, <3>2 DEF Lines
  <2>3. Increasing(t)
    <3> HIDE DEF t
    <3> QED BY <2>1, <2>2 DEF Increasing
  <2>4. \A x \in c..n : x \in ToSet(s)
    <3> SUFFICES ASSUME NEW x \in c..n, x \notin ToSet(s) PROVE FALSE
      OBVIOUS
    <3>1. x \in (1..n) \ ToSet(s)
      BY <2>1
    <3>2. x < c
      BY <3>1, <2>1 DEF Newest
    <3> QED BY <3>2, <2>1
  <2>5. \A x \in ToSet(s) : x \in c..n
    <3> SUFFICES ASSUME NEW i \in DOMAIN s PROVE s[i] \in c..n
      BY DEF ToSet
    <3>1. c <= s[i]
      <4>1. CASE i = 1
        BY <4>1, <1>1
      <4>2. CASE i # 1
        <5>1. 1 < i /\ 1 \in DOMAIN s
          BY <4>2, <1>1
        <5>2. Increasing(s)
          BY DEF Newest
        <5>3. s[1] < s[i]
          BY <5>1, <5>2 DEF Increasing
        <5>4. s[1] \in 1..n /\ s[i] \in 1..n
          BY <5>1, <1>1
        <5> QED BY <5>3, <5>4
      <4> QED BY <4>1, <4>2
    <3> QED BY <3>1, <1>1, <2>1
  <2>6. ToSet(t) = c..n
    <3>1. \A x \in c..n : x - c + 1 \in 1..(n - c + 1) /\ c + (x - c + 1) - 1 = x
      BY <2>1
    <3>2. \A i \in 1..(n - c + 1) : c + i - 1 \in c..n
      BY <2>1
    <3> HIDE DEF t, c
    <3> QED BY <2>2, <3>1, <3>2 DEF ToSet
  <2>7. s = t
    <3>1. ToSet(s) = ToSet(t)
      BY <2>4, <2>5, <2>6
    <3> HIDE DEF t
    <3> QED BY <3>1, <2>2, <2>3, IncreasingIsUnique DEF Newest
  <2>8. Len(s) = n - c + 1
    BY <2>2, <2>7
  <2>9. c # 1 => Len(s) = MaxShown
    <3> SUFFICES ASSUME c # 1 PROVE Len(s) = MaxShown
      OBVIOUS
    <3>1. c - 1 \in 1..n /\ c - 1 \notin ToSet(s)
      BY <2>1, <2>5
    <3> QED BY <3>1 DEF Newest
  <2>10. c = IF n > MaxShown THEN n - MaxShown + 1 ELSE 1
    <3> HIDE DEF c, t
    <3> QED BY <2>8, <2>9, <2>1, <1>1
  <2> QED BY <2>7, <2>10
<1> QED BY <1>2, <1>3

-----------------------------------------------------------------------------
(* The invariants.                                                         *)

Join(c) == c.op = "WatchRun"
IsAck(m) == m.kind = "ack"
Carries(m, n) == m.kind = "lines" /\ m.from <= n /\ n <= m.to

\* A sync that has yet to join the group, and a caller that has asked to be joined.
AtWork(i) == syncs[i] \in {"lists", "loop"}
HasAsked(caller) == caller = 0 \/ (caller \in DOMAIN syncs /\ ~AtWork(caller))

\* One sync for every connection made.
OneEach == Len(syncs) = drops + (IF conn = "up" THEN 1 ELSE 0)

\* Batches are of lines that were sent; joins and their answers are of callers that asked;
\* who asked to leave has stopped watching.
InTransit ==
  /\ \A m \in ToSet(down) : m.kind = "lines" => m.from >= 1 /\ m.to <= sent
  /\ \A m \in ToSet(down) : IsAck(m) => HasAsked(m.caller)
  /\ \A c \in ToSet(up) : Join(c) => HasAsked(c.caller)
  /\ \A c \in ToSet(up) : ~Join(c) => watch = "off"

\* The screen: no line twice, and in the panel the newest of those that have come, in order.
Screen ==
  /\ IsInjective(shown)
  /\ viewer = "panel" => Newest(shown, seen)

\* A join of the group is on its way, or a connection or a sync that will bring one; with the
\* answer to it comes a fetch of all that is logged.
Coming ==
  \/ conn # "up"
  \/ \E i \in DOMAIN syncs : AtWork(i)
  \/ \E c \in ToSet(up) : Join(c)
Fetching == Coming \/ asked > 0 \/ \E m \in ToSet(down) : IsAck(m)

\* Who watches is in the group, or comes to it.
Joined == Registered /\ fails = 0 => member \/ Coming

\* Who watches misses no line: it has come, it will be fetched, it is on its way, or it will be
\* sent to the group this connection is in.
OnItsWay(n) ==
  \/ Fetching
  \/ \E a \in answers : n <= a
  \/ \E m \in ToSet(down) : Carries(m, n)
  \/ member /\ n > sent
Covered == Registered /\ fails = 0 => \A n \in 1..logged : n \in seen \/ OnItsWay(n)

InTime == TypeOK /\ OneEach /\ InTransit /\ Screen
Inv == InTime /\ Joined /\ Covered

-----------------------------------------------------------------------------
(* Messages.                                                               *)

\* The members of a queue that got longer, or shorter, and of an empty one.
LEMMA QueueMembers ==
  ASSUME NEW S, NEW s \in Seq(S)
  PROVE  /\ \A m \in S : ToSet(Append(s, m)) = ToSet(s) \cup {m}
         /\ s # <<>> => ToSet(s) = ToSet(Tail(s)) \cup {Head(s)}
         /\ ToSet(s) \subseteq S
         /\ s = <<>> => ToSet(s) = {}
<1>1. ASSUME NEW m \in S
      PROVE  ToSet(Append(s, m)) = ToSet(s) \cup {m}
  <2> DEFINE t == Append(s, m)
  <2>1. /\ Len(s) \in Nat /\ DOMAIN s = 1..Len(s) /\ DOMAIN t = 1..(Len(s) + 1)
        /\ t[Len(s) + 1] = m /\ \A i \in 1..Len(s) : t[i] = s[i]
    OBVIOUS
  <2> HIDE DEF t
  <2>2. Len(s) + 1 \in DOMAIN t /\ \A i \in 1..Len(s) : i \in DOMAIN t
    BY <2>1
  <2>3. \A i \in DOMAIN t : i = Len(s) + 1 \/ i \in 1..Len(s)
    BY <2>1
  <2> QED BY <2>1, <2>2, <2>3 DEF ToSet
<1>2. ASSUME s # <<>>
      PROVE  ToSet(s) = ToSet(Tail(s)) \cup {Head(s)}
  <2> DEFINE t == Tail(s)
  <2>1. 1 \in 1..Len(s) /\ Head(s) = s[1] /\ \A i \in 1..Len(t) : i + 1 \in 2..Len(s) /\ t[i] = s[i + 1]
    BY <1>2, TailPlaces
  <2>2. Len(t) = Len(s) - 1 /\ DOMAIN t = 1..Len(t) /\ DOMAIN s = 1..Len(s) /\ Len(s) \in Nat
    BY <1>2
  <2> HIDE DEF t
  <2>3. ASSUME NEW i \in DOMAIN s, i # 1
        PROVE  i - 1 \in DOMAIN t /\ t[i - 1] = s[i]
    <3>1. i - 1 \in 1..Len(t) /\ (i - 1) + 1 = i
      BY <2>2, <2>3
    <3> QED BY <3>1, <2>1, <2>2
  <2>4. ASSUME NEW i \in DOMAIN t
        PROVE  i + 1 \in DOMAIN s /\ s[i + 1] = t[i]
    BY <2>1, <2>2
  <2>5. \A x \in ToSet(s) : x = s[1] \/ x \in ToSet(t)
    BY <2>3 DEF ToSet
  <2>6. \A x \in ToSet(t) : x \in ToSet(s)
    BY <2>4 DEF ToSet
  <2>7. s[1] \in ToSet(s)
    BY <2>1, <2>2 DEF ToSet
  <2> QED BY <2>1, <2>5, <2>6, <2>7 DEF t
<1>3. ToSet(s) \subseteq S /\ (s = <<>> => ToSet(s) = {})
  BY DEF ToSet
<1> QED BY <1>1, <1>2, <1>3

\* What the messages are made of.
LEMMA MessageParts ==
  /\ \A a, b \in Nat : Batch(a, b) \in Messages /\ Batch(a, b).kind = "lines" /\ Batch(a, b).from = a /\ Batch(a, b).to = b
  /\ \A n \in Nat : Ack(n) \in Messages /\ IsAck(Ack(n)) /\ Ack(n).kind # "lines" /\ Ack(n).caller = n
  /\ \A n \in Nat : /\ Call("WatchRun", n) \in Invocations /\ Call("WatchRun", n).caller = n
                    /\ Join(Call("WatchRun", n))
                    /\ Call("UnwatchRun", n) \in Invocations /\ ~Join(Call("UnwatchRun", n))
  /\ \A m \in Messages : /\ m.kind \in {"lines", "ack"}
                         /\ m.kind = "lines" => m.from \in Nat /\ m.to \in Nat /\ ~IsAck(m)
                         /\ m.kind = "ack" => m.caller \in Nat
  /\ \A c \in Invocations : c.caller \in Nat
BY DEF Messages, Invocations, Batch, Ack, Call, IsAck, Join

\* What an answer or a batch does to the lines that have come, and to the screen.
LEMMA LinesCome ==
  ASSUME TypeOK, Screen, NEW lines \in SUBSET (1..logged), AppendLines(lines)
  PROVE  /\ seen' \subseteq 1..logged /\ seen \subseteq seen'
         /\ Registered => seen' = seen \cup lines
         /\ shown' \in Seq(seen') /\ Len(shown') <= MaxShown /\ IsInjective(shown')
         /\ viewer = "panel" => Newest(shown', seen')
<1> DEFINE F == lines \ seen  fresh == InOrder(F)
<1>1. /\ logged \in Nat /\ F \in SUBSET Nat /\ IsFiniteSet(F) /\ F \cap seen = {}
      /\ seen \in SUBSET Nat /\ shown \in Seq(Nat) /\ ToSet(shown) \subseteq seen
  <2>1. logged \in Nat /\ seen \subseteq 1..logged /\ shown \in Seq(seen)
    BY DEF TypeOK
  <2>2. F \subseteq 1..logged /\ IsFiniteSet(1..logged)
    BY <2>1, FS_Interval
  <2>3. IsFiniteSet(F)
    BY <2>2, FS_Subset
  <2>4. shown \in Seq(Nat)
    <3>1. seen \subseteq Nat
      BY <2>1
    <3> QED BY <3>1, <2>1, SeqMonotonic
  <2>5. ToSet(shown) \subseteq seen
    BY <2>1 DEF ToSet
  <2> QED BY <2>1, <2>2, <2>3, <2>4, <2>5
<1>2. fresh \in Seq(F) /\ ToSet(fresh) = F
  BY <1>1, InOrderIs
<1>3. fresh = <<>> <=> F = {}
  <2> HIDE DEF fresh, F
  <2>1. fresh = <<>> => F = {}
    BY <1>2, QueueMembers
  <2>2. F = {} => fresh = <<>>
    BY <1>2
  <2> QED BY <2>1, <2>2
<1>4. CASE (viewer = "panel" /\ watch = "off") \/ fresh = <<>>
  <2>1. seen' = seen /\ shown' = shown
    BY <1>4 DEF AppendLines
  <2>2. Registered => F = {}
    BY <1>4, <1>3 DEF Registered
  <2> QED BY <2>1, <2>2 DEF TypeOK, Screen
<1>5. CASE ~((viewer = "panel" /\ watch = "off") \/ fresh = <<>>)
  <2>1. seen' = seen \cup F /\ shown' = Merged(shown, fresh)
    BY <1>5, <1>2 DEF AppendLines
  <2>2. F # {}
    BY <1>5, <1>3
  <2>3. Fits(shown)
    BY <1>1 DEF Fits, Screen, TypeOK
  <2>4. Fits(shown') /\ ToSet(shown') \subseteq seen'
    <3>1. Fits(Merged(shown, fresh)) /\ ToSet(Merged(shown, fresh)) \subseteq ToSet(shown) \cup F
      <4>1. F \in SUBSET Nat /\ IsFiniteSet(F) /\ F \cap ToSet(shown) = {} /\ fresh = InOrder(F)
        BY <1>1
      <4> HIDE DEF fresh, F
      <4> QED BY <2>2, <2>3, <4>1, MergedFits
    <3> QED BY <3>1, <2>1, <1>1
  <2>5. viewer = "panel" => Newest(shown', seen')
    <3>1. viewer = "panel" => Newest(Merged(shown, fresh), seen \cup F)
      BY <1>1, <2>2, <2>3, MergedIsNewest DEF Screen
    <3> QED BY <3>1, <2>1
  <2>6. shown' \in Seq(seen')
    <3>1. shown' \in Seq(Nat) /\ \A i \in DOMAIN shown' : shown'[i] \in seen'
      BY <2>4 DEF Fits, ToSet
    <3> QED BY <3>1
  <2> QED BY <2>1, <2>4, <2>5, <2>6, <1>1 DEF Fits, TypeOK
<1> QED BY <1>4, <1>5

\* What the screen depends on.
ScreenStays == UNCHANGED <<viewer, seen, shown>>

\* The screen is as it was where a step does not touch it.
LEMMA ScreenKept ==
  ASSUME Screen, ScreenStays
  PROVE  Screen'
BY DEF Screen, ScreenStays

\* Types, syncs, messages and the screen are right at first.
LEMMA InTimeInit == Init => InTime
<1> SUFFICES ASSUME Init PROVE InTime
  OBVIOUS
<1>1. TypeOK
  <2>1. /\ up \in Seq(Invocations) /\ down \in Seq(Messages) /\ shown \in Seq(seen) /\ Len(shown) = 0
        /\ syncs \in Seq({"lists", "loop", "await", "done", "failed"}) /\ Len(syncs) = 0
    BY DEF Init
  <2>2. 0 \in 0..MaxLogged /\ 0 \in 0..MaxFails /\ 0 \in 0..MaxDrops /\ 0 <= MaxDrops + 1 /\ 0 <= MaxShown
    BY WatchBounds
  <2>3. logged = 0 /\ sent = 0 /\ asked = 0 /\ answers = {} /\ seen = {} /\ fails = 0 /\ drops = 0
    BY DEF Init
  <2>4. logged \in 0..MaxLogged /\ sent \in 0..logged /\ fails \in 0..MaxFails /\ drops \in 0..MaxDrops
    BY <2>2, <2>3
  <2>5. Len(shown) <= MaxShown /\ Len(syncs) <= MaxDrops + 1
    BY <2>1, <2>2
  <2>6. /\ conn \in {"connecting", "up", "down"} /\ over \in BOOLEAN /\ member \in BOOLEAN
        /\ viewer \in {"panel", "terminal"} /\ watch \in {"none", "joining", "on", "off"}
    BY DEF Init
  <2> QED BY <2>1, <2>3, <2>4, <2>5, <2>6 DEF TypeOK
<1>2. OneEach
  BY DEF Init, OneEach
<1>3. InTransit
  BY DEF Init, InTransit, ToSet
<1>4. Screen
  <2>1. shown = <<>> /\ seen = {}
    BY DEF Init
  <2>2. IsInjective(shown) /\ Increasing(shown)
    BY <2>1 DEF IsInjective, Increasing
  <2> QED BY <2>1, <2>2 DEF Screen, Newest
<1> QED BY <1>1, <1>2, <1>3, <1>4 DEF InTime

\* What the syncs and the messages of a state are, for the steps.
LEMMA Facts ==
  ASSUME InTime
  PROVE  /\ Len(syncs) \in Nat /\ DOMAIN syncs = 1..Len(syncs)
         /\ logged \in Nat /\ sent \in Nat /\ sent <= logged /\ asked \in Nat /\ fails \in Nat /\ drops \in Nat
         /\ 0 \notin DOMAIN syncs
         /\ ToSet(up) \subseteq Invocations /\ ToSet(down) \subseteq Messages
         /\ up # <<>> => Head(up) \in ToSet(up) /\ Head(up) \in Invocations /\ Tail(up) \in Seq(Invocations)
         /\ down # <<>> => Head(down) \in ToSet(down) /\ Head(down) \in Messages /\ Tail(down) \in Seq(Messages)
<1>1. TypeOK
  BY DEF InTime
<1>2. Len(syncs) \in Nat /\ DOMAIN syncs = 1..Len(syncs)
  BY <1>1 DEF TypeOK
<1>3. up \in Seq(Invocations) /\ down \in Seq(Messages)
  BY <1>1 DEF TypeOK
<1>4. /\ ToSet(up) \subseteq Invocations
      /\ up # <<>> => Head(up) \in ToSet(up) /\ Tail(up) \in Seq(Invocations)
  BY <1>3, QueueMembers, TailType
<1>5. /\ ToSet(down) \subseteq Messages
      /\ down # <<>> => Head(down) \in ToSet(down) /\ Tail(down) \in Seq(Messages)
  BY <1>3, QueueMembers, TailType
<1>6. logged \in Nat /\ sent \in Nat /\ sent <= logged /\ asked \in Nat /\ fails \in Nat /\ drops \in Nat
  BY <1>1, WatchBounds DEF TypeOK
<1> QED BY <1>2, <1>4, <1>5, <1>6

\* A connection that is lost ends the syncs that wait for it; they stay syncs, and as many.
LEMMA LostSyncs ==
  ASSUME TypeOK, Dropped
  PROVE  /\ syncs' \in Seq({"lists", "loop", "await", "done", "failed"}) /\ Len(syncs') = Len(syncs)
<1> DEFINE t == [i \in DOMAIN syncs |-> IF syncs[i] = "await" THEN "failed" ELSE syncs[i]]
<1>1. syncs \in Seq({"lists", "loop", "await", "done", "failed"}) /\ Len(syncs) \in Nat /\ DOMAIN syncs = 1..Len(syncs)
  BY DEF TypeOK
<1>2. \A i \in 1..Len(syncs) : (IF syncs[i] = "await" THEN "failed" ELSE syncs[i]) \in {"lists", "loop", "await", "done", "failed"}
  BY <1>1
<1>3. t \in Seq({"lists", "loop", "await", "done", "failed"}) /\ Len(t) = Len(syncs)
  BY <1>1, <1>2
<1> QED BY <1>3 DEF Dropped

\* One member of a sequence is changed.
LEMMA ExceptType ==
  ASSUME NEW S, NEW s \in Seq(S), NEW i, NEW x \in S
  PROVE  [s EXCEPT ![i] = x] \in Seq(S) /\ Len([s EXCEPT ![i] = x]) = Len(s)
<1>1. DOMAIN s = 1..Len(s) /\ Len(s) \in Nat
  OBVIOUS
<1>0. s \in [1..Len(s) -> S]
  BY <1>1
<1>2. [s EXCEPT ![i] = x] \in [1..Len(s) -> S]
  BY <1>0
<1> DEFINE t == [s EXCEPT ![i] = x]
<1> HIDE DEF t
<1>3. t \in [1..Len(s) -> S]
  BY <1>2 DEF t
<1>4. t \in Seq(S) /\ Len(t) = Len(s)
  BY <1>1, <1>3
<1> QED BY <1>4 DEF t

\* Every step keeps types, syncs, messages and the screen right.
LEMMA InTimeStep ==
  ASSUME InTime, [Next]_watchVars
  PROVE  InTime'
<1>0. /\ TypeOK /\ OneEach /\ InTransit /\ Screen
  BY DEF InTime
<1>f. /\ Len(syncs) \in Nat /\ DOMAIN syncs = 1..Len(syncs) /\ 0 \notin DOMAIN syncs
      /\ logged \in Nat /\ sent \in Nat /\ sent <= logged /\ asked \in Nat /\ fails \in Nat /\ drops \in Nat
      /\ up \in Seq(Invocations) /\ down \in Seq(Messages)
  BY <1>0, Facts DEF TypeOK
<1>q. /\ \A m \in Messages : ToSet(Append(down, m)) = ToSet(down) \cup {m}
      /\ \A c \in Invocations : ToSet(Append(up, c)) = ToSet(up) \cup {c}
  BY <1>f, QueueMembers
<1>1. CASE LogLine
  <2>1. TypeOK'
    BY <1>1, <1>0, <1>f, WatchBounds DEF TypeOK, LogLine, serverVars, wireVars, viewVars
  <2>2. OneEach'
    BY <1>1, <1>0, <1>f DEF OneEach, LogLine, serverVars, wireVars, viewVars
  <2>3. InTransit'
    BY <1>1, <1>0, <1>f, QueueMembers, MessageParts DEF InTransit, HasAsked, AtWork, LogLine, serverVars, wireVars, viewVars
  <2>4. Screen'
    BY <1>1, <1>0, ScreenKept DEF ScreenStays, LogLine, serverVars, wireVars, viewVars
  <2> QED BY <2>1, <2>2, <2>3, <2>4 DEF InTime
<1>2. CASE SendLine
  <2>1. TypeOK'
    <3>1. Batch(sent + 1, logged) \in Messages
      BY <1>f, MessageParts
    <3>2. down' \in Seq(Messages)
      BY <1>2, <1>f, <3>1, AppendType DEF SendLine
    <3> QED BY <1>2, <1>0, <1>f, <3>2 DEF TypeOK, SendLine, viewVars
  <2>2. OneEach'
    BY <1>2, <1>0, <1>f DEF OneEach, SendLine, serverVars, wireVars, viewVars
  <2>3. InTransit'
    BY <1>2, <1>0, <1>f, QueueMembers, MessageParts DEF InTransit, HasAsked, AtWork, SendLine, serverVars, wireVars, viewVars
  <2>4. Screen'
    BY <1>2, <1>0, ScreenKept DEF ScreenStays, SendLine, serverVars, wireVars, viewVars
  <2> QED BY <2>1, <2>2, <2>3, <2>4 DEF InTime
<1>3. CASE RunEnds
  <2>1. TypeOK'
    BY <1>3, <1>0, <1>f, WatchBounds DEF TypeOK, RunEnds, serverVars, wireVars, viewVars
  <2>2. OneEach'
    BY <1>3, <1>0, <1>f DEF OneEach, RunEnds, serverVars, wireVars, viewVars
  <2>3. InTransit'
    BY <1>3, <1>0, <1>f, QueueMembers, MessageParts DEF InTransit, HasAsked, AtWork, RunEnds, serverVars, wireVars, viewVars
  <2>4. Screen'
    BY <1>3, <1>0, ScreenKept DEF ScreenStays, RunEnds, serverVars, wireVars, viewVars
  <2> QED BY <2>1, <2>2, <2>3, <2>4 DEF InTime
<1>4. CASE HubTakes
  <2>1. TypeOK'
    <3>1. Tail(up) \in Seq(Invocations) /\ Head(up) \in Invocations
      BY <1>4, <1>0, Facts DEF HubTakes
    <3>2. Ack(Head(up).caller) \in Messages
      BY <3>1, MessageParts
    <3>3. down' \in Seq(Messages) /\ up' \in Seq(Invocations)
      BY <1>4, <1>f, <3>1, <3>2, AppendType DEF HubTakes
    <3>4. member' \in BOOLEAN
      BY <1>4 DEF HubTakes
    <3> QED BY <1>4, <1>0, <3>3, <3>4 DEF TypeOK, HubTakes, viewVars
  <2>2. OneEach'
    BY <1>4, <1>0, <1>f DEF OneEach, HubTakes, serverVars, wireVars, viewVars
  <2>3. InTransit'
    <3>1. Head(up) \in ToSet(up) /\ Head(up) \in Invocations /\ ToSet(up) = ToSet(Tail(up)) \cup {Head(up)}
      BY <1>4, <1>0, <1>f, Facts, QueueMembers DEF HubTakes
    <3>2. Head(up).op \in {"WatchRun", "UnwatchRun"} /\ Head(up).caller \in Nat
      BY <3>1 DEF Invocations
    <3>3. /\ up' = Tail(up)
          /\ Head(up).op = "WatchRun" => down' = Append(down, Ack(Head(up).caller))
          /\ Head(up).op # "WatchRun" => down' = down
          /\ UNCHANGED <<sent, syncs, watch>>
      BY <1>4 DEF HubTakes, viewVars
    <3>4. ToSet(up') \subseteq ToSet(up)
      BY <3>1, <3>3
    <3>5. \A m \in ToSet(down') : m \in ToSet(down) \/ (Join(Head(up)) /\ m = Ack(Head(up).caller))
      <4>1. CASE Head(up).op = "WatchRun"
        <5>1. ToSet(down') = ToSet(down) \cup {Ack(Head(up).caller)}
          <6>1. Ack(Head(up).caller) \in Messages
            BY <3>2, MessageParts
          <6> QED BY <6>1, <4>1, <3>3, <1>q
        <5> QED BY <5>1, <4>1 DEF Join
      <4>2. CASE Head(up).op # "WatchRun"
        BY <4>2, <3>3
      <4> QED BY <4>1, <4>2
    <3>6. Join(Head(up)) => HasAsked(Head(up).caller)
      BY <3>1, <1>0 DEF InTransit
    <3>7. /\ Ack(Head(up).caller).kind # "lines" /\ Ack(Head(up).caller).caller = Head(up).caller
      BY <3>2, MessageParts
    <3> QED BY <3>3, <3>4, <3>5, <3>6, <3>7, <1>0 DEF InTransit, HasAsked, AtWork
  <2>4. Screen'
    BY <1>4, <1>0, ScreenKept DEF ScreenStays, HubTakes, serverVars, wireVars, viewVars
  <2> QED BY <2>1, <2>2, <2>3, <2>4 DEF InTime
<1>5. CASE ReadLog
  <2>1. TypeOK'
    BY <1>5, <1>0, <1>f, WatchBounds DEF TypeOK, ReadLog, serverVars, wireVars, viewVars
  <2>2. OneEach'
    BY <1>5, <1>0, <1>f DEF OneEach, ReadLog, serverVars, wireVars, viewVars
  <2>3. InTransit'
    BY <1>5, <1>0, <1>f, QueueMembers, MessageParts DEF InTransit, HasAsked, AtWork, ReadLog, serverVars, wireVars, viewVars
  <2>4. Screen'
    BY <1>5, <1>0, ScreenKept DEF ScreenStays, ReadLog, serverVars, wireVars, viewVars
  <2> QED BY <2>1, <2>2, <2>3, <2>4 DEF InTime
<1>6. CASE Connected
  <2>1. TypeOK'
    <3>1. /\ syncs' \in Seq({"lists", "loop", "await", "done", "failed"})
          /\ Len(syncs') = Len(syncs) + 1 /\ Len(syncs) = drops
      BY <1>6, <1>0, <1>f DEF TypeOK, OneEach, Connected
    <3>2. Len(syncs') <= MaxDrops + 1
      BY <3>1, <1>0, WatchBounds DEF TypeOK
    <3> QED BY <1>6, <1>0, <3>1, <3>2 DEF TypeOK, Connected, serverVars, wireVars, viewVars
  <2>2. OneEach'
    BY <1>6, <1>0, <1>f DEF OneEach, Connected, serverVars, wireVars, viewVars
  <2>3. InTransit'
    BY <1>6, <1>0, <1>f, QueueMembers, MessageParts DEF InTransit, HasAsked, AtWork, Connected, serverVars, wireVars, viewVars
  <2>4. Screen'
    BY <1>6, <1>0, ScreenKept DEF ScreenStays, Connected, serverVars, wireVars, viewVars
  <2> QED BY <2>1, <2>2, <2>3, <2>4 DEF InTime
<1>7. CASE Dropped
  <2>1. TypeOK'
    <3>1. syncs' \in Seq({"lists", "loop", "await", "done", "failed"}) /\ Len(syncs') = Len(syncs)
      BY <1>7, <1>0, <1>f, LostSyncs DEF Dropped
    <3>2. up' \in Seq(Invocations) /\ down' \in Seq(Messages) /\ member' \in BOOLEAN
      <4>1. up' = <<>> /\ down' = <<>> /\ member' = FALSE
        BY <1>7 DEF Dropped
      <4>2. <<>> \in Seq(Invocations) /\ <<>> \in Seq(Messages)
        OBVIOUS
      <4> QED BY <4>1, <4>2
    <3>3. drops' \in 0..MaxDrops /\ asked' \in Nat
      BY <1>7, <1>f, <1>0, WatchBounds DEF Dropped, TypeOK
    <3>4. conn' = "down" /\ watch' \in {"none", "joining", "on", "off"}
      BY <1>7, <1>0 DEF Dropped, TypeOK
    <3> QED BY <1>7, <1>0, <3>1, <3>2, <3>3, <3>4 DEF TypeOK, Dropped
  <2>2. OneEach'
    BY <1>7, <1>0, <1>f, LostSyncs DEF OneEach, Dropped, serverVars, wireVars, viewVars
  <2>3. InTransit'
    <3>1. ToSet(up') = {} /\ ToSet(down') = {}
      BY <1>7 DEF Dropped, ToSet
    <3> QED BY <3>1 DEF InTransit
  <2>4. Screen'
    BY <1>7, <1>0, ScreenKept DEF ScreenStays, Dropped, serverVars, wireVars, viewVars
  <2> QED BY <2>1, <2>2, <2>3, <2>4 DEF InTime
<1>8. ASSUME NEW i \in DOMAIN syncs, SyncLists(i)
      PROVE  InTime'
  <2>1. TypeOK'
    <3>1. syncs' \in Seq({"lists", "loop", "await", "done", "failed"}) /\ Len(syncs') = Len(syncs)
      <4>1. syncs \in Seq({"lists", "loop", "await", "done", "failed"})
        BY <1>0 DEF TypeOK
      <4> QED BY <1>8, <4>1, ExceptType DEF SyncLists, viewVars
    <3>2. fails' \in 0..MaxFails
      BY SMTT(30), <1>8, <1>0, <1>f, WatchBounds DEF TypeOK, SyncLists
    <3> QED BY <1>8, <1>0, <3>1, <3>2 DEF TypeOK, SyncLists, serverVars, wireVars, viewVars
  <2>2. OneEach'
    BY <1>8, <1>0, <1>f DEF OneEach, SyncLists, serverVars, wireVars, viewVars
  <2>3. InTransit'
    BY SMTT(30), <1>8, <1>0, <1>f, QueueMembers, MessageParts DEF InTransit, HasAsked, AtWork, SyncLists, serverVars, wireVars, viewVars
  <2>4. Screen'
    BY <1>8, <1>0, ScreenKept DEF ScreenStays, SyncLists, serverVars, wireVars, viewVars
  <2> QED BY <2>1, <2>2, <2>3, <2>4 DEF InTime
<1>9. ASSUME NEW i \in DOMAIN syncs, SyncWatch(i)
      PROVE  InTime'
  <2>1. TypeOK'
    <3>1. syncs' \in Seq({"lists", "loop", "await", "done", "failed"}) /\ Len(syncs') = Len(syncs)
      <4>1. syncs \in Seq({"lists", "loop", "await", "done", "failed"})
        BY <1>0 DEF TypeOK
      <4> QED BY <1>9, <4>1, ExceptType DEF SyncWatch, viewVars
    <3>2. Call("WatchRun", i) \in Invocations
      BY <1>f, MessageParts
    <3>3. up' \in Seq(Invocations)
      BY <1>9, <1>f, <3>2, AppendType DEF SyncWatch
    <3> QED BY <1>9, <1>0, <3>1, <3>3 DEF TypeOK, SyncWatch, serverVars, viewVars
  <2>2. OneEach'
    BY <1>9, <1>0, <1>f DEF OneEach, SyncWatch, serverVars, wireVars, viewVars
  <2>3. InTransit'
    <3>1. /\ UNCHANGED <<down, sent, watch>>
          /\ DOMAIN syncs' = DOMAIN syncs
          /\ syncs'[i] \in {"done", "await", "failed"} /\ syncs[i] = "loop"
          /\ \A j \in DOMAIN syncs : j # i => syncs'[j] = syncs[j]
          /\ up' = up \/ up' = Append(up, Call("WatchRun", i))
      BY <1>9, <1>f DEF SyncWatch, serverVars, viewVars
    <3>2. Call("WatchRun", i) \in Invocations /\ Join(Call("WatchRun", i)) /\ Call("WatchRun", i).caller = i
      BY <1>f, MessageParts
    <3>3. \A c \in ToSet(up') : c \in ToSet(up) \/ c = Call("WatchRun", i)
      BY <3>1, <3>2, <1>q
    <3>4. \A j \in DOMAIN syncs : AtWork(j)' => AtWork(j)
      BY <3>1 DEF AtWork
    <3>5. \A n : HasAsked(n) => HasAsked(n)'
      BY <3>1, <3>4 DEF HasAsked
    <3>6. HasAsked(i)'
      BY <3>1 DEF HasAsked, AtWork
    <3>7. \A m \in ToSet(down') : m \in ToSet(down)
      BY <3>1
    <3>8. /\ \A m \in ToSet(down') : m.kind = "lines" => m.from >= 1 /\ m.to <= sent'
          /\ \A m \in ToSet(down') : IsAck(m) => HasAsked(m.caller)'
      BY <3>7, <3>1, <3>5, <1>0 DEF InTransit
    <3>9. /\ \A c \in ToSet(up') : Join(c) => HasAsked(c.caller)'
          /\ \A c \in ToSet(up') : ~Join(c) => watch' = "off"
      BY <3>1, <3>2, <3>3, <3>5, <3>6, <1>0 DEF InTransit
    <3> QED BY <3>8, <3>9 DEF InTransit
  <2>4. Screen'
    BY <1>9, <1>0, ScreenKept DEF ScreenStays, SyncWatch, serverVars, wireVars, viewVars
  <2> QED BY <2>1, <2>2, <2>3, <2>4 DEF InTime
<1>10. CASE LinesArrive
  <2>1. /\ Tail(down) \in Seq(Messages) /\ Head(down) \in ToSet(down) /\ Head(down) \in Messages
        /\ ToSet(down) = ToSet(Tail(down)) \cup {Head(down)} /\ Head(down).kind = "lines"
    BY <1>10, <1>0, <1>f, Facts, QueueMembers DEF LinesArrive
  <2>2. /\ down' = Tail(down)
        /\ UNCHANGED <<conn, logged, sent, over, member, up, asked, answers, syncs, viewer, watch, fails, drops>>
    BY <1>10 DEF LinesArrive, serverVars
  <2>3. /\ seen' \subseteq 1..logged /\ shown' \in Seq(seen') /\ Len(shown') <= MaxShown /\ IsInjective(shown')
        /\ viewer = "panel" => Newest(shown', seen')
    <3>1. CASE Registered
      <4>1. Head(down).from \in Nat /\ Head(down).to \in Nat /\ Head(down).from >= 1 /\ Head(down).to <= sent
        BY <2>1, <1>0, MessageParts DEF InTransit
      <4>2. (Head(down).from..Head(down).to) \subseteq 1..logged
        BY <4>1, <1>f
      <4>3. AppendLines(Head(down).from..Head(down).to)
        BY <1>10, <3>1 DEF LinesArrive
      <4> QED BY <4>2, <4>3, <1>0, LinesCome
    <3>2. CASE ~Registered
      BY <1>10, <3>2, <1>0 DEF LinesArrive, TypeOK, Screen
    <3> QED BY <3>1, <3>2
  <2>4. InTransit'
    BY <2>1, <2>2, <1>0 DEF InTransit, HasAsked, AtWork
  <2>5. TypeOK'
    BY <2>1, <2>2, <2>3, <1>0 DEF TypeOK
  <2>6. OneEach' /\ Screen'
    BY <2>2, <2>3, <1>0 DEF OneEach, Screen
  <2> QED BY <2>4, <2>5, <2>6 DEF InTime
<1>11. CASE AckArrives
  <2>1. TypeOK'
    <3>1. Tail(down) \in Seq(Messages)
      BY <1>11, <1>0, Facts DEF AckArrives
    <3>2. syncs' \in Seq({"lists", "loop", "await", "done", "failed"}) /\ Len(syncs') = Len(syncs)
      <4>1. syncs \in Seq({"lists", "loop", "await", "done", "failed"})
        BY <1>0 DEF TypeOK
      <4> QED BY <1>11, <4>1, ExceptType DEF AckArrives
    <3>3. watch' \in {"none", "joining", "on", "off"}
      BY <1>11, <1>0 DEF TypeOK, AckArrives
    <3>4. asked' \in Nat
      BY <1>11, <1>f DEF AckArrives
    <3> QED BY <1>11, <1>0, <3>1, <3>2, <3>3, <3>4 DEF TypeOK, AckArrives, serverVars
  <2>2. OneEach'
    BY <1>11, <1>0, <1>f DEF OneEach, AckArrives, serverVars, wireVars, viewVars
  <2>3. InTransit'
    BY <1>11, <1>0, <1>f, QueueMembers, MessageParts DEF InTransit, HasAsked, AtWork, AckArrives, serverVars, wireVars, viewVars
  <2>4. Screen'
    BY <1>11, <1>0, ScreenKept DEF ScreenStays, AckArrives, serverVars, wireVars, viewVars
  <2> QED BY <2>1, <2>2, <2>3, <2>4 DEF InTime
<1>12. CASE OutputArrives
  <2>1. PICK n \in answers : answers' = answers \ {n} /\ AppendLines(1..n)
    BY <1>12 DEF OutputArrives
  <2>2. UNCHANGED <<conn, logged, sent, over, member, up, down, asked, syncs, viewer, watch, fails, drops>>
    BY <1>12 DEF OutputArrives, serverVars
  <2>3. /\ seen' \subseteq 1..logged /\ shown' \in Seq(seen') /\ Len(shown') <= MaxShown /\ IsInjective(shown')
        /\ viewer = "panel" => Newest(shown', seen')
    <3>1. 1..n \subseteq 1..logged
      BY <1>0, <1>f DEF TypeOK
    <3> QED BY <3>1, <2>1, <1>0, LinesCome
  <2>4. InTransit'
    BY <2>2, <1>0 DEF InTransit, HasAsked, AtWork
  <2>5. TypeOK'
    BY <2>1, <2>2, <2>3, <1>0 DEF TypeOK
  <2>6. OneEach' /\ Screen'
    BY <2>2, <2>3, <1>0 DEF OneEach, Screen
  <2> QED BY <2>4, <2>5, <2>6 DEF InTime
<1>13. CASE OutputFails
  <2>1. TypeOK'
    BY <1>13, <1>0, <1>f, WatchBounds DEF TypeOK, OutputFails, serverVars, wireVars, viewVars
  <2>2. OneEach'
    BY <1>13, <1>0, <1>f DEF OneEach, OutputFails, serverVars, wireVars, viewVars
  <2>3. InTransit'
    BY <1>13, <1>0, <1>f, QueueMembers, MessageParts DEF InTransit, HasAsked, AtWork, OutputFails, serverVars, wireVars, viewVars
  <2>4. Screen'
    BY <1>13, <1>0, ScreenKept DEF ScreenStays, OutputFails, serverVars, wireVars, viewVars
  <2> QED BY <2>1, <2>2, <2>3, <2>4 DEF InTime
<1>14. CASE WatchRun
  <2>1. TypeOK'
    <3>1. up' \in Seq(Invocations)
      <4>1. Call("WatchRun", 0) \in Invocations
        BY MessageParts
      <4> QED BY <1>14, <1>f, <4>1, AppendType DEF WatchRun
    <3>2. asked' \in Nat /\ watch' \in {"none", "joining", "on", "off"}
      BY <1>14, <1>f DEF WatchRun
    <3> QED BY <1>14, <1>0, <3>1, <3>2 DEF TypeOK, WatchRun, serverVars
  <2>2. OneEach'
    BY <1>14, <1>0, <1>f DEF OneEach, WatchRun, serverVars, wireVars, viewVars
  <2>3. InTransit'
    <3>1. /\ UNCHANGED <<down, sent, syncs>> /\ watch = "none"
          /\ up' = up \/ up' = Append(up, Call("WatchRun", 0))
      BY <1>14 DEF WatchRun, serverVars
    <3>2. Call("WatchRun", 0) \in Invocations /\ Join(Call("WatchRun", 0)) /\ Call("WatchRun", 0).caller = 0
      BY MessageParts
    <3>3. \A c \in ToSet(up') : c \in ToSet(up) \/ c = Call("WatchRun", 0)
      <4>1. up' = Append(up, Call("WatchRun", 0)) => ToSet(up') = ToSet(up) \cup {Call("WatchRun", 0)}
        BY <3>2, <1>q
      <4> QED BY <3>1, <4>1
    <3>4. \A c \in ToSet(up') : Join(c)
      BY <3>1, <3>2, <3>3, <1>0 DEF InTransit
    <3> QED BY <3>1, <3>2, <3>3, <3>4, <1>0 DEF InTransit, HasAsked, AtWork
  <2>4. Screen'
    BY <1>14, <1>0, ScreenKept DEF ScreenStays, WatchRun, serverVars, wireVars, viewVars
  <2> QED BY <2>1, <2>2, <2>3, <2>4 DEF InTime
<1>15. CASE Unwatch
  <2>1. TypeOK'
    <3>1. up' \in Seq(Invocations)
      BY <1>15, <1>f, MessageParts, AppendType DEF Unwatch
    <3> QED BY <1>15, <1>0, <3>1 DEF TypeOK, Unwatch, serverVars
  <2>2. OneEach'
    BY <1>15, <1>0, <1>f DEF OneEach, Unwatch, serverVars, wireVars, viewVars
  <2>3. InTransit'
    BY <1>15, <1>0, <1>f, QueueMembers, MessageParts DEF InTransit, HasAsked, AtWork, Unwatch, serverVars, wireVars, viewVars
  <2>4. Screen'
    BY <1>15, <1>0, ScreenKept DEF ScreenStays, Unwatch, serverVars, wireVars, viewVars
  <2> QED BY <2>1, <2>2, <2>3, <2>4 DEF InTime
<1>16. CASE UNCHANGED watchVars
  <2>1. UNCHANGED <<conn, logged, sent, over, member, up, down, asked, answers, syncs, viewer, watch, seen, shown, fails, drops>>
    BY <1>16 DEF watchVars, serverVars, wireVars, viewVars
  <2>2. TypeOK' /\ OneEach'
    BY <2>1, <1>0 DEF TypeOK, OneEach
  <2>3. InTransit' /\ Screen'
    BY <2>1, <1>0 DEF InTransit, HasAsked, AtWork, Screen
  <2> QED BY <2>2, <2>3 DEF InTime
<1> QED BY <1>1, <1>2, <1>3, <1>4, <1>5, <1>6, <1>7, <1>8, <1>9, <1>10, <1>11, <1>12, <1>13, <1>14, <1>15, <1>16 DEF Next, Delivery

-----------------------------------------------------------------------------
(* No line is missed.                                                      *)

\* Every step keeps who watches in the group, or on the way to it, and every line that is logged
\* received, or on its way.
LEMMA CoverageStep ==
  ASSUME Inv, [Next]_watchVars
  PROVE  Joined' /\ Covered'
<1>0. InTime /\ TypeOK /\ OneEach /\ InTransit /\ Screen /\ Joined /\ Covered
  BY DEF Inv, InTime
<1>f. /\ Len(syncs) \in Nat /\ DOMAIN syncs = 1..Len(syncs) /\ 0 \notin DOMAIN syncs
      /\ logged \in Nat /\ sent \in Nat /\ sent <= logged /\ asked \in Nat /\ fails \in Nat /\ drops \in Nat
      /\ up \in Seq(Invocations) /\ down \in Seq(Messages) /\ answers \subseteq 0..logged
      /\ ToSet(up) \subseteq Invocations /\ ToSet(down) \subseteq Messages
  BY <1>0, Facts DEF TypeOK
<1>q. /\ \A m \in Messages : ToSet(Append(down, m)) = ToSet(down) \cup {m}
      /\ \A c \in Invocations : ToSet(Append(up, c)) = ToSet(up) \cup {c}
      /\ up # <<>> => ToSet(up) = ToSet(Tail(up)) \cup {Head(up)} /\ Head(up) \in Invocations
      /\ down # <<>> => ToSet(down) = ToSet(Tail(down)) \cup {Head(down)} /\ Head(down) \in Messages
  BY <1>0, <1>f, QueueMembers, Facts
<1>1. CASE LogLine
  <2>1. Joined'
    BY <1>1, <1>0, <1>f DEF Joined, Registered, Coming, AtWork, LogLine, serverVars, wireVars, viewVars
  <2>2. Covered'
    BY <1>1, <1>0, <1>f DEF Covered, Joined, OnItsWay, Fetching, Registered, Coming, AtWork, LogLine, serverVars, wireVars, viewVars
  <2> QED BY <2>1, <2>2
<1>2. CASE SendLine
  <2>1. /\ sent' = logged /\ UNCHANGED <<conn, logged, member, up, asked, answers, syncs, watch, seen, fails>>
        /\ down' = IF member THEN Append(down, Batch(sent + 1, logged)) ELSE down
    BY <1>2 DEF SendLine, viewVars
  <2>2. Batch(sent + 1, logged) \in Messages /\ \A n \in 1..logged : n > sent => Carries(Batch(sent + 1, logged), n)
    BY <1>f, MessageParts DEF Carries
  <2>3. ToSet(down) \subseteq ToSet(down') /\ (member => Batch(sent + 1, logged) \in ToSet(down'))
    BY <2>1, <2>2, <1>q
  <2>4. Joined'
    BY <2>1, <1>0 DEF Joined, Registered, Coming, AtWork
  <2>5. ASSUME Registered', fails' = 0, NEW n \in 1..logged', n \notin seen'
        PROVE  OnItsWay(n)'
    <3>1. OnItsWay(n) /\ n \in 1..logged
      BY <2>1, <2>5, <1>0 DEF Covered, Registered
    <3>2. Fetching => Fetching'
      BY <2>1, <2>3 DEF Fetching, Coming, AtWork
    <3> QED BY <3>1, <3>2, <2>1, <2>2, <2>3 DEF OnItsWay
  <2> QED BY <2>4, <2>5 DEF Covered
<1>3. CASE RunEnds
  <2>1. Joined'
    BY <1>3, <1>0, <1>f DEF Joined, Registered, Coming, AtWork, RunEnds, serverVars, wireVars, viewVars
  <2>2. Covered'
    BY <1>3, <1>0, <1>f DEF Covered, Joined, OnItsWay, Fetching, Registered, Coming, AtWork, RunEnds, serverVars, wireVars, viewVars
  <2> QED BY <2>1, <2>2
<1>4. CASE HubTakes
  <2>1. /\ up' = Tail(up) /\ up # <<>>
        /\ Head(up).op = "WatchRun" => member' = TRUE /\ down' = Append(down, Ack(Head(up).caller))
        /\ Head(up).op # "WatchRun" => down' = down
        /\ UNCHANGED <<conn, logged, sent, asked, answers, syncs, watch, seen, fails>>
    BY <1>4 DEF HubTakes, viewVars
  <2>2. Head(up) \in ToSet(up) /\ Head(up) \in Invocations /\ ToSet(up) = ToSet(Tail(up)) \cup {Head(up)}
    BY <2>1, <1>q
  \* It is a join, or nobody watches any more.
  <2>3. CASE Join(Head(up))
    <3>1. Head(up).op = "WatchRun"
      BY <2>3 DEF Join
    <3>2. Ack(Head(up).caller) \in Messages /\ IsAck(Ack(Head(up).caller))
      <4>1. Head(up).caller \in Nat
        BY <2>2, MessageParts
      <4> QED BY <4>1, MessageParts
    <3>3. ToSet(down') = ToSet(down) \cup {Ack(Head(up).caller)}
      BY <2>1, <3>1, <3>2, <1>q
    <3>4. Joined'
      BY <2>1, <3>1 DEF Joined
    <3>5. Fetching'
      BY <3>2, <3>3 DEF Fetching
    <3> QED BY <3>4, <3>5 DEF Covered, OnItsWay
  <2>4. CASE ~Join(Head(up))
    <3>1. watch' = "off"
      BY <2>1, <2>2, <2>4, <1>0 DEF InTransit
    <3> QED BY <3>1 DEF Joined, Covered, Registered
  <2> QED BY <2>3, <2>4
<1>5. CASE ReadLog
  <2>1. /\ answers' = answers \cup {logged}
        /\ UNCHANGED <<conn, logged, sent, member, up, down, syncs, watch, seen, fails>>
    BY <1>5 DEF ReadLog, serverVars, viewVars
  <2>2. Joined'
    BY <2>1, <1>0 DEF Joined, Registered, Coming, AtWork
  <2>3. \A n \in 1..logged' : \E a \in answers' : n <= a
    BY <2>1, <1>f
  <2> QED BY <2>2, <2>3 DEF Covered, OnItsWay
<1>6. CASE Connected
  <2>1. Coming'
    <3>1. Len(syncs) + 1 \in DOMAIN syncs' /\ syncs'[Len(syncs) + 1] = "lists"
      BY <1>6, <1>f, <1>0 DEF Connected, TypeOK
    <3> QED BY <3>1 DEF Coming, AtWork
  <2> QED BY <2>1 DEF Joined, Covered, OnItsWay, Fetching
<1>7. CASE Dropped
  <2>1. Coming'
    BY <1>7 DEF Dropped, Coming
  <2> QED BY <2>1 DEF Joined, Covered, OnItsWay, Fetching
<1>8. ASSUME NEW i \in DOMAIN syncs, SyncLists(i)
      PROVE  Joined' /\ Covered'
  <2>1. /\ UNCHANGED <<conn, logged, sent, member, up, down, asked, answers, watch, seen>>
        /\ \/ syncs' = [syncs EXCEPT ![i] = "loop"] /\ UNCHANGED fails
           \/ fails' = fails + 1
    BY <1>8 DEF SyncLists, serverVars, wireVars, viewVars
  <2>2. CASE fails' = fails + 1
    <3>1. fails' # 0
      BY <2>2, <1>f
    <3> QED BY <3>1 DEF Joined, Covered
  <2>3. CASE syncs' = [syncs EXCEPT ![i] = "loop"] /\ UNCHANGED fails
    <3>1. i \in DOMAIN syncs' /\ syncs'[i] = "loop"
      BY <2>3
    <3>2. Coming'
      BY <3>1 DEF Coming, AtWork
    <3> QED BY <3>2 DEF Joined, Covered, OnItsWay, Fetching
  <2> QED BY <2>1, <2>2, <2>3
<1>9. ASSUME NEW i \in DOMAIN syncs, SyncWatch(i)
      PROVE  Joined' /\ Covered'
  <2>1. UNCHANGED <<conn, watch>>
    BY <1>9 DEF SyncWatch, viewVars
  <2>2. CASE ~Registered
    BY <2>1, <2>2 DEF Joined, Covered, Registered
  <2>3. CASE Registered /\ conn = "up"
    <3>1. up' = Append(up, Call("WatchRun", i))
      BY <1>9, <2>3 DEF SyncWatch
    <3>2. Call("WatchRun", i) \in Invocations /\ Join(Call("WatchRun", i))
      BY <1>f, MessageParts
    <3>3. Coming'
      BY <3>1, <3>2, <1>q DEF Coming
    <3> QED BY <3>3 DEF Joined, Covered, OnItsWay, Fetching
  <2>4. CASE conn # "up"
    <3>1. Coming'
      BY <2>1, <2>4 DEF Coming
    <3> QED BY <3>1 DEF Joined, Covered, OnItsWay, Fetching
  <2> QED BY <2>2, <2>3, <2>4
<1>10. CASE LinesArrive
  <2>1. /\ down' = Tail(down) /\ down # <<>> /\ Head(down).kind = "lines"
        /\ UNCHANGED <<conn, logged, sent, member, up, asked, answers, syncs, watch, fails>>
    BY <1>10 DEF LinesArrive, serverVars
  <2>2. ToSet(down) = ToSet(Tail(down)) \cup {Head(down)} /\ Head(down) \in Messages
    BY <2>1, <1>q
  <2>3. Joined'
    BY <2>1, <1>0 DEF Joined, Registered, Coming, AtWork
  <2>4. ASSUME Registered', fails' = 0, NEW n \in 1..logged', n \notin seen'
        PROVE  OnItsWay(n)'
    <3>1. Registered /\ fails = 0 /\ n \in 1..logged
      BY <2>1, <2>4 DEF Registered
    <3>2. seen \subseteq seen' /\ \A k \in Nat : Carries(Head(down), k) => k \in seen'
      <4>1. Head(down).from \in Nat /\ Head(down).to \in Nat /\ Head(down).from >= 1 /\ Head(down).to <= sent
        BY <2>1, <2>2, <1>0, MessageParts DEF InTransit
      <4>2. (Head(down).from..Head(down).to) \subseteq 1..logged
        BY <4>1, <1>f
      <4>3. AppendLines(Head(down).from..Head(down).to)
        BY <1>10, <3>1 DEF LinesArrive
      <4>4. seen' = seen \cup (Head(down).from..Head(down).to)
        BY <4>2, <4>3, <3>1, <1>0, LinesCome
      <4> QED BY <4>1, <4>4 DEF Carries
    <3>3. n \notin seen /\ n \in Nat
      BY <2>4, <3>1, <3>2
    <3>4. OnItsWay(n)
      BY <3>1, <3>3, <1>0 DEF Covered
    <3>5. Fetching => Fetching'
      <4>1. ~IsAck(Head(down))
        BY <2>1 DEF IsAck
      <4> QED BY <4>1, <2>1, <2>2 DEF Fetching, Coming, AtWork
    <3> QED BY <3>2, <3>3, <3>4, <3>5, <2>1, <2>2, <2>4 DEF OnItsWay
  <2> QED BY <2>3, <2>4 DEF Covered
<1>11. CASE AckArrives
  <2>1. /\ down # <<>> /\ IsAck(Head(down)) /\ asked' = asked + 1
        /\ UNCHANGED <<conn, logged, sent, member, up, answers, seen, fails>>
    BY <1>11 DEF AckArrives, serverVars, IsAck
  <2>2. Fetching'
    BY <2>1, <1>f DEF Fetching
  <2>3. Registered' => Registered
    BY <1>11 DEF AckArrives, Registered
  \* The sync that waited for the answer is not one that is at work.
  <2>4. Coming => Coming'
    <3>1. HasAsked(Head(down).caller)
      BY <2>1, <1>q, <1>0 DEF InTransit
    <3>2. ASSUME NEW i \in DOMAIN syncs, AtWork(i)
          PROVE  i \in DOMAIN syncs' /\ AtWork(i)'
      <4>1. Head(down).caller # i
        BY <3>1, <3>2, <1>f DEF HasAsked
      <4>2. DOMAIN syncs' = DOMAIN syncs /\ syncs'[i] = syncs[i]
        BY <1>11, <4>1 DEF AckArrives
      <4> QED BY <4>2, <3>2 DEF AtWork
    <3> QED BY <3>2, <2>1 DEF Coming
  <2> QED BY <2>1, <2>2, <2>3, <2>4, <1>0 DEF Joined, Covered, OnItsWay
<1>12. CASE OutputArrives
  <2>1. PICK a \in answers : answers' = answers \ {a} /\ AppendLines(1..a)
    BY <1>12 DEF OutputArrives
  <2>2. UNCHANGED <<conn, logged, sent, member, up, down, asked, syncs, watch, fails>>
    BY <1>12 DEF OutputArrives, serverVars
  <2>3. Joined'
    BY <2>2, <1>0 DEF Joined, Registered, Coming, AtWork
  <2>4. ASSUME Registered', fails' = 0, NEW n \in 1..logged', n \notin seen'
        PROVE  OnItsWay(n)'
    <3>1. Registered /\ fails = 0 /\ n \in 1..logged
      BY <2>2, <2>4 DEF Registered
    <3>2. seen' = seen \cup 1..a
      <4>1. 1..a \subseteq 1..logged
        BY <1>f
      <4> QED BY <4>1, <2>1, <3>1, <1>0, LinesCome
    <3>3. n \notin seen /\ ~(n <= a)
      BY <2>4, <3>1, <3>2, <1>f
    <3>4. OnItsWay(n)
      BY <3>1, <3>3, <1>0 DEF Covered
    <3>5. Fetching => Fetching'
      BY <2>2 DEF Fetching, Coming, AtWork
    <3> QED BY <3>3, <3>4, <3>5, <2>1, <2>2 DEF OnItsWay
  <2> QED BY <2>3, <2>4 DEF Covered
<1>13. CASE OutputFails
  <2>1. fails' # 0
    BY <1>13, <1>f DEF OutputFails
  <2> QED BY <2>1 DEF Joined, Covered
<1>14. CASE WatchRun
  <2>1. CASE conn = "up"
    <3>1. up' = Append(up, Call("WatchRun", 0))
      BY <1>14, <2>1 DEF WatchRun
    <3>2. Call("WatchRun", 0) \in Invocations /\ Join(Call("WatchRun", 0))
      BY MessageParts
    <3>3. Coming'
      BY <3>1, <3>2, <1>q DEF Coming
    <3> QED BY <3>3 DEF Joined, Covered, OnItsWay, Fetching
  <2>2. CASE conn # "up"
    <3>1. Coming'
      BY <1>14, <2>2 DEF WatchRun, Coming
    <3> QED BY <3>1 DEF Joined, Covered, OnItsWay, Fetching
  <2> QED BY <2>1, <2>2
<1>15. CASE Unwatch
  <2>1. ~Registered'
    BY <1>15 DEF Unwatch, Registered
  <2> QED BY <2>1 DEF Joined, Covered
<1>16. CASE UNCHANGED watchVars
  <2>1. UNCHANGED <<conn, logged, sent, member, up, down, asked, answers, syncs, watch, seen, fails>>
    BY <1>16 DEF watchVars, serverVars, wireVars, viewVars
  <2> QED BY <2>1, <1>0 DEF Covered, Joined, OnItsWay, Fetching, Registered, Coming, AtWork
<1> QED BY <1>1, <1>2, <1>3, <1>4, <1>5, <1>6, <1>7, <1>8, <1>9, <1>10, <1>11, <1>12, <1>13, <1>14, <1>15, <1>16 DEF Next, Delivery

-----------------------------------------------------------------------------
(* The theorems.                                                           *)

\* The invariant holds at first: nobody watches.
LEMMA InvInit == Init => Inv
<1> SUFFICES ASSUME Init PROVE Inv
  OBVIOUS
<1>1. ~Registered
  BY DEF Init, Registered
<1> QED BY <1>1, InTimeInit DEF Inv, Joined, Covered

\* The types, the syncs, the messages, the screen, and every line that is logged received or on
\* its way to who watches.
THEOREM WatchInvariant == WatchSpec => []Inv
<1>1. Init => Inv
  BY InvInit
<1>2. Inv /\ [Next]_watchVars => Inv'
  BY InTimeStep, CoverageStep DEF Inv
<1> QED BY <1>1, <1>2, PTL DEF WatchSpec

\* Type correctness: whatever number of lines, lost connections and failing calls.
THEOREM TypeCorrect == WatchSpec => []TypeOK
<1>1. Inv => TypeOK
  BY DEF Inv, InTime
<1> QED BY <1>1, WatchInvariant, PTL

\* While a viewer is open and no call failed, no line of the log is lost: it has come, it will be
\* fetched, it is on its way, or it will be sent to the group this connection is in.
THEOREM NoLineIsLost == WatchSpec => []Covered
<1>1. Inv => Covered
  BY DEF Inv
<1> QED BY <1>1, WatchInvariant, PTL

\* Once nothing is on its way, a viewer that is open has every line of the log, and the panel
\* shows the last of them in order; no line is on the screen twice, at any time.
THEOREM ShownCorrect == WatchSpec => []ShownIsLog
<1>1. ASSUME Inv
      PROVE  ShownIsLog
  <2>1. TypeOK /\ Screen /\ Covered
    BY <1>1 DEF Inv, InTime
  <2>2. ASSUME Quiet, watch = "on", fails = 0
        PROVE  seen = 1..logged
    <3>1. ~Fetching /\ ToSet(down) = {} /\ answers = {} /\ sent = logged
      <4>1. up = <<>> /\ down = <<>> /\ asked = 0 /\ conn = "up" /\ answers = {} /\ sent = logged
        BY <2>2 DEF Quiet
      <4>2. ToSet(up) = {} /\ ToSet(down) = {}
        BY <4>1 DEF ToSet
      <4>3. \A i \in DOMAIN syncs : ~AtWork(i)
        BY <2>2 DEF Quiet, AtWork
      <4> QED BY <4>1, <4>2, <4>3 DEF Fetching, Coming
    <3>2. \A n \in 1..logged : ~OnItsWay(n)
      <4>1. logged \in Nat
        BY <2>1, WatchBounds DEF TypeOK
      <4> QED BY <3>1, <4>1 DEF OnItsWay
    <3>3. \A n \in 1..logged : n \in seen
      BY <3>2, <2>1, <2>2 DEF Covered, Registered
    <3> QED BY <3>3, <2>1 DEF TypeOK
  <2>3. ASSUME Quiet, watch = "on", fails = 0, viewer = "panel"
        PROVE  shown = Lines(IF logged > MaxShown THEN logged - MaxShown + 1 ELSE 1, logged)
    <3>1. seen = 1..logged /\ logged \in Nat
      BY <2>1, <2>2, <2>3, WatchBounds DEF TypeOK
    <3>2. shown \in Seq(Nat) /\ Len(shown) <= MaxShown /\ ToSet(shown) \subseteq 1..logged
      <4>1. shown \in Seq(1..logged) /\ Len(shown) <= MaxShown
        BY <2>1, <3>1 DEF TypeOK
      <4>2. 1..logged \subseteq Nat
        OBVIOUS
      <4>3. shown \in Seq(Nat)
        BY <4>1, <4>2, SeqMonotonic
      <4>4. ToSet(shown) \subseteq 1..logged
        BY <4>1, QueueMembers
      <4> QED BY <4>1, <4>3, <4>4
    <3>3. Newest(shown, 1..logged)
      BY <2>1, <2>3, <3>1 DEF Screen
    <3> QED BY <3>1, <3>2, <3>3, NewestIsTheEnd
  <2> QED BY <2>1, <2>2, <2>3 DEF ShownIsLog, Screen
<1> QED BY <1>1, WatchInvariant, PTL
=============================================================================
