-------------------------- MODULE MessageTheorems --------------------------
(***************************************************************************)
(* Queues of messages, as the modules of the server and the agent use      *)
(* them: facts about their members and about how many messages of a kind   *)
(* they hold, for sequences over any set; and the least member of a set of      *)
(* numbers, by which a first bad state is found.                           *)
(***************************************************************************)
EXTENDS Integers, Sequences, TLAPS, SequenceTheorems, FiniteSetTheorems, WellFoundedInduction

-----------------------------------------------------------------------------
(* Sequences of messages keep the type of their members. *)

\* A message of S is added to a queue of S.
LEMMA AppendType ==
  ASSUME NEW S, NEW s \in Seq(S), NEW m \in S
  PROVE  Append(s, m) \in Seq(S)
OBVIOUS

\* What is left of a queue of S, and the message taken from it, are of S.
LEMMA TailType ==
  ASSUME NEW S, NEW s \in Seq(S), s # <<>>
  PROVE  Tail(s) \in Seq(S) /\ Head(s) \in S
BY HeadTailProperties

\* A prefix of a queue of S is a queue of S.
LEMMA PrefixType ==
  ASSUME NEW S, NEW s \in Seq(S), NEW n \in 0..Len(s)
  PROVE  SubSeq(s, 1, n) \in Seq(S)
<1>1. \A i \in 1..n : s[i] \in S
  BY ElementOfSeq, LenProperties
<1>. QED  BY <1>1, SubSeqProperties, LenProperties

-----------------------------------------------------------------------------
(* Messages of sequences, by their place. *)

\* The messages of a longer queue.
LEMMA AppendPlaces ==
  ASSUME NEW S, NEW s \in Seq(S), NEW m, NEW i \in 1..Len(Append(s, m))
  PROVE  \/ i \in 1..Len(s) /\ Append(s, m)[i] = s[i]
         \/ i = Len(s) + 1 /\ Append(s, m)[i] = m
<1>1. Len(s) \in Nat /\ Len(Append(s, m)) = Len(s) + 1
  BY LenProperties
<1>2. /\ i # Len(s) + 1 => i \in 1..Len(s)
      /\ i = Len(s) + 1 => Append(s, m)[i] = m
      /\ i \in 1..Len(s) => Append(s, m)[i] = s[i]
  BY <1>1
<1>. QED  BY <1>2

\* The messages of a shorter queue.
LEMMA TailPlaces ==
  ASSUME NEW S, NEW s \in Seq(S), s # <<>>
  PROVE  /\ 1 \in 1..Len(s) /\ Head(s) = s[1]
         /\ \A i \in 1..Len(Tail(s)) :
              i + 1 \in 2..Len(s) /\ Tail(s)[i] = s[i + 1]
<1>1. /\ Len(s) \in Nat \ {0} /\ Head(s) = s[1] /\ Len(Tail(s)) = Len(s) - 1
      /\ \A i \in 1..Len(Tail(s)) : Tail(s)[i] = s[i + 1]
  BY HeadTailProperties, LenProperties, EmptySeq
<1>. QED  BY <1>1

-----------------------------------------------------------------------------
(* Messages of a sequence, by their kind. *)

\* Some message of s is of a kind of K.
Has(s, K) == \E i \in 1..Len(s) : s[i].kind \in K

\* At most one is.
Once(s, K) == \A i, j \in 1..Len(s) : s[i].kind \in K /\ s[j].kind \in K => i = j

\* Those that are belong to T.
Every(s, K, T) == \A i \in 1..Len(s) : s[i].kind \in K => s[i] \in T

\* Of an empty sequence.
LEMMA EmptyMessages ==
  ASSUME NEW K, NEW T
  PROVE  ~Has(<<>>, K) /\ Once(<<>>, K) /\ Every(<<>>, K, T)
<1>1. 1..Len(<<>>) = {}
  BY EmptySeq
<1>. QED  BY <1>1 DEF Has, Once, Every

\* Of a sequence that got longer.
LEMMA AppendMessages ==
  ASSUME NEW S, NEW s \in Seq(S), NEW m, NEW K, NEW T
  PROVE  /\ Has(Append(s, m), K) <=> Has(s, K) \/ m.kind \in K
         /\ Once(s, K) /\ (m.kind \in K => ~Has(s, K)) => Once(Append(s, m), K)
         /\ Every(s, K, T) /\ (m.kind \in K => m \in T) => Every(Append(s, m), K, T)
<1>. DEFINE t == Append(s, m)
<1>1. Len(s) \in Nat /\ Len(t) = Len(s) + 1
  BY LenProperties
<1>2. \A i \in 1..Len(t) :
        \/ i \in 1..Len(s) /\ t[i] = s[i]
        \/ i = Len(s) + 1 /\ t[i] = m
  BY AppendPlaces
<1>3. /\ \A i \in 1..Len(s) : i \in 1..Len(t) /\ t[i] = s[i]
      /\ Len(s) + 1 \in 1..Len(t) /\ t[Len(s) + 1] = m
  <2>1. \A i \in 1..Len(s) : i \in 1..Len(t) /\ i # Len(s) + 1
    BY <1>1
  <2>2. Len(s) + 1 \in 1..Len(t) /\ Len(s) + 1 \notin 1..Len(s)
    BY <1>1
  <2>. HIDE DEF t
  <2>. QED  BY <1>2, <2>1, <2>2
<1>. HIDE DEF t
<1>4. Has(t, K) <=> Has(s, K) \/ m.kind \in K
  BY <1>2, <1>3 DEF Has
<1>5. Once(s, K) /\ (m.kind \in K => ~Has(s, K)) => Once(t, K)
  BY <1>2 DEF Has, Once
<1>6. Every(s, K, T) /\ (m.kind \in K => m \in T) => Every(t, K, T)
  BY <1>2 DEF Every
<1>. QED  BY <1>4, <1>5, <1>6 DEF t

\* Of a sequence whose first message was taken.
LEMMA TailMessages ==
  ASSUME NEW S, NEW s \in Seq(S), s # <<>>, NEW K, NEW T
  PROVE  /\ Has(Tail(s), K) => Has(s, K)
         /\ Once(s, K) => Once(Tail(s), K)
         /\ Every(s, K, T) => Every(Tail(s), K, T)
         /\ Head(s).kind \in K =>
              Has(s, K) /\ (Once(s, K) => ~Has(Tail(s), K)) /\ (Every(s, K, T) => Head(s) \in T)
         /\ Has(s, K) /\ ~(Head(s).kind \in K) => Has(Tail(s), K)
<1>. DEFINE t == Tail(s)
<1>1. /\ 1 \in 1..Len(s) /\ Head(s) = s[1]
      /\ \A i \in 1..Len(t) : i + 1 \in 2..Len(s) /\ t[i] = s[i + 1]
  BY TailPlaces
<1>2. \A i \in 1..Len(t) : i \in Nat /\ i + 1 \in 1..Len(s) /\ i + 1 # 1 /\ t[i] = s[i + 1]
  <2>1. Len(t) \in Nat /\ Len(s) \in Nat
    BY HeadTailProperties, LenProperties
  <2>. HIDE DEF t
  <2>. QED  BY <1>1, <2>1
<1>3. \A i \in 1..Len(s) : i # 1 => i - 1 \in 1..Len(t) /\ t[i - 1] = s[i]
  BY HeadTailProperties, LenProperties
<1>. HIDE DEF t
<1>4. (Has(t, K) => Has(s, K)) /\ (Head(s).kind \in K => Has(s, K))
  BY <1>1, <1>2 DEF Has
<1>5. Once(s, K) => Once(t, K)
  BY <1>2 DEF Once
<1>6. /\ Every(s, K, T) => Every(t, K, T)
      /\ Head(s).kind \in K /\ Every(s, K, T) => Head(s) \in T
  BY <1>1, <1>2 DEF Every
<1>7. Head(s).kind \in K /\ Once(s, K) => ~Has(t, K)
  BY <1>1, <1>2 DEF Once, Has
<1>8. Has(s, K) /\ ~(Head(s).kind \in K) => Has(t, K)
  BY <1>1, <1>3 DEF Has
<1>. QED  BY <1>4, <1>5, <1>6, <1>7, <1>8 DEF t

\* Of the beginning of a sequence.
LEMMA PrefixMessages ==
  ASSUME NEW S, NEW s \in Seq(S), NEW n \in 0..Len(s), NEW K, NEW T, Every(s, K, T)
  PROVE  Every(SubSeq(s, 1, n), K, T)
<1>1. \A i \in 1..Len(SubSeq(s, 1, n)) : i \in 1..Len(s) /\ SubSeq(s, 1, n)[i] = s[i]
  BY SubSeqProperties, LenProperties
<1>. QED  BY <1>1 DEF Every

\* s after a step that brought no message of K.
Loses(s, t, K) ==
  \/ t = s
  \/ t = <<>>
  \/ s # <<>> /\ t = Tail(s)
  \/ \E m : m.kind \notin K /\ t = Append(s, m)

\* It brings none, at most one is left if at most one was, and those left are still of T.
LEMMA LosesMessages ==
  ASSUME NEW S, NEW s \in Seq(S), NEW t, NEW K, NEW T, Loses(s, t, K)
  PROVE  /\ Has(t, K) => Has(s, K)
         /\ Once(s, K) => Once(t, K)
         /\ Every(s, K, T) => Every(t, K, T)
<1>1. CASE t = <<>>
  <2>1. ~Has(<<>>, K) /\ Once(<<>>, K) /\ Every(<<>>, K, T)
    BY EmptyMessages
  <2>. QED  BY <1>1, <2>1
<1>2. CASE s # <<>> /\ t = Tail(s)
  <2>1. /\ Has(Tail(s), K) => Has(s, K)
        /\ Once(s, K) => Once(Tail(s), K)
        /\ Every(s, K, T) => Every(Tail(s), K, T)
    BY <1>2, TailMessages
  <2>. QED  BY <1>2, <2>1
<1>3. ASSUME NEW m, m.kind \notin K, t = Append(s, m)
      PROVE  /\ Has(t, K) => Has(s, K)
             /\ Once(s, K) => Once(t, K)
             /\ Every(s, K, T) => Every(t, K, T)
  <2>1. /\ Has(Append(s, m), K) <=> Has(s, K) \/ m.kind \in K
        /\ Once(s, K) /\ (m.kind \in K => ~Has(s, K)) => Once(Append(s, m), K)
        /\ Every(s, K, T) /\ (m.kind \in K => m \in T) => Every(Append(s, m), K, T)
    BY AppendMessages
  <2>. QED  BY <1>3, <2>1
<1>. QED  BY <1>1, <1>2, <1>3 DEF Loses

\* s after a step that brought and took no message of K.
Keeps(s, t, K) ==
  \/ t = s
  \/ s # <<>> /\ Head(s).kind \notin K /\ t = Tail(s)
  \/ \E m : m.kind \notin K /\ t = Append(s, m)

\* It has one if it had one.
LEMMA KeepsMessages ==
  ASSUME NEW S, NEW s \in Seq(S), NEW t, NEW K, Keeps(s, t, K)
  PROVE  (Has(t, K) <=> Has(s, K)) /\ (Once(s, K) => Once(t, K))
<1>1. CASE s # <<>> /\ Head(s).kind \notin K /\ t = Tail(s)
  <2>1. /\ Has(Tail(s), K) => Has(s, K)
        /\ Once(s, K) => Once(Tail(s), K)
        /\ Has(s, K) /\ ~(Head(s).kind \in K) => Has(Tail(s), K)
    BY <1>1, TailMessages
  <2>. QED  BY <1>1, <2>1
<1>2. ASSUME NEW m, m.kind \notin K, t = Append(s, m)
      PROVE  (Has(t, K) <=> Has(s, K)) /\ (Once(s, K) => Once(t, K))
  <2>1. /\ Has(Append(s, m), K) <=> Has(s, K) \/ m.kind \in K
        /\ Once(s, K) /\ (m.kind \in K => ~Has(s, K)) => Once(Append(s, m), K)
    BY AppendMessages
  <2>. QED  BY <1>2, <2>1
<1>. QED  BY <1>1, <1>2 DEF Keeps

\* Of a larger set of messages.
LEMMA EveryGrows ==
  ASSUME NEW s, NEW K, NEW T, NEW U, T \subseteq U, Every(s, K, T)
  PROVE  Every(s, K, U)
BY DEF Every

-----------------------------------------------------------------------------
(* One message and a sequence. *)

\* m is in s.
Holds(s, m) == \E i \in 1..Len(s) : s[i] = m

\* It is there once at most.
Single(s, m) == \A i, j \in 1..Len(s) : s[i] = m /\ s[j] = m => i = j

\* Of an empty sequence.
LEMMA EmptyHolds ==
  ASSUME NEW m
  PROVE  ~Holds(<<>>, m) /\ Single(<<>>, m)
<1>1. 1..Len(<<>>) = {}
  BY EmptySeq
<1>. QED  BY <1>1 DEF Holds, Single

\* Of a sequence that got longer.
LEMMA AppendHolds ==
  ASSUME NEW S, NEW s \in Seq(S), NEW n, NEW m
  PROVE  /\ Holds(Append(s, n), m) => Holds(s, m) \/ m = n
         /\ Single(s, m) /\ (m = n => ~Holds(s, m)) => Single(Append(s, n), m)
<1>. DEFINE t == Append(s, n)
<1>1. \A i \in 1..Len(t) :
        \/ i \in 1..Len(s) /\ t[i] = s[i]
        \/ i = Len(s) + 1 /\ t[i] = n
  BY AppendPlaces
<1>. HIDE DEF t
<1>2. Holds(t, m) => Holds(s, m) \/ m = n
  BY <1>1 DEF Holds
<1>3. Single(s, m) /\ (m = n => ~Holds(s, m)) => Single(t, m)
  BY <1>1 DEF Holds, Single
<1>. QED  BY <1>2, <1>3 DEF t

\* Of a sequence whose first message was taken.
LEMMA TailHolds ==
  ASSUME NEW S, NEW s \in Seq(S), s # <<>>, NEW m
  PROVE  /\ Holds(Tail(s), m) => Holds(s, m)
         /\ Holds(s, Head(s))
         /\ Single(s, m) => Single(Tail(s), m)
         /\ Single(s, m) /\ Head(s) = m => ~Holds(Tail(s), m)
<1>. DEFINE t == Tail(s)
<1>1. 1 \in 1..Len(s) /\ Head(s) = s[1]
  BY TailPlaces
<1>2. \A i \in 1..Len(t) : i \in Nat /\ i + 1 \in 1..Len(s) /\ i + 1 # 1 /\ t[i] = s[i + 1]
  <2>1. Len(t) \in Nat /\ Len(s) \in Nat
    BY HeadTailProperties, LenProperties
  <2>2. \A i \in 1..Len(t) : i + 1 \in 2..Len(s) /\ t[i] = s[i + 1]
    BY TailPlaces
  <2>. HIDE DEF t
  <2>. QED  BY <2>1, <2>2
<1>. HIDE DEF t
<1>3. (Holds(t, m) => Holds(s, m)) /\ Holds(s, Head(s))
  BY <1>1, <1>2 DEF Holds
<1>4. Single(s, m) => Single(t, m)
  BY <1>2 DEF Single
<1>5. Single(s, m) /\ Head(s) = m => ~Holds(t, m)
  BY <1>1, <1>2 DEF Holds, Single
<1>. QED  BY <1>3, <1>4, <1>5 DEF t

\* Of the beginning of a sequence.
LEMMA PrefixHolds ==
  ASSUME NEW S, NEW s \in Seq(S), NEW n \in 0..Len(s), NEW m, Holds(SubSeq(s, 1, n), m)
  PROVE  Holds(s, m)
<1>1. \A i \in 1..Len(SubSeq(s, 1, n)) : i \in 1..Len(s) /\ SubSeq(s, 1, n)[i] = s[i]
  BY SubSeqProperties, LenProperties
<1>. QED  BY <1>1 DEF Holds

-----------------------------------------------------------------------------
(* Sets of numbers. *)

\* Every set of naturals that is not empty has a least member.
LEMMA LeastMember ==
  ASSUME NEW T \in SUBSET Nat, T # {}
  PROVE  \E x \in T : \A y \in T : x <= y
<1> DEFINE R == StrictSubsetOrdering(Nat)
           U == {1..n : n \in T}
<1>1. U # {} /\ U \subseteq FiniteSubsetsOf(Nat)
  <2>1. ASSUME NEW n \in T
        PROVE  IsFiniteSet(1..n) /\ 1..n \subseteq Nat
    BY FS_Interval
  <2>2. U # {}
    OBVIOUS
  <2> QED BY <2>1, <2>2 DEF FiniteSubsetsOf
<1>2. \E u \in U : \A v \in U : ~(<<v, u>> \in R)
  <2> HIDE DEF U, R
  <2> QED BY <1>1, WFMin, FS_StrictSubsetOrderingWellFounded DEF R
<1>3. PICK x \in T : \A y \in T : ~(<<1..y, 1..x>> \in R)
  BY <1>2
<1>4. ASSUME NEW y \in T, y < x
      PROVE  FALSE
  <2>1. 1..y \subseteq 1..x /\ x \in 1..x /\ x \notin 1..y
    BY <1>4
  <2>2. <<1..y, 1..x>> \in R
    BY <2>1 DEF StrictSubsetOrdering
  <2> QED BY <2>2, <1>3
<1> QED BY <1>4

=============================================================================
