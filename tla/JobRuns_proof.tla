---------------------------- MODULE JobRuns_proof ----------------------------
(***************************************************************************)
(* Proofs about JobRuns, for every number of targets and steps, every      *)
(* parallelism and every number of failing writes and restarts.            *)
(***************************************************************************)
EXTENDS JobRuns, TLAPS, FiniteSetTheorems

\* The step of a body of Parallel.ForEachAsync.
BodyStep(a) == Body(a) \/ StepEnds(a) \/ Fault(a)

\* The steps of StartAsync, CancelAsync, ExecuteAsync and of the process.
JobStep == Start \/ Launch \/ Cancel \/ Decide \/ Remove \/ SaveJob \/ Restart

\* Next is made of these two kinds of steps.
LEMMA NextSplit == Next <=> JobStep \/ \E a \in Targets : BodyStep(a)
BY DEF Next, JobStep, BodyStep

\* Every body keeps the types.
LEMMA BodyType ==
  ASSUME TypeOK, StepsBehind, NEW a \in Targets, BodyStep(a)
  PROVE  TypeOK'
<1>. USE JobAssumption DEF TypeOK, JobStates, Final, Bodies, tables, bodies, Goto, Save
<1>1. CASE Take(a)
  BY <1>1 DEF Take
<1>2. CASE Refuse(a) \/ Enter(a) \/ CancelEnd(a) \/ FailEnd(a)
  BY <1>2 DEF Refuse, Enter, CancelEnd, FailEnd, Write
<1>3. CASE Finish(a)
  BY <1>3 DEF Finish, Outcome, Write
<1>4. CASE Loop(a)
  BY <1>4 DEF Loop
<1>5. CASE StepCancelled(a)
  BY <1>5 DEF StepCancelled
<1>6. CASE StepEnds(a)
  <2>1. next[a] \in Steps /\ next[a] + 1 \in 1..(NSteps + 1)
    BY <1>6 DEF StepEnds, StepsBehind, Steps
  <2>2. next' \in [Targets -> 1..(NSteps + 1)] /\ worker' \in [Targets -> Bodies]
    BY <1>6, <2>1 DEF StepEnds, Advance, AfterFailure
  <2>3. failed' \in [Targets -> SUBSET Steps]
    BY <1>6, <2>1 DEF StepEnds
  <2>. QED  BY <1>6, <2>2, <2>3 DEF StepEnds
<1>7. CASE Fault(a)
  <2>1. faults' \in 0..MaxFaults
    BY <1>7 DEF Fault
  <2>2. worker' \in [Targets -> Bodies] /\ broken' \in BOOLEAN
    BY <1>7 DEF Fault
  <2>. QED  BY <1>7, <2>1, <2>2 DEF Fault
<1>. QED
  BY <1>1, <1>2, <1>3, <1>4, <1>5, <1>6, <1>7 DEF BodyStep, Body

\* Every other step keeps the types.
LEMMA JobType ==
  ASSUME TypeOK, JobStep
  PROVE  TypeOK'
<1>. USE JobAssumption DEF TypeOK, JobStates, Final, Phases, Bodies, tables, bodies
<1>1. CASE Start
  BY <1>1 DEF Start
<1>2. CASE Launch \/ Cancel \/ Remove
  <2>1. CASE Launch
    BY <2>1 DEF Launch
  <2>2. CASE Cancel \/ Remove
    BY <2>2 DEF Cancel, Remove
  <2>. QED  BY <1>2, <2>1, <2>2
<1>3. CASE Decide
  BY <1>3 DEF Decide, Verdict
<1>4. CASE SaveJob
  BY <1>4 DEF SaveJob
<1>5. CASE Restart
  <2>1. target' \in [Targets -> {"None"} \cup JobStates]
    BY <1>5 DEF Restart, Recovered
  <2>2. crashes' \in 0..MaxCrashes
    BY <1>5 DEF Restart
  <2>3. worker' \in [Targets -> Bodies]
    BY <1>5 DEF Restart
  <2>4. job' \in {"None"} \cup JobStates
    BY <1>5 DEF Restart
  <2>. QED  BY <1>5, <2>1, <2>2, <2>3, <2>4 DEF Restart
<1>. QED  BY <1>1, <1>2, <1>3, <1>4, <1>5 DEF JobStep

-----------------------------------------------------------------------------
(* Progress and the verdict. *)

\* A body at work keeps the bookkeeping of the tables.
LEMMA BodyProgress ==
  ASSUME TypeOK, Progress, NEW a \in Targets, BodyStep(a)
  PROVE  Progress'
<1>. USE DEF Progress, TypeOK, Final, Bodies, InFlight, tables, bodies, Goto, Save
<1>1. CASE Take(a)
  BY <1>1 DEF Take
<1>2. CASE Refuse(a) \/ Enter(a) \/ CancelEnd(a) \/ FailEnd(a)
  BY <1>2 DEF Refuse, Enter, CancelEnd, FailEnd, Write
<1>3. CASE Finish(a)
  BY <1>3 DEF Finish, Outcome, Write
<1>4. CASE Loop(a)
  BY <1>4 DEF Loop
<1>5. CASE StepCancelled(a)
  BY <1>5 DEF StepCancelled
<1>6. CASE StepEnds(a)
  BY <1>6 DEF StepEnds, Advance, AfterFailure
<1>7. CASE Fault(a)
  BY <1>7 DEF Fault
<1>. QED
  BY <1>1, <1>2, <1>3, <1>4, <1>5, <1>6, <1>7 DEF BodyStep, Body

\* So do the other steps.
LEMMA JobProgress ==
  ASSUME TypeOK, Progress, JobStep
  PROVE  Progress'
<1>. USE DEF Progress, TypeOK, JobStates, Final, Bodies, InFlight, tables, bodies
<1>1. CASE Start
  BY <1>1 DEF Start
<1>2. CASE Launch \/ Cancel \/ Remove
  BY <1>2 DEF Launch, Cancel, Remove
<1>3. CASE Decide
  BY <1>3 DEF Decide, AllOver
<1>4. CASE SaveJob
  BY <1>4 DEF SaveJob
<1>5. CASE Restart
  BY <1>5 DEF Restart, Recovered
<1>. QED  BY <1>1, <1>2, <1>3, <1>4, <1>5 DEF JobStep

\* Bodies run only while nothing is decided.
LEMMA BodyVerdict ==
  ASSUME TypeOK, Progress, VerdictStands, NoLooseEnds, NEW a \in Targets, BodyStep(a)
  PROVE  (VerdictStands /\ NoLooseEnds)'
<1>1. phase = "parallel" /\ UNCHANGED <<job, phase, verdict>>
  BY DEF BodyStep, Body, Take, Refuse, Enter, CancelEnd, FailEnd, Finish, Write, Loop,
         StepCancelled, StepEnds, Fault, Progress, InFlight, Bodies, tables, TypeOK
<1>. QED  BY <1>1 DEF VerdictStands, NoLooseEnds, Progress, Final

\* The verdict is taken from targets that are over, and saved as it stands.
LEMMA JobVerdict ==
  ASSUME TypeOK, Progress, VerdictStands, NoLooseEnds, JobStep
  PROVE  (VerdictStands /\ NoLooseEnds)'
<1>. USE DEF VerdictStands, NoLooseEnds, Progress, TypeOK, Final, JobStates, tables, bodies
<1>1. CASE Start
  BY <1>1 DEF Start
<1>2. CASE Launch \/ Cancel \/ Remove
  BY <1>2 DEF Launch, Cancel, Remove
<1>3. CASE Decide
  BY <1>3 DEF Decide, AllOver, Verdict
<1>4. CASE SaveJob
  BY <1>4 DEF SaveJob
<1>5. CASE Restart
  BY <1>5 DEF Restart, Recovered
<1>. QED  BY <1>1, <1>2, <1>3, <1>4, <1>5 DEF JobStep

-----------------------------------------------------------------------------
(* The order of the steps. *)

\* A body goes through the steps one by one.
LEMMA BodySteps ==
  ASSUME TypeOK, Progress, StepsBehind, StepsInOrder, NEW a \in Targets, BodyStep(a)
  PROVE  (StepsBehind /\ StepsInOrder)'
<1>. USE JobAssumption DEF StepsBehind, StepsInOrder, TypeOK, Progress, Final, Steps,
         Bodies, tables, bodies, Goto, Save
<1>1. CASE Take(a)
  BY <1>1 DEF Take
<1>2. CASE Refuse(a) \/ Enter(a) \/ CancelEnd(a) \/ FailEnd(a)
  BY <1>2 DEF Refuse, Enter, CancelEnd, FailEnd, Write
<1>3. CASE Finish(a)
  BY <1>3 DEF Finish, Outcome, Write
<1>4. CASE Loop(a)
  BY <1>4 DEF Loop, AtEnd
<1>5. CASE StepCancelled(a)
  BY <1>5 DEF StepCancelled
<1>6. CASE StepEnds(a)
  <2>1. next[a] \in Steps /\ \A s \in failed[a] : s < next[a] /\ s \in ContinueOnError
    BY <1>6 DEF StepEnds
  <2>2. CASE Advance(a) /\ UNCHANGED failed
    BY <1>6, <2>1, <2>2 DEF StepEnds, Advance
  <2>3. CASE /\ failed' = [failed EXCEPT ![a] = @ \cup {next[a]}]
             /\ next[a] \in ContinueOnError
             /\ Advance(a)
    BY <1>6, <2>1, <2>3 DEF StepEnds, Advance
  <2>4. CASE /\ failed' = [failed EXCEPT ![a] = @ \cup {next[a]}]
             /\ Goto(a, "finish") /\ UNCHANGED next
    BY <1>6, <2>1, <2>4 DEF StepEnds
  <2>. QED  BY <1>6, <2>2, <2>3, <2>4 DEF StepEnds, AfterFailure
<1>7. CASE Fault(a)
  BY <1>7 DEF Fault
<1>. QED
  BY <1>1, <1>2, <1>3, <1>4, <1>5, <1>6, <1>7 DEF BodyStep, Body

\* The other steps touch neither next nor failed, and make no target succeed.
LEMMA JobSteps ==
  ASSUME TypeOK, Progress, StepsBehind, StepsInOrder, JobStep
  PROVE  (StepsBehind /\ StepsInOrder)'
<1>. USE DEF StepsBehind, StepsInOrder, TypeOK, Progress, Steps, tables, bodies
<1>1. CASE Start
  BY <1>1 DEF Start
<1>2. CASE Launch \/ Cancel \/ Remove
  BY <1>2 DEF Launch, Cancel, Remove
<1>3. CASE Decide
  BY <1>3 DEF Decide
<1>4. CASE SaveJob
  BY <1>4 DEF SaveJob
<1>5. CASE Restart
  BY <1>5 DEF Restart, Recovered
<1>. QED  BY <1>1, <1>2, <1>3, <1>4, <1>5 DEF JobStep

-----------------------------------------------------------------------------
(* The limit on running targets. *)

\* Sets of targets are finite.
LEMMA TargetsFinite ==
  \A S \in SUBSET Targets : IsFiniteSet(S) /\ Cardinality(S) \in Nat
<1>1. IsFiniteSet(Targets)
  BY JobAssumption, FS_Interval DEF Targets
<1>. QED  BY <1>1, FS_Subset, FS_CardinalityType

\* A smaller set of occupied targets is within the limit too.
LEMMA StaysWithin ==
  ASSUME Occupied' \subseteq Occupied, Cardinality(Occupied) <= Parallelism
  PROVE  Cardinality(Occupied') <= Parallelism
<1>1. IsFiniteSet(Occupied) /\ Cardinality(Occupied) \in Nat
  BY TargetsFinite DEF Occupied
<1>2. Cardinality(Occupied') \in Nat /\ Cardinality(Occupied') <= Cardinality(Occupied)
  BY <1>1, FS_Subset, FS_CardinalityType
<1>. QED  BY <1>1, <1>2, JobAssumption DEF Parallelism

\* Only taking a target occupies one, and that needs a free worker.
LEMMA BodyLimit ==
  ASSUME TypeOK, Progress, Cardinality(Occupied) <= Parallelism,
         NEW a \in Targets, BodyStep(a)
  PROVE  Cardinality(Occupied') <= Parallelism
<1>. USE DEF TypeOK, Progress, Final, Bodies, InFlight, tables, bodies, Goto, Save
<1>1. CASE Take(a)
  <2>. DEFINE Busy == {b \in Targets : worker[b] \in InFlight}
  <2>1. Occupied' \subseteq Busy \cup {a}
    <3>. SUFFICES ASSUME NEW b \in Targets, b # a, target[b] = "Running"
                  PROVE  worker[b] \in InFlight
      BY <1>1 DEF Take, Occupied
    <3>. QED  BY <1>1 DEF Take, MayTake
  <2>2. IsFiniteSet(Busy) /\ Cardinality(Busy) \in Nat /\ a \notin Busy
    BY <1>1, TargetsFinite DEF Take
  <2>3. Cardinality(Busy) < Parallelism
    BY <1>1 DEF Take, MayTake
  <2>4. IsFiniteSet(Busy \cup {a}) /\ Cardinality(Busy \cup {a}) = Cardinality(Busy) + 1
    BY <2>2, FS_AddElement
  <2>5. /\ Cardinality(Occupied') \in Nat
        /\ Cardinality(Occupied') <= Cardinality(Busy \cup {a})
    BY <2>1, <2>4, FS_Subset, FS_CardinalityType
  <2>. HIDE DEF Busy
  <2>. QED  BY <2>2, <2>3, <2>4, <2>5, JobAssumption DEF Parallelism
<1>2. CASE ~Take(a)
  <2>1. Occupied' \subseteq Occupied
    BY <1>2 DEF BodyStep, Body, Refuse, Enter, CancelEnd, FailEnd, Finish, Outcome, Write,
                Loop, StepCancelled, StepEnds, Advance, AfterFailure, Fault, Occupied
  <2>. QED  BY <2>1, StaysWithin
<1>. QED  BY <1>1, <1>2

\* No other step occupies a target.
LEMMA JobLimit ==
  ASSUME TypeOK, Progress, Cardinality(Occupied) <= Parallelism, JobStep
  PROVE  Cardinality(Occupied') <= Parallelism
<1>1. Occupied' \subseteq Occupied
  BY DEF JobStep, Start, Launch, Cancel, Decide, Remove, SaveJob, Restart, Recovered,
         Occupied, InFlight, Bodies, TypeOK, tables, bodies
<1>. QED  BY <1>1, StaysWithin

-----------------------------------------------------------------------------
(* The invariant. *)

\* It holds before the job is started.
LEMMA InitJob == Init => JobInv
<1>. SUFFICES ASSUME Init  PROVE JobInv
  OBVIOUS
<1>. USE JobAssumption DEF Init
<1>1. TypeOK
  <2>1. next \in [Targets -> 1..(NSteps + 1)] /\ faults \in 0..MaxFaults
        /\ crashes \in 0..MaxCrashes
    OBVIOUS
  <2>2. failed \in [Targets -> SUBSET Steps] /\ worker \in [Targets -> Bodies]
    BY DEF Bodies
  <2>. QED  BY <2>1, <2>2 DEF TypeOK, Phases, Final
<1>2. Progress /\ VerdictStands /\ NoLooseEnds /\ StepsBehind /\ StepsInOrder
  BY DEF Progress, VerdictStands, NoLooseEnds, StepsBehind, StepsInOrder, Final, InFlight,
         Bodies
<1>3. Cardinality(Occupied) <= Parallelism
  <2>1. Occupied = {}
    BY DEF Occupied, InFlight
  <2>. QED  BY <2>1, FS_EmptySet DEF Parallelism
<1>. QED  BY <1>1, <1>2, <1>3 DEF JobInv

\* Every step keeps it.
LEMMA StepJob == JobInv /\ [Next]_vars => JobInv'
<1>. SUFFICES ASSUME JobInv, [Next]_vars  PROVE JobInv'
  OBVIOUS
<1>. USE DEF JobInv
<1>1. CASE JobStep
  BY <1>1, JobType, JobProgress, JobVerdict, JobSteps, JobLimit
<1>2. ASSUME NEW a \in Targets, BodyStep(a)  PROVE JobInv'
  BY <1>2, BodyType, BodyProgress, BodyVerdict, BodySteps, BodyLimit
<1>3. CASE UNCHANGED vars
  <2>1. (TypeOK /\ Progress /\ VerdictStands)'
    BY <1>3 DEF vars, tables, bodies, TypeOK, Progress, VerdictStands
  <2>2. (NoLooseEnds /\ StepsBehind /\ StepsInOrder)'
    BY <1>3 DEF vars, tables, bodies, NoLooseEnds, StepsBehind, StepsInOrder
  <2>3. Occupied' = Occupied
    BY <1>3 DEF vars, tables, bodies, Occupied
  <2>. QED  BY <2>1, <2>2, <2>3
<1>. QED  BY <1>1, <1>2, <1>3, NextSplit

\* JobInv is an invariant of the specification.
THEOREM JobInvariant == Spec => []JobInv
<1>. QED  BY InitJob, StepJob, PTL DEF Spec

\* Job rows, target rows and the loop's memory only take values the code gives them.
THEOREM TypeCorrect == Spec => []TypeOK
<1>1. JobInv => TypeOK
  BY DEF JobInv
<1>. QED  BY <1>1, JobInvariant, PTL

\* ExecuteAsync never calls a job succeeded or cancelled over targets that are not,
\* and RecoverInterruptedAsync leaves nothing unfinished.
THEOREM NoLooseEndsCorrect == Spec => []NoLooseEnds
<1>1. JobInv => NoLooseEnds
  BY DEF JobInv
<1>. QED  BY <1>1, JobInvariant, PTL

\* ExecuteTargetAsync runs no step behind a failed one that does not allow it, and a
\* target succeeds only after all steps.
THEOREM StepsInOrderCorrect == Spec => []StepsInOrder
<1>1. JobInv => StepsInOrder
  BY DEF JobInv
<1>. QED  BY <1>1, JobInvariant, PTL

\* The table never shows more running targets than the job's limit, for any limit.
THEOREM LimitCorrect == Spec => []RunningWithinLimit
<1>1. ASSUME JobInv  PROVE RunningWithinLimit
  <2>. DEFINE Shown == {a \in Targets : target[a] = "Running"}
  <2>1. Shown \subseteq Occupied
    BY DEF Occupied
  <2>2. IsFiniteSet(Occupied) /\ Cardinality(Occupied) \in Nat
    BY TargetsFinite DEF Occupied
  <2>3. Cardinality(Shown) \in Nat /\ Cardinality(Shown) <= Cardinality(Occupied)
    BY <2>1, <2>2, FS_Subset, FS_CardinalityType
  <2>. QED  BY <1>1, <2>2, <2>3, JobAssumption DEF JobInv, RunningWithinLimit, Parallelism
<1>. QED  BY <1>1, JobInvariant, PTL
=============================================================================
