------------------------------- MODULE JobRuns -------------------------------
(***************************************************************************)
(* JobService: one job over several target PCs.  The targets are taken in  *)
(* order, at most MaxParallel at a time (Parallel.ForEachAsync), and each   *)
(* runs the job's steps in order.  How a step ends (RunAndWaitAsync,        *)
(* CollectAndWaitAsync) is its environment's choice; it may also not end.   *)
(* Jobs share nothing but the table, so one is modelled.                    *)
(***************************************************************************)
EXTENDS Integers, FiniteSets

CONSTANTS
  NTargets,      \* target PCs, 1..NTargets in the order they are taken
  NSteps,        \* steps of the job
  ContinueOnError, \* the steps with that flag
  MaxParallel,   \* 0: all at once
  MaxFaults,     \* bound: database writes or reads that throw
  MaxCrashes     \* bound: restarts of the server

Targets == 1..NTargets
Steps   == 1..NSteps

ASSUME JobAssumption ==
  /\ NTargets \in Nat \ {0} /\ NSteps \in Nat \ {0}
  /\ ContinueOnError \subseteq Steps
  /\ MaxParallel \in Nat /\ MaxFaults \in Nat /\ MaxCrashes \in Nat

VARIABLES
  \* JobRuns and JobTargets tables
  job,           \* state of the job
  target,        \* target -> state
  \* memory of ExecuteAsync
  phase,         \* where StartAsync / ExecuteAsync are
  cancellable,   \* the job is in _running
  cancelled,     \* its token is signalled
  verdict,       \* finalState
  broken,        \* a body of Parallel.ForEachAsync threw
  worker,        \* target -> where its body is
  next,          \* target -> index of the step to run
  failed,        \* target -> steps that failed
  faults, crashes

tables == <<job, target>>
bodies == <<worker, next, failed>>
vars   == <<tables, phase, cancellable, cancelled, verdict, broken, bodies, faults, crashes>>

Final     == {"Succeeded", "Failed", "Cancelled"}
JobStates == {"Pending", "Running"} \cup Final
Phases    == {"new", "saved", "parallel", "decided", "removed", "done", "stuck", "off"}
Bodies    == {"waiting", "refuse", "enter", "loop", "step", "finish", "cancel", "fail", "over"}
InFlight  == Bodies \ {"waiting", "over"}

Init ==
  /\ job = "None" /\ target = [a \in Targets |-> "None"]
  /\ phase = "new" /\ cancellable = FALSE /\ cancelled = FALSE
  /\ verdict = "Failed" /\ broken = FALSE
  /\ worker = [a \in Targets |-> "waiting"]
  /\ next = [a \in Targets |-> 1] /\ failed = [a \in Targets |-> {}]
  /\ faults = 0 /\ crashes = 0

-----------------------------------------------------------------------------
(* StartAsync and CancelAsync *)

\* The job and its targets are saved ...
Start ==
  /\ phase = "new"
  /\ phase' = "saved"
  /\ job' = "Running"
  /\ target' = [a \in Targets |-> "Pending"]
  /\ UNCHANGED <<cancellable, cancelled, verdict, broken, bodies, faults, crashes>>

\* ... and, after the broadcasts, ExecuteAsync starts with a token in _running.
Launch ==
  /\ phase = "saved"
  /\ phase' = "parallel"
  /\ cancellable' = TRUE
  /\ UNCHANGED <<tables, cancelled, verdict, broken, bodies, faults, crashes>>

\* CancelAsync: without an entry in _running nothing happens.
Cancel ==
  /\ cancellable
  /\ cancelled' = TRUE
  /\ UNCHANGED <<tables, phase, cancellable, verdict, broken, bodies, faults, crashes>>

-----------------------------------------------------------------------------
(* ExecuteTargetAsync *)

Parallelism == IF MaxParallel > 0 THEN MaxParallel ELSE NTargets

\* Parallel.ForEachAsync gives the next target to a free worker, until a body
\* throws.  (Mutant: one too many.)
MayTake_OneMore(a) ==
  /\ ~broken
  /\ \A b \in Targets : b < a => worker[b] # "waiting"
  /\ Cardinality({b \in Targets : worker[b] \in InFlight}) <= Parallelism
MayTake(a) ==
  /\ ~broken
  /\ \A b \in Targets : b < a => worker[b] # "waiting"
  /\ Cardinality({b \in Targets : worker[b] \in InFlight}) < Parallelism

Goto(a, pc) == worker' = [worker EXCEPT ![a] = pc]
Save(a, s)  == target' = [target EXCEPT ![a] = s]

Take(a) ==
  /\ phase = "parallel"
  /\ worker[a] = "waiting"
  /\ MayTake(a)
  /\ Goto(a, IF cancelled THEN "refuse" ELSE "enter")
  /\ UNCHANGED <<tables, phase, cancellable, cancelled, verdict, broken, next, failed,
                 faults, crashes>>

\* The writes that end or start a body: UpdateTargetAsync.
Write(a, from, s, to) ==
  /\ worker[a] = from
  /\ Save(a, s)
  /\ Goto(a, to)
  /\ UNCHANGED <<job, phase, cancellable, cancelled, verdict, broken, next, failed,
                 faults, crashes>>

Refuse(a)    == Write(a, "refuse", "Cancelled", "over")
Enter(a)     == Write(a, "enter", "Running", "loop")
CancelEnd(a) == Write(a, "cancel", "Cancelled", "over")
FailEnd(a)   == Write(a, "fail", "Failed", "over")

\* (Mutant: the last step decides.)
Outcome_LastStep(a) == IF NSteps \in failed[a] THEN "Failed" ELSE "Succeeded"
Outcome(a)          == IF failed[a] = {} THEN "Succeeded" ELSE "Failed"
Finish(a)           == Write(a, "finish", Outcome(a), "over")

\* No step is left.
AtEnd(a) == next[a] > NSteps

\* The head of the loop over the steps.
Loop(a) ==
  /\ worker[a] = "loop"
  /\ Goto(a, IF AtEnd(a) THEN "finish" ELSE IF cancelled THEN "cancel" ELSE "step")
  /\ UNCHANGED <<tables, phase, cancellable, cancelled, verdict, broken, next, failed,
                 faults, crashes>>

\* The step succeeded, or failed but the job goes on.
Advance(a) ==
  /\ next' = [next EXCEPT ![a] = @ + 1]
  /\ Goto(a, "loop")

\* What a failed step leads to.  (Mutant: the flag is not looked at.)
AfterFailure_GoesOn(a) == Advance(a)
AfterFailure(a) ==
  IF next[a] \in ContinueOnError THEN Advance(a)
  ELSE Goto(a, "finish") /\ UNCHANGED next

StepEnds(a) ==
  /\ worker[a] = "step"
  /\ \/ Advance(a) /\ UNCHANGED failed
     \/ /\ failed' = [failed EXCEPT ![a] = @ \cup {next[a]}]
        /\ AfterFailure(a)
  /\ UNCHANGED <<tables, phase, cancellable, cancelled, verdict, broken, faults, crashes>>

\* The wait inside a step ends with OperationCanceledException.  (Mutant: the step
\* waits on without the token.)
StepCancelled_Never(a) == FALSE /\ UNCHANGED vars
StepCancelled(a) ==
  /\ worker[a] = "step"
  /\ cancelled
  /\ Goto(a, "cancel")
  /\ UNCHANGED <<tables, phase, cancellable, cancelled, verdict, broken, next, failed,
                 faults, crashes>>

\* A database call of the body throws: inside the try block the target is to be
\* marked failed, outside of it the exception ends the body and the loop.
Fault(a) ==
  /\ faults < MaxFaults
  /\ faults' = faults + 1
  /\ \/ worker[a] \in {"loop", "step", "finish"} /\ Goto(a, "fail") /\ UNCHANGED broken
     \/ /\ worker[a] \in {"refuse", "enter", "cancel", "fail"}
        /\ Goto(a, "over")
        /\ broken' = TRUE
  /\ UNCHANGED <<tables, phase, cancellable, cancelled, verdict, next, failed, crashes>>

-----------------------------------------------------------------------------
(* ExecuteAsync *)

\* Parallel.ForEachAsync is over.
AllOver ==
  /\ \A a \in Targets : worker[a] \notin InFlight
  /\ broken \/ \A a \in Targets : worker[a] = "over"

\* finalState.  (Mutant: the targets are not looked at after an exception.)
Verdict_IgnoresThrow ==
  IF cancelled THEN "Cancelled"
  ELSE IF \E a \in Targets : target[a] = "Failed" THEN "Failed" ELSE "Succeeded"
Verdict ==
  IF broken THEN "Failed"
  ELSE IF cancelled THEN "Cancelled"
  ELSE IF \A a \in Targets : target[a] = "Succeeded" THEN "Succeeded" ELSE "Failed"

Decide ==
  /\ phase = "parallel"
  /\ AllOver
  /\ phase' = "decided"
  /\ \/ verdict' = Verdict /\ UNCHANGED faults
     \/ /\ faults < MaxFaults /\ ~broken
        /\ faults' = faults + 1
        /\ verdict' = "Failed"
  /\ UNCHANGED <<tables, cancellable, cancelled, broken, bodies, crashes>>

\* finally: the job leaves _running.
Remove ==
  /\ phase = "decided"
  /\ phase' = "removed"
  /\ cancellable' = FALSE
  /\ UNCHANGED <<tables, cancelled, verdict, broken, bodies, faults, crashes>>

\* The final state is saved; nothing catches an exception of this write.
SaveJob ==
  /\ phase = "removed"
  /\ \/ phase' = "done" /\ job' = verdict /\ UNCHANGED faults
     \/ faults < MaxFaults /\ faults' = faults + 1 /\ phase' = "stuck" /\ UNCHANGED job
  /\ UNCHANGED <<target, cancellable, cancelled, verdict, broken, bodies, crashes>>

\* The server dies; at its start RecoverInterruptedAsync fails what was unfinished.
\* (Mutant: only jobs are recovered, not their targets.)
Recovered_JobOnly(a) == target[a]
Recovered(a) == IF target[a] \in {"Pending", "Running"} THEN "Failed" ELSE target[a]

Restart ==
  /\ crashes < MaxCrashes
  /\ crashes' = crashes + 1
  /\ job # "None"
  /\ job' = IF job \in {"Pending", "Running"} THEN "Failed" ELSE job
  /\ target' = [a \in Targets |-> Recovered(a)]
  /\ phase' = "off"
  /\ cancellable' = FALSE /\ cancelled' = FALSE
  /\ worker' = [a \in Targets |-> "over"]
  /\ UNCHANGED <<verdict, broken, next, failed, faults>>

Body(a) == \/ Take(a) \/ Refuse(a) \/ Enter(a) \/ Loop(a) \/ Finish(a)
           \/ CancelEnd(a) \/ FailEnd(a) \/ StepCancelled(a)

Next ==
  \/ Start \/ Launch \/ Cancel
  \/ \E a \in Targets : Body(a) \/ StepEnds(a) \/ Fault(a)
  \/ Decide \/ Remove \/ SaveJob
  \/ Restart

Spec == Init /\ [][Next]_vars

\* The program keeps going; a step's command may run for ever.
Fairness ==
  /\ WF_vars(Launch) /\ WF_vars(Decide) /\ WF_vars(Remove) /\ WF_vars(SaveJob)
  /\ \A a \in Targets : WF_vars(Body(a))

FairSpec == Spec /\ Fairness

-----------------------------------------------------------------------------
(* Properties *)

TypeOK ==
  /\ job \in {"None"} \cup JobStates
  /\ target \in [Targets -> {"None"} \cup JobStates]
  /\ phase \in Phases
  /\ cancellable \in BOOLEAN /\ cancelled \in BOOLEAN /\ broken \in BOOLEAN
  /\ verdict \in Final
  /\ worker \in [Targets -> Bodies]
  /\ next \in [Targets -> 1..(NSteps + 1)]
  /\ failed \in [Targets -> SUBSET Steps]
  /\ faults \in 0..MaxFaults /\ crashes \in 0..MaxCrashes

\* The dashboard never shows more targets running than the job's limit, whichever
\* writes failed: a target whose last write threw keeps its "Running" state, so the
\* loop must not go on to another one.
RunningWithinLimit ==
  Cardinality({a \in Targets : target[a] = "Running"}) <= Parallelism

\* A job shown as succeeded has only succeeded targets; one shown as cancelled has no
\* target left pending or running; after a restart nothing is.
NoLooseEnds ==
  /\ job = "Succeeded" => \A a \in Targets : target[a] = "Succeeded"
  /\ job = "Cancelled" => \A a \in Targets : target[a] \in Final
  /\ phase = "off" => job \in Final /\ \A a \in Targets : target[a] \in Final

\* No step runs after a failed one unless that one allowed it, and a target shown as
\* succeeded has run every step of the job without a failure.
StepsInOrder ==
  \A a \in Targets :
    /\ \A s \in failed[a] : s < next[a] => s \in ContinueOnError
    /\ target[a] = "Succeeded" => failed[a] = {} /\ next[a] = NSteps + 1

\* Where ExecuteAsync and the bodies are, and what the tables hold then: the
\* bookkeeping that makes the properties above inductive.
Progress ==
  /\ (phase = "new") = (job = "None")
  /\ phase = "done" => job = verdict
  /\ phase = "off" => job \in Final
  /\ phase \in {"saved", "parallel", "decided", "removed", "stuck"} => job = "Running"
  /\ \A a \in Targets :
       /\ (target[a] = "None") = (phase = "new")
       /\ worker[a] # "waiting" => phase \notin {"new", "saved"}
       /\ worker[a] \in InFlight => phase = "parallel"
       /\ target[a] \in Final => worker[a] = "over"
       /\ worker[a] = "over" /\ ~broken => target[a] \in Final
       /\ worker[a] \in {"waiting", "refuse", "enter"} /\ phase # "new" =>
            target[a] = "Pending"

\* What finalState stands for once it is decided.
VerdictStands ==
  phase \in {"decided", "removed", "done"} =>
    /\ verdict = "Succeeded" => \A a \in Targets : target[a] = "Succeeded"
    /\ verdict = "Cancelled" => \A a \in Targets : target[a] \in Final

\* The steps behind a body are those before next, except for the one that ended it.
StepsBehind ==
  \A a \in Targets :
    /\ worker[a] = "step" => next[a] <= NSteps
    /\ worker[a] \in {"waiting", "refuse", "enter", "loop", "step"} =>
         \A s \in failed[a] : s < next[a]
    /\ \A s \in failed[a] : s <= next[a]
    /\ worker[a] = "finish" /\ failed[a] = {} => next[a] = NSteps + 1

\* The targets a worker is busy with, or has left in the state Running.
Occupied == {a \in Targets : worker[a] \in InFlight \/ target[a] = "Running"}

JobInv ==
  /\ TypeOK /\ Progress /\ VerdictStands /\ NoLooseEnds /\ StepsBehind /\ StepsInOrder
  /\ Cardinality(Occupied) <= Parallelism

\* A job whose token was signalled ends, even when the commands of its steps never
\* do (the state stays Running only when saving it failed).
CancelEnds == cancellable /\ cancelled ~> job \in Final \/ phase = "stuck"
=============================================================================
