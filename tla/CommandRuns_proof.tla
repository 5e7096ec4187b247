-------------------------- MODULE CommandRuns_proof --------------------------
(***************************************************************************)
(* Proofs about CommandRuns, for every set of runs, queue capacity, number *)
(* of connections and number of crashes, and however the operations of the *)
(* server, the Register calls and the disconnects interleave: what the     *)
(* agent executes is tracked, and what it tracks has its result; the       *)
(* registry names the connection registered last; a job step is woken only *)
(* after an end was saved; and RunContract is implemented.                 *)
(***************************************************************************)
EXTENDS CommandRuns, TLAPS, MessageTheorems

-----------------------------------------------------------------------------
(* What is sent and queued keeps its type. *)

\* Answers and commands sent down the link are messages of the right kind.
LEMMA SendToType ==
  ASSUME TypeOK, NEW c, NEW m \in Downward, SendTo(c, m)
  PROVE  down' \in Seq(Downward)
BY AppendType DEF TypeOK, SendTo

\* OutboundQueue holds reports, whether or not one had to be dropped.
LEMMA EnqueuedType ==
  ASSUME TypeOK, NEW m \in Report
  PROVE  Enqueued(m) \in Seq(Report)
<1>1. CASE Len(queue) < QueueCap
  BY <1>1, AppendType DEF TypeOK, Enqueued
<1>2. CASE ~(Len(queue) < QueueCap)
  <2>1. queue # <<>>
    BY <1>2, BoundAssumption, EmptySeq
  <2>2. Tail(queue) \in Seq(Report)
    BY <2>1, TailType DEF TypeOK
  <2>. QED  BY <1>2, <2>2, AppendType DEF Enqueued
<1>. QED  BY <1>1, <1>2

\* The ends noted are ends of runs.
LEMMA NotedType == TypeOK /\ Noted => ended' \subseteq Runs
BY DEF TypeOK, Noted

-----------------------------------------------------------------------------
(* Type correctness: each group of actions preserves TypeOK. *)

\* The steps of RunService keep the types.
LEMMA RequestType == TypeOK /\ RequestStep => TypeOK'
<1>. SUFFICES ASSUME TypeOK, NEW r \in Runs,
                     \/ Create(r) \/ CreateSend(r)
                     \/ JobLookup(r) \/ JobInsert(r) \/ JobSend(r)
                     \/ JobWake(r) \/ JobCancel(r)
                     \/ UserCancel(r) \/ CancelRead(r) \/ CancelSave(r)
              PROVE  TypeOK'
  BY DEF RequestStep
<1>. USE RunsAssumption DEF States, Active, Finished, Reported, RequestStates,
         serverMem, network, agentRuns, agentConn
<1>0. /\ [kind |-> "RunCommand", run |-> r] \in Downward
      /\ [kind |-> "CancelCommand", run |-> r] \in Downward
  BY DEF Downward
<1>1. CASE Create(r)
  <2>1. run' \in [Runs -> States]
    BY <1>1 DEF TypeOK, Create
  <2>2. request' \in [Runs -> RequestStates]
    <3>1. request[r] \in RequestStates
      BY DEF TypeOK
    <3>2. \A s \in {"send", "done"} : [request[r] EXCEPT !.step = s] \in RequestStates
      BY <3>1
    <3>3. PICK s \in {"send", "done"} : request' = [request EXCEPT ![r].step = s]
      BY <1>1 DEF Create
    <3>. HIDE DEF RequestStates
    <3>. QED  BY <3>2, <3>3 DEF TypeOK
  <2>. QED  BY <1>1, <2>1, <2>2, NotedType DEF TypeOK, Create
<1>2. CASE CreateSend(r)
  <2>1. down' \in Seq(Downward)
    BY <1>0, <1>2, SendToType DEF CreateSend
  <2>. QED  BY <1>2, <2>1 DEF TypeOK, CreateSend
<1>3. CASE JobLookup(r)
  BY <1>3 DEF TypeOK, JobLookup
<1>4. CASE JobInsert(r)
  <2>1. run' \in [Runs -> States] /\ request' \in [Runs -> RequestStates]
    BY <1>4 DEF TypeOK, JobInsert
  <2>. QED  BY <1>4, <2>1, NotedType DEF TypeOK, JobInsert
<1>5. CASE JobSend(r)
  <2>1. down' \in Seq(Downward)
    BY <1>0, <1>5, SendToType DEF JobSend
  <2>. QED  BY <1>5, <2>1 DEF TypeOK, JobSend
<1>6. CASE JobWake(r)
  BY <1>6 DEF TypeOK, JobWake
<1>7. ASSUME CancelRun(r)
      PROVE  /\ down' \in Seq(Downward)
             /\ cancelling' \in [Runs -> {"idle", "read", "save"}]
  BY <1>0, <1>7, SendToType DEF TypeOK, CancelRun
<1>8. CASE JobCancel(r)
  <2>1. /\ down' \in Seq(Downward)
        /\ cancelling' \in [Runs -> {"idle", "read", "save"}]
    BY <1>7, <1>8 DEF JobCancel, TypeOK
  <2>. QED  BY <1>8, <2>1 DEF TypeOK, JobCancel
<1>9. CASE UserCancel(r)
  BY <1>7, <1>9 DEF TypeOK, UserCancel
<1>10. CASE CancelRead(r)
  BY <1>10 DEF TypeOK, CancelRead
<1>11. CASE CancelSave(r)
  BY <1>11, NotedType DEF TypeOK, CancelSave
<1>. QED
  BY <1>1, <1>2, <1>3, <1>4, <1>5, <1>6, <1>8, <1>9, <1>10, <1>11

\* Reading the next call of a connection keeps up and hub well typed.
LEMMA ServedType ==
  ASSUME TypeOK, NEW c \in Conns, Served(c)
  PROVE  /\ Head(up[c]) \in Invocation
         /\ Consumed(c) => up' \in [Conns -> Seq(Invocation)]
         /\ \A S \in SUBSET Runs : Opened(c, S) => hub' \in [Conns -> HubStates]
<1>1. up[c] \in Seq(Invocation) /\ up[c] # <<>>
  BY DEF TypeOK, Served
<1>2. Head(up[c]) \in Invocation /\ Tail(up[c]) \in Seq(Invocation)
  BY <1>1, TailType
<1>3. Consumed(c) => up' \in [Conns -> Seq(Invocation)]
  BY <1>2 DEF TypeOK, Consumed
<1>4. ASSUME NEW S \in SUBSET Runs, Opened(c, S)
      PROVE  hub' \in [Conns -> HubStates]
  BY <1>2, <1>4 DEF TypeOK, Opened, HubStates
<1>. QED  BY <1>2, <1>3, <1>4

\* The invocation in progress is one the agent can make.
LEMMA CallType ==
  ASSUME TypeOK, NEW c \in Conns
  PROVE  /\ hub[c].call.kind = "Started" => hub[c].call.run \in Runs
         /\ hub[c].call.kind = "Completed" =>
              hub[c].call.run \in Runs /\ hub[c].call.state \in Reported
         /\ hub[c].orphans \subseteq Runs
<1>. DEFINE h == hub[c]
<1>1. h \in HubStates
  BY DEF TypeOK
<1>2. CASE h \in [step : {"idle"}, call : {NoCall}, orphans : {{}}]
  BY <1>2 DEF NoCall
<1>3. CASE h \in [step : {"save", "set"}, call : Invocation, orphans : SUBSET Runs]
  <2>1. h.call \in Invocation /\ h.orphans \subseteq Runs
    BY <1>3
  <2>. QED  BY <2>1 DEF Invocation, Report
<1>. QED  BY <1>1, <1>2, <1>3 DEF HubStates

\* The agent's side of a lost connection is well typed.
LEMMA AgentDropsType ==
  ASSUME AgentDrops
  PROVE  /\ link' \in 0..MaxConns /\ registered' \in BOOLEAN
         /\ registering' \in Int /\ down' \in Seq(Downward)
<1>1. down' \in Seq(Downward)
  BY EmptySeq DEF AgentDrops
<1>2. registered' \in BOOLEAN
  BY DEF AgentDrops
<1>3. link' \in 0..MaxConns /\ registering' \in Int
  BY BoundAssumption DEF AgentDrops
<1>. QED  BY <1>1, <1>2, <1>3

\* The steps of AgentHub keep the types.
LEMMA HubType == TypeOK /\ HubStep => TypeOK'
<1>. SUFFICES ASSUME TypeOK, NEW c \in Conns,
                     \/ RegisterRead(c) \/ RegisterSave(c) \/ RegisterSet(c)
                     \/ ReportRead(c) \/ StartedSave(c) \/ CompletedSave(c)
                     \/ Abort(c) \/ OnDisconnected(c)
              PROVE  TypeOK'
  BY DEF HubStep
<1>. USE DEF serverMem, network, agentRuns, agentConn
<1>0. /\ [kind |-> "Registered"] \in Downward
      /\ [kind |-> "Acked"] \in Downward
      /\ Idle \in HubStates
      /\ c \in 1..MaxConns
  BY DEF Downward, Idle, HubStates, NoCall, Conns
<1>1. CASE RegisterRead(c)
  <2>1. up' \in [Conns -> Seq(Invocation)] /\ hub' \in [Conns -> HubStates]
    BY <1>1, ServedType DEF RegisterRead, NextCall, Orphans
  <2>. QED  BY <1>1, <2>1 DEF TypeOK, RegisterRead
<1>2. CASE RegisterSave(c)
  <2>1. run' \in [Runs -> States]
    BY <1>2 DEF TypeOK, RegisterSave, States, Finished
  <2>2. hub' \in [Conns -> HubStates]
    <3>1. hub[c] \in [step : {"save", "set"}, call : Invocation, orphans : SUBSET Runs]
      BY <1>2 DEF TypeOK, RegisterSave, HubStates
    <3>2. [hub[c] EXCEPT !.step = "set"]
            \in [step : {"save", "set"}, call : Invocation, orphans : SUBSET Runs]
      BY <3>1
    <3>. QED  BY <1>2, <3>2 DEF TypeOK, RegisterSave, HubStates
  <2>. QED  BY <1>2, <2>1, <2>2, NotedType DEF TypeOK, RegisterSave
<1>3. CASE RegisterSet(c)
  <2>1. down' \in Seq(Downward)
    BY <1>0, <1>3, SendToType DEF RegisterSet, Answer
  <2>. QED  BY <1>0, <1>3, <2>1 DEF TypeOK, RegisterSet
<1>4. CASE ReportRead(c)
  <2>1. up' \in [Conns -> Seq(Invocation)]
    BY <1>4, ServedType DEF ReportRead
  <2>2. down' \in Seq(Downward) /\ hub' \in [Conns -> HubStates]
    BY <1>0, <1>4, SendToType, ServedType DEF ReportRead, Answer, TypeOK
  <2>. QED  BY <1>4, <2>1, <2>2 DEF TypeOK, ReportRead
<1>5. CASE StartedSave(c)
  <2>1. down' \in Seq(Downward)
    BY <1>0, <1>5, SendToType DEF StartedSave, Answer
  <2>2. run' \in [Runs -> States]
    BY <1>5 DEF TypeOK, StartedSave, States, Active
  <2>. QED  BY <1>0, <1>5, <2>1, <2>2, NotedType DEF TypeOK, StartedSave
<1>6. CASE CompletedSave(c)
  <2>1. down' \in Seq(Downward)
    BY <1>0, <1>6, SendToType DEF CompletedSave, Answer
  <2>2. run' \in [Runs -> States]
    BY <1>6, CallType DEF TypeOK, CompletedSave, States, Finished
  <2>. QED  BY <1>0, <1>6, <2>1, <2>2, NotedType DEF TypeOK, CompletedSave
<1>7. CASE Abort(c)
  <2>1. up' \in [Conns -> Seq(Invocation)]
    BY <1>7, EmptySeq DEF TypeOK, Abort
  <2>2. pump' \in PumpStates
    BY <1>7 DEF TypeOK, Abort, Retried, PumpStates
  <2>3. /\ link' \in 0..MaxConns /\ registered' \in BOOLEAN
        /\ registering' \in Int /\ down' \in Seq(Downward)
    BY <1>7, AgentDropsType DEF TypeOK, Abort
  <2>. QED  BY <1>7, <2>1, <2>2, <2>3 DEF TypeOK, Abort
<1>8. CASE OnDisconnected(c)
  <2>1. up' \in [Conns -> Seq(Invocation)]
    BY <1>8, EmptySeq DEF TypeOK, OnDisconnected
  <2>2. registry' \in 0..MaxConns
    BY <1>8, BoundAssumption DEF TypeOK, OnDisconnected, Removed
  <2>. QED  BY <1>8, <2>1, <2>2 DEF TypeOK, OnDisconnected
<1>. QED  BY <1>1, <1>2, <1>3, <1>4, <1>5, <1>6, <1>7, <1>8

\* The steps of CommandRunner keep the types.
LEMMA RunnerType == TypeOK /\ RunnerStep => TypeOK'
<1>. SUFFICES ASSUME TypeOK,
                     \/ Start \/ Cancel
                     \/ \E r \in Runs : ProcessStarts(r) \/ RunEnds(r)
              PROVE  TypeOK'
  BY DEF RunnerStep
<1>. USE DEF serverMem, network, agentRuns, agentConn
<1>1. ASSUME down # <<>>
      PROVE  /\ Head(down) \in Downward
             /\ Tail(down) \in Seq(Downward)
             /\ Head(down).kind \in {"RunCommand", "CancelCommand"}
                  => Head(down).run \in Runs
  <2>1. Head(down) \in Downward /\ Tail(down) \in Seq(Downward)
    BY <1>1, TailType DEF TypeOK
  <2>. QED  BY <2>1 DEF Downward
<1>2. CASE Start
  BY <1>1, <1>2 DEF TypeOK, Start
<1>3. CASE Cancel
  <2>. DEFINE r == Head(down).run
  <2>1. r \in Runs /\ down' \in Seq(Downward)
    BY <1>1, <1>3 DEF Cancel
  <2>2. [kind |-> "Completed", run |-> r, state |-> "Cancelled"] \in Report
    BY <2>1 DEF Report, Reported
  <2>3. queue' \in Seq(Report)
    BY <1>3, <2>2, EnqueuedType DEF TypeOK, Cancel, CancelAnswer
  <2>4. stopping' \subseteq executing
    BY <1>3 DEF TypeOK, Cancel, CancelSignal
  <2>. QED  BY <1>3, <2>1, <2>3, <2>4 DEF TypeOK, Cancel
<1>4. ASSUME NEW r \in Runs, ProcessStarts(r)
      PROVE  TypeOK'
  <2>1. queue' \in Seq(Report)
    BY <1>4, EnqueuedType DEF ProcessStarts, Report
  <2>. QED  BY <1>4, <2>1 DEF TypeOK, ProcessStarts
<1>5. ASSUME NEW r \in Runs, RunEnds(r)
      PROVE  TypeOK'
  <2>1. PICK s \in Outcomes(r) :
          queue' = Enqueued([kind |-> "Completed", run |-> r, state |-> s])
    BY <1>5 DEF RunEnds
  <2>2. [kind |-> "Completed", run |-> r, state |-> s] \in Report
    BY <2>1, ExitAssumption DEF Outcomes, Report, Reported
  <2>3. queue' \in Seq(Report)
    BY <2>1, <2>2, EnqueuedType
  <2>. QED  BY <1>5, <2>3 DEF TypeOK, RunEnds
<1>. QED  BY <1>2, <1>3, <1>4, <1>5

\* The steps of AgentWorker keep the types.
LEMMA WorkerType == TypeOK /\ WorkerStep => TypeOK'
<1>. SUFFICES ASSUME TypeOK, WorkerStep
              PROVE  TypeOK'
  OBVIOUS
<1>. USE DEF serverMem, network, agentRuns, agentConn
<1>0. ASSUME down # <<>>
      PROVE  Tail(down) \in Seq(Downward)
  BY <1>0, TailType DEF TypeOK
<1>1. CASE PumpTake
  <2>1. Head(queue) \in Report /\ Tail(queue) \in Seq(Report)
    BY <1>1, TailType DEF TypeOK, PumpTake
  <2>. QED  BY <1>1, <2>1 DEF TypeOK, PumpTake, PumpStates
<1>2. CASE PumpCheck
  BY <1>2 DEF TypeOK, PumpCheck, PumpStates
<1>3. CASE PumpInvoke
  <2>1. pump' \in PumpStates /\ pump.call \in Report
    BY <1>3 DEF TypeOK, PumpInvoke, PumpStates
  <2>2. up' \in [Conns -> Seq(Invocation)]
    <3>1. pump.call \in Invocation
      BY <2>1 DEF Invocation
    <3>2. CASE link # 0
      <4>1. up[link] \in Seq(Invocation)
        BY <3>2, BoundAssumption DEF TypeOK, Conns
      <4>2. Append(up[link], pump.call) \in Seq(Invocation)
        BY <3>1, <4>1, AppendType
      <4>. QED  BY <1>3, <3>2, <4>2 DEF TypeOK, PumpInvoke
    <3>3. CASE link = 0
      BY <1>3, <3>3 DEF TypeOK, PumpInvoke
    <3>. QED  BY <3>2, <3>3
  <2>. QED  BY <1>3, <2>1, <2>2 DEF TypeOK, PumpInvoke
<1>4. CASE PumpAcked
  <2>1. unreported' \subseteq Runs
    BY <1>4 DEF TypeOK, PumpAcked, AfterReport
  <2>. QED  BY <1>0, <1>4, <2>1 DEF TypeOK, PumpAcked, PumpStates
<1>5. CASE Connect
  <2>1. link' \in 0..MaxConns /\ conns' \in 0..MaxConns /\ alive' \subseteq Conns
    BY <1>5, BoundAssumption DEF TypeOK, Connect, Conns
  <2>. QED  BY <1>5, <2>1 DEF TypeOK, Connect
<1>6. CASE Register
  <2>1. up[link] \in Seq(Invocation)
    BY <1>6, BoundAssumption DEF TypeOK, Register, Conns
  <2>2. [kind |-> "Register", known |-> unreported] \in Invocation
    BY DEF TypeOK, Invocation
  <2>3. up' \in [Conns -> Seq(Invocation)]
    BY <1>6, <2>1, <2>2, AppendType DEF TypeOK, Register
  <2>. QED  BY <1>6, <2>3 DEF TypeOK, Register
<1>7. CASE RegisterDone
  BY <1>0, <1>7 DEF TypeOK, RegisterDone
<1>. QED  BY <1>1, <1>2, <1>3, <1>4, <1>5, <1>6, <1>7 DEF WorkerStep

\* What is left of the calls on their way when the link is lost.
LEMMA UpLostType ==
  ASSUME TypeOK, UpLost
  PROVE  up' \in [Conns -> Seq(Invocation)]
<1>1. CASE link = 0
  BY <1>1 DEF TypeOK, UpLost
<1>2. CASE link # 0
  <2>1. up[link] \in Seq(Invocation)
    BY <1>2, BoundAssumption DEF TypeOK, Conns
  <2>2. PICK n \in 0..Len(up[link]) : up' = [up EXCEPT ![link] = SubSeq(@, 1, n)]
    BY <1>2 DEF UpLost
  <2>3. SubSeq(up[link], 1, n) \in Seq(Invocation)
    BY <2>1, <2>2, PrefixType
  <2>. QED  BY <2>2, <2>3 DEF TypeOK
<1>. QED  BY <1>1, <1>2

\* Failures keep the types.
LEMMA FailureType == TypeOK /\ Failure => TypeOK'
<1>. SUFFICES ASSUME TypeOK, Failure
              PROVE  TypeOK'
  OBVIOUS
<1>. USE DEF serverMem, network, agentRuns, agentConn
<1>1. CASE LinkDrop
  <2>1. pump' \in PumpStates
    BY <1>1 DEF TypeOK, LinkDrop, Retried, PumpStates
  <2>2. up' \in [Conns -> Seq(Invocation)]
    BY <1>1, UpLostType DEF LinkDrop
  <2>. QED  BY <1>1, <2>1, <2>2, AgentDropsType DEF TypeOK, LinkDrop
<1>2. CASE AgentCrash
  <2>1. up' \in [Conns -> Seq(Invocation)]
    BY <1>2, UpLostType DEF AgentCrash
  <2>2. pump' \in PumpStates /\ queue' \in Seq(Report)
    BY <1>2, EmptySeq DEF AgentCrash, PumpStates
  <2>. QED  BY <1>2, <2>1, <2>2, AgentDropsType, BoundAssumption DEF TypeOK, AgentCrash
<1>3. CASE ServerCrash
  <2>1. pump' \in PumpStates
    BY <1>3 DEF TypeOK, ServerCrash, Retried, PumpStates
  <2>2. hub' \in [Conns -> HubStates] /\ up' \in [Conns -> Seq(Invocation)]
    BY <1>3, EmptySeq DEF ServerCrash, HubStates, Idle, NoCall
  <2>3. request' \in [Runs -> RequestStates]
    BY <1>3, BoundAssumption DEF TypeOK, ServerCrash, RequestStates
  <2>4. cancelling' \in [Runs -> {"idle", "read", "save"}]
    BY <1>3 DEF ServerCrash
  <2>. QED
    BY <1>3, <2>1, <2>2, <2>3, <2>4, AgentDropsType, BoundAssumption
    DEF TypeOK, ServerCrash
<1>. QED  BY <1>1, <1>2, <1>3 DEF Failure

\* Every step keeps the types.
LEMMA TypeStep == TypeOK /\ [Next]_vars => TypeOK'
<1>1. TypeOK /\ UNCHANGED vars => TypeOK'
  BY DEF TypeOK, vars, serverMem, network, agentRuns, agentConn
<1>. QED  BY <1>1, RequestType, HubType, RunnerType, WorkerType, FailureType DEF Next

\* Every reachable state of the run life cycle is well typed: the handlers leave
\* the table, the server's memory, the network and the agent in legal states.
THEOREM TypeCorrect == Spec => []TypeOK
<1>1. Init => TypeOK
  <2>. SUFFICES ASSUME Init
                PROVE  TypeOK
    OBVIOUS
  <2>1. up \in [Conns -> Seq(Invocation)] /\ down \in Seq(Downward) /\ queue \in Seq(Report)
    BY EmptySeq DEF Init
  <2>2. hub \in [Conns -> HubStates] /\ pump \in PumpStates
    BY DEF Init, HubStates, PumpStates, Idle, NoCall
  <2>3. request \in [Runs -> RequestStates] /\ run \in [Runs -> States]
    BY BoundAssumption DEF Init, RequestStates, States
  <2>4. registered \in BOOLEAN
    BY DEF Init
  <2>5. /\ cancelling \in [Runs -> {"idle", "read", "save"}]
        /\ registry \in 0..MaxConns /\ latest \in 0..MaxConns /\ ended \subseteq Runs
        /\ link \in 0..MaxConns /\ conns \in 0..MaxConns
        /\ registering \in Int /\ crashes \in Nat
    BY BoundAssumption DEF Init
  <2>6. /\ identified \subseteq Conns /\ alive \subseteq Conns
        /\ waiter \subseteq JobSteps /\ unreported \subseteq Runs
        /\ executing \subseteq Runs /\ started \subseteq executing
        /\ stopping \subseteq executing
    BY DEF Init
  <2>. QED
    BY <2>1, <2>2, <2>3, <2>4, <2>5, <2>6 DEF TypeOK
<1>. QED  BY <1>1, TypeStep, PTL DEF Spec

-----------------------------------------------------------------------------
(* What a step does to the messages under way, however operations interleave. *)

ReportKinds == {"Started", "Completed"}
StartOf(r)  == [kind |-> "Started", run |-> r]
Ends(r, m)  == m.kind = "Completed" /\ m.run = r

\* Reports are named by their run.
LEMMA ReportNames ==
  ASSUME TypeOK
  PROVE  /\ \A m \in Report : m.run \in Runs /\ m.kind \in ReportKinds
                              /\ (m.kind = "Started" => m = StartOf(m.run))
         /\ \A m \in Invocation : m.kind \in ReportKinds <=> m \in Report
         /\ \A c \in Conns : up[c] \in Seq(Invocation)
         /\ \A c \in Conns : hub[c].call.kind \in ReportKinds => hub[c].call \in Report
         /\ pump.call = NoCall \/ pump.call \in Report
         /\ pump.step # "idle" <=> pump.call \in Report
         /\ NoCall.kind \notin ReportKinds /\ NoCall \notin Report
<1>1. \A m \in Report : m.run \in Runs /\ m.kind \in ReportKinds
                        /\ (m.kind = "Started" => m = StartOf(m.run))
  BY DEF Report, ReportKinds, StartOf
<1>2. \A m \in Invocation : m.kind \in ReportKinds <=> m \in Report
  BY DEF Invocation, Report, ReportKinds
<1>3. \A c \in Conns : hub[c].call.kind \in ReportKinds => hub[c].call \in Report
  <2>. SUFFICES ASSUME NEW c \in Conns, hub[c].call.kind \in ReportKinds
                PROVE  hub[c].call \in Report
    OBVIOUS
  <2>1. hub[c] \in HubStates
    BY DEF TypeOK
  <2>2. hub[c].call = NoCall \/ hub[c].call \in Invocation
    BY <2>1 DEF HubStates
  <2>. QED  BY <1>2, <2>2 DEF NoCall, ReportKinds
<1>4. NoCall.kind \notin ReportKinds /\ NoCall \notin Report
  BY DEF NoCall, ReportKinds, Report
<1>5. /\ pump.call = NoCall \/ pump.call \in Report
      /\ pump.step # "idle" <=> pump.call \in Report
  <2>1. pump \in PumpStates
    BY DEF TypeOK
  <2>. QED  BY <1>4, <2>1 DEF PumpStates
<1>. QED  BY <1>1, <1>2, <1>3, <1>4, <1>5 DEF TypeOK

\* What the server gets from a connection: nothing new, or the pump's report, or a Register
\* call.
LEMMA UpStep ==
  ASSUME TypeOK, [Next]_vars, NEW c \in Conns
  PROVE  \/ up'[c] = up[c]
         \/ up'[c] = <<>>
         \/ up[c] # <<>> /\ up'[c] = Tail(up[c])
         \/ link' # link /\ \E n \in 0..Len(up[c]) : up'[c] = SubSeq(up[c], 1, n)
         \/ /\ Register /\ c = link
            /\ up'[c] = Append(up[c], [kind |-> "Register", known |-> unreported])
         \/ PumpInvoke /\ c = link /\ up'[c] = Append(up[c], pump.call)
<1>. USE DEF serverMem, network, agentRuns, agentConn
<1>0. link # 0 => link \in Conns
  BY BoundAssumption DEF TypeOK, Conns
<1>1. CASE RequestStep \/ RunnerStep
  BY <1>1 DEF RequestStep, Create, CreateSend, JobLookup, JobInsert, JobSend, JobWake, JobCancel,
     UserCancel, CancelRead, CancelSave, RunnerStep, Start, Cancel, ProcessStarts, RunEnds
<1>2. CASE HubStep
  <2>1. PICK d \in Conns : \/ RegisterRead(d) \/ RegisterSave(d) \/ RegisterSet(d)
                           \/ ReportRead(d) \/ StartedSave(d) \/ CompletedSave(d)
                           \/ Abort(d) \/ OnDisconnected(d)
    BY <1>2 DEF HubStep
  <2>2. CASE RegisterRead(d) \/ ReportRead(d)
    BY <2>2 DEF RegisterRead, ReportRead, NextCall, Served, Consumed, TypeOK
  <2>3. CASE RegisterSave(d) \/ RegisterSet(d) \/ StartedSave(d) \/ CompletedSave(d)
    BY <2>3 DEF RegisterSave, RegisterSet, StartedSave, CompletedSave
  <2>4. CASE Abort(d) \/ OnDisconnected(d)
    BY <2>4 DEF Abort, OnDisconnected, TypeOK
  <2>. QED  BY <2>1, <2>2, <2>3, <2>4
<1>3. CASE PumpTake \/ PumpCheck \/ PumpAcked \/ Connect \/ RegisterDone
  BY <1>3 DEF PumpTake, PumpCheck, PumpAcked, Connect, RegisterDone
<1>4. CASE PumpInvoke
  BY <1>0, <1>4 DEF PumpInvoke, TypeOK
<1>5. CASE Register
  BY <1>0, <1>5 DEF Register, TypeOK
<1>6. CASE LinkDrop \/ AgentCrash
  <2>1. UpLost /\ link' = 0
    BY <1>6 DEF LinkDrop, AgentCrash, AgentDrops
  <2>. QED  BY <1>0, <2>1 DEF UpLost, TypeOK
<1>7. CASE ServerCrash
  BY <1>7 DEF ServerCrash
<1>8. CASE UNCHANGED vars
  BY <1>8 DEF vars
<1>. QED
  BY <1>1, <1>2, <1>3, <1>4, <1>5, <1>6, <1>7, <1>8 DEF Next, WorkerStep, Failure

\* So of the reports on a connection only the pump's can be new.
LEMMA UpHolds ==
  ASSUME TypeOK, [Next]_vars, NEW c \in Conns, NEW m \in Report, Holds(up'[c], m)
  PROVE  Holds(up[c], m) \/ (PumpInvoke /\ m = pump.call)
<1>1. up[c] \in Seq(Invocation)
  BY DEF TypeOK
<1>2. m # [kind |-> "Register", known |-> unreported]
  BY DEF Report
<1>3. CASE up'[c] = up[c] \/ up'[c] = <<>>
  BY <1>3, EmptyHolds
<1>4. CASE up[c] # <<>> /\ up'[c] = Tail(up[c])
  BY <1>1, <1>4, TailHolds
<1>5. ASSUME NEW n \in 0..Len(up[c]), up'[c] = SubSeq(up[c], 1, n)
      PROVE  Holds(up[c], m)
  BY <1>1, <1>5, PrefixHolds
<1>6. CASE up'[c] = Append(up[c], [kind |-> "Register", known |-> unreported])
  BY <1>1, <1>2, <1>6, AppendHolds
<1>7. CASE PumpInvoke /\ up'[c] = Append(up[c], pump.call)
  BY <1>1, <1>7, AppendHolds
<1>. QED  BY <1>3, <1>4, <1>5, <1>6, <1>7, UpStep

\* What the hub works on: the same invocation, none, or the first of the connection.
LEMMA HubCalls ==
  ASSUME TypeOK, [Next]_vars, NEW c \in Conns
  PROVE  \/ hub'[c].call = hub[c].call /\ hub'[c].orphans = hub[c].orphans
            /\ (hub'[c].step = "idle" <=> hub[c].step = "idle")
         \/ hub'[c] = Idle
         \/ /\ Served(c) /\ up'[c] = Tail(up[c])
            /\ hub'[c].call = Head(up[c])
            /\ \A r \in hub'[c].orphans : r \in Runs /\ run[r] \in Active
            /\ Head(up[c]).kind \in ReportKinds => Accepts(Head(up[c])) /\ ReportRead(c)
<1>. USE DEF serverMem, network
<1>1. CASE RequestStep
  BY <1>1 DEF RequestStep, Create, CreateSend, JobLookup, JobInsert, JobSend, JobWake, JobCancel,
     UserCancel, CancelRead, CancelSave
<1>2. CASE RunnerStep \/ WorkerStep \/ LinkDrop \/ AgentCrash \/ UNCHANGED vars
  BY <1>2 DEF RunnerStep, Start, Cancel, ProcessStarts, RunEnds, WorkerStep, PumpTake, PumpCheck,
     PumpInvoke, PumpAcked, Connect, Register, RegisterDone, LinkDrop, AgentCrash, vars
<1>3. CASE ServerCrash
  BY <1>3 DEF ServerCrash
<1>4. ASSUME NEW d \in Conns, RegisterRead(d) \/ (ReportRead(d) /\ Accepts(Head(up[d])))
      PROVE  \/ hub'[c] = hub[c]
             \/ /\ Served(c) /\ up'[c] = Tail(up[c])
                /\ hub'[c].call = Head(up[c])
                /\ \A r \in hub'[c].orphans : r \in Runs /\ run[r] \in Active
                /\ Head(up[c]).kind \in ReportKinds => Accepts(Head(up[c])) /\ ReportRead(c)
  <2>1. CASE c # d
    BY <1>4, <2>1 DEF RegisterRead, ReportRead, Opened, TypeOK
  <2>2. CASE c = d /\ RegisterRead(c)
    BY <2>2 DEF RegisterRead, NextCall, Opened, Consumed, Orphans, ReportKinds, TypeOK
  <2>3. CASE c = d /\ ReportRead(c) /\ Accepts(Head(up[c]))
    BY <2>3 DEF ReportRead, Opened, Consumed, TypeOK
  <2>. QED  BY <1>4, <2>1, <2>2, <2>3
<1>5. ASSUME NEW d \in Conns, RegisterSave(d)
      PROVE  /\ hub'[c].call = hub[c].call /\ hub'[c].orphans = hub[c].orphans
             /\ (hub'[c].step = "idle" <=> hub[c].step = "idle")
  <2>1. hub[c] \in HubStates
    BY DEF TypeOK
  <2>. QED  BY <1>5, <2>1 DEF RegisterSave, TypeOK, HubStates
<1>6. ASSUME NEW d \in Conns, RegisterSet(d) \/ StartedSave(d) \/ CompletedSave(d)
      PROVE  hub'[c] = hub[c] \/ hub'[c] = Idle
  BY <1>6 DEF RegisterSet, StartedSave, CompletedSave, TypeOK
<1>7. ASSUME NEW d \in Conns,
             Abort(d) \/ OnDisconnected(d) \/ (ReportRead(d) /\ ~Accepts(Head(up[d])))
      PROVE  hub'[c] = hub[c]
  BY <1>7 DEF Abort, OnDisconnected, ReportRead
<1>8. HubStep => \E d \in Conns : \/ RegisterRead(d) \/ RegisterSave(d) \/ RegisterSet(d)
                                  \/ ReportRead(d) \/ StartedSave(d) \/ CompletedSave(d)
                                  \/ Abort(d) \/ OnDisconnected(d)
  BY DEF HubStep
<1>. QED
  BY <1>1, <1>2, <1>3, <1>4, <1>5, <1>6, <1>7, <1>8 DEF Next, Failure

-----------------------------------------------------------------------------
(* What operations, messages and the agent have to do with is in the table.  *)

\* A run is in the table once its request has inserted it.
RequestInv ==
  /\ \A r \in Runs : request[r].step \in {"new", "insert"} => run[r] = "None"
  /\ \A r \in Runs : request[r].step \in {"send", "wait"} => run[r] # "None"
  /\ \A r \in Runs : cancelling[r] # "idle" => run[r] # "None"

\* So are the runs named on the agent's side and on the way to it ...
Recorded ==
  /\ \A r \in executing \cup unreported : run[r] # "None"
  /\ \A i \in 1..Len(queue) : run[queue[i].run] # "None"
  /\ pump.step # "idle" => run[pump.call.run] # "None"
  /\ \A i \in 1..Len(down) :
       down[i].kind \in {"RunCommand", "CancelCommand"} => run[down[i].run] # "None"

\* ... and those named on the way to the server and in its hands.
HubRecorded ==
  \A c \in Conns :
    /\ \A m \in Report : Holds(up[c], m) => run[m.run] # "None"
    /\ hub[c].call.kind \in ReportKinds => run[hub[c].call.run] # "None"
    /\ \A r \in hub[c].orphans : run[r] # "None"

TableInv == RequestInv /\ Recorded /\ HubRecorded

\* How a recorded state may change in a step.  Only a save of MarkStartedAsync may follow
\* the end of a run: it relies on the state it read.
LEMMA RunStep ==
  ASSUME TypeOK, RequestInv, HubRecorded, [Next]_vars, NEW r \in Runs
  PROVE  \/ run'[r] = run[r]
         \/ run[r] = "None" /\ run'[r] # "None" /\ request'[r].step \in {"send", "done"}
         \/ run[r] # "None" /\ run'[r] \in Finished
         \/ run[r] # "None" /\ run'[r] = "Running" /\ \E c \in Conns : hub[c].call = StartOf(r)
<1>. USE DEF serverMem, network
<1>1. ASSUME NEW s \in Runs, Create(s) \/ JobInsert(s)
      PROVE  \/ run'[r] = run[r]
             \/ run[r] = "None" /\ run'[r] # "None" /\ request'[r].step \in {"send", "done"}
  BY <1>1 DEF Create, JobInsert, RequestInv, TypeOK, RequestStates
<1>2. ASSUME NEW s \in Runs, CancelSave(s)
      PROVE  run'[r] = run[r] \/ (run[r] # "None" /\ run'[r] \in Finished)
  BY <1>2 DEF CancelSave, RequestInv, TypeOK, Finished, Reported
<1>3. ASSUME NEW c \in Conns, RegisterSave(c)
      PROVE  run'[r] = run[r] \/ (run[r] # "None" /\ run'[r] \in Finished)
  BY <1>3 DEF RegisterSave, HubRecorded, Finished
<1>4. ASSUME NEW c \in Conns, StartedSave(c)
      PROVE  \/ run'[r] = run[r]
             \/ run[r] # "None" /\ run'[r] = "Running" /\ hub[c].call = StartOf(r)
  <2>1. hub[c].call \in Report /\ hub[c].call.kind \in ReportKinds
    BY <1>4, ReportNames DEF StartedSave, ReportKinds
  <2>2. hub[c].call = StartOf(hub[c].call.run) /\ run[hub[c].call.run] # "None"
    BY <1>4, <2>1, ReportNames DEF StartedSave, HubRecorded
  <2>. QED  BY <1>4, <2>2 DEF StartedSave, TypeOK
<1>5. ASSUME NEW c \in Conns, CompletedSave(c)
      PROVE  run'[r] = run[r] \/ (run[r] # "None" /\ run'[r] \in Finished)
  <2>1. hub[c].call.state \in Finished
    BY <1>5, CallType DEF CompletedSave, Finished
  <2>2. run[hub[c].call.run] # "None"
    BY <1>5 DEF CompletedSave, HubRecorded, ReportKinds
  <2>. QED  BY <1>5, <2>1, <2>2 DEF CompletedSave, TypeOK
<1>6. ASSUME NEW s \in Runs,
             \/ CreateSend(s) \/ JobLookup(s) \/ JobSend(s) \/ JobWake(s) \/ JobCancel(s)
             \/ UserCancel(s) \/ CancelRead(s)
      PROVE  UNCHANGED run
  BY <1>6 DEF CreateSend, JobLookup, JobSend, JobWake, JobCancel, UserCancel, CancelRead
<1>7. ASSUME NEW c \in Conns,
             \/ RegisterRead(c) \/ RegisterSet(c) \/ ReportRead(c) \/ Abort(c) \/ OnDisconnected(c)
      PROVE  UNCHANGED run
  BY <1>7 DEF RegisterRead, RegisterSet, ReportRead, Abort, OnDisconnected
<1>8. RunnerStep \/ WorkerStep \/ Failure \/ UNCHANGED vars => UNCHANGED run
  BY DEF RunnerStep, Start, Cancel, ProcessStarts, RunEnds, WorkerStep, PumpTake, PumpCheck,
     PumpInvoke, PumpAcked, Connect, Register, RegisterDone, Failure, LinkDrop, AgentCrash,
     ServerCrash, vars
<1>. QED
  BY <1>1, <1>2, <1>3, <1>4, <1>5, <1>6, <1>7, <1>8 DEF Next, RequestStep, HubStep

\* A run that is in the table stays there.
LEMMA RunsStay ==
  ASSUME TypeOK, RequestInv, HubRecorded, [Next]_vars
  PROVE  \A r \in Runs : run[r] # "None" => run'[r] # "None"
BY RunStep DEF Finished, Reported

\* The first message on its way down.
LEMMA DownHead ==
  ASSUME TypeOK, Recorded, down # <<>>
  PROVE  /\ Head(down) \in Downward
         /\ Head(down).kind \in {"RunCommand", "CancelCommand"} =>
              Head(down).run \in Runs /\ run[Head(down).run] # "None"
<1>1. Head(down) \in Downward /\ 1 \in 1..Len(down) /\ Head(down) = down[1]
  BY TailType, TailPlaces DEF TypeOK
<1>. QED  BY <1>1 DEF Downward, Recorded

\* What is on its way down is recorded: of commands that are sent ...
LEMMA SentRecorded ==
  ASSUME TypeOK, Recorded, NEW c, NEW m \in Downward, SendTo(c, m),
         m.kind \in {"RunCommand", "CancelCommand"} => run[m.run] # "None"
  PROVE  \A i \in 1..Len(down') :
           down'[i].kind \in {"RunCommand", "CancelCommand"} =>
             down'[i].run \in Runs /\ run[down'[i].run] # "None"
<1>1. \A i \in 1..Len(down) : down[i] \in Downward
  BY ElementOfSeq DEF TypeOK
<1>2. m.kind \in {"RunCommand", "CancelCommand"} => m.run \in Runs
  BY DEF Downward
<1>3. \A i \in 1..Len(down) :
        down[i].kind \in {"RunCommand", "CancelCommand"} => down[i].run \in Runs
  BY <1>1 DEF Downward
<1>4. CASE down' = down
  BY <1>3, <1>4 DEF Recorded
<1>5. CASE down' = Append(down, m)
  <2>1. \A i \in 1..Len(down') : (i \in 1..Len(down) /\ down'[i] = down[i]) \/ down'[i] = m
    BY <1>5, AppendPlaces DEF TypeOK
  <2>. QED  BY <1>2, <1>3, <2>1 DEF Recorded
<1>. QED  BY <1>4, <1>5 DEF SendTo

\* ... and of the rest when the first message is taken.
LEMMA TailRecorded ==
  ASSUME TypeOK, Recorded, down # <<>>, down' = Tail(down)
  PROVE  \A i \in 1..Len(down') :
           down'[i].kind \in {"RunCommand", "CancelCommand"} =>
             down'[i].run \in Runs /\ run[down'[i].run] # "None"
<1>1. \A i \in 1..Len(down) : down[i] \in Downward
  BY ElementOfSeq DEF TypeOK
<1>2. \A i \in 1..Len(down') : i + 1 \in 1..Len(down) /\ down'[i] = down[i + 1]
  <2>1. \A i \in 1..Len(Tail(down)) : i + 1 \in 2..Len(down) /\ Tail(down)[i] = down[i + 1]
    BY TailPlaces DEF TypeOK
  <2>2. Len(down) \in Nat
    BY LenProperties DEF TypeOK
  <2>. QED  BY <2>1, <2>2
<1>3. \A i \in 1..Len(down) : down[i].kind \in {"RunCommand", "CancelCommand"} =>
         down[i].run \in Runs /\ run[down[i].run] # "None"
  BY <1>1 DEF Downward, Recorded
<1>. QED  BY <1>2, <1>3

\* The queue with one report more names recorded runs.
LEMMA QueueRecorded ==
  ASSUME TypeOK, Recorded, NEW m \in Report, run[m.run] # "None", queue' = Enqueued(m)
  PROVE  \A i \in 1..Len(queue') : queue'[i].run \in Runs /\ run[queue'[i].run] # "None"
<1>. DEFINE q == IF Len(queue) < QueueCap THEN queue ELSE Tail(queue)
<1>0. \A x \in Report : x.run \in Runs
  BY DEF Report
<1>1. \A i \in 1..Len(queue) : queue[i] \in Report /\ run[queue[i].run] # "None"
  BY ElementOfSeq DEF TypeOK, Recorded
<1>2. q \in Seq(Report) /\ \A i \in 1..Len(q) : q[i] \in Report /\ run[q[i].run] # "None"
  <2>1. CASE Len(queue) < QueueCap
    BY <1>1, <2>1 DEF TypeOK
  <2>2. CASE ~(Len(queue) < QueueCap)
    <3>1. queue # <<>>
      BY <2>2, BoundAssumption, EmptySeq
    <3>2. \A i \in 1..Len(Tail(queue)) : i + 1 \in 2..Len(queue) /\ Tail(queue)[i] = queue[i + 1]
      BY <3>1, TailPlaces DEF TypeOK
    <3>3. Len(queue) \in Nat /\ Tail(queue) \in Seq(Report)
      BY <3>1, TailType, LenProperties DEF TypeOK
    <3>. QED  BY <1>1, <2>2, <3>2, <3>3
  <2>. QED  BY <2>1, <2>2
<1>3. queue' = Append(q, m)
  BY DEF Enqueued
<1>4. \A i \in 1..Len(queue') : (i \in 1..Len(q) /\ queue'[i] = q[i]) \/ queue'[i] = m
  <2>. HIDE DEF q
  <2>. QED  BY <1>2, <1>3, AppendPlaces
<1>. QED  BY <1>0, <1>2, <1>4

\* A step names no run that was not recorded before it.
LEMMA RecordedNames ==
  ASSUME TypeOK, RequestInv, Recorded, [Next]_vars
  PROVE  /\ \A r \in executing' \cup unreported' : r \in Runs /\ run[r] # "None"
         /\ \A i \in 1..Len(queue') : queue'[i].run \in Runs /\ run[queue'[i].run] # "None"
         /\ pump'.step # "idle" => pump'.call.run \in Runs /\ run[pump'.call.run] # "None"
         /\ \A i \in 1..Len(down') :
              down'[i].kind \in {"RunCommand", "CancelCommand"} =>
                down'[i].run \in Runs /\ run[down'[i].run] # "None"
<1>. DEFINE Agent ==
       /\ \A r \in executing' \cup unreported' : r \in Runs /\ run[r] # "None"
       /\ \A i \in 1..Len(queue') : queue'[i].run \in Runs /\ run[queue'[i].run] # "None"
       Pump == pump'.step # "idle" => pump'.call.run \in Runs /\ run[pump'.call.run] # "None"
       Down == \A i \in 1..Len(down') :
                 down'[i].kind \in {"RunCommand", "CancelCommand"} =>
                   down'[i].run \in Runs /\ run[down'[i].run] # "None"
<1>. USE DEF serverMem, network, agentRuns, agentConn
<1>1. /\ \A i \in 1..Len(queue) : queue[i].run \in Runs /\ run[queue[i].run] # "None"
      /\ pump.step # "idle" => pump.call.run \in Runs /\ run[pump.call.run] # "None"
      /\ \A i \in 1..Len(down) :
           down[i].kind \in {"RunCommand", "CancelCommand"} =>
             down[i].run \in Runs /\ run[down[i].run] # "None"
  <2>1. \A i \in 1..Len(queue) : queue[i].run \in Runs
    <3>1. \A i \in 1..Len(queue) : queue[i] \in Report
      BY ElementOfSeq DEF TypeOK
    <3>. QED  BY <3>1 DEF Report
  <2>2. pump.step # "idle" => pump.call.run \in Runs
    <3>1. pump \in PumpStates
      BY DEF TypeOK
    <3>. QED  BY <3>1 DEF PumpStates, Report
  <2>3. \A i \in 1..Len(down) :
          down[i].kind \in {"RunCommand", "CancelCommand"} => down[i].run \in Runs
    <3>1. \A i \in 1..Len(down) : down[i] \in Downward
      BY ElementOfSeq DEF TypeOK
    <3>. QED  BY <3>1 DEF Downward
  <2>. QED  BY <2>1, <2>2, <2>3 DEF Recorded
<1>2. UNCHANGED <<executing, unreported, queue>> => Agent
  BY <1>1 DEF Recorded, TypeOK
<1>3. UNCHANGED pump => Pump
  BY <1>1
<1>4. UNCHANGED down \/ down' = <<>> => Down
  BY <1>1, EmptySeq
<1>5. ASSUME NEW r \in Runs,
             \/ Create(r) \/ CreateSend(r)
             \/ JobLookup(r) \/ JobInsert(r) \/ JobSend(r)
             \/ JobWake(r) \/ JobCancel(r)
             \/ UserCancel(r) \/ CancelRead(r) \/ CancelSave(r)
      PROVE  Agent /\ Pump /\ Down
  <2>1. UNCHANGED <<executing, unreported, queue, pump>>
    BY <1>5 DEF Create, CreateSend, JobLookup, JobInsert, JobSend, JobWake, JobCancel,
       UserCancel, CancelRead, CancelSave
  <2>2. \/ UNCHANGED down
        \/ run[r] # "None" /\ \E c : \/ SendTo(c, [kind |-> "RunCommand", run |-> r])
                                     \/ SendTo(c, [kind |-> "CancelCommand", run |-> r])
    BY <1>5 DEF Create, CreateSend, JobLookup, JobInsert, JobSend, JobWake, JobCancel,
       UserCancel, CancelRead, CancelSave, CancelRun, RequestInv, Active
  <2>3. /\ [kind |-> "RunCommand", run |-> r] \in Downward
        /\ [kind |-> "CancelCommand", run |-> r] \in Downward
    BY DEF Downward
  <2>4. Down
    BY <1>4, <2>2, <2>3, SentRecorded
  <2>. QED  BY <1>2, <1>3, <2>1, <2>4
<1>6. CASE HubStep
  <2>1. UNCHANGED <<executing, unreported, queue>>
    BY <1>6 DEF HubStep, RegisterRead, RegisterSave, RegisterSet, ReportRead, StartedSave,
       CompletedSave, Abort, OnDisconnected
  <2>2. Pump
    <3>1. \/ UNCHANGED pump
          \/ pump' = Retried
      BY <1>6 DEF HubStep, RegisterRead, RegisterSave, RegisterSet, ReportRead, StartedSave,
         CompletedSave, Abort, OnDisconnected
    <3>2. pump' = Retried => pump'.call = pump.call /\ (pump'.step # "idle" => pump.step # "idle")
      BY DEF Retried, TypeOK, PumpStates
    <3>. QED  BY <1>1, <3>1, <3>2
  <2>3. \/ UNCHANGED down
        \/ down' = <<>>
        \/ \E c : SendTo(c, [kind |-> "Registered"]) \/ SendTo(c, [kind |-> "Acked"])
    BY <1>6 DEF HubStep, RegisterRead, RegisterSave, RegisterSet, ReportRead, StartedSave,
       CompletedSave, Abort, OnDisconnected, Answer, AgentDrops
  <2>4. [kind |-> "Registered"] \in Downward /\ [kind |-> "Acked"] \in Downward
    BY DEF Downward
  <2>5. Down
    BY <1>4, <2>3, <2>4, SentRecorded
  <2>. QED  BY <1>2, <2>1, <2>2, <2>5
<1>7. CASE Start
  <2>1. /\ down # <<>> /\ down' = Tail(down) /\ UNCHANGED <<queue, pump>>
        /\ Head(down).kind = "RunCommand"
        /\ executing' \cup unreported' \subseteq executing \cup unreported \cup {Head(down).run}
    BY <1>7 DEF Start
  <2>2. Agent
    BY <1>1, <2>1, DownHead DEF Recorded, TypeOK
  <2>. QED  BY <1>3, <2>1, <2>2, TailRecorded
<1>8. CASE Cancel
  <2>1. /\ down # <<>> /\ down' = Tail(down) /\ UNCHANGED <<executing, unreported, pump>>
        /\ Head(down).kind = "CancelCommand"
        /\ queue' = CancelAnswer(Head(down).run)
    BY <1>8 DEF Cancel
  <2>2. [kind |-> "Completed", run |-> Head(down).run, state |-> "Cancelled"] \in Report
    BY <2>1, DownHead DEF Report, Reported
  <2>3. \A i \in 1..Len(queue') : queue'[i].run \in Runs /\ run[queue'[i].run] # "None"
    BY <1>1, <2>1, <2>2, DownHead, QueueRecorded DEF CancelAnswer
  <2>4. Agent
    BY <2>1, <2>3 DEF Recorded, TypeOK
  <2>. QED  BY <1>3, <2>1, <2>4, TailRecorded
<1>9. ASSUME NEW r \in Runs, ProcessStarts(r) \/ RunEnds(r)
      PROVE  Agent /\ Pump /\ Down
  <2>1. \E m \in Report : m.run = r /\ queue' = Enqueued(m)
    <3>1. \/ queue' = Enqueued([kind |-> "Started", run |-> r])
          \/ \E s \in Outcomes(r) :
               queue' = Enqueued([kind |-> "Completed", run |-> r, state |-> s])
      BY <1>9 DEF ProcessStarts, RunEnds
    <3>2. [kind |-> "Started", run |-> r] \in Report
      BY DEF Report
    <3>3. \A s \in Outcomes(r) : [kind |-> "Completed", run |-> r, state |-> s] \in Report
      BY ExitAssumption DEF Outcomes, Report, Reported
    <3>. QED  BY <3>1, <3>2, <3>3
  <2>2. /\ UNCHANGED <<unreported, pump, down>> /\ executing' \subseteq executing
        /\ r \in executing
    BY <1>9 DEF ProcessStarts, RunEnds
  <2>3. Agent
    BY <2>1, <2>2, QueueRecorded DEF Recorded, TypeOK
  <2>. QED  BY <1>3, <1>4, <2>2, <2>3
<1>10. CASE PumpTake
  <2>1. /\ queue # <<>> /\ pump' = [step |-> "take", call |-> Head(queue)]
        /\ queue' = Tail(queue) /\ UNCHANGED <<executing, unreported, down>>
    BY <1>10 DEF PumpTake
  <2>2. /\ 1 \in 1..Len(queue) /\ Head(queue) = queue[1] /\ Len(queue) \in Nat
        /\ \A i \in 1..Len(Tail(queue)) : i + 1 \in 2..Len(queue) /\ Tail(queue)[i] = queue[i + 1]
    BY <2>1, TailPlaces, LenProperties DEF TypeOK
  <2>3. \A i \in 1..Len(queue') : i + 1 \in 1..Len(queue) /\ queue'[i] = queue[i + 1]
    BY <2>1, <2>2
  <2>4. Agent
    BY <1>1, <2>1, <2>3 DEF Recorded, TypeOK
  <2>. QED  BY <1>1, <1>4, <2>1, <2>2, <2>4
<1>11. CASE PumpCheck \/ PumpInvoke
  <2>1. /\ UNCHANGED <<executing, unreported, queue, down>>
        /\ pump.step # "idle" /\ pump'.call = pump.call
    BY <1>11 DEF PumpCheck, PumpInvoke, TypeOK, PumpStates
  <2>. QED  BY <1>1, <1>2, <1>4, <2>1
<1>12. CASE PumpAcked
  <2>1. /\ down # <<>> /\ down' = Tail(down) /\ UNCHANGED <<executing, queue>>
        /\ unreported' \subseteq unreported /\ pump'.step = "idle"
    BY <1>12 DEF PumpAcked, AfterReport
  <2>. QED  BY <1>1, <2>1, TailRecorded DEF Recorded, TypeOK
<1>13. CASE Connect \/ Register
  BY <1>2, <1>3, <1>4, <1>13 DEF Connect, Register
<1>14. CASE RegisterDone
  BY <1>2, <1>3, <1>14, TailRecorded DEF RegisterDone
<1>15. CASE Failure
  <2>1. /\ down' = <<>>
        /\ \/ UNCHANGED <<executing, unreported, queue>>
           \/ executing' = {} /\ unreported' = {} /\ queue' = <<>>
        /\ \/ pump' = Retried
           \/ pump' = [step |-> "idle", call |-> NoCall]
    BY <1>15 DEF Failure, LinkDrop, AgentCrash, ServerCrash, AgentDrops
  <2>2. pump' = Retried => pump'.call = pump.call /\ (pump'.step # "idle" => pump.step # "idle")
    BY DEF Retried, TypeOK, PumpStates
  <2>3. Agent
    BY <1>2, <2>1, EmptySeq
  <2>. QED  BY <1>1, <1>4, <2>1, <2>2, <2>3
<1>16. CASE UNCHANGED vars
  BY <1>2, <1>3, <1>4, <1>16 DEF vars
<1>. QED
  BY <1>5, <1>6, <1>7, <1>8, <1>9, <1>10, <1>11, <1>12, <1>13, <1>14, <1>15, <1>16
     DEF Next, RequestStep, RunnerStep, WorkerStep

\* A request goes on, and a run is cancelled once it is in the table.
LEMMA RequestMoves ==
  ASSUME TypeOK, [Next]_vars, NEW r \in Runs
  PROVE  /\ request'[r].step \in {"new", "insert"} => request[r].step \in {"new", "insert"}
         /\ request'[r].step = "send" => request[r].step \in {"new", "insert", "send"}
         /\ request'[r].step \in {"send", "wait"} =>
              request[r].step \in {"send", "wait"} \/ run'[r] # "None"
         /\ cancelling'[r] # "idle" => cancelling[r] # "idle" \/ run[r] \in Active
<1>. DEFINE Goal ==
       /\ request'[r].step \in {"new", "insert"} => request[r].step \in {"new", "insert"}
       /\ request'[r].step = "send" => request[r].step \in {"new", "insert", "send"}
       /\ request'[r].step \in {"send", "wait"} =>
            request[r].step \in {"send", "wait"} \/ run'[r] # "None"
       /\ cancelling'[r] # "idle" => cancelling[r] # "idle" \/ run[r] \in Active
<1>. USE DEF serverMem, network
<1>1. ASSUME NEW s \in Runs, Create(s) \/ JobInsert(s)
      PROVE  Goal
  BY <1>1 DEF Create, JobInsert, TypeOK, RequestStates
<1>2. ASSUME NEW s \in Runs, CreateSend(s) \/ JobLookup(s) \/ JobSend(s) \/ JobWake(s)
      PROVE  Goal
  <2>1. request[r] \in RequestStates /\ request[s] \in RequestStates /\ UNCHANGED cancelling
    BY <1>2 DEF CreateSend, JobLookup, JobSend, JobWake, TypeOK
  <2>2. request'[r] = request[r] \/ (s = r /\ request'[r].step \in {"insert", "wait", "done"})
    BY <1>2, <2>1 DEF CreateSend, JobLookup, JobSend, JobWake, TypeOK, RequestStates
  <2>3. /\ request'[s].step = "insert" => request[s].step = "new"
        /\ request'[s].step = "wait" => request[s].step = "send"
    BY <1>2, <2>1 DEF CreateSend, JobLookup, JobSend, JobWake, TypeOK, RequestStates
  <2>. QED  BY <2>1, <2>2, <2>3
<1>3. ASSUME NEW s \in Runs, JobCancel(s)
      PROVE  Goal
  BY <1>3 DEF JobCancel, CancelRun, TypeOK, RequestStates
<1>4. ASSUME NEW s \in Runs, UserCancel(s) \/ CancelRead(s) \/ CancelSave(s)
      PROVE  Goal
  BY <1>4 DEF UserCancel, CancelRun, CancelRead, CancelSave, TypeOK
<1>5. HubStep => UNCHANGED <<request, cancelling>>
  BY DEF HubStep, RegisterRead, RegisterSave, RegisterSet, ReportRead, StartedSave,
     CompletedSave, Abort, OnDisconnected
<1>6. RunnerStep \/ WorkerStep \/ LinkDrop \/ AgentCrash \/ UNCHANGED vars
        => UNCHANGED <<request, cancelling>>
  BY DEF RunnerStep, Start, Cancel, ProcessStarts, RunEnds, WorkerStep, PumpTake, PumpCheck,
     PumpInvoke, PumpAcked, Connect, Register, RegisterDone, LinkDrop, AgentCrash, vars
<1>7. CASE ServerCrash
  BY <1>7 DEF ServerCrash
<1>. QED
  BY <1>1, <1>2, <1>3, <1>4, <1>5, <1>6, <1>7 DEF Next, RequestStep, Failure

\* The hub and the messages on their way to it name runs that are in the table.
LEMMA HubRecordedStep ==
  ASSUME TypeOK, TableInv, [Next]_vars
  PROVE  HubRecorded'
<1>0. \A r \in Runs : run[r] # "None" => run'[r] # "None"
  BY RunsStay DEF TableInv
<1>. SUFFICES ASSUME NEW c \in Conns
              PROVE  /\ \A m \in Report : Holds(up'[c], m) => run'[m.run] # "None"
                     /\ hub'[c].call.kind \in ReportKinds => run'[hub'[c].call.run] # "None"
                     /\ \A r \in hub'[c].orphans : run'[r] # "None"
  BY DEF HubRecorded
<1>1. ASSUME NEW m \in Report, Holds(up'[c], m)
      PROVE  run'[m.run] # "None"
  <2>1. m.run \in Runs
    BY ReportNames
  <2>2. Holds(up[c], m) => run[m.run] # "None"
    BY DEF TableInv, HubRecorded
  <2>3. PumpInvoke /\ m = pump.call => run[m.run] # "None"
    BY DEF PumpInvoke, TableInv, Recorded
  <2>. QED  BY <1>0, <1>1, <2>1, <2>2, <2>3, UpHolds
<1>2. CASE hub'[c].call = hub[c].call /\ hub'[c].orphans = hub[c].orphans
  <2>1. hub[c].call.kind \in ReportKinds => hub[c].call.run \in Runs
    BY ReportNames
  <2>. QED  BY <1>0, <1>1, <1>2, <2>1, CallType DEF TableInv, HubRecorded
<1>3. CASE hub'[c] = Idle
  BY <1>1, <1>3, ReportNames DEF Idle
<1>4. CASE /\ Served(c) /\ hub'[c].call = Head(up[c])
           /\ \A r \in hub'[c].orphans : r \in Runs /\ run[r] \in Active
  <2>1. Head(up[c]) \in Invocation /\ Holds(up[c], Head(up[c]))
    BY <1>4, TailHolds, ServedType, ReportNames DEF Served
  <2>2. Head(up[c]).kind \in ReportKinds =>
          Head(up[c]).run \in Runs /\ run[Head(up[c]).run] # "None"
    BY <2>1, ReportNames DEF TableInv, HubRecorded
  <2>. QED  BY <1>0, <1>1, <1>4, <2>2 DEF Active
<1>. QED  BY <1>1, <1>2, <1>3, <1>4, HubCalls

\* Every step keeps this.
LEMMA TableStep ==
  ASSUME TypeOK, TableInv, [Next]_vars
  PROVE  TableInv'
<1>1. \A r \in Runs : run[r] # "None" => run'[r] # "None"
  BY RunsStay DEF TableInv
<1>2. RequestInv'
  <2>. SUFFICES ASSUME NEW r \in Runs
                PROVE  /\ request'[r].step \in {"new", "insert"} => run'[r] = "None"
                       /\ request'[r].step \in {"send", "wait"} => run'[r] # "None"
                       /\ cancelling'[r] # "idle" => run'[r] # "None"
    BY DEF RequestInv
  <2>1. request'[r].step \in {"new", "insert"} => run'[r] = "None"
    BY RequestMoves, RunStep DEF TableInv, RequestInv
  <2>. QED  BY <1>1, <2>1, RequestMoves DEF TableInv, RequestInv, Active
<1>3. Recorded'
  BY <1>1, RecordedNames DEF TableInv, Recorded
<1>. QED  BY <1>2, <1>3, HubRecordedStep DEF TableInv

\* What RunService, AgentHub, CommandRunner and AgentWorker have under way names runs of the
\* table only, however the server's operations, the connections and the crashes interleave.
THEOREM TableCorrect == Spec => []TableInv
<1>1. Init => TableInv
  <2>. SUFFICES ASSUME Init
                PROVE  TableInv
    OBVIOUS
  <2>1. RequestInv
    BY DEF Init, RequestInv
  <2>2. Recorded
    BY EmptySeq DEF Init, Recorded
  <2>3. HubRecorded
    BY EmptyHolds, ReportNames DEF Init, HubRecorded, Idle, NoCall, ReportKinds
  <2>. QED  BY <2>1, <2>2, <2>3 DEF TableInv
<1>. QED  BY <1>1, TableStep, TypeCorrect, PTL DEF Spec

-----------------------------------------------------------------------------
(* One report is on its way over the agent's connection, and the pump waits  *)
(* for it.                                                                   *)

\* The agent's connection is the newest; nothing came over those not opened yet.
FreshConns ==
  /\ link \in {0, conns}
  /\ \A c \in Conns : c > conns => up[c] = <<>> /\ hub[c].step = "idle"

Acking      == Has(down, {"Acked"})

\* The report in the connection, or in the hands of the hub, is the pump's, not yet
\* answered; the answer is on its way back only while the pump waits for it.
SentInv ==
  /\ link # 0 =>
       /\ Once(up[link], ReportKinds)
       /\ Every(up[link], ReportKinds, {pump.call})
       /\ Has(up[link], ReportKinds) =>
            pump.step = "sent" /\ hub[link].call.kind \notin ReportKinds /\ ~Acking
       /\ hub[link].call.kind \in ReportKinds =>
            hub[link].call = pump.call /\ pump.step = "sent" /\ ~Acking
  /\ Once(down, {"Acked"})
  /\ Acking => pump.step = "sent"

\* Connections are opened one after the other.
LEMMA FreshStep ==
  ASSUME TypeOK, FreshConns, [Next]_vars
  PROVE  FreshConns'
<1>. USE DEF serverMem, network
<1>1. \/ UNCHANGED <<link, conns>>
      \/ link' = 0 /\ UNCHANGED conns
      \/ link' = conns + 1 /\ conns' = conns + 1
  <2>1. CASE RequestStep \/ RunnerStep
    BY <2>1 DEF RequestStep, Create, CreateSend, JobLookup, JobInsert, JobSend, JobWake, JobCancel,
       UserCancel, CancelRead, CancelSave, RunnerStep, Start, Cancel, ProcessStarts, RunEnds
  <2>2. CASE HubStep
    BY <2>2 DEF HubStep, RegisterRead, RegisterSave, RegisterSet, ReportRead, StartedSave,
       CompletedSave, Abort, OnDisconnected, AgentDrops
  <2>3. CASE WorkerStep
    BY <2>3 DEF WorkerStep, PumpTake, PumpCheck, PumpInvoke, PumpAcked, Connect, Register,
       RegisterDone
  <2>4. CASE Failure \/ UNCHANGED vars
    BY <2>4 DEF Failure, LinkDrop, AgentCrash, ServerCrash, AgentDrops, vars
  <2>. QED  BY <2>1, <2>2, <2>3, <2>4 DEF Next
<1>2. ASSUME NEW c \in Conns, c > conns
      PROVE  up'[c] = <<>> /\ hub'[c].step = "idle"
  <2>1. /\ up[c] = <<>> /\ hub[c].step = "idle" /\ c # link /\ up[c] \in Seq(Invocation)
    BY <1>2 DEF FreshConns, TypeOK, Conns
  <2>2. Len(up[c]) = 0 /\ \A n \in 0..0 : SubSeq(<<>>, 1, n) = <<>>
    BY <2>1
  <2>3. up'[c] = <<>>
    BY <2>1, <2>2, UpStep
  <2>. QED  BY <2>1, <2>3, HubCalls DEF Idle, Served
<1>3. \A c \in Conns : c > conns' => c > conns
  BY <1>1 DEF TypeOK, Conns
<1>. QED  BY <1>1, <1>2, <1>3 DEF FreshConns

\* Steps in which no report and no answer to one comes along.
LEMMA ReportFrame ==
  ASSUME TypeOK, SentInv, UNCHANGED <<link, pump>>,
         Loses(down, down', {"Acked"}),
         link # 0 =>
           /\ Loses(up[link], up'[link], ReportKinds)
           /\ hub'[link].call = hub[link].call \/ hub'[link].call.kind \notin ReportKinds
  PROVE  SentInv'
<1>1. (Acking' => Acking) /\ Once(down', {"Acked"})
  BY LosesMessages DEF TypeOK, SentInv, Acking
<1>2. ASSUME link # 0
      PROVE  /\ Once(up'[link], ReportKinds)
             /\ Every(up'[link], ReportKinds, {pump.call})
             /\ Has(up'[link], ReportKinds) => Has(up[link], ReportKinds)
  <2>1. up[link] \in Seq(Invocation)
    BY <1>2, BoundAssumption DEF TypeOK, Conns
  <2>2. Once(up[link], ReportKinds) /\ Every(up[link], ReportKinds, {pump.call})
    BY <1>2 DEF SentInv
  <2>. QED  BY <1>2, <2>1, <2>2, LosesMessages
<1>. QED  BY <1>1, <1>2 DEF SentInv

\* A lost connection takes the report and its answer with it.
LEMMA ReportDropped ==
  ASSUME AgentDrops
  PROVE  SentInv'
<1>1. ~Acking' /\ Once(down', {"Acked"})
  BY EmptyMessages DEF AgentDrops, Acking
<1>. QED  BY <1>1 DEF SentInv, AgentDrops

\* The answer to a report comes down the connection.
LEMMA ReportAnswered ==
  ASSUME TypeOK, SentInv, link # 0, ~Acking, UNCHANGED <<link, pump>>,
         Answer(link, "Acked"), pump.step = "sent",
         ~Has(up'[link], ReportKinds),
         hub'[link].call.kind \notin ReportKinds
  PROVE  SentInv'
<1>1. down' = Append(down, [kind |-> "Acked"])
  BY DEF Answer, SendTo
<1>2. Once(down', {"Acked"})
  BY <1>1, AppendMessages DEF TypeOK, SentInv, Acking
<1>3. Once(up'[link], ReportKinds) /\ Every(up'[link], ReportKinds, {pump.call})
  BY DEF Has, Once, Every
<1>. QED  BY <1>2, <1>3 DEF SentInv

\* RunService and CommandRunner answer no report.
LEMMA DownLoses ==
  ASSUME RequestStep \/ RunnerStep
  PROVE  Loses(down, down', {"Acked"})
<1>. USE DEF serverMem, network
<1>1. CASE RunnerStep
  BY <1>1 DEF RunnerStep, Start, Cancel, ProcessStarts, RunEnds, Loses
<1>2. CASE RequestStep
  <2>1. PICK r \in Runs : \/ UNCHANGED down
                          \/ \E c : \/ SendTo(c, [kind |-> "RunCommand", run |-> r])
                                    \/ SendTo(c, [kind |-> "CancelCommand", run |-> r])
    BY <1>2 DEF RequestStep, Create, CreateSend, JobLookup, JobInsert, JobSend, JobWake,
       JobCancel, UserCancel, CancelRead, CancelSave, CancelRun
  <2>. QED  BY <2>1 DEF SendTo, Loses
<1>. QED  BY <1>1, <1>2

\* RunService and CommandRunner send no reports.
LEMMA ReportRequest ==
  ASSUME TypeOK, SentInv, RequestStep \/ RunnerStep
  PROVE  SentInv'
<1>. USE DEF serverMem, network
<1>2. UNCHANGED <<link, pump, up, hub>>
  BY DEF RequestStep, Create, CreateSend, JobLookup, JobInsert, JobSend, JobWake, JobCancel,
     UserCancel, CancelRead, CancelSave, RunnerStep, Start, Cancel, ProcessStarts, RunEnds
<1>3. Loses(down, down', {"Acked"})
  BY DownLoses
<1>. QED  BY <1>2, <1>3, ReportFrame DEF Loses

\* The pump has one report at a time.
LEMMA ReportWorker ==
  ASSUME TypeOK, FreshConns, SentInv, WorkerStep
  PROVE  SentInv'
<1>. USE DEF serverMem, network, agentRuns, agentConn
<1>0. link # 0 => link \in Conns
  BY BoundAssumption DEF TypeOK, Conns
<1>1. CASE PumpTake \/ PumpCheck
  <2>1. /\ pump.step \in {"idle", "take"} /\ UNCHANGED <<link, up, hub, down, run>>
    BY <1>1 DEF PumpTake, PumpCheck
  <2>2. /\ ~Acking /\ link # 0 => ~Has(up[link], ReportKinds)
        /\ link # 0 => hub[link].call.kind \notin ReportKinds
    BY <2>1 DEF SentInv
  <2>. QED  BY <2>1, <2>2 DEF SentInv, Acking, Has, Once, Every
<1>2. CASE PumpInvoke
  <2>1. /\ pump.step = "ready" /\ UNCHANGED <<link, hub, down, run>>
    BY <1>2 DEF PumpInvoke
  <2>2. /\ ~Acking /\ link # 0 => ~Has(up[link], ReportKinds)
        /\ link # 0 => hub[link].call.kind \notin ReportKinds
    BY <2>1 DEF SentInv
  <2>3. CASE link = 0
    BY <2>1, <2>2, <2>3 DEF SentInv, Acking
  <2>4. CASE link # 0
    <3>1. /\ up'[link] = Append(up[link], pump.call) /\ up[link] \in Seq(Invocation)
          /\ pump'.step = "sent" /\ pump'.call = pump.call
      BY <1>0, <1>2, <2>4 DEF PumpInvoke, TypeOK, PumpStates
    <3>2. /\ Once(up'[link], ReportKinds)
          /\ Every(up'[link], ReportKinds, {pump.call})
      <4>1. /\ Once(up[link], ReportKinds) /\ ~Has(up[link], ReportKinds)
            /\ Every(up[link], ReportKinds, {pump.call})
        BY <2>2, <2>4 DEF SentInv
      <4>. QED  BY <3>1, <4>1, AppendMessages
    <3>. QED  BY <2>1, <2>2, <2>4, <3>1, <3>2 DEF SentInv, Acking
  <2>. QED  BY <2>3, <2>4
<1>3. CASE PumpAcked
  <2>1. /\ down # <<>> /\ Head(down).kind = "Acked" /\ down' = Tail(down)
        /\ UNCHANGED <<link, up, hub, run>>
    BY <1>3 DEF PumpAcked
  <2>2. Acking /\ ~Acking' /\ Once(down', {"Acked"})
    BY <2>1, TailMessages DEF TypeOK, SentInv, Acking
  <2>3. /\ link # 0 => ~Has(up[link], ReportKinds)
        /\ link # 0 => hub[link].call.kind \notin ReportKinds
    BY <2>2 DEF SentInv
  <2>. QED  BY <2>1, <2>2, <2>3 DEF SentInv, Has, Once, Every
<1>4. CASE Connect
  <2>1. /\ link' = conns + 1 /\ link' \in Conns /\ conns < link'
        /\ UNCHANGED <<pump, up, hub, down, run>>
    BY <1>4, BoundAssumption DEF Connect, TypeOK, Conns
  <2>2. up'[link'] = <<>> /\ hub'[link'].step = "idle"
    BY <2>1 DEF FreshConns
  <2>3. hub'[link'].call.kind \notin ReportKinds
    <3>1. hub[link'] \in HubStates
      BY <2>1 DEF TypeOK
    <3>. QED  BY <2>1, <2>2, <3>1 DEF HubStates, NoCall, ReportKinds
  <2>. QED  BY <2>1, <2>2, <2>3, EmptyMessages DEF SentInv, Acking
<1>5. CASE Register
  <2>1. UNCHANGED <<link, pump, down, hub, run>>
    BY <1>5 DEF Register
  <2>2. up'[link] = Append(up[link], [kind |-> "Register", known |-> unreported])
    BY <1>0, <1>5 DEF Register, TypeOK
  <2>3. Loses(up[link], up'[link], ReportKinds) /\ Loses(down, down', {"Acked"})
    BY <2>1, <2>2 DEF Loses, ReportKinds
  <2>. QED  BY <1>0, <2>1, <2>3, ReportFrame
<1>6. CASE RegisterDone
  BY <1>0, <1>6, ReportFrame DEF RegisterDone, Loses
<1>. QED  BY <1>1, <1>2, <1>3, <1>4, <1>5, <1>6 DEF WorkerStep

\* The invocation in progress stays the same when the hub goes on with it.
LEMMA CallKeeps ==
  ASSUME TypeOK, NEW c \in Conns, NEW s
  PROVE  [hub EXCEPT ![c].step = s][c].call = hub[c].call
<1>1. hub[c] \in HubStates
  BY DEF TypeOK
<1>2. [hub[c] EXCEPT !.step = s].call = hub[c].call
  BY <1>1 DEF HubStates
<1>. QED  BY <1>2 DEF TypeOK

\* The hub takes up the pump's report and answers it.
LEMMA ReportHub ==
  ASSUME TypeOK, SentInv, HubStep
  PROVE  SentInv'
<1>. PICK c \in Conns : \/ RegisterRead(c) \/ RegisterSave(c) \/ RegisterSet(c)
                        \/ ReportRead(c) \/ StartedSave(c) \/ CompletedSave(c)
                        \/ Abort(c) \/ OnDisconnected(c)
  BY DEF HubStep
<1>. USE DEF serverMem, network, agentRuns, agentConn
<1>0. /\ link # 0 => link \in Conns /\ up[link] \in Seq(Invocation)
      /\ c # 0
  BY BoundAssumption DEF TypeOK, Conns
<1>1. CASE RegisterRead(c)
  <2>1. /\ UNCHANGED <<link, pump, down>> /\ Head(up[c]).kind = "Register" /\ up[c] # <<>>
        /\ up' = [up EXCEPT ![c] = Tail(@)]
        /\ \A d \in Conns : hub'[d] = hub[d] \/ (d = c /\ hub'[d].call = Head(up[c]))
    BY <1>1 DEF RegisterRead, NextCall, Opened, Consumed, Served, TypeOK
  <2>2. \A d \in Conns : up'[d] = up[d] \/ (up[d] # <<>> /\ up'[d] = Tail(up[d]))
    BY <2>1 DEF TypeOK
  <2>. QED  BY <1>0, <2>1, <2>2, ReportFrame DEF ReportKinds, Loses
<1>2. CASE RegisterSave(c) \/ RegisterSet(c)
  <2>1. /\ UNCHANGED <<link, pump, up>>
        /\ \A d \in Conns : \/ hub'[d].call = hub[d].call
                            \/ hub'[d].call.kind \notin ReportKinds
    <3>1. CASE RegisterSave(c)
      BY <1>2, <3>1, CallKeeps DEF RegisterSave, TypeOK
    <3>2. CASE RegisterSet(c)
      BY <3>2 DEF RegisterSet, TypeOK, Idle, NoCall, ReportKinds
    <3>. QED  BY <1>2, <3>1, <3>2 DEF RegisterSave, RegisterSet
  <2>2. Loses(down, down', {"Acked"})
    BY <1>2 DEF RegisterSave, RegisterSet, Answer, SendTo, Loses
  <2>. QED  BY <1>0, <2>1, <2>2, ReportFrame DEF Loses
<1>3. CASE ReportRead(c) \/ StartedSave(c) \/ CompletedSave(c)
  <2>0. UNCHANGED <<link, pump>>
    BY <1>3 DEF ReportRead, StartedSave, CompletedSave
  <2>1. CASE c # link
    <3>1. UNCHANGED down
      BY <1>3, <2>1 DEF ReportRead, StartedSave, CompletedSave, Answer, SendTo
    <3>2. \A d \in Conns : d # c => hub'[d] = hub[d] /\ up'[d] = up[d]
      BY <1>3 DEF ReportRead, StartedSave, CompletedSave, Opened, Consumed, TypeOK
    <3>. QED  BY <1>0, <2>0, <2>1, <3>1, <3>2, ReportFrame DEF Loses
  <2>2. CASE c = link /\ ReportRead(c)
    <3>1. /\ link # 0 /\ up[link] # <<>> /\ Head(up[link]).kind \in ReportKinds
          /\ up'[link] = Tail(up[link])
      BY <1>0, <2>2 DEF ReportRead, Served, Consumed, TypeOK, ReportKinds
    <3>2. /\ Has(up[link], ReportKinds) /\ ~Has(up'[link], ReportKinds)
          /\ Head(up[link]) = pump.call
      BY <1>0, <3>1, TailMessages DEF SentInv
    <3>3. pump.step = "sent" /\ ~Acking /\ hub[link].call.kind \notin ReportKinds
      BY <3>1, <3>2 DEF SentInv
    <3>5. CASE Accepts(Head(up[link]))
      <4>1. UNCHANGED down /\ hub'[link].call = pump.call
        BY <1>0, <2>2, <3>2, <3>5 DEF ReportRead, Opened, TypeOK
      <4>. QED  BY <2>0, <3>1, <3>2, <3>3, <4>1 DEF SentInv, Acking, Has, Once, Every
    <3>6. CASE ~Accepts(Head(up[link]))
      <4>1. Answer(link, "Acked") /\ UNCHANGED hub
        BY <2>2, <3>6 DEF ReportRead
      <4>. QED  BY <2>0, <3>1, <3>2, <3>3, <4>1, ReportAnswered
    <3>. QED  BY <3>5, <3>6
  <2>3. CASE c = link /\ (StartedSave(c) \/ CompletedSave(c))
    <3>1. /\ link # 0 /\ hub[link].call.kind \in ReportKinds
          /\ Answer(link, "Acked") /\ UNCHANGED up /\ hub'[link] = Idle
      BY <1>0, <2>3 DEF StartedSave, CompletedSave, TypeOK, ReportKinds
    <3>2. /\ hub[link].call = pump.call /\ pump.step = "sent" /\ ~Acking
          /\ ~Has(up[link], ReportKinds)
      BY <3>1 DEF SentInv
    <3>4. hub'[link].call.kind \notin ReportKinds
      BY <3>1 DEF Idle, NoCall, ReportKinds
    <3>. QED  BY <2>0, <3>1, <3>2, <3>4, ReportAnswered
  <2>. QED  BY <1>3, <2>1, <2>2, <2>3
<1>4. CASE Abort(c)
  <2>1. CASE c = link
    BY <1>4, <2>1, ReportDropped DEF Abort
  <2>2. CASE c # link
    <3>1. /\ UNCHANGED <<link, pump, down, hub, run>>
          /\ \A d \in Conns : d # c => up'[d] = up[d]
      BY <1>4, <2>2 DEF Abort, TypeOK
    <3>. QED  BY <1>0, <2>2, <3>1, ReportFrame DEF Loses
  <2>. QED  BY <2>1, <2>2
<1>5. CASE OnDisconnected(c)
  <2>1. /\ UNCHANGED <<link, pump, down, hub, run>>
        /\ \A d \in Conns : up'[d] = up[d] \/ up'[d] = <<>>
    BY <1>5 DEF OnDisconnected, TypeOK
  <2>. QED  BY <1>0, <2>1, ReportFrame DEF Loses
<1>. QED  BY <1>1, <1>2, <1>3, <1>4, <1>5

\* A step keeps one report on its way.
LEMMA ReportStep ==
  ASSUME TypeOK, FreshConns, SentInv, [Next]_vars
  PROVE  SentInv'
<1>1. Failure => SentInv'
  BY ReportDropped DEF Failure, LinkDrop, AgentCrash, ServerCrash
<1>2. UNCHANGED vars => SentInv'
  BY ReportFrame DEF vars, serverMem, network, Loses
<1>. QED  BY <1>1, <1>2, ReportRequest, ReportHub, ReportWorker DEF Next

\* The answer to the report of an end comes when the run has its end: it was on its way
\* already, or the end is saved or was found saved in this step.
LEMMA AnswerFollows ==
  ASSUME TypeOK, TableInv, SentInv, [Next]_vars, Acking', pump'.call.kind = "Completed"
  PROVE  pump'.call = pump.call /\ (Acking \/ run'[pump.call.run] \in Finished)
<1>. USE DEF serverMem, network, agentRuns, agentConn
<1>1. CASE RequestStep \/ RunnerStep
  <2>1. UNCHANGED pump
    BY <1>1 DEF RequestStep, Create, CreateSend, JobLookup, JobInsert, JobSend, JobWake, JobCancel,
       UserCancel, CancelRead, CancelSave, RunnerStep, Start, Cancel, ProcessStarts, RunEnds
  <2>2. Loses(down, down', {"Acked"})
    BY <1>1, DownLoses
  <2>. QED  BY <2>1, <2>2, LosesMessages DEF Acking, TypeOK
<1>2. ASSUME NEW c \in Conns, ReportRead(c) \/ StartedSave(c) \/ CompletedSave(c)
      PROVE  pump'.call = pump.call /\ (Acking \/ run'[pump.call.run] \in Finished)
  <2>1. UNCHANGED <<link, pump>> /\ (UNCHANGED down \/ Answer(c, "Acked"))
    BY <1>2 DEF ReportRead, StartedSave, CompletedSave
  <2>2. CASE UNCHANGED down
    BY <2>1, <2>2 DEF Acking
  <2>3. CASE Answer(c, "Acked") /\ ~UNCHANGED down
    <3>1. c = link /\ link # 0
      BY <2>3 DEF Answer, SendTo
    <3>2. CASE ReportRead(c)
      <4>1. /\ up[c] # <<>> /\ Head(up[c]).kind \in ReportKinds /\ up[c] \in Seq(Invocation)
            /\ ~Accepts(Head(up[c])) /\ UNCHANGED run
        BY <2>3, <3>2 DEF ReportRead, Served, ReportKinds, TypeOK
      <4>2. Head(up[c]) = pump.call /\ pump.step = "sent"
        <5>1. Has(up[c], ReportKinds) /\ Every(up[c], ReportKinds, {pump.call})
          BY <3>1, <4>1, TailMessages DEF SentInv
        <5>. QED  BY <3>1, <4>1, <5>1, TailMessages DEF SentInv
      <4>3. pump.call.run \in Runs /\ run[pump.call.run] # "None"
        BY <4>2, ReportNames DEF TableInv, Recorded
      <4>4. run[pump.call.run] \in Finished
        BY <2>1, <4>1, <4>2, <4>3 DEF Accepts, TypeOK, States
      <4>. QED  BY <2>1, <4>1, <4>4
    <3>3. CASE StartedSave(c) \/ CompletedSave(c)
      <4>1. hub[c].call = pump.call
        BY <3>1, <3>3 DEF StartedSave, CompletedSave, SentInv, ReportKinds
      <4>2. CompletedSave(c)
        BY <2>1, <3>3, <4>1 DEF StartedSave
      <4>3. pump.call.run \in Runs /\ pump.call.state \in Reported
        BY <2>1, <4>1, CallType
      <4>. QED  BY <2>1, <4>1, <4>2, <4>3 DEF CompletedSave, TypeOK, Finished
    <3>. QED  BY <1>2, <3>2, <3>3
  <2>. QED  BY <2>1, <2>2, <2>3
<1>3. ASSUME NEW c \in Conns,
             RegisterRead(c) \/ RegisterSave(c) \/ RegisterSet(c) \/ OnDisconnected(c)
      PROVE  pump'.call = pump.call /\ Acking
  <2>1. UNCHANGED pump /\ Loses(down, down', {"Acked"})
    BY <1>3 DEF RegisterRead, RegisterSave, RegisterSet, OnDisconnected, Answer, SendTo, Loses
  <2>. QED  BY <2>1, LosesMessages DEF Acking, TypeOK
<1>4. ASSUME NEW c \in Conns, Abort(c)
      PROVE  pump'.call = pump.call /\ Acking
  <2>1. CASE c = link
    BY <1>4, <2>1, EmptyMessages DEF Abort, AgentDrops, Acking
  <2>2. CASE c # link
    BY <1>4, <2>2 DEF Abort, Acking
  <2>. QED  BY <2>1, <2>2
<1>5. CASE PumpTake \/ PumpCheck \/ PumpInvoke \/ Connect \/ Register
  <2>1. Acking /\ pump.step = "sent"
    BY <1>5 DEF PumpTake, PumpCheck, PumpInvoke, Connect, Register, Acking, SentInv
  <2>. QED  BY <1>5, <2>1 DEF PumpTake, PumpCheck, PumpInvoke, Connect, Register
<1>6. CASE PumpAcked
  <2>1. pump'.call = NoCall
    BY <1>6 DEF PumpAcked
  <2>. QED  BY <2>1 DEF NoCall
<1>7. CASE RegisterDone
  <2>1. UNCHANGED pump /\ Loses(down, down', {"Acked"})
    BY <1>7 DEF RegisterDone, Loses
  <2>. QED  BY <2>1, LosesMessages DEF Acking, TypeOK
<1>8. CASE Failure
  <2>1. down' = <<>>
    BY <1>8 DEF Failure, LinkDrop, AgentCrash, ServerCrash, AgentDrops
  <2>. QED  BY <2>1, EmptyMessages DEF Acking
<1>9. CASE UNCHANGED vars
  BY <1>9 DEF vars, Acking
<1>. QED
  BY <1>1, <1>2, <1>3, <1>4, <1>5, <1>6, <1>7, <1>8, <1>9 DEF Next, HubStep, WorkerStep

\* Reports are sent one by one and answered once, however operations interleave.
THEOREM SentCorrect == Spec => [](FreshConns /\ SentInv)
<1>1. Init => FreshConns /\ SentInv
  <2>. SUFFICES ASSUME Init
                PROVE  FreshConns /\ SentInv
    OBVIOUS
  <2>1. SentInv
    BY EmptyMessages DEF Init, SentInv, Acking
  <2>2. FreshConns
    BY DEF Init, FreshConns, Idle
  <2>. QED  BY <2>1, <2>2
<1>2. TypeOK /\ FreshConns /\ SentInv /\ [Next]_vars => FreshConns' /\ SentInv'
  BY FreshStep, ReportStep
<1>. QED  BY <1>1, <1>2, TypeCorrect, PTL DEF Spec

-----------------------------------------------------------------------------
(* What the agent executes is tracked: an end it reports of a run that is  *)
(* executing was reported first, before the run's start.                   *)

CommandFor(r) == [kind |-> "RunCommand", run |-> r]
Pending(r)    == request[r].step \in {"new", "insert", "send"}

\* The command of r has not reached the agent yet.
Unstarted(r) == Pending(r) \/ Holds(down, CommandFor(r))

\* The server has a report of r's start, or is about to get it.
Abroad(r) == \E c \in Conns : hub[c].call = StartOf(r) \/ Holds(up[c], StartOf(r))

\* An end of r is in the queue, and no start of r is in front of it.
Ending(r)  == \E i \in 1..Len(queue) : Ends(r, queue[i])
InOrder(r) == \A i, j \in 1..Len(queue) : Ends(r, queue[i]) /\ queue[j] = StartOf(r) => i < j

\* A command is sent once.
CommandOnce ==
  \A r \in Runs : /\ Pending(r) => ~Holds(down, CommandFor(r))
                  /\ Single(down, CommandFor(r))

\* Nothing is reported of a run before its command is there but its end, after a cancel.
Untouched ==
  \A r \in Runs : Unstarted(r) =>
    /\ r \notin executing /\ ~Abroad(r)
    /\ ~Holds(queue, StartOf(r)) /\ pump.call # StartOf(r)

\* An end reported of a run that is executing is in front of its start.
EndFirst ==
  \A r \in executing :
    /\ InOrder(r)
    /\ Ending(r) => pump.call # StartOf(r) /\ ~Abroad(r)
    /\ Ends(r, pump.call) => ~Abroad(r)

\* Once such an end is answered it is recorded, and no save of the start overwrites it.
EndStands ==
  \A r \in Runs :
    (r \in executing \/ Unstarted(r)) /\ Acking /\ Ends(r, pump.call) => run[r] \in Finished
LetGo ==
  \A r \in executing : r \in unreported
                       \/ (run[r] \in Finished /\ \A c \in Conns : hub[c].call # StartOf(r))

TrackedInv == CommandOnce /\ Untouched /\ EndFirst /\ EndStands /\ LetGo

\* Commands on their way to the agent.
LEMMA CommandStep ==
  ASSUME TypeOK, CommandOnce, [Next]_vars, NEW r \in Runs
  PROVE  /\ Unstarted(r)' => Unstarted(r)
         /\ Pending(r)' => ~Holds(down', CommandFor(r))
         /\ Single(down', CommandFor(r))
         /\ Start /\ Head(down) = CommandFor(r) => ~Unstarted(r)'
<1>. USE DEF serverMem, network, agentRuns, agentConn
<1>0. down \in Seq(Downward) /\ request[r] \in RequestStates
  BY DEF TypeOK
<1>1. ASSUME Pending(r)' => Pending(r),
             \/ UNCHANGED down
             \/ down' = <<>>
             \/ down # <<>> /\ down' = Tail(down)
             \/ \E m : m # CommandFor(r) /\ down' = Append(down, m)
             \/ Pending(r) /\ ~Pending(r)' /\ down' = Append(down, CommandFor(r))
      PROVE  /\ Unstarted(r)' => Unstarted(r)
             /\ Pending(r)' => ~Holds(down', CommandFor(r))
             /\ Single(down', CommandFor(r))
  <2>0. (Pending(r) => ~Holds(down, CommandFor(r))) /\ Single(down, CommandFor(r))
    BY DEF CommandOnce
  <2>1. CASE UNCHANGED down
    BY <1>1, <2>0, <2>1 DEF Unstarted
  <2>2. CASE down' = <<>>
    BY <1>1, <2>2, EmptyHolds DEF Unstarted
  <2>3. CASE down # <<>> /\ down' = Tail(down)
    BY <1>0, <1>1, <2>0, <2>3, TailHolds DEF Unstarted
  <2>4. ASSUME NEW m, m # CommandFor(r), down' = Append(down, m)
        PROVE  /\ Unstarted(r)' => Unstarted(r)
               /\ Pending(r)' => ~Holds(down', CommandFor(r))
               /\ Single(down', CommandFor(r))
    BY <1>0, <1>1, <2>0, <2>4, AppendHolds DEF Unstarted
  <2>5. CASE Pending(r) /\ ~Pending(r)' /\ down' = Append(down, CommandFor(r))
    BY <1>0, <2>0, <2>5, AppendHolds DEF Unstarted
  <2>. QED  BY <1>1, <2>1, <2>2, <2>3, <2>4, <2>5
<1>2. Pending(r)' => Pending(r)
  BY RequestMoves DEF Pending
<1>3. \/ UNCHANGED down
      \/ down' = <<>>
      \/ down # <<>> /\ down' = Tail(down)
      \/ \E m : m # CommandFor(r) /\ down' = Append(down, m)
      \/ Pending(r) /\ ~Pending(r)' /\ down' = Append(down, CommandFor(r))
  <2>1. ASSUME NEW s \in Runs, CreateSend(s) \/ JobSend(s)
        PROVE  \/ UNCHANGED down
               \/ \E m : m # CommandFor(r) /\ down' = Append(down, m)
               \/ Pending(r) /\ ~Pending(r)' /\ down' = Append(down, CommandFor(r))
    <3>1. s = r => Pending(r) /\ ~Pending(r)'
      BY <1>0, <2>1 DEF CreateSend, JobSend, Pending, TypeOK, RequestStates
    <3>2. UNCHANGED down \/ down' = Append(down, CommandFor(s))
      BY <2>1 DEF CreateSend, JobSend, SendTo, CommandFor
    <3>3. s # r => CommandFor(s) # CommandFor(r)
      BY DEF CommandFor
    <3>. QED  BY <3>1, <3>2, <3>3
  <2>2. ASSUME NEW s \in Runs, UserCancel(s) \/ JobCancel(s)
        PROVE  UNCHANGED down \/ \E m : m # CommandFor(r) /\ down' = Append(down, m)
    <3>1. UNCHANGED down \/ down' = Append(down, [kind |-> "CancelCommand", run |-> s])
      BY <2>2 DEF UserCancel, JobCancel, CancelRun, SendTo
    <3>2. [kind |-> "CancelCommand", run |-> s] # CommandFor(r)
      BY DEF CommandFor
    <3>. QED  BY <3>1, <3>2
  <2>3. ASSUME NEW s \in Runs,
               \/ Create(s) \/ JobLookup(s) \/ JobInsert(s) \/ JobWake(s)
               \/ CancelRead(s) \/ CancelSave(s)
        PROVE  UNCHANGED down
    BY <2>3 DEF Create, JobLookup, JobInsert, JobWake, CancelRead, CancelSave
  <2>4. CASE HubStep
    <3>1. \/ UNCHANGED down
          \/ down' = <<>>
          \/ \E c : Answer(c, "Registered") \/ Answer(c, "Acked")
      BY <2>4 DEF HubStep, RegisterRead, RegisterSave, RegisterSet, ReportRead, StartedSave,
         CompletedSave, Abort, OnDisconnected, AgentDrops
    <3>2. /\ [kind |-> "Registered"] # CommandFor(r)
          /\ [kind |-> "Acked"] # CommandFor(r)
      <4>1. /\ [kind |-> "Registered"].kind = "Registered"
            /\ [kind |-> "Acked"].kind = "Acked"
            /\ CommandFor(r).kind = "RunCommand"
        BY DEF CommandFor
      <4>. QED  BY <4>1
    <3>. QED  BY <3>1, <3>2 DEF Answer, SendTo
  <2>5. CASE RunnerStep
    BY <2>5 DEF RunnerStep, Start, Cancel, ProcessStarts, RunEnds
  <2>6. CASE WorkerStep
    BY <2>6 DEF WorkerStep, PumpTake, PumpCheck, PumpInvoke, PumpAcked, Connect, Register,
       RegisterDone
  <2>7. CASE Failure \/ UNCHANGED vars
    BY <2>7 DEF Failure, LinkDrop, AgentCrash, ServerCrash, AgentDrops, vars
  <2>. QED  BY <2>1, <2>2, <2>3, <2>4, <2>5, <2>6, <2>7 DEF Next, RequestStep
<1>4. ASSUME Start, Head(down) = CommandFor(r)
      PROVE  ~Unstarted(r)'
  <2>1. down # <<>> /\ down' = Tail(down) /\ UNCHANGED request
    BY <1>4 DEF Start
  <2>2. Holds(down, CommandFor(r)) /\ ~Holds(down', CommandFor(r))
    BY <1>0, <1>4, <2>1, TailHolds DEF CommandOnce
  <2>. QED  BY <2>1, <2>2 DEF CommandOnce, Unstarted, Pending
<1>. QED  BY <1>1, <1>2, <1>3, <1>4

\* How the queue and the pump change.
LEMMA QueueStep ==
  ASSUME TypeOK, [Next]_vars
  PROVE  \/ UNCHANGED queue /\ (pump'.call = pump.call \/ pump'.call = NoCall)
         \/ queue' = <<>> /\ executing' = {} /\ pump'.call = NoCall
         \/ /\ queue # <<>> /\ queue' = Tail(queue) /\ pump'.call = Head(queue)
            /\ pump.call = NoCall /\ UNCHANGED <<up, hub>>
         \/ \E m \in Report :
              /\ queue' = Enqueued(m) /\ UNCHANGED <<pump, up, hub>>
              /\ m.kind = "Started" => m.run \in executing
              /\ m.kind = "Completed" => m.run \notin executing'
<1>. USE DEF serverMem, network, agentRuns, agentConn
<1>0. pump \in PumpStates
  BY DEF TypeOK
<1>1. CASE RequestStep \/ HubStep
  <2>1. UNCHANGED queue
    BY <1>1 DEF RequestStep, Create, CreateSend, JobLookup, JobInsert, JobSend, JobWake, JobCancel,
       UserCancel, CancelRead, CancelSave, HubStep, RegisterRead, RegisterSave, RegisterSet,
       ReportRead, StartedSave, CompletedSave, Abort, OnDisconnected
  <2>2. UNCHANGED pump \/ pump' = Retried
    BY <1>1 DEF RequestStep, Create, CreateSend, JobLookup, JobInsert, JobSend, JobWake, JobCancel,
       UserCancel, CancelRead, CancelSave, HubStep, RegisterRead, RegisterSave, RegisterSet,
       ReportRead, StartedSave, CompletedSave, Abort, OnDisconnected
  <2>3. pump'.call = pump.call
    BY <1>0, <2>2 DEF Retried, PumpStates
  <2>. QED  BY <2>1, <2>3
<1>2. CASE Start
  BY <1>2 DEF Start
<1>3. CASE Cancel
  <2>. DEFINE r == Head(down).run
              m == [kind |-> "Completed", run |-> r, state |-> "Cancelled"]
  <2>1. /\ UNCHANGED <<executing, pump, up, hub>>
        /\ UNCHANGED queue \/ (queue' = Enqueued(m) /\ r \notin executing)
    BY <1>3 DEF Cancel, CancelAnswer
  <2>2. m \in Report /\ m.run = r /\ m.kind = "Completed"
    <3>1. Head(down) \in Downward
      BY <1>3, TailType DEF Cancel, TypeOK
    <3>. QED  BY <1>3, <3>1 DEF Cancel, Downward, Report, Reported
  <2>. HIDE DEF m
  <2>. QED  BY <2>1, <2>2
<1>4. ASSUME NEW r \in Runs, ProcessStarts(r)
      PROVE  \E m \in Report :
               /\ queue' = Enqueued(m) /\ UNCHANGED <<pump, up, hub>>
               /\ m.kind = "Started" => m.run \in executing
               /\ m.kind = "Completed" => m.run \notin executing'
  <2>. DEFINE m == [kind |-> "Started", run |-> r]
  <2>1. m \in Report /\ m.kind = "Started" /\ m.run = r
    BY DEF Report
  <2>2. queue' = Enqueued(m) /\ UNCHANGED <<pump, up, hub>> /\ r \in executing
    BY <1>4 DEF ProcessStarts
  <2>. HIDE DEF m
  <2>. QED  BY <2>1, <2>2
<1>5. ASSUME NEW r \in Runs, RunEnds(r)
      PROVE  \E m \in Report :
               /\ queue' = Enqueued(m) /\ UNCHANGED <<pump, up, hub>>
               /\ m.kind = "Started" => m.run \in executing
               /\ m.kind = "Completed" => m.run \notin executing'
  <2>1. PICK s \in Outcomes(r) :
          queue' = Enqueued([kind |-> "Completed", run |-> r, state |-> s])
    BY <1>5 DEF RunEnds
  <2>. DEFINE m == [kind |-> "Completed", run |-> r, state |-> s]
  <2>2. m \in Report /\ m.kind = "Completed" /\ m.run = r
    BY <2>1, ExitAssumption DEF Outcomes, Report, Reported
  <2>3. UNCHANGED <<pump, up, hub>> /\ r \notin executing' /\ queue' = Enqueued(m)
    BY <1>5, <2>1 DEF RunEnds
  <2>. HIDE DEF m
  <2>. QED  BY <2>2, <2>3
<1>6. CASE PumpTake
  <2>1. pump.call = NoCall
    BY <1>0, <1>6 DEF PumpTake, PumpStates
  <2>. QED  BY <1>6, <2>1 DEF PumpTake
<1>7. CASE PumpCheck \/ PumpInvoke \/ PumpAcked
  BY <1>0, <1>7 DEF PumpCheck, PumpInvoke, PumpAcked, PumpStates
<1>8. CASE Connect \/ Register \/ RegisterDone
  BY <1>8 DEF Connect, Register, RegisterDone
<1>9. CASE LinkDrop \/ ServerCrash
  BY <1>0, <1>9 DEF LinkDrop, ServerCrash, Retried, PumpStates
<1>10. CASE AgentCrash
  BY <1>10 DEF AgentCrash
<1>11. CASE UNCHANGED vars
  BY <1>11 DEF vars
<1>. QED
  BY <1>1, <1>2, <1>3, <1>4, <1>5, <1>6, <1>7, <1>8, <1>9, <1>10, <1>11
     DEF Next, RunnerStep, WorkerStep, Failure

\* A report that is enqueued comes behind those that stay.
LEMMA EnqueuedPlaces ==
  ASSUME TypeOK, NEW m \in Report, NEW i \in 1..Len(Enqueued(m))
  PROVE  \/ i \in 1..Len(queue) /\ Enqueued(m)[i] = queue[i] /\ Len(queue) < QueueCap
         \/ i + 1 \in 1..Len(queue) /\ Enqueued(m)[i] = queue[i + 1] /\ ~(Len(queue) < QueueCap)
         \/ i = Len(Enqueued(m)) /\ Enqueued(m)[i] = m
<1>0. queue \in Seq(Report) /\ Len(queue) \in Nat
  BY LenProperties DEF TypeOK
<1>1. CASE Len(queue) < QueueCap
  <2>1. Enqueued(m) = Append(queue, m)
    BY <1>1 DEF Enqueued
  <2>2. Len(Append(queue, m)) = Len(queue) + 1
    BY <1>0, AppendProperties
  <2>. QED  BY <1>0, <1>1, <2>1, <2>2, AppendPlaces
<1>2. CASE ~(Len(queue) < QueueCap)
  <2>1. queue # <<>>
    BY <1>2, BoundAssumption, EmptySeq
  <2>2. Enqueued(m) = Append(Tail(queue), m) /\ Tail(queue) \in Seq(Report)
    BY <1>0, <1>2, <2>1, TailType DEF Enqueued
  <2>3. \/ i \in 1..Len(Tail(queue)) /\ Enqueued(m)[i] = Tail(queue)[i]
        \/ i = Len(Tail(queue)) + 1 /\ Enqueued(m)[i] = m
    BY <2>2, AppendPlaces
  <2>4. Len(Enqueued(m)) = Len(Tail(queue)) + 1
    BY <2>2, AppendProperties
  <2>5. i \in 1..Len(Tail(queue)) => i + 1 \in 2..Len(queue) /\ Tail(queue)[i] = queue[i + 1]
    BY <1>0, <2>1, TailPlaces
  <2>6. i \in 1..Len(Tail(queue)) => i + 1 \in 1..Len(queue) /\ Tail(queue)[i] = queue[i + 1]
    BY <1>0, <2>5
  <2>. QED  BY <1>2, <2>3, <2>4, <2>6
<1>. QED  BY <1>1, <1>2

\* Where the reports of a run come from: a start from a run that is executing, an end from one
\* that is not executing any more, and the queue keeps their order.
LEMMA QueueReports ==
  ASSUME TypeOK, [Next]_vars, NEW r \in Runs
  PROVE  /\ Holds(queue', StartOf(r)) => Holds(queue, StartOf(r)) \/ r \in executing
         /\ pump'.call = StartOf(r) => pump.call = StartOf(r) \/ Holds(queue, StartOf(r))
         /\ Ends(r, pump'.call) => Ending(r) \/ Ends(r, pump.call)
         /\ r \in executing' /\ Ending(r)' => Ending(r)
         /\ r \in executing' /\ InOrder(r) => InOrder(r)'
         /\ r \in executing' /\ InOrder(r) /\ Ending(r)' /\ pump'.call = StartOf(r)
              => pump.call = StartOf(r)
<1>. DEFINE Goal ==
       /\ Holds(queue', StartOf(r)) => Holds(queue, StartOf(r)) \/ r \in executing
       /\ pump'.call = StartOf(r) => pump.call = StartOf(r) \/ Holds(queue, StartOf(r))
       /\ Ends(r, pump'.call) => Ending(r) \/ Ends(r, pump.call)
       /\ r \in executing' /\ Ending(r)' => Ending(r)
       /\ r \in executing' /\ InOrder(r) => InOrder(r)'
       /\ r \in executing' /\ InOrder(r) /\ Ending(r)' /\ pump'.call = StartOf(r)
            => pump.call = StartOf(r)
<1>. SUFFICES Goal
  OBVIOUS
<1>0. /\ queue \in Seq(Report) /\ NoCall # StartOf(r) /\ ~Ends(r, NoCall)
      /\ Len(queue) \in Nat
  BY LenProperties DEF TypeOK, NoCall, StartOf, Ends
<1>1. CASE UNCHANGED queue /\ (pump'.call = pump.call \/ pump'.call = NoCall)
  BY <1>0, <1>1 DEF Ending, InOrder
<1>2. CASE queue' = <<>> /\ executing' = {} /\ pump'.call = NoCall
  BY <1>0, <1>2, EmptyHolds
<1>3. CASE queue # <<>> /\ queue' = Tail(queue) /\ pump'.call = Head(queue)
  <2>1. /\ 1 \in 1..Len(queue) /\ Head(queue) = queue[1]
        /\ \A i \in 1..Len(queue') : i + 1 \in 1..Len(queue) /\ queue'[i] = queue[i + 1]
    <3>1. \A i \in 1..Len(Tail(queue)) : i + 1 \in 2..Len(queue) /\ Tail(queue)[i] = queue[i + 1]
      BY <1>0, <1>3, TailPlaces
    <3>2. 1 \in 1..Len(queue) /\ Head(queue) = queue[1]
      BY <1>0, <1>3, TailPlaces
    <3>. QED  BY <1>0, <1>3, <3>1, <3>2
  <2>2. \A i \in 1..Len(queue') : i \in Nat \ {0}
    BY <1>0, <1>3, HeadTailProperties
  <2>3. Holds(queue', StartOf(r)) => Holds(queue, StartOf(r))
    BY <2>1 DEF Holds
  <2>4. pump'.call = StartOf(r) => Holds(queue, StartOf(r))
    BY <1>3, <2>1 DEF Holds
  <2>5. (Ends(r, pump'.call) => Ending(r)) /\ (Ending(r)' => Ending(r))
    BY <1>3, <2>1 DEF Ending
  <2>6. InOrder(r) => InOrder(r)'
    BY <2>1, <2>2 DEF InOrder
  <2>7. InOrder(r) /\ Ending(r)' => pump'.call # StartOf(r)
    BY <1>3, <2>1, <2>2 DEF InOrder, Ending
  <2>. QED  BY <2>3, <2>4, <2>5, <2>6, <2>7
<1>4. ASSUME NEW m \in Report, queue' = Enqueued(m), UNCHANGED pump,
             m.kind = "Started" => m.run \in executing,
             m.kind = "Completed" => m.run \notin executing'
      PROVE  Goal
  <2>1. /\ m = StartOf(r) => r \in executing
        /\ Ends(r, m) => r \notin executing'
    BY <1>4 DEF StartOf, Ends
  <2>2. PICK d \in {0, 1} : \A i \in 1..Len(queue') :
          \/ i + d \in 1..Len(queue) /\ queue'[i] = queue[i + d]
          \/ i = Len(queue') /\ queue'[i] = m
    <3>1. CASE Len(queue) < QueueCap
      <4>1. \A i \in 1..Len(queue') : \/ i + 0 \in 1..Len(queue) /\ queue'[i] = queue[i + 0]
                                      \/ i = Len(queue') /\ queue'[i] = m
        BY <1>4, <3>1, EnqueuedPlaces
      <4>. QED  BY <4>1
    <3>2. CASE ~(Len(queue) < QueueCap)
      <4>1. \A i \in 1..Len(queue') : \/ i + 1 \in 1..Len(queue) /\ queue'[i] = queue[i + 1]
                                      \/ i = Len(queue') /\ queue'[i] = m
        BY <1>4, <3>2, EnqueuedPlaces
      <4>. QED  BY <4>1
    <3>. QED  BY <3>1, <3>2
  <2>3. Holds(queue', StartOf(r)) => Holds(queue, StartOf(r)) \/ r \in executing
    BY <2>1, <2>2 DEF Holds
  <2>4. r \in executing' /\ Ending(r)' => Ending(r)
    BY <2>1, <2>2 DEF Ending
  <2>5. r \in executing' /\ InOrder(r) => InOrder(r)'
    <3>. SUFFICES ASSUME r \in executing', InOrder(r),
                         NEW i \in 1..Len(queue'), NEW j \in 1..Len(queue'),
                         Ends(r, queue'[i]), queue'[j] = StartOf(r)
                  PROVE  i < j
      BY DEF InOrder
    <3>1. i + d \in 1..Len(queue) /\ queue'[i] = queue[i + d]
      BY <2>1, <2>2
    <3>2. CASE j + d \in 1..Len(queue) /\ queue'[j] = queue[j + d]
      BY <1>0, <2>2, <3>1, <3>2 DEF InOrder
    <3>3. CASE j = Len(queue') /\ queue'[j] = m
      <4>1. i # j
        BY DEF Ends, StartOf
      <4>2. Len(queue') \in Nat
        BY <1>4, EnqueuedType, LenProperties
      <4>. QED  BY <3>3, <4>1, <4>2
    <3>. QED  BY <2>2, <3>2, <3>3
  <2>. QED  BY <1>4, <2>3, <2>4, <2>5
<1>. HIDE DEF Goal
<1>. QED  BY <1>1, <1>2, <1>3, <1>4, QueueStep

\* A start gets to the server only from the pump.
LEMMA AbroadStep ==
  ASSUME TypeOK, [Next]_vars, NEW r \in Runs, Abroad(r)'
  PROVE  Abroad(r) \/ (PumpInvoke /\ pump.call = StartOf(r))
<1>0. StartOf(r) \in Report /\ StartOf(r) # NoCall
  BY DEF StartOf, Report, NoCall
<1>1. PICK c \in Conns : hub'[c].call = StartOf(r) \/ Holds(up'[c], StartOf(r))
  BY DEF Abroad
<1>2. CASE Holds(up'[c], StartOf(r))
  BY <1>0, <1>2, UpHolds DEF Abroad
<1>3. CASE hub'[c].call = StartOf(r)
  <2>1. Served(c) => Holds(up[c], Head(up[c]))
    BY TailHolds, ReportNames DEF Served
  <2>. QED  BY <1>0, <1>3, <2>1, HubCalls DEF Abroad, Idle
<1>. QED  BY <1>1, <1>2, <1>3

\* What begins to execute was not started before.
LEMMA ExecutingStep ==
  ASSUME TypeOK, Untouched, [Next]_vars, NEW r \in executing'
  PROVE  \/ r \in executing
         \/ /\ Start /\ Head(down) = CommandFor(r) /\ Unstarted(r) /\ r \in unreported'
            /\ UNCHANGED <<queue, pump, up, hub, run>>
<1>. USE DEF serverMem, network, agentRuns, agentConn
<1>1. CASE Start
  <2>1. CASE r \notin executing
    <3>1. /\ Head(down).run = r /\ Head(down).kind = "RunCommand" /\ down # <<>>
          /\ r \in unreported' /\ UNCHANGED <<queue, pump, up, hub, run>>
      BY <1>1, <2>1 DEF Start
    <3>2. Head(down) = CommandFor(r) /\ Holds(down, Head(down))
      <4>1. Head(down) \in Downward
        BY <3>1, TailType DEF TypeOK
      <4>2. Head(down) = CommandFor(r)
        BY <3>1, <4>1 DEF Downward, CommandFor
      <4>3. Holds(down, Head(down))
        BY <3>1, TailHolds DEF TypeOK
      <4>. QED  BY <4>2, <4>3
    <3>. QED  BY <1>1, <3>1, <3>2 DEF Unstarted
  <2>. QED  BY <2>1
<1>2. CASE ~Start
  <2>1. RequestStep \/ HubStep => UNCHANGED executing
    BY DEF RequestStep, Create, CreateSend, JobLookup, JobInsert, JobSend, JobWake, JobCancel,
       UserCancel, CancelRead, CancelSave, HubStep, RegisterRead, RegisterSave, RegisterSet,
       ReportRead, StartedSave, CompletedSave, Abort, OnDisconnected
  <2>2. RunnerStep => executing' \subseteq executing
    BY <1>2 DEF RunnerStep, Cancel, ProcessStarts, RunEnds
  <2>3. WorkerStep => UNCHANGED executing
    BY DEF WorkerStep, PumpTake, PumpCheck, PumpInvoke, PumpAcked, Connect, Register, RegisterDone
  <2>4. Failure \/ UNCHANGED vars => executing' \subseteq executing
    BY DEF Failure, LinkDrop, AgentCrash, ServerCrash, vars
  <2>. QED  BY <2>1, <2>2, <2>3, <2>4 DEF Next
<1>. QED  BY <1>1, <1>2

\* The agent lets go of a run that is executing only when its end is confirmed.
LEMMA LetGoStep ==
  ASSUME TypeOK, [Next]_vars, NEW r \in Runs,
         r \in unreported, r \notin unreported', r \in executing'
  PROVE  PumpAcked /\ Ends(r, pump.call)
<1>. USE DEF serverMem, network, agentRuns, agentConn
<1>1. RequestStep \/ HubStep => UNCHANGED unreported
  BY DEF RequestStep, Create, CreateSend, JobLookup, JobInsert, JobSend, JobWake, JobCancel,
     UserCancel, CancelRead, CancelSave, HubStep, RegisterRead, RegisterSave, RegisterSet,
     ReportRead, StartedSave, CompletedSave, Abort, OnDisconnected
<1>2. RunnerStep => unreported \subseteq unreported'
  BY DEF RunnerStep, Start, Cancel, ProcessStarts, RunEnds
<1>3. PumpTake \/ PumpCheck \/ PumpInvoke \/ Connect \/ Register \/ RegisterDone =>
        UNCHANGED unreported
  BY DEF PumpTake, PumpCheck, PumpInvoke, Connect, Register, RegisterDone
<1>4. LinkDrop \/ ServerCrash \/ UNCHANGED vars => UNCHANGED unreported
  BY DEF LinkDrop, ServerCrash, vars
<1>5. AgentCrash => executing' = {}
  BY DEF AgentCrash
<1>6. PumpAcked => Ends(r, pump.call)
  BY DEF PumpAcked, AfterReport, Ends
<1>. QED  BY <1>1, <1>2, <1>3, <1>4, <1>5, <1>6 DEF Next, WorkerStep, Failure

\* A run keeps its end while no start of it is with the server.
LEMMA EndStays ==
  ASSUME TypeOK, TableInv, [Next]_vars, NEW r \in Runs, run[r] \in Finished,
         \A c \in Conns : hub[c].call # StartOf(r)
  PROVE  run'[r] \in Finished
BY RunStep DEF TableInv, Finished, Reported

\* Every step keeps the reports in their order, and the ends in the table.
LEMMA TrackedStep ==
  ASSUME TypeOK, TableInv, SentInv, TrackedInv, [Next]_vars
  PROVE  TrackedInv'
<1>. USE DEF TrackedInv
<1>0. executing' \subseteq Runs /\ executing \subseteq Runs
  <2>1. TypeOK'
    BY TypeStep
  <2>. QED  BY <2>1 DEF TypeOK
<1>1. CommandOnce'
  BY CommandStep DEF CommandOnce
<1>2. Untouched'
  <2>. SUFFICES ASSUME NEW r \in Runs, Unstarted(r)'
                PROVE  /\ r \notin executing' /\ ~Abroad(r)'
                       /\ ~Holds(queue', StartOf(r)) /\ pump'.call # StartOf(r)
    BY DEF Untouched
  <2>1. /\ Unstarted(r) /\ r \notin executing /\ ~Abroad(r)
        /\ ~Holds(queue, StartOf(r)) /\ pump.call # StartOf(r)
    BY CommandStep DEF Untouched
  <2>2. r \notin executing'
    BY <2>1, ExecutingStep, CommandStep
  <2>3. ~Abroad(r)'
    BY <2>1, AbroadStep
  <2>. QED  BY <2>1, <2>2, <2>3, QueueReports
<1>3. EndFirst'
  <2>. SUFFICES ASSUME NEW r \in executing'
                PROVE  /\ InOrder(r)'
                       /\ Ending(r)' => pump'.call # StartOf(r) /\ ~Abroad(r)'
                       /\ Ends(r, pump'.call) => ~Abroad(r)'
    BY DEF EndFirst
  <2>1. r \in Runs
    BY <1>0
  <2>2. CASE r \in executing
    <3>1. /\ InOrder(r)
          /\ Ending(r) => pump.call # StartOf(r) /\ ~Abroad(r)
          /\ Ends(r, pump.call) => ~Abroad(r)
      BY <2>2 DEF EndFirst
    <3>2. InOrder(r)' /\ (Ending(r)' => Ending(r) /\ pump'.call # StartOf(r))
      BY <2>1, <3>1, QueueReports
    <3>3. Ending(r) => ~Abroad(r)'
      BY <2>1, <3>1, AbroadStep
    <3>4. Ends(r, pump'.call) => ~Abroad(r)'
      <4>1. Ends(r, pump.call) => pump.call # StartOf(r)
        BY DEF Ends, StartOf
      <4>2. Ends(r, pump.call) => ~Abroad(r)'
        BY <2>1, <3>1, <4>1, AbroadStep
      <4>3. Ends(r, pump'.call) => Ending(r) \/ Ends(r, pump.call)
        BY <2>1, QueueReports
      <4>. QED  BY <3>3, <4>2, <4>3
    <3>. QED  BY <3>2, <3>3, <3>4
  <2>3. CASE Unstarted(r) /\ UNCHANGED <<queue, pump, up, hub>>
    <3>1. ~Abroad(r) /\ ~Holds(queue, StartOf(r)) /\ pump.call # StartOf(r)
      BY <2>1, <2>3 DEF Untouched
    <3>2. ~Abroad(r)' /\ ~Holds(queue', StartOf(r)) /\ pump'.call # StartOf(r)
      BY <2>3, <3>1 DEF Abroad
    <3>3. InOrder(r)'
      BY <3>2 DEF InOrder, Holds
    <3>. QED  BY <3>2, <3>3
  <2>. QED  BY <2>2, <2>3, ExecutingStep
<1>4. EndStands'
  <2>. SUFFICES ASSUME NEW r \in Runs, r \in executing' \/ Unstarted(r)',
                       Acking', Ends(r, pump'.call)
                PROVE  run'[r] \in Finished
    BY DEF EndStands
  <2>1. pump'.call = pump.call /\ (Acking \/ run'[r] \in Finished)
    BY AnswerFollows DEF Ends
  <2>2. r \in executing \/ Unstarted(r)
    BY ExecutingStep, CommandStep
  <2>3. Acking => run[r] \in Finished
    BY <2>1, <2>2 DEF EndStands
  <2>4. ~Abroad(r)
    BY <2>1, <2>2 DEF EndFirst, Untouched
  <2>5. \A c \in Conns : hub[c].call # StartOf(r)
    BY <2>4 DEF Abroad
  <2>. QED  BY <2>1, <2>3, <2>5, EndStays
<1>5. LetGo'
  <2>. SUFFICES ASSUME NEW r \in executing', r \notin unreported'
                PROVE  run'[r] \in Finished /\ \A c \in Conns : hub'[c].call # StartOf(r)
    BY DEF LetGo
  <2>1. r \in Runs /\ r \in executing
    BY <1>0, ExecutingStep
  <2>2. run[r] \in Finished /\ \A c \in Conns : hub[c].call # StartOf(r)
    <3>1. CASE r \notin unreported
      BY <2>1, <3>1 DEF LetGo
    <3>2. CASE r \in unreported
      <4>1. PumpAcked /\ Ends(r, pump.call)
        BY <2>1, <3>2, LetGoStep
      <4>2. Acking
        BY <4>1, TailMessages DEF PumpAcked, TypeOK, Acking
      <4>3. run[r] \in Finished /\ ~Abroad(r)
        BY <2>1, <4>1, <4>2 DEF EndStands, EndFirst
      <4>. QED  BY <4>3 DEF Abroad
    <3>. QED  BY <3>1, <3>2
  <2>3. run'[r] \in Finished
    BY <2>1, <2>2, EndStays
  <2>4. ASSUME NEW c \in Conns, hub'[c].call = StartOf(r)
        PROVE  FALSE
    <3>1. StartOf(r).kind = "Started" /\ StartOf(r).run = r /\ StartOf(r) # NoCall
          /\ StartOf(r).kind \in ReportKinds
      BY DEF StartOf, NoCall, ReportKinds
    <3>2. Accepts(StartOf(r))
      BY <2>2, <2>4, <3>1, HubCalls DEF Idle
    <3>. QED  BY <2>2, <3>1, <3>2 DEF Accepts, Finished, Reported
  <2>. QED  BY <2>3, <2>4
<1>. QED  BY <1>1, <1>2, <1>3, <1>4, <1>5

\* Reports come in their order and a reported end is in the table, however operations
\* interleave.
THEOREM TrackedInvariant == Spec => []TrackedInv
<1>1. Init => TrackedInv
  <2>. SUFFICES ASSUME Init
                PROVE  TrackedInv
    OBVIOUS
  <2>1. CommandOnce
    BY EmptyHolds DEF Init, CommandOnce
  <2>2. Untouched
    <3>1. \A r \in Runs : NoCall # StartOf(r)
      BY DEF NoCall, StartOf
    <3>. QED  BY <3>1, EmptyHolds DEF Init, Untouched, Abroad, Idle
  <2>3. EndFirst /\ LetGo
    BY DEF Init, EndFirst, LetGo
  <2>4. EndStands
    BY EmptyMessages DEF Init, EndStands, Acking
  <2>. QED  BY <2>1, <2>2, <2>3, <2>4 DEF TrackedInv
<1>2. TypeOK /\ TableInv /\ SentInv /\ TrackedInv /\ [Next]_vars => TrackedInv'
  BY TrackedStep
<1>. QED  BY <1>1, <1>2, TypeCorrect, TableCorrect, SentCorrect, PTL DEF Spec

\* What the agent executes (CommandRunner._running) is named in its next Register call, or its
\* end is recorded, for any number of runs, connections and crashes, whatever cancel overtakes
\* its command, and however the server's operations and the Register calls overlap.
THEOREM TrackedCorrect == Spec => []ExecutingTracked
<1>1. TrackedInv => ExecutingTracked
  BY DEF TrackedInv, LetGo, ExecutingTracked
<1>. QED  BY <1>1, TrackedInvariant, PTL

-----------------------------------------------------------------------------
(* Results are not lost while OutboundQueue has room. *)

\* Without an overflow every step keeps a result for what is not reported.
LEMMA ResultsStep ==
  ASSUME TypeOK, UnreportedHasResult, Len(queue) < QueueCap, [Next]_vars
  PROVE  UnreportedHasResult'
<1>. USE DEF serverMem, network, agentRuns, agentConn
<1>0. Len(queue) \in Nat /\ \A m : Enqueued(m) = Append(queue, m)
  BY LenProperties DEF TypeOK, Enqueued
<1>1. ASSUME unreported' \subseteq unreported, UNCHANGED <<executing, queue>>,
             pump'.call = pump.call
      PROVE  UnreportedHasResult'
  BY <1>1 DEF UnreportedHasResult, HasResult
<1>2. ASSUME NEW m \in Report, queue' = Append(queue, m), UNCHANGED <<unreported, pump>>,
             \A r \in executing : r \in executing' \/ (m.kind = "Completed" /\ m.run = r)
      PROVE  UnreportedHasResult'
  <2>1. /\ \A i \in 1..Len(queue) : i \in 1..Len(queue') /\ queue'[i] = queue[i]
        /\ Len(queue) + 1 \in 1..Len(queue') /\ queue'[Len(queue) + 1] = m
    <3>1. Len(queue') = Len(queue) + 1
      BY <1>0, <1>2 DEF TypeOK
    <3>2. /\ \A i \in 1..Len(queue) : i \in 1..Len(queue')
          /\ Len(queue) + 1 \in 1..Len(queue')
      BY <1>0, <3>1
    <3>3. /\ \A i \in 1..Len(queue) : Append(queue, m)[i] = queue[i]
          /\ Append(queue, m)[Len(queue) + 1] = m
      BY <1>0, AppendProperties DEF TypeOK
    <3>. QED  BY <1>2, <3>2, <3>3
  <2>. QED  BY <1>2, <2>1 DEF UnreportedHasResult, HasResult
<1>3. CASE RequestStep \/ HubStep
  <2>1. UNCHANGED <<executing, unreported, queue>>
    BY <1>3 DEF RequestStep, Create, CreateSend, JobLookup, JobInsert, JobSend, JobWake, JobCancel,
       UserCancel, CancelRead, CancelSave, HubStep, RegisterRead, RegisterSave, RegisterSet,
       ReportRead, StartedSave, CompletedSave, Abort, OnDisconnected
  <2>2. UNCHANGED pump \/ pump' = Retried
    BY <1>3 DEF RequestStep, Create, CreateSend, JobLookup, JobInsert, JobSend, JobWake, JobCancel,
       UserCancel, CancelRead, CancelSave, HubStep, RegisterRead, RegisterSave, RegisterSet,
       ReportRead, StartedSave, CompletedSave, Abort, OnDisconnected
  <2>3. pump'.call = pump.call
    BY <2>2 DEF Retried, TypeOK, PumpStates
  <2>. QED  BY <1>1, <2>1, <2>3
<1>4. CASE Start
  BY <1>4 DEF Start, UnreportedHasResult, HasResult
<1>5. CASE Cancel
  <2>. DEFINE r == Head(down).run
              m == [kind |-> "Completed", run |-> r, state |-> "Cancelled"]
  <2>1. r \in Runs
    <3>1. Head(down) \in Downward
      BY <1>5, TailType DEF Cancel, TypeOK
    <3>. QED  BY <1>5, <3>1 DEF Cancel, Downward
  <2>2. m \in Report
    BY <2>1 DEF Report, Reported
  <2>3. UNCHANGED <<executing, unreported, pump>> /\ (UNCHANGED queue \/ queue' = Append(queue, m))
    BY <1>0, <1>5 DEF Cancel, CancelAnswer
  <2>. HIDE DEF m
  <2>. QED  BY <1>1, <1>2, <2>2, <2>3
<1>6. ASSUME NEW r \in Runs, ProcessStarts(r)
      PROVE  UnreportedHasResult'
  <2>. DEFINE m == [kind |-> "Started", run |-> r]
  <2>1. m \in Report /\ queue' = Append(queue, m) /\ UNCHANGED <<executing, unreported, pump>>
    BY <1>0, <1>6 DEF ProcessStarts, Report
  <2>. HIDE DEF m
  <2>. QED  BY <1>2, <2>1
<1>7. ASSUME NEW r \in Runs, RunEnds(r)
      PROVE  UnreportedHasResult'
  <2>1. PICK s \in Outcomes(r) :
          queue' = Append(queue, [kind |-> "Completed", run |-> r, state |-> s])
    BY <1>0, <1>7 DEF RunEnds
  <2>. DEFINE m == [kind |-> "Completed", run |-> r, state |-> s]
  <2>2. m \in Report /\ m.kind = "Completed" /\ m.run = r
    BY <2>1, ExitAssumption DEF Outcomes, Report, Reported
  <2>3. queue' = Append(queue, m) /\ UNCHANGED <<unreported, pump>> /\ executing' = executing \ {r}
    BY <1>7, <2>1 DEF RunEnds
  <2>. HIDE DEF m
  <2>. QED  BY <1>2, <2>2, <2>3
<1>8. CASE PumpTake
  <2>1. /\ pump.step = "idle" /\ queue # <<>> /\ queue' = Tail(queue)
        /\ pump'.call = Head(queue) /\ UNCHANGED <<executing, unreported>>
    BY <1>8 DEF PumpTake
  <2>2. \A r \in Runs : HasResult(r) => HasResult(r)'
    <3>1. pump.call.kind # "Completed"
      <4>1. pump \in PumpStates
        BY DEF TypeOK
      <4>. QED  BY <2>1, <4>1 DEF PumpStates, NoCall
    <3>2. \A i \in 1..Len(queue) :
            queue[i] = Head(queue) \/ \E j \in 1..Len(queue') : queue'[j] = queue[i]
      <4>1. /\ Len(queue') = Len(queue) - 1 /\ Head(queue) = queue[1]
            /\ \A j \in 1..Len(queue') : queue'[j] = queue[j + 1]
        BY <2>1, HeadTailProperties DEF TypeOK
      <4>2. \A i \in 1..Len(queue) : i # 1 => i - 1 \in 1..Len(queue') /\ queue'[i - 1] = queue[i]
        BY <1>0, <4>1
      <4>. QED  BY <4>1, <4>2
    <3>. QED  BY <2>1, <3>1, <3>2 DEF HasResult
  <2>. QED  BY <2>1, <2>2 DEF UnreportedHasResult, TypeOK
<1>9. CASE PumpCheck \/ PumpInvoke
  <2>1. pump'.call = pump.call /\ UNCHANGED <<executing, unreported, queue>>
    BY <1>9 DEF PumpCheck, PumpInvoke, TypeOK, PumpStates
  <2>. QED  BY <1>1, <2>1
<1>10. CASE PumpAcked
  BY <1>10 DEF PumpAcked, AfterReport, UnreportedHasResult, HasResult
<1>11. CASE Connect \/ Register \/ RegisterDone
  BY <1>1, <1>11 DEF Connect, Register, RegisterDone
<1>12. CASE LinkDrop \/ ServerCrash
  <2>1. pump'.call = pump.call /\ UNCHANGED <<executing, unreported, queue>>
    BY <1>12 DEF LinkDrop, ServerCrash, Retried, TypeOK, PumpStates
  <2>. QED  BY <1>1, <2>1
<1>13. CASE AgentCrash
  BY <1>13 DEF AgentCrash, UnreportedHasResult
<1>14. CASE UNCHANGED vars
  BY <1>1, <1>14 DEF vars
<1>. QED
  BY <1>3, <1>4, <1>5, <1>6, <1>7, <1>8, <1>9, <1>10, <1>11, <1>12, <1>13, <1>14
     DEF Next, RunnerStep, WorkerStep, Failure

\* A run the agent goes on naming (CommandRunner._unreported) is executing, or its result is in
\* OutboundQueue or with PumpOutboundAsync, however reports and failures interleave, as long
\* as the queue never fills up: DropOldest would lose the result.  No assumption on the
\* order of the server's operations.
THEOREM ResultsCorrect == Spec /\ [](Len(queue) < QueueCap) => []UnreportedHasResult
<1>1. Init => UnreportedHasResult
  BY DEF Init, UnreportedHasResult
<1>. QED  BY <1>1, ResultsStep, TypeCorrect, PTL DEF Spec

\* Both together: what the agent was given it names until its end is recorded, and has that
\* end in its hands, through crashes and overlapping operations, while the queue has room.
THEOREM AccountedCorrect == Spec /\ [](Len(queue) < QueueCap) => []RunsAreAccountedFor
<1>1. ExecutingTracked /\ UnreportedHasResult <=> RunsAreAccountedFor
  BY DEF RunsAreAccountedFor
<1>. QED  BY <1>1, TrackedCorrect, ResultsCorrect, PTL


-----------------------------------------------------------------------------
(* The registry, through late disconnects and Register calls out of order. *)

\* Only a live connection is served, only an opened one is identified, and the one whose
\* Register call was the last to set the registry is identified.
ConnsInv ==
  /\ \A c \in Conns : hub[c].step # "idle" => c \in alive
  /\ \A c \in identified : c <= conns
  /\ latest \in {0} \cup identified

OnlineInv == ConnsInv /\ OnlineIsLatest

\* The steps of AgentHub keep it: a disconnect takes away what it finds of its own only.
LEMMA OnlineHub ==
  ASSUME TypeOK, FreshConns, OnlineInv, HubStep
  PROVE  OnlineInv'
<1>. USE DEF OnlineInv, ConnsInv, OnlineIsLatest, network
<1>0. 0 \notin Conns /\ alive \subseteq Conns /\ identified \subseteq Conns /\ conns \in Nat
  BY BoundAssumption DEF TypeOK, Conns
<1>1. ASSUME NEW c \in Conns, RegisterRead(c)
      PROVE  OnlineInv'
  BY <1>1 DEF RegisterRead, NextCall, Served, Opened, TypeOK
<1>2. ASSUME NEW c \in Conns, RegisterSave(c)
      PROVE  OnlineInv'
  BY <1>2 DEF RegisterSave, TypeOK
<1>3. ASSUME NEW c \in Conns, RegisterSet(c)
      PROVE  OnlineInv'
  <2>1. c \in alive /\ hub[c].step # "idle"
    BY <1>3 DEF RegisterSet
  <2>2. c <= conns
    BY <1>0, <2>1 DEF FreshConns, Conns
  <2>3. /\ latest' = c /\ registry' = c /\ identified' = identified \cup {c}
        /\ hub' = [hub EXCEPT ![c] = Idle] /\ UNCHANGED <<alive, conns>>
    BY <1>3 DEF RegisterSet
  <2>. QED  BY <2>1, <2>2, <2>3 DEF Idle, TypeOK
<1>4. ASSUME NEW c \in Conns, ReportRead(c)
      PROVE  OnlineInv'
  BY <1>4 DEF ReportRead, Served, Opened, TypeOK
<1>5. ASSUME NEW c \in Conns, StartedSave(c) \/ CompletedSave(c)
      PROVE  OnlineInv'
  <2>1. /\ hub' = [hub EXCEPT ![c] = Idle]
        /\ UNCHANGED <<registry, latest, identified, alive, conns>>
    BY <1>5 DEF StartedSave, CompletedSave
  <2>2. \A d \in Conns : hub'[d] = hub[d] \/ hub'[d].step = "idle"
    BY <2>1 DEF Idle, TypeOK
  <2>. QED  BY <2>1, <2>2
<1>6. ASSUME NEW c \in Conns, Abort(c)
      PROVE  OnlineInv'
  BY <1>6 DEF Abort, serverMem
<1>7. ASSUME NEW c \in Conns, OnDisconnected(c)
      PROVE  OnlineInv'
  <2>1. /\ hub[c].step = "idle" /\ alive' = alive \ {c} /\ c \in alive
        /\ registry' = IF c \in identified THEN Removed(c) ELSE registry
        /\ UNCHANGED <<hub, identified, latest, conns>>
    BY <1>7 DEF OnDisconnected
  <2>2. ConnsInv'
    BY <2>1
  <2>3. CASE c = latest
    <3>1. c \in identified /\ registry = c
      BY <1>0, <2>1, <2>3
    <3>. QED  BY <2>1, <2>2, <2>3, <3>1 DEF Removed
  <2>4. CASE c # latest
    <3>1. registry # c
      BY <1>0, <2>4
    <3>. QED  BY <2>1, <2>2, <2>4, <3>1 DEF Removed
  <2>. QED  BY <2>3, <2>4
<1>. QED
  BY <1>1, <1>2, <1>3, <1>4, <1>5, <1>6, <1>7 DEF HubStep

\* Every step keeps it; a new connection is not the one registered before.
LEMMA OnlineStep ==
  ASSUME TypeOK, FreshConns, OnlineInv, [Next]_vars
  PROVE  OnlineInv'
<1>1. ASSUME UNCHANGED <<registry, latest, identified, hub, alive, conns>>
      PROVE  OnlineInv'
  BY <1>1 DEF OnlineInv, ConnsInv, OnlineIsLatest
<1>2. CASE RequestStep \/ RunnerStep
  <2>1. UNCHANGED <<registry, latest, identified, hub, alive, conns>>
    BY <1>2 DEF RequestStep, Create, CreateSend, JobLookup, JobInsert, JobSend, JobWake, JobCancel,
       UserCancel, CancelRead, CancelSave, RunnerStep, Start, Cancel, ProcessStarts, RunEnds,
       serverMem, network
  <2>. QED  BY <1>1, <2>1
<1>3. CASE PumpTake \/ PumpCheck \/ PumpInvoke \/ PumpAcked \/ Register \/ RegisterDone
  <2>1. UNCHANGED <<registry, latest, identified, hub, alive, conns>>
    BY <1>3 DEF PumpTake, PumpCheck, PumpInvoke, PumpAcked, Register, RegisterDone,
       serverMem, network
  <2>. QED  BY <1>1, <2>1
<1>4. CASE Connect
  <2>1. conns' = conns + 1 /\ alive' = alive \cup {conns + 1}
        /\ UNCHANGED <<registry, latest, identified, hub>>
    BY <1>4 DEF Connect, serverMem
  <2>2. conns \in Nat /\ identified \subseteq Nat
    BY BoundAssumption DEF TypeOK, Conns
  <2>3. latest # conns + 1 /\ \A c \in identified : c <= conns + 1
    BY <2>2 DEF OnlineInv, ConnsInv
  <2>. QED  BY <2>1, <2>3 DEF OnlineInv, ConnsInv, OnlineIsLatest
<1>5. CASE LinkDrop \/ AgentCrash \/ UNCHANGED vars
  <2>1. UNCHANGED <<registry, latest, identified, hub, alive, conns>>
    BY <1>5 DEF LinkDrop, AgentCrash, vars, serverMem, network
  <2>. QED  BY <1>1, <2>1
<1>6. CASE ServerCrash
  BY <1>6 DEF ServerCrash, OnlineInv, ConnsInv, OnlineIsLatest, Idle
<1>. QED
  BY <1>2, <1>3, <1>4, <1>5, <1>6, OnlineHub DEF Next, WorkerStep, Failure

\* The registry names the connection registered last while that one has not ended, and the
\* agent is shown offline otherwise (AgentHub.Register and OnDisconnectedAsync,
\* AgentRegistry.Remove), in whatever order the calls and the ends of connections are served.
THEOREM OnlineCorrect == Spec => []OnlineIsLatest
<1>1. Init => OnlineInv
  BY DEF Init, OnlineInv, ConnsInv, OnlineIsLatest, Idle
<1>2. OnlineInv => OnlineIsLatest
  BY DEF OnlineInv
<1>. QED  BY <1>1, <1>2, OnlineStep, TypeCorrect, SentCorrect, PTL DEF Spec

-----------------------------------------------------------------------------
(* Ends: who is told of one, it was saved before.                           *)

\* The answer to the report of an end comes after an end of the run was saved.
AnsweredInv == Acking /\ pump.call.kind = "Completed" => pump.call.run \in ended

\* So does whatever the table shows as ended, and what a waiter was told.
EndedInv ==
  /\ \A r \in Runs : run[r] \in Finished => r \in ended
  /\ AnsweredInv
  /\ WokenAfterEnd

\* Ends are noted when they are saved, and never forgotten.
LEMMA EndedStep ==
  ASSUME TypeOK, EndedInv, [Next]_vars
  PROVE  /\ \A r \in ended : r \in ended'
         /\ \A r \in Runs : run'[r] \in Finished => r \in ended'
<1>1. ASSUME UNCHANGED <<run, ended>>
      PROVE  /\ \A r \in ended : r \in ended'
             /\ \A r \in Runs : run'[r] \in Finished => r \in ended'
  BY <1>1 DEF EndedInv
<1>2. ASSUME Noted
      PROVE  /\ \A r \in ended : r \in ended'
             /\ \A r \in Runs : run'[r] \in Finished => r \in ended'
  BY <1>2 DEF Noted
<1>3. RequestStep => UNCHANGED <<run, ended>> \/ Noted
  BY DEF RequestStep, Create, CreateSend, JobLookup, JobInsert, JobSend, JobWake, JobCancel,
     UserCancel, CancelRead, CancelSave
<1>4. HubStep => UNCHANGED <<run, ended>> \/ Noted
  BY DEF HubStep, RegisterRead, RegisterSave, RegisterSet, ReportRead, StartedSave,
     CompletedSave, Abort, OnDisconnected
<1>5. RunnerStep \/ WorkerStep \/ Failure \/ UNCHANGED vars => UNCHANGED <<run, ended>>
  BY DEF RunnerStep, Start, Cancel, ProcessStarts, RunEnds, WorkerStep, PumpTake, PumpCheck,
     PumpInvoke, PumpAcked, Connect, Register, RegisterDone, Failure, LinkDrop, AgentCrash,
     ServerCrash, vars
<1>. QED  BY <1>1, <1>2, <1>3, <1>4, <1>5 DEF Next

\* A waiter is removed in the step that saves an end of its run, or with the request.
LEMMA WaiterStep ==
  ASSUME TypeOK, [Next]_vars, NEW r \in Runs, request'[r].step = "wait", r \notin waiter'
  PROVE  \/ request[r].step = "wait" /\ r \notin waiter
         \/ run'[r] \in Finished
<1>. USE DEF serverMem, network
<1>1. ASSUME UNCHANGED <<request, waiter>>
      PROVE  request[r].step = "wait" /\ r \notin waiter
  BY <1>1
<1>2. ASSUME NEW s \in Runs, Create(s) \/ CreateSend(s) \/ JobLookup(s) \/ JobInsert(s)
                             \/ JobWake(s) \/ JobCancel(s)
      PROVE  request[r].step = "wait" /\ r \notin waiter
  <2>1. UNCHANGED waiter
    BY <1>2 DEF Create, CreateSend, JobLookup, JobInsert, JobWake, JobCancel
  <2>2. request[r] \in RequestStates /\ request[s] \in RequestStates
    BY DEF TypeOK
  <2>3. request'[r] = request[r] \/ request'[r].step # "wait"
    BY <1>2, <2>2 DEF Create, CreateSend, JobLookup, JobInsert, JobWake, JobCancel, TypeOK,
       RequestStates
  <2>. QED  BY <2>1, <2>3
<1>3. ASSUME NEW s \in Runs, JobSend(s)
      PROVE  request[r].step = "wait" /\ r \notin waiter
  BY <1>3 DEF JobSend, TypeOK
<1>4. ASSUME NEW s \in Runs, UserCancel(s) \/ CancelRead(s)
      PROVE  request[r].step = "wait" /\ r \notin waiter
  BY <1>4 DEF UserCancel, CancelRead
<1>5. ASSUME NEW s \in Runs, CancelSave(s)
      PROVE  (request[r].step = "wait" /\ r \notin waiter) \/ run'[r] \in Finished
  BY <1>5 DEF CancelSave, TypeOK, Finished, Reported
<1>6. ASSUME NEW c \in Conns, RegisterSave(c)
      PROVE  (request[r].step = "wait" /\ r \notin waiter) \/ run'[r] \in Finished
  BY <1>6 DEF RegisterSave, Finished
<1>7. ASSUME NEW c \in Conns, CompletedSave(c)
      PROVE  (request[r].step = "wait" /\ r \notin waiter) \/ run'[r] \in Finished
  <2>1. hub[c].call.state \in Finished
    BY <1>7, CallType DEF CompletedSave, Finished
  <2>. QED  BY <1>7, <2>1 DEF CompletedSave, TypeOK
<1>8. ASSUME NEW c \in Conns,
             \/ RegisterRead(c) \/ RegisterSet(c) \/ ReportRead(c) \/ StartedSave(c)
             \/ Abort(c) \/ OnDisconnected(c)
      PROVE  UNCHANGED <<request, waiter>>
  BY <1>8 DEF RegisterRead, RegisterSet, ReportRead, StartedSave, Abort, OnDisconnected
<1>9. RunnerStep \/ WorkerStep \/ LinkDrop \/ AgentCrash \/ UNCHANGED vars
        => UNCHANGED <<request, waiter>>
  BY DEF RunnerStep, Start, Cancel, ProcessStarts, RunEnds, WorkerStep, PumpTake, PumpCheck,
     PumpInvoke, PumpAcked, Connect, Register, RegisterDone, LinkDrop, AgentCrash, vars
<1>10. CASE ServerCrash
  BY <1>10 DEF ServerCrash
<1>. QED
  BY <1>1, <1>2, <1>3, <1>4, <1>5, <1>6, <1>7, <1>8, <1>9, <1>10
     DEF Next, RequestStep, HubStep, Failure

\* What is told of an end, to a waiter or to the agent, was saved before, whatever else the
\* server and the agent are doing, and whatever is saved over it later.
THEOREM EndedCorrect == Spec => []EndedInv
<1>1. Init => EndedInv
  <2>. SUFFICES ASSUME Init
                PROVE  EndedInv
    OBVIOUS
  <2>1. AnsweredInv
    BY EmptyMessages DEF Init, AnsweredInv, Acking
  <2>. QED  BY <2>1 DEF Init, EndedInv, WokenAfterEnd, Finished, Reported
<1>2. TypeOK /\ TableInv /\ SentInv /\ EndedInv /\ [Next]_vars => EndedInv'
  <2>. SUFFICES ASSUME TypeOK, TableInv, SentInv, EndedInv, [Next]_vars
                PROVE  EndedInv'
    OBVIOUS
  <2>1. /\ \A r \in ended : r \in ended'
        /\ \A r \in Runs : run'[r] \in Finished => r \in ended'
    BY EndedStep
  <2>2. WokenAfterEnd'
    BY <2>1, WaiterStep DEF EndedInv, WokenAfterEnd
  <2>3. AnsweredInv'
    <3>. SUFFICES ASSUME Acking', pump'.call.kind = "Completed"
                  PROVE  pump'.call.run \in ended'
      BY DEF AnsweredInv
    <3>1. pump'.call = pump.call /\ (Acking \/ run'[pump.call.run] \in Finished)
      BY AnswerFollows
    <3>2. pump.call.run \in Runs
      BY <3>1, ReportNames DEF NoCall
    <3>. QED  BY <2>1, <3>1, <3>2 DEF EndedInv, AnsweredInv
  <2>. QED  BY <2>1, <2>2, <2>3 DEF EndedInv
<1>. QED  BY <1>1, <1>2, TypeCorrect, TableCorrect, SentCorrect, PTL DEF Spec

\* A job step of RunAndWaitAsync is woken by CompletionNotifier only after an end of its run
\* was saved, whichever of a report, a cancel and an orphaning told it first.
THEOREM WokenCorrect == Spec => []WokenAfterEnd
<1>1. EndedInv => WokenAfterEnd
  BY DEF EndedInv
<1>. QED  BY <1>1, EndedCorrect, PTL

-----------------------------------------------------------------------------
(* RunContract is implemented. *)

\* Claims come from Register calls only.
LEMMA ClaimsStep ==
  ASSUME TypeOK, [Next]_vars
  PROVE  /\ Claims' \subseteq Claims \cup {unreported}
         /\ ~Register => Claims' \subseteq Claims
<1>. SUFFICES ASSUME NEW S \in Claims'
              PROVE  S \in Claims \/ (Register /\ S = unreported)
  OBVIOUS
<1>. DEFINE m == [kind |-> "Register", known |-> S]
<1>1. S \subseteq Runs /\ m \in Invocation
  BY DEF Claims, Invocation
<1>2. PICK c \in Conns : Holds(up'[c], m)
  BY DEF Claims, Holds
<1>3. Holds(up[c], m) => S \in Claims
  BY <1>1 DEF Claims, Holds
<1>4. m = [kind |-> "Register", known |-> unreported] => S = unreported
  <2>1. m.known = S
    OBVIOUS
  <2>. QED  BY <2>1
<1>5. m # pump.call
  BY DEF TypeOK, PumpStates, NoCall, Report
<1>6. up[c] \in Seq(Invocation)
  BY DEF TypeOK
<1>. HIDE DEF m
<1>7. CASE up'[c] = up[c] \/ up'[c] = <<>>
  BY <1>2, <1>3, <1>7, EmptyHolds
<1>8. CASE up[c] # <<>> /\ up'[c] = Tail(up[c])
  BY <1>2, <1>3, <1>6, <1>8, TailHolds
<1>9. ASSUME NEW n \in 0..Len(up[c]), up'[c] = SubSeq(up[c], 1, n)
      PROVE  S \in Claims
  BY <1>2, <1>3, <1>6, <1>9, PrefixHolds
<1>10. CASE Register /\ up'[c] = Append(up[c], [kind |-> "Register", known |-> unreported])
  BY <1>2, <1>3, <1>4, <1>6, <1>10, AppendHolds
<1>11. CASE up'[c] = Append(up[c], pump.call)
  BY <1>2, <1>3, <1>5, <1>6, <1>11, AppendHolds
<1>. QED  BY <1>7, <1>8, <1>9, <1>10, <1>11, UpStep

\* What is decided comes from an operation that reached its save, in this step or before.
LEMMA DecidedStep ==
  ASSUME \A c \in Conns : hub'[c] = hub[c] \/ hub'[c].step # "save",
         \A r \in Runs : cancelling'[r] = "save" => cancelling[r] = "save"
  PROVE  Decided' \subseteq Decided
BY DEF Decided, Decides

\* The one operation that does may add what it is going to save.
LEMMA DecidedByHub ==
  ASSUME NEW c \in Conns, UNCHANGED cancelling,
         \A d \in Conns : d # c => hub'[d] = hub[d]
  PROVE  \A d \in Decided' : d \in Decided \/ Decides(c, d[1], d[2])'
BY DEF Decided, Decides

\* Saves are of what was decided.
LEMMA SavedWasDecided ==
  ASSUME TypeOK, NEW c \in Conns, hub[c].step = "save"
  PROVE  /\ hub[c].call.kind = "Started" => <<hub[c].call.run, "Running">> \in Decided
         /\ hub[c].call.kind = "Completed" => <<hub[c].call.run, hub[c].call.state>> \in Decided
         /\ hub[c].call.kind = "Register" =>
              \A r \in hub[c].orphans : r \in Runs /\ <<r, "Orphaned">> \in Decided
<1>1. ASSUME NEW r \in Runs, NEW to \in {"Running"} \cup Finished, Decides(c, r, to)
      PROVE  <<r, to>> \in Decided
  BY <1>1 DEF Decided
<1>2. hub[c].call.kind = "Started" => hub[c].call.run \in Runs
  BY CallType
<1>3. hub[c].call.kind = "Completed" => hub[c].call.run \in Runs /\ hub[c].call.state \in Finished
  BY CallType DEF Finished
<1>4. \A r \in hub[c].orphans : r \in Runs
  BY CallType
<1>5. "Orphaned" \in Finished
  BY DEF Finished
<1>. QED  BY <1>1, <1>2, <1>3, <1>4, <1>5 DEF Decides

\* Losing decisions or claims, or nothing at all, is allowed by the contract.
LEMMA LoseStep ==
  ASSUME TypeOK, [Next]_vars, ~Register, UNCHANGED <<run, ended, unreported>>,
         \A c \in Conns : hub'[c] = hub[c] \/ hub'[c].step # "save",
         \A r \in Runs : cancelling'[r] = "save" => cancelling[r] = "save"
  PROVE  Contract!Next
BY ClaimsStep, DecidedStep DEF Contract!Next, Contract!Lose, Contract!Kept

\* A save, of one operation, of runs that all get the same state.
LEMMA RecordStep ==
  ASSUME TypeOK, [Next]_vars, ~Register, UNCHANGED unreported,
         NEW S \in SUBSET Runs, NEW to \in {"Running"} \cup Finished,
         \A r \in S : <<r, to>> \in Decided,
         run' = [r \in Runs |-> IF r \in S THEN to ELSE run[r]], Noted,
         \A r \in Runs : run[r] \in Finished => r \in ended,
         \A c \in Conns : hub'[c] = hub[c] \/ hub'[c].step # "save",
         \A r \in Runs : cancelling'[r] = "save" => cancelling[r] = "save"
  PROVE  Contract!Next
<1>1. Contract!Kept
  BY ClaimsStep, DecidedStep DEF Contract!Kept
<1>2. ended' = IF to \in Finished THEN ended \cup S ELSE ended
  <2>1. \A r \in Runs : run'[r] \in Finished => r \in ended \/ (r \in S /\ to \in Finished)
    OBVIOUS
  <2>2. \A r \in S : run'[r] = to
    OBVIOUS
  <2>. QED  BY <2>1, <2>2 DEF Noted
<1>3. S \in SUBSET {r \in Runs : <<r, to>> \in Decided}
  OBVIOUS
<1>4. Contract!Record(to)
  BY <1>1, <1>2, <1>3 DEF Contract!Record, Contract!Finished, Contract!Reported, Finished, Reported
<1>. QED
  BY <1>4 DEF Contract!Next, Contract!Finished, Contract!Reported, Finished, Reported

\* Changing one run's state, as such a save.
LEMMA OneRun ==
  ASSUME TypeOK, NEW r \in Runs, NEW to
  PROVE  [run EXCEPT ![r] = to] = [s \in Runs |-> IF s \in {r} THEN to ELSE run[s]]
BY DEF TypeOK

\* The steps of RunService are steps of the contract.
LEMMA RequestRefines ==
  ASSUME TypeOK, TableInv, EndedInv, [Next]_vars, RequestStep
  PROVE  Contract!Next
<1>0. UNCHANGED <<unreported, hub, up>> /\ ~Register
  <2>1. UNCHANGED <<unreported, hub, up, registering>>
    BY DEF RequestStep, Create, CreateSend, JobLookup, JobInsert, JobSend, JobWake, JobCancel,
       UserCancel, CancelRead, CancelSave, serverMem, network, agentRuns, agentConn
  <2>. QED  BY <2>1 DEF Register, TypeOK
<1>1. ASSUME NEW r \in Runs, Create(r) \/ JobInsert(r)
      PROVE  Contract!Next
  <2>1. /\ run[r] = "None" /\ UNCHANGED cancelling /\ Noted
        /\ \E s \in {"Pending", "Failed"} : run' = [run EXCEPT ![r] = s]
    BY <1>1 DEF Create, JobInsert, TableInv, RequestInv
  <2>2. Decided' = Decided /\ Claims' = Claims
    BY <1>0, <2>1 DEF Decided, Decides, Claims
  <2>3. ended \subseteq ended' /\ \A s \in Runs : run[s] \in Finished => s \in ended
    BY <2>1 DEF Noted, EndedInv
  <2>4. CASE run' = [run EXCEPT ![r] = "Pending"]
    <3>1. ended' = ended
      BY <2>1, <2>3, <2>4 DEF Noted, TypeOK, Finished, Reported
    <3>. QED  BY <1>0, <2>1, <2>2, <2>4, <3>1 DEF Contract!Next, Contract!Submit
  <2>5. CASE run' = [run EXCEPT ![r] = "Failed"]
    <3>1. ended' = ended \cup {r}
      BY <2>1, <2>3, <2>5 DEF Noted, TypeOK, Finished, Reported
    <3>. QED  BY <1>0, <2>1, <2>2, <2>5, <3>1 DEF Contract!Next, Contract!Submit
  <2>. QED  BY <2>1, <2>4, <2>5
<1>2. ASSUME NEW r \in Runs,
             \/ CreateSend(r) \/ JobLookup(r) \/ JobSend(r) \/ JobWake(r) \/ JobCancel(r)
             \/ UserCancel(r)
      PROVE  Contract!Next
  <2>1. UNCHANGED <<run, ended>>
    BY <1>2 DEF CreateSend, JobLookup, JobSend, JobWake, JobCancel, UserCancel
  <2>2. \A s \in Runs : cancelling'[s] = "save" => cancelling[s] = "save"
    BY <1>2 DEF CreateSend, JobLookup, JobSend, JobWake, JobCancel, UserCancel, CancelRun, TypeOK
  <2>. QED  BY <1>0, <2>1, <2>2, LoseStep
<1>3. ASSUME NEW r \in Runs, CancelRead(r)
      PROVE  Contract!Next
  <2>1. /\ UNCHANGED <<run, ended>> /\ cancelling[r] = "read"
        /\ cancelling' = [cancelling EXCEPT ![r] = IF IsFinished(run[r]) THEN "idle" ELSE "save"]
    BY <1>3 DEF CancelRead
  <2>2. CASE run[r] \in Finished
    <3>1. \A s \in Runs : cancelling'[s] = "save" => cancelling[s] = "save"
      BY <2>1, <2>2 DEF IsFinished, TypeOK
    <3>. QED  BY <1>0, <2>1, <3>1, LoseStep
  <2>3. CASE run[r] \notin Finished
    <3>1. run[r] \in Active
      BY <2>1, <2>3 DEF TableInv, RequestInv, TypeOK, States
    <3>2. Decided' \subseteq Decided \cup {<<r, "Cancelled">>}
      <4>1. \A s \in Runs : cancelling'[s] = "save" => cancelling[s] = "save" \/ s = r
        BY <2>1 DEF TypeOK
      <4>. QED  BY <1>0, <4>1 DEF Decided, Decides
    <3>3. Claims' \subseteq Claims
      BY <1>0, ClaimsStep
    <3>4. Contract!Take(r, "Cancelled")
      BY <1>0, <2>1, <3>1, <3>2, <3>3 DEF Contract!Take, Contract!Active, Active
    <3>. QED  BY <3>4 DEF Contract!Next, Contract!Reported
  <2>. QED  BY <2>2, <2>3
<1>4. ASSUME NEW r \in Runs, CancelSave(r)
      PROVE  Contract!Next
  <2>. DEFINE S == {r}
  <2>1. /\ run' = [s \in Runs |-> IF s \in S THEN "Cancelled" ELSE run[s]] /\ Noted
        /\ cancelling[r] = "save" /\ cancelling' = [cancelling EXCEPT ![r] = "idle"]
    BY <1>4, OneRun DEF CancelSave
  <2>2. "Cancelled" \in Finished
    BY DEF Finished, Reported
  <2>3. S \in SUBSET Runs /\ \A s \in S : <<s, "Cancelled">> \in Decided
    BY <2>1, <2>2 DEF Decided
  <2>4. \A s \in Runs : cancelling'[s] = "save" => cancelling[s] = "save"
    BY <2>1 DEF TypeOK
  <2>5. \A s \in Runs : run[s] \in Finished => s \in ended
    BY DEF EndedInv
  <2>6. \A d \in Conns : hub'[d] = hub[d] \/ hub'[d].step # "save"
    BY <1>0
  <2>. HIDE DEF S
  <2>. QED  BY <1>0, <2>1, <2>2, <2>3, <2>4, <2>5, <2>6, RecordStep
<1>. QED  BY <1>1, <1>2, <1>3, <1>4 DEF RequestStep

\* The steps of AgentHub are steps of the contract.
LEMMA HubRefines ==
  ASSUME TypeOK, TableInv, EndedInv, [Next]_vars, HubStep
  PROVE  Contract!Next
<1>0. UNCHANGED <<unreported, cancelling>> /\ ~Register
  <2>1. /\ UNCHANGED <<unreported, cancelling>>
        /\ registering' = registering \/ (registering' = 0 /\ link' = 0)
    BY DEF HubStep, RegisterRead, RegisterSave, RegisterSet, ReportRead, StartedSave,
       CompletedSave, Abort, OnDisconnected, AgentDrops, serverMem, network, agentRuns, agentConn
  <2>2. Register => registering' = registering + 1 /\ link' = link /\ link # 0
    BY DEF Register, network
  <2>. QED  BY <2>1, <2>2 DEF TypeOK
<1>1. Claims' \subseteq Claims
  BY <1>0, ClaimsStep
<1>2. ASSUME NEW c \in Conns, RegisterRead(c)
      PROVE  Contract!Next
  <2>1. /\ Served(c) /\ Head(up[c]).kind = "Register" /\ UNCHANGED <<run, ended>>
        /\ hub' = [hub EXCEPT ![c] = [step |-> "save", call |-> Head(up[c]),
                                      orphans |-> Orphans(Head(up[c]).known)]]
    BY <1>2 DEF RegisterRead, NextCall, Opened
  <2>. DEFINE S == Head(up[c]).known
  <2>2. Head(up[c]) = [kind |-> "Register", known |-> S] /\ S \subseteq Runs
    <3>1. Head(up[c]) \in Invocation
      BY <2>1, TailHolds, ReportNames DEF Served
    <3>. QED  BY <2>1, <3>1 DEF Invocation, Report
  <2>3. S \in Claims
    <3>1. Holds(up[c], Head(up[c]))
      BY <2>1, TailHolds, ReportNames DEF Served
    <3>. QED  BY <2>2, <3>1 DEF Claims, Holds
  <2>4. hub'[c].call.kind = "Register" /\ hub'[c].orphans = Orphans(S)
    BY <2>1 DEF TypeOK
  <2>5. Decided' \subseteq
          Decided \cup ({r \in Runs : run[r] \in Active /\ r \notin S} \X {"Orphaned"})
    <3>. SUFFICES ASSUME NEW d \in Decided', d \notin Decided
                  PROVE  d \in {r \in Runs : run[r] \in Active /\ r \notin S} \X {"Orphaned"}
      OBVIOUS
    <3>1. d \in Runs \X ({"Running"} \cup Finished)
      BY DEF Decided
    <3>2. Decides(c, d[1], d[2])'
      BY <1>0, <2>1, DecidedByHub DEF TypeOK
    <3>3. d[1] \in Orphans(S) /\ d[2] = "Orphaned"
      BY <2>4, <3>2 DEF Decides
    <3>. QED  BY <3>1, <3>3 DEF Orphans
  <2>6. Contract!GiveUp
    BY <1>0, <1>1, <2>1, <2>3, <2>5 DEF Contract!GiveUp, Contract!Active, Active
  <2>. QED  BY <2>6 DEF Contract!Next
<1>3. ASSUME NEW c \in Conns, RegisterSave(c)
      PROVE  Contract!Next
  <2>. DEFINE S == hub[c].orphans
  <2>1. /\ run' = [r \in Runs |-> IF r \in S THEN "Orphaned" ELSE run[r]] /\ Noted
        /\ hub[c].step = "save" /\ hub[c].call.kind = "Register"
        /\ hub' = [hub EXCEPT ![c].step = "set"]
    BY <1>3 DEF RegisterSave
  <2>2. S \in SUBSET Runs /\ \A r \in S : <<r, "Orphaned">> \in Decided
    BY <2>1, SavedWasDecided
  <2>3. \A d \in Conns : hub'[d] = hub[d] \/ hub'[d].step # "save"
    BY <2>1 DEF TypeOK, HubStates
  <2>4. "Orphaned" \in Finished
    BY DEF Finished
  <2>. HIDE DEF S
  <2>. QED  BY <1>0, <2>1, <2>2, <2>3, <2>4, RecordStep DEF EndedInv
<1>4. ASSUME NEW c \in Conns, ReportRead(c), Accepts(Head(up[c]))
      PROVE  Contract!Next
  <2>. DEFINE m == Head(up[c])
              to == IF m.kind = "Started" THEN "Running" ELSE m.state
  <2>1. /\ Served(c) /\ m.kind \in {"Started", "Completed"} /\ UNCHANGED <<run, ended>>
        /\ hub' = [hub EXCEPT ![c] = [step |-> "save", call |-> m, orphans |-> {}]]
    BY <1>4 DEF ReportRead, Opened
  <2>2. m \in Report
    BY <2>1, TailHolds, ReportNames DEF Served, ReportKinds
  <2>3. /\ m.run \in Runs /\ to \in {"Running"} \cup Reported
        /\ IF to = "Running" THEN run[m.run] = "Pending" ELSE run[m.run] \in Active
    BY <1>4, <2>1, <2>2 DEF Report, Accepts, Reported
  <2>4. hub'[c].call = m
    BY <2>1 DEF TypeOK
  <2>5. Decided' \subseteq Decided \cup {<<m.run, to>>}
    <3>. SUFFICES ASSUME NEW d \in Decided', d \notin Decided
                  PROVE  d = <<m.run, to>>
      OBVIOUS
    <3>1. d \in Runs \X ({"Running"} \cup Finished)
      BY DEF Decided
    <3>2. Decides(c, d[1], d[2])'
      BY <1>0, <2>1, DecidedByHub DEF TypeOK
    <3>3. d[1] = m.run /\ d[2] = to
      BY <2>1, <2>4, <3>2 DEF Decides
    <3>. QED  BY <3>1, <3>3
  <2>. HIDE DEF to, m
  <2>6. Contract!Take(m.run, to)
    BY <1>0, <1>1, <2>1, <2>3, <2>5 DEF Contract!Take, Contract!Active, Active
  <2>. QED  BY <2>3, <2>6 DEF Contract!Next, Contract!Reported, Reported
<1>5. ASSUME NEW c \in Conns, StartedSave(c) \/ CompletedSave(c)
      PROVE  Contract!Next
  <2>. DEFINE m == hub[c].call
              to == IF m.kind = "Started" THEN "Running" ELSE m.state
              S == {m.run}
  <2>1. /\ m.kind \in {"Started", "Completed"} /\ Noted
        /\ run' = [run EXCEPT ![m.run] = to] /\ hub' = [hub EXCEPT ![c] = Idle]
    BY <1>5 DEF StartedSave, CompletedSave
  <2>2. m.run \in Runs /\ to \in {"Running"} \cup Finished
    BY <2>1, CallType DEF Finished
  <2>3. hub[c].step = "save"
    BY <1>5 DEF StartedSave, CompletedSave
  <2>4. \A r \in S : <<r, to>> \in Decided
    BY <2>1, <2>3, SavedWasDecided
  <2>5. \A d \in Conns : hub'[d] = hub[d] \/ hub'[d].step # "save"
    BY <2>1 DEF TypeOK, Idle
  <2>6. \A r \in Runs : run[r] \in Finished => r \in ended
    BY DEF EndedInv
  <2>7. \A r \in Runs : cancelling'[r] = "save" => cancelling[r] = "save"
    BY <1>0
  <2>. HIDE DEF to, m
  <2>8. run' = [r \in Runs |-> IF r \in S THEN to ELSE run[r]] /\ Noted
    BY <2>1, <2>2, OneRun
  <2>9. S \in SUBSET Runs
    BY <2>2
  <2>. HIDE DEF S
  <2>. QED  BY <1>0, <2>2, <2>4, <2>5, <2>6, <2>7, <2>8, <2>9, RecordStep
<1>6. ASSUME NEW c \in Conns,
             \/ RegisterSet(c) \/ (ReportRead(c) /\ ~Accepts(Head(up[c])))
             \/ Abort(c) \/ OnDisconnected(c)
      PROVE  Contract!Next
  <2>1. UNCHANGED <<run, ended>>
    BY <1>6 DEF RegisterSet, ReportRead, Abort, OnDisconnected
  <2>2. \A d \in Conns : hub'[d] = hub[d] \/ hub'[d].step # "save"
    BY <1>6 DEF RegisterSet, ReportRead, Abort, OnDisconnected, serverMem, Idle, TypeOK
  <2>. QED  BY <1>0, <2>1, <2>2, LoseStep
<1>. QED  BY <1>2, <1>3, <1>4, <1>5, <1>6 DEF HubStep

\* The steps of the agent, and the failures, are steps of the contract.
LEMMA AgentRefines ==
  ASSUME TypeOK, TableInv, SentInv, EndedInv, [Next]_vars, RunnerStep \/ WorkerStep \/ Failure
  PROVE  Contract!Next
<1>. USE DEF serverMem, network, agentRuns, agentConn
<1>0. UNCHANGED <<run, ended>>
  BY DEF RunnerStep, Start, Cancel, ProcessStarts, RunEnds, WorkerStep, PumpTake, PumpCheck,
     PumpInvoke, PumpAcked, Connect, Register, RegisterDone, Failure, LinkDrop, AgentCrash,
     ServerCrash
<1>1. CASE Start /\ UNCHANGED unreported
  <2>1. UNCHANGED <<hub, cancelling>> /\ ~Register
    BY <1>1 DEF Start, Register, TypeOK
  <2>. QED  BY <1>0, <1>1, <2>1, LoseStep
<1>2. CASE Start /\ ~UNCHANGED unreported
  <2>. DEFINE r == Head(down).run
  <2>1. /\ down # <<>> /\ Head(down).kind = "RunCommand" /\ UNCHANGED <<hub, cancelling, up>>
        /\ r \notin unreported /\ unreported' = unreported \cup {r}
    BY <1>2 DEF Start
  <2>2. r \in Runs /\ run[r] # "None"
    BY <2>1, DownHead DEF TableInv
  <2>3. Decided' = Decided /\ Claims' = Claims
    BY <2>1 DEF Decided, Decides, Claims
  <2>. HIDE DEF r
  <2>. QED  BY <1>0, <2>1, <2>2, <2>3 DEF Contract!Next, Contract!Accept
<1>3. CASE PumpAcked
  <2>1. /\ down # <<>> /\ Head(down).kind = "Acked" /\ UNCHANGED <<hub, cancelling, up>>
        /\ unreported' = AfterReport(pump.call) /\ UNCHANGED registering
    BY <1>3 DEF PumpAcked
  <2>2. ~Register
    BY <2>1 DEF Register, TypeOK
  <2>3. CASE pump.call.kind = "Completed" /\ pump.call.run \in unreported
    <3>1. Acking
      BY <2>1, TailMessages DEF Acking, TypeOK
    <3>2. pump.call.run \in ended /\ pump.call.run \in Runs
      BY <2>3, <3>1 DEF EndedInv, AnsweredInv, TypeOK
    <3>3. Decided' = Decided /\ Claims' = Claims
      BY <2>1 DEF Decided, Decides, Claims
    <3>4. Contract!Release(pump.call.run)
      BY <1>0, <2>1, <2>3, <3>2, <3>3 DEF Contract!Release, AfterReport
    <3>. QED  BY <3>2, <3>4 DEF Contract!Next
  <2>4. CASE ~(pump.call.kind = "Completed" /\ pump.call.run \in unreported)
    <3>1. UNCHANGED unreported
      BY <2>1, <2>4 DEF AfterReport
    <3>. QED  BY <1>0, <2>1, <2>2, <3>1, LoseStep
  <2>. QED  BY <2>3, <2>4
<1>4. CASE Register
  <2>1. UNCHANGED <<hub, cancelling, unreported>>
    BY <1>4 DEF Register
  <2>2. Decided' = Decided
    BY <2>1 DEF Decided, Decides
  <2>. QED  BY <1>0, <2>1, <2>2, ClaimsStep DEF Contract!Next, Contract!Claim
<1>5. CASE \/ Cancel \/ (\E r \in Runs : ProcessStarts(r) \/ RunEnds(r))
           \/ PumpTake \/ PumpCheck \/ PumpInvoke \/ Connect \/ RegisterDone \/ LinkDrop
  <2>1. UNCHANGED <<hub, cancelling, unreported>>
    BY <1>5 DEF Cancel, ProcessStarts, RunEnds, PumpTake, PumpCheck, PumpInvoke, Connect,
       RegisterDone, LinkDrop
  <2>2. CASE Register
    BY <1>4, <2>2
  <2>3. CASE ~Register
    BY <1>0, <2>1, <2>3, LoseStep
  <2>. QED  BY <2>2, <2>3
<1>6. CASE AgentCrash
  <2>1. unreported' = {} /\ UNCHANGED <<hub, cancelling>>
    BY <1>6 DEF AgentCrash
  <2>2. ~Register
    BY <1>6 DEF AgentCrash, AgentDrops, Register
  <2>3. Decided' = Decided /\ Claims' \subseteq Claims
    BY <2>1, <2>2, ClaimsStep DEF Decided, Decides
  <2>. QED  BY <1>0, <2>1, <2>3 DEF Contract!Next, Contract!Crash, Contract!Kept
<1>7. CASE ServerCrash
  <2>1. /\ UNCHANGED unreported /\ hub' = [c \in Conns |-> Idle]
        /\ cancelling' = [r \in Runs |-> "idle"]
    BY <1>7 DEF ServerCrash
  <2>2. ~Register
    BY <1>7 DEF ServerCrash, AgentDrops, Register
  <2>. QED  BY <1>0, <2>1, <2>2, LoseStep DEF Idle
<1>. QED
  BY <1>1, <1>2, <1>3, <1>4, <1>5, <1>6, <1>7 DEF RunnerStep, WorkerStep, Failure

\* The server and the agent implement RunContract, for all runs, connections and crashes,
\* whatever the capacity of OutboundQueue, with operations of the server between each other's
\* SELECT and save, Register calls overlapping and connections served in any order: a report
\* or cancel is taken only of a run without an end, only runs that the agent did not claim
\* are given up, and the agent lets a run go only after an end of it was recorded.
THEOREM ContractKept == Spec => KeepsContract
<1>1. Init => Contract!Init
  <2>. SUFFICES ASSUME Init
                PROVE  Contract!Init
    OBVIOUS
  <2>1. Decided = {}
    BY DEF Init, Decided, Decides, Idle
  <2>2. Claims = {}
    BY EmptyHolds DEF Init, Claims, Holds
  <2>. QED  BY <2>1, <2>2 DEF Init, Contract!Init
<1>2. TypeOK /\ TableInv /\ SentInv /\ EndedInv /\ [Next]_vars => [Contract!Next]_(Contract!vars)
  <2>. SUFFICES ASSUME TypeOK, TableInv, SentInv, EndedInv, [Next]_vars
                PROVE  [Contract!Next]_(Contract!vars)
    OBVIOUS
  <2>1. CASE UNCHANGED vars
    <3>1. UNCHANGED <<run, ended, unreported, hub, cancelling, up>>
      BY <2>1 DEF vars, serverMem, network, agentRuns
    <3>2. Decided' = Decided /\ Claims' = Claims
      BY <3>1 DEF Decided, Decides, Claims
    <3>. QED  BY <3>1, <3>2 DEF Contract!vars
  <2>2. CASE Next
    BY <2>2, RequestRefines, HubRefines, AgentRefines DEF Next
  <2>. QED  BY <2>1, <2>2
<1>. QED
  BY <1>1, <1>2, TypeCorrect, TableCorrect, SentCorrect, EndedCorrect, PTL
     DEF Spec, KeepsContract, Contract!Spec
=============================================================================
