----------------------------- MODULE CommandRuns -----------------------------
(***************************************************************************)
(* The life of command runs on one agent PC: RunService, CompletionNotifier, *)
(* AgentRegistry and AgentHub on the server; CommandRunner, OutboundQueue  *)
(* and the connection loop of AgentWorker on the agent; the SignalR        *)
(* connections between them.  Every server operation filters by agent id,  *)
(* so agents do not interact and one of them is modelled.                  *)
(*                                                                         *)
(* A run is a member of Runs; what it executes, its output lines and the   *)
(* dashboard broadcasts are left out.  "Orphaned" stands for               *)
(* RunState.Failed with the error text of FailOrphanedRunsAsync.           *)
(***************************************************************************)
EXTENDS Integers, Sequences, FiniteSets

CONSTANTS
  Runs,          \* run ids
  JobSteps,      \* the runs created by RunAndWaitAsync; the others by CreateAsync
  Cancellable,   \* bound: the runs a user cancels from the dashboard
  ExitStates,    \* how a process may end by itself
  QueueCap,      \* capacity of OutboundQueue (100_000 in the code)
  MaxConns,      \* bound: connections the agent opens
  MaxCrashes,    \* bound: process crashes, of the agent or the server
  Overlap        \* TRUE: the Reconnected event and the poll may register at once

ASSUME RunsAssumption == JobSteps \subseteq Runs /\ Cancellable \subseteq Runs
ASSUME ExitAssumption == ExitStates \subseteq {"Succeeded", "Failed", "TimedOut"}
ASSUME BoundAssumption ==
  /\ QueueCap \in Nat \ {0}
  /\ MaxConns \in Nat \ {0}
  /\ MaxCrashes \in Nat
  /\ Overlap \in BOOLEAN

VARIABLES
  \* server: the Runs table, then the memory of the process
  run,           \* run -> state
  registry,      \* AgentRegistry: connection of the agent, 0 when offline
  identified,    \* connections whose Context.Items hold the agent id
  hub,           \* connection -> the AgentHub invocation in progress
  waiter,        \* CompletionNotifier._waiters
  request,       \* run -> progress of CreateAsync / RunAndWaitAsync
  cancelling,    \* run -> progress of CancelAsync on its offline path
  \* network
  link,          \* the agent's open connection, 0 when there is none
  conns,         \* connections opened so far
  alive,         \* connections whose OnDisconnectedAsync has not run
  up,            \* connection -> invocations on their way to the server
  down,          \* messages on their way to the agent over link
  \* agent process
  executing,     \* CommandRunner._running
  started,       \* of these, the runs whose process is running
  stopping,      \* of these, the runs whose cancel token is signalled
  unreported,    \* CommandRunner._unreported
  queue,         \* OutboundQueue
  pump,          \* PumpOutboundAsync: the report being sent
  registered,    \* AgentWorker._registered
  registering,   \* Register invocations waiting for their answer
  crashes,       \* crashes so far
  \* history
  ended,         \* runs whose end has been saved, whatever was saved after it
  latest         \* the connection whose Register call set the registry last

serverMem == <<registry, latest, identified, hub, waiter, request, cancelling>>
network   == <<link, conns, alive, up, down>>
agentRuns == <<executing, started, stopping, unreported, queue>>
agentConn == <<registered, registering>>
vars      == <<run, ended, serverMem, network, agentRuns, pump, agentConn, crashes>>

Conns    == 1..MaxConns
Active   == {"Pending", "Running"}
Reported == {"Succeeded", "Failed", "TimedOut", "Cancelled"}
Finished == Reported \cup {"Orphaned"}
States   == {"None"} \cup Active \cup Finished

\* What the agent invokes on the hub, and what the server sends back.
Report     == [kind : {"Started"}, run : Runs]
              \cup [kind : {"Completed"}, run : Runs, state : Reported]
Invocation == Report \cup [kind : {"Register"}, known : SUBSET Runs]
Downward   == [kind : {"RunCommand", "CancelCommand"}, run : Runs]
              \cup [kind : {"Registered", "Acked"}]
NoCall     == [kind |-> "None"]

HubStates ==
  [step : {"idle"}, call : {NoCall}, orphans : {{}}]
  \cup [step : {"save", "set"}, call : Invocation, orphans : SUBSET Runs]
Idle == [step |-> "idle", call |-> NoCall, orphans |-> {}]

RequestStates == [step : {"new", "insert", "send", "wait", "done"}, conn : 0..MaxConns]
PumpStates ==
  [step : {"idle"}, call : {NoCall}]
  \cup [step : {"take", "ready", "sent"}, call : Report]

Init ==
  /\ run = [r \in Runs |-> "None"]
  /\ ended = {}
  /\ registry = 0 /\ latest = 0 /\ identified = {} /\ waiter = {}
  /\ hub = [c \in Conns |-> Idle]
  /\ request = [r \in Runs |-> [step |-> "new", conn |-> 0]]
  /\ cancelling = [r \in Runs |-> "idle"]
  /\ link = 0 /\ conns = 0 /\ alive = {} /\ down = <<>>
  /\ up = [c \in Conns |-> <<>>]
  /\ executing = {} /\ started = {} /\ stopping = {} /\ unreported = {}
  /\ queue = <<>> /\ pump = [step |-> "idle", call |-> NoCall]
  /\ registered = FALSE /\ registering = 0 /\ crashes = 0

-----------------------------------------------------------------------------
(* Helpers *)

IsFinished(s) == s \in Finished

\* Clients.Client(c).M(...): reaches the agent only over the open connection.
SendTo(c, m) == down' = IF c = link /\ c # 0 THEN Append(down, m) ELSE down

\* The answer to an invocation on c, lost when the agent has dropped c.
Answer(c, kind) == SendTo(c, [kind |-> kind])

\* Channel.TryWrite with BoundedChannelFullMode.DropOldest.
Enqueued(m) == Append(IF Len(queue) < QueueCap THEN queue ELSE Tail(queue), m)

\* The next call of c is dealt with: those of one connection one after the other, those
\* of different connections, and CancelAsync, in any order and between each other's SELECT
\* and SaveChanges.
Served(c) ==
  /\ c \in alive
  /\ hub[c].step = "idle"
  /\ up[c] # <<>>

\* The runs saved with an end in this step are noted.
Noted == ended' = ended \cup {r \in Runs : run'[r] \in Finished}

-----------------------------------------------------------------------------
(* Requests: RunService *)

\* CreateAsync: the run is saved, Failed when the agent is offline.
Create(r) ==
  /\ r \notin JobSteps
  /\ request[r].step = "new"
  /\ run' = [run EXCEPT ![r] = IF registry # 0 THEN "Pending" ELSE "Failed"]
  /\ Noted
  /\ request' = [request EXCEPT ![r].step = IF registry # 0 THEN "send" ELSE "done"]
  /\ UNCHANGED <<registry, latest, identified, hub, waiter, cancelling, network,
                 agentRuns, pump, agentConn, crashes>>

\* CreateAsync, second loop: the connection is looked up again.
CreateSend(r) ==
  /\ r \notin JobSteps
  /\ request[r].step = "send"
  /\ request' = [request EXCEPT ![r].step = "done"]
  /\ SendTo(registry, [kind |-> "RunCommand", run |-> r])
  /\ UNCHANGED <<run, ended, registry, latest, identified, hub, waiter, cancelling, link, conns,
                 alive, up, agentRuns, pump, agentConn, crashes>>

\* RunAndWaitAsync reads the connection first and uses it to the end.
JobLookup(r) ==
  /\ r \in JobSteps
  /\ request[r].step = "new"
  /\ request' = [request EXCEPT ![r] = [step |-> "insert", conn |-> registry]]
  /\ UNCHANGED <<run, ended, registry, latest, identified, hub, waiter, cancelling, network,
                 agentRuns, pump, agentConn, crashes>>

JobInsert(r) ==
  /\ request[r].step = "insert"
  /\ LET online == request[r].conn # 0 IN
       /\ run' = [run EXCEPT ![r] = IF online THEN "Pending" ELSE "Failed"]
       /\ request' = [request EXCEPT ![r].step = IF online THEN "send" ELSE "done"]
  /\ Noted
  /\ UNCHANGED <<registry, latest, identified, hub, waiter, cancelling, network,
                 agentRuns, pump, agentConn, crashes>>

\* The waiter is registered, then the command goes to the connection read above.
JobSend(r) ==
  /\ r \in JobSteps
  /\ request[r].step = "send"
  /\ waiter' = waiter \cup {r}
  /\ request' = [request EXCEPT ![r].step = "wait"]
  /\ SendTo(request[r].conn, [kind |-> "RunCommand", run |-> r])
  /\ UNCHANGED <<run, ended, registry, latest, identified, hub, cancelling, link, conns,
                 alive, up, agentRuns, pump, agentConn, crashes>>

\* await completion returns once Complete has removed the waiter.
JobWake(r) ==
  /\ request[r].step = "wait"
  /\ r \notin waiter
  /\ request' = [request EXCEPT ![r].step = "done"]
  /\ UNCHANGED <<run, ended, registry, latest, identified, hub, waiter, cancelling, network,
                 agentRuns, pump, agentConn, crashes>>

\* CancelAsync up to its branch: over the connection, or MarkCompletedAsync(null).
CancelRun(r) ==
  /\ run[r] \in Active
  /\ cancelling[r] = "idle"
  /\ IF registry # 0
       THEN /\ SendTo(registry, [kind |-> "CancelCommand", run |-> r])
            /\ UNCHANGED cancelling
       ELSE /\ cancelling' = [cancelling EXCEPT ![r] = "read"]
            /\ UNCHANGED down

\* Bound: a run is cancelled again only when no answer for it is on its way.
Unanswered(r) ==
  LET about(m) == m.kind \in {"CancelCommand", "Completed"} /\ m.run = r IN
    \/ \E i \in 1..Len(down) : about(down[i])
    \/ \E i \in 1..Len(queue) : about(queue[i])
    \/ about(pump.call)
    \/ r \in stopping

\* The user cancels a run from the dashboard.
UserCancel(r) ==
  /\ r \in Cancellable
  /\ ~Unanswered(r)
  /\ CancelRun(r)
  /\ UNCHANGED <<run, ended, registry, latest, identified, hub, waiter, request, link, conns,
                 alive, up, agentRuns, pump, agentConn, crashes>>

\* The job is cancelled: the wait ends, CancelAsync runs, the step is over.
JobCancel(r) ==
  /\ request[r].step = "wait"
  /\ request' = [request EXCEPT ![r].step = "done"]
  /\ \/ CancelRun(r)
     \/ (run[r] \in Finished \/ cancelling[r] # "idle") /\ UNCHANGED <<down, cancelling>>
  /\ UNCHANGED <<run, ended, registry, latest, identified, hub, waiter, link, conns,
                 alive, up, agentRuns, pump, agentConn, crashes>>

\* MarkCompletedAsync(null, Cancelled): the run is read ...
CancelRead(r) ==
  /\ cancelling[r] = "read"
  /\ cancelling' = [cancelling EXCEPT ![r] = IF IsFinished(run[r]) THEN "idle" ELSE "save"]
  /\ UNCHANGED <<run, ended, registry, latest, identified, hub, waiter, request, network,
                 agentRuns, pump, agentConn, crashes>>

\* ... and saved, then the waiter is told.
CancelSave(r) ==
  /\ cancelling[r] = "save"
  /\ run' = [run EXCEPT ![r] = "Cancelled"]
  /\ Noted
  /\ waiter' = waiter \ {r}
  /\ cancelling' = [cancelling EXCEPT ![r] = "idle"]
  /\ UNCHANGED <<registry, latest, identified, hub, request, network,
                 agentRuns, pump, agentConn, crashes>>

-----------------------------------------------------------------------------
(* AgentHub.  Invocations of one connection run one after the other.         *)

NextCall(c, k) == Served(c) /\ Head(up[c]).kind = k
Opened(c, S)   == hub' = [hub EXCEPT ![c] = [step |-> "save", call |-> Head(up[c]),
                                            orphans |-> S]]
Consumed(c)    == up' = [up EXCEPT ![c] = Tail(@)]

\* FailOrphanedRunsAsync: the unfinished runs the agent did not name.  (Mutant: it
\* takes all unfinished runs for lost.)
Orphans_All(known) == {r \in Runs : run[r] \in Active}
Orphans(known)     == {r \in Runs : run[r] \in Active /\ r \notin known}

\* Register, first part: the orphaned runs are read.  (Mutant: their waiters are told
\* before the runs are saved.)
RegisterRead_WakesFirst(c) ==
  /\ NextCall(c, "Register")
  /\ Opened(c, Orphans(Head(up[c]).known))
  /\ Consumed(c)
  /\ waiter' = waiter \ Orphans(Head(up[c]).known)
  /\ UNCHANGED <<run, ended, registry, latest, identified, request, cancelling, link, conns, alive,
                 down, agentRuns, pump, agentConn, crashes>>
RegisterRead(c) ==
  /\ NextCall(c, "Register")
  /\ Opened(c, Orphans(Head(up[c]).known))
  /\ Consumed(c)
  /\ UNCHANGED <<run, ended, registry, latest, identified, waiter, request, cancelling, link,
                 conns, alive, down, agentRuns, pump, agentConn, crashes>>

\* FailOrphanedRunsAsync saves them as failed and wakes their waiters.
RegisterSave(c) ==
  /\ hub[c].step = "save"
  /\ hub[c].call.kind = "Register"
  /\ run' = [r \in Runs |-> IF r \in hub[c].orphans THEN "Orphaned" ELSE run[r]]
  /\ Noted
  /\ waiter' = waiter \ hub[c].orphans
  /\ hub' = [hub EXCEPT ![c].step = "set"]
  /\ UNCHANGED <<registry, latest, identified, request, cancelling, network, agentRuns,
                 pump, agentConn, crashes>>

\* Register, last part: the connection becomes the agent's connection.
RegisterSet(c) ==
  /\ hub[c].step = "set"
  /\ identified' = identified \cup {c}
  /\ registry' = c /\ latest' = c
  /\ hub' = [hub EXCEPT ![c] = Idle]
  /\ Answer(c, "Registered")
  /\ UNCHANGED <<run, ended, waiter, request, cancelling, link, conns, alive, up,
                 agentRuns, pump, agentConn, crashes>>

\* The states in which MarkStartedAsync and MarkCompletedAsync go on to save.
Accepts(call) ==
  IF call.kind = "Started" THEN run[call.run] = "Pending"
                           ELSE run[call.run] \in Active

\* ReportStarted / ReportCompleted: the run is read.
ReportRead(c) ==
  /\ c \in identified
  /\ Served(c)
  /\ Head(up[c]).kind \in {"Started", "Completed"}
  /\ Consumed(c)
  /\ IF Accepts(Head(up[c]))
       THEN Opened(c, {}) /\ UNCHANGED down
       ELSE Answer(c, "Acked") /\ UNCHANGED hub
  /\ UNCHANGED <<run, ended, registry, latest, identified, waiter, request, cancelling, link,
                 conns, alive, agentRuns, pump, agentConn, crashes>>

\* MarkStartedAsync saves what it decided on the state it read.
StartedSave(c) ==
  /\ hub[c].step = "save"
  /\ hub[c].call.kind = "Started"
  /\ run' = [run EXCEPT ![hub[c].call.run] = "Running"]
  /\ Noted
  /\ hub' = [hub EXCEPT ![c] = Idle]
  /\ Answer(c, "Acked")
  /\ UNCHANGED <<registry, latest, identified, waiter, request, cancelling, link, conns,
                 alive, up, agentRuns, pump, agentConn, crashes>>

\* MarkCompletedAsync saves and wakes the waiter.
CompletedSave(c) ==
  /\ hub[c].step = "save"
  /\ hub[c].call.kind = "Completed"
  /\ run' = [run EXCEPT ![hub[c].call.run] = hub[c].call.state]
  /\ Noted
  /\ waiter' = waiter \ {hub[c].call.run}
  /\ hub' = [hub EXCEPT ![c] = Idle]
  /\ Answer(c, "Acked")
  /\ UNCHANGED <<registry, latest, identified, request, cancelling, link, conns, alive,
                 up, agentRuns, pump, agentConn, crashes>>

\* The agent's side of a lost or aborted connection: Reconnecting / Closed.
AgentDrops ==
  /\ link' = 0
  /\ down' = <<>>
  /\ registered' = FALSE
  /\ registering' = 0

\* A failed InvokeAsync goes back to SendAsync's loop.  (Mutant: it drops
\* the report.)
Retried_GivesUp ==
  IF pump.step = "sent" THEN [step |-> "idle", call |-> NoCall] ELSE pump
Retried == IF pump.step = "sent" THEN [pump EXCEPT !.step = "take"] ELSE pump

\* GetAgentId: a report before Register aborts the connection.
Abort(c) ==
  /\ c \notin identified
  /\ Served(c)
  /\ Head(up[c]).kind \in {"Started", "Completed"}
  /\ up' = [up EXCEPT ![c] = <<>>]
  /\ IF c = link THEN AgentDrops /\ pump' = Retried
                 ELSE UNCHANGED <<link, down, agentConn, pump>>
  /\ UNCHANGED <<run, ended, serverMem, conns, alive, agentRuns, crashes>>

\* AgentRegistry.Remove: only the current connection.  (Mutant: whichever it is.)
Removed_Always(c) == 0
Removed(c)        == IF registry = c THEN 0 ELSE registry

\* OnDisconnectedAsync: offline only when this is still the agent's connection.
OnDisconnected(c) ==
  /\ c \in alive
  /\ c # link
  /\ hub[c].step = "idle"
  /\ alive' = alive \ {c}
  /\ up' = [up EXCEPT ![c] = <<>>]
  /\ registry' = IF c \in identified THEN Removed(c) ELSE registry
  /\ UNCHANGED <<run, ended, latest, identified, hub, waiter, request, cancelling, link, conns,
                 down, agentRuns, pump, agentConn, crashes>>

-----------------------------------------------------------------------------
(* CommandRunner *)

\* RunCommand arrives: Start, which ignores a run it tracks already.
Start ==
  /\ down # <<>>
  /\ Head(down).kind = "RunCommand"
  /\ LET r == Head(down).run IN
       IF r \in unreported THEN UNCHANGED <<unreported, executing>>
       ELSE /\ unreported' = unreported \cup {r}
            /\ executing' = executing \cup {r}
  /\ down' = Tail(down)
  /\ UNCHANGED <<run, ended, serverMem, link, conns, alive, up, started, stopping, queue,
                 pump, agentConn, crashes>>

\* What Cancel reports: the end of a run the agent does not know.  (Mutant: nothing.)
CancelAnswer_None(r) == queue
CancelAnswer(r) ==
  IF r \in executing \cup unreported THEN queue
  ELSE Enqueued([kind |-> "Completed", run |-> r, state |-> "Cancelled"])

\* Cancel signals the token of a run in _running.  (Mutant: of any run.)
CancelSignal_Any(r) == stopping \cup {r}
CancelSignal(r)     == IF r \in executing THEN stopping \cup {r} ELSE stopping

\* CancelCommand arrives.
Cancel ==
  /\ down # <<>>
  /\ Head(down).kind = "CancelCommand"
  /\ LET r == Head(down).run IN
       /\ stopping' = CancelSignal(r)
       /\ queue' = CancelAnswer(r)
  /\ down' = Tail(down)
  /\ UNCHANGED <<run, ended, serverMem, link, conns, alive, up, executing, started,
                 unreported, pump, agentConn, crashes>>

\* RunAsync: the process is running.
ProcessStarts(r) ==
  /\ r \in executing \ started
  /\ started' = started \cup {r}
  /\ queue' = Enqueued([kind |-> "Started", run |-> r])
  /\ UNCHANGED <<run, ended, serverMem, network, executing, stopping, unreported, pump,
                 agentConn, crashes>>

\* RunAsync ends: the process could not be started, ended, or was killed.
Outcomes(r) ==
  IF r \notin started THEN {"Failed"}
  ELSE ExitStates \cup (IF r \in stopping THEN {"Cancelled"} ELSE {})

RunEnds(r) ==
  /\ r \in executing
  /\ executing' = executing \ {r}
  /\ started' = started \ {r}
  /\ stopping' = stopping \ {r}
  /\ \E s \in Outcomes(r) :
       queue' = Enqueued([kind |-> "Completed", run |-> r, state |-> s])
  /\ UNCHANGED <<run, ended, serverMem, network, unreported, pump, agentConn, crashes>>

-----------------------------------------------------------------------------
(* AgentWorker *)

\* PumpOutboundAsync takes the next report.
PumpTake ==
  /\ pump.step = "idle"
  /\ queue # <<>>
  /\ pump' = [step |-> "take", call |-> Head(queue)]
  /\ queue' = Tail(queue)
  /\ UNCHANGED <<run, ended, serverMem, network, executing, started, stopping, unreported,
                 agentConn, crashes>>

\* SendAsync finds a registered connection ...
PumpCheck ==
  /\ pump.step = "take"
  /\ registered
  /\ link # 0
  /\ pump' = [pump EXCEPT !.step = "ready"]
  /\ UNCHANGED <<run, ended, serverMem, network, agentRuns, agentConn, crashes>>

\* ... and invokes the hub over what is by now the connection, if there is one.
PumpInvoke ==
  /\ pump.step = "ready"
  /\ IF link # 0
       THEN /\ up' = [up EXCEPT ![link] = Append(@, pump.call)]
            /\ pump' = [pump EXCEPT !.step = "sent"]
       ELSE /\ pump' = [pump EXCEPT !.step = "take"]
            /\ UNCHANGED up
  /\ UNCHANGED <<run, ended, serverMem, link, conns, alive, down, agentRuns, agentConn,
                 crashes>>

\* MarkReported, after a CommandCompleted.  (Mutant: after any report.)
AfterReport_Any(call) == unreported \ {call.run}
AfterReport(call) == IF call.kind = "Completed" THEN unreported \ {call.run}
                                                ELSE unreported

\* The server confirmed the report.
PumpAcked ==
  /\ down # <<>>
  /\ Head(down).kind = "Acked"
  /\ down' = Tail(down)
  /\ unreported' = AfterReport(pump.call)
  /\ pump' = [step |-> "idle", call |-> NoCall]
  /\ UNCHANGED <<run, ended, serverMem, link, conns, alive, up, executing, started,
                 stopping, queue, agentConn, crashes>>

\* StartAsync or the automatic reconnection opens a new connection.
Connect ==
  /\ link = 0
  /\ conns < MaxConns
  /\ link' = conns + 1
  /\ conns' = conns + 1
  /\ alive' = alive \cup {conns + 1}
  /\ UNCHANGED <<run, ended, serverMem, up, down, agentRuns, pump, agentConn, crashes>>

\* RegisterAsync: by the poll of RunConnectionAsync and, after an automatic
\* reconnection, by the Reconnected event too; both see _registered unset.  (A
\* process that crashed starts with a plain connection: not distinguished, the
\* second call is allowed only while nothing has crashed.)
Register ==
  /\ link # 0
  /\ ~registered
  /\ registering < (IF Overlap /\ link > 1 /\ crashes = 0 THEN 2 ELSE 1)
  /\ registering' = registering + 1
  /\ up' = [up EXCEPT ![link] = Append(@, [kind |-> "Register", known |-> unreported])]
  /\ UNCHANGED <<run, ended, serverMem, link, conns, alive, down, agentRuns, pump,
                 registered, crashes>>

RegisterDone ==
  /\ down # <<>>
  /\ Head(down).kind = "Registered"
  /\ down' = Tail(down)
  /\ registered' = TRUE
  /\ registering' = registering - 1
  /\ UNCHANGED <<run, ended, serverMem, link, conns, alive, up, agentRuns, pump, crashes>>

-----------------------------------------------------------------------------
(* The environment *)

\* Only the first n calls on their way over link have reached the server.
UpLost ==
  IF link = 0 THEN UNCHANGED up
  ELSE \E n \in 0..Len(up[link]) : up' = [up EXCEPT ![link] = SubSeq(@, 1, n)]

\* Bound: failures leave a connection to come back on, and one more should the
\* server abort that one.
MayFail == conns + 1 < MaxConns

\* The connection fails, and everything on its way down is lost.
LinkDrop ==
  /\ link # 0
  /\ MayFail
  /\ UpLost
  /\ AgentDrops
  /\ pump' = Retried
  /\ UNCHANGED <<run, ended, serverMem, conns, alive, agentRuns, crashes>>

\* The agent process is killed, or its PC restarts.
AgentCrash ==
  /\ crashes < MaxCrashes
  /\ MayFail
  /\ crashes' = crashes + 1
  /\ AgentDrops
  /\ executing' = {} /\ started' = {} /\ stopping' = {} /\ unreported' = {}
  /\ queue' = <<>>
  /\ pump' = [step |-> "idle", call |-> NoCall]
  /\ UpLost
  /\ UNCHANGED <<run, ended, serverMem, conns, alive>>

\* The server process is killed and started again: only the table survives.
ServerCrash ==
  /\ crashes < MaxCrashes
  /\ MayFail
  /\ crashes' = crashes + 1
  /\ registry' = 0 /\ latest' = 0 /\ identified' = {} /\ waiter' = {}
  /\ hub' = [c \in Conns |-> Idle]
  /\ request' = [r \in Runs |->
                   IF run[r] = "None" /\ request[r].step = "new" THEN request[r]
                   ELSE [step |-> "done", conn |-> 0]]
  /\ cancelling' = [r \in Runs |-> "idle"]
  /\ alive' = {}
  /\ up' = [c \in Conns |-> <<>>]
  /\ AgentDrops
  /\ pump' = Retried
  /\ UNCHANGED <<run, ended, conns, agentRuns>>

-----------------------------------------------------------------------------
RequestStep ==
  \E r \in Runs : \/ Create(r) \/ CreateSend(r)
                  \/ JobLookup(r) \/ JobInsert(r) \/ JobSend(r)
                  \/ JobWake(r) \/ JobCancel(r)
                  \/ UserCancel(r) \/ CancelRead(r) \/ CancelSave(r)

HubStep ==
  \E c \in Conns : \/ RegisterRead(c) \/ RegisterSave(c) \/ RegisterSet(c)
                   \/ ReportRead(c) \/ StartedSave(c) \/ CompletedSave(c)
                   \/ Abort(c) \/ OnDisconnected(c)

RunnerStep == Start \/ Cancel \/ \E r \in Runs : ProcessStarts(r) \/ RunEnds(r)

WorkerStep ==
  \/ PumpTake \/ PumpCheck \/ PumpInvoke \/ PumpAcked
  \/ Connect \/ Register \/ RegisterDone

Failure == LinkDrop \/ AgentCrash \/ ServerCrash

Next == RequestStep \/ HubStep \/ RunnerStep \/ WorkerStep \/ Failure

Spec == Init /\ [][Next]_vars

\* Every component keeps working, the agent always reconnects, and a user presses
\* cancel again as long as a run goes on; nothing forces a process to end by itself.
Fairness ==
  /\ WF_vars(PumpTake \/ PumpCheck \/ PumpInvoke)
  /\ WF_vars(Connect) /\ WF_vars(Register)
  /\ WF_vars(Start \/ Cancel \/ PumpAcked \/ RegisterDone)
  /\ \A c \in Conns : /\ WF_vars(RegisterRead(c) \/ RegisterSave(c) \/ RegisterSet(c))
                      /\ WF_vars(ReportRead(c) \/ StartedSave(c) \/ CompletedSave(c))
                      /\ WF_vars(Abort(c)) /\ WF_vars(OnDisconnected(c))
  /\ \A r \in Runs :
       /\ WF_vars(CreateSend(r) \/ JobInsert(r) \/ JobSend(r) \/ JobWake(r))
       /\ WF_vars(UserCancel(r)) /\ WF_vars(CancelRead(r)) /\ WF_vars(CancelSave(r))
       /\ WF_vars(ProcessStarts(r)) /\ WF_vars(r \in stopping /\ RunEnds(r))

FairSpec == Spec /\ Fairness

-----------------------------------------------------------------------------
(* Properties *)

TypeOK ==
  /\ run \in [Runs -> States]
  /\ ended \subseteq Runs
  /\ registry \in 0..MaxConns
  /\ latest \in 0..MaxConns
  /\ identified \subseteq Conns
  /\ hub \in [Conns -> HubStates]
  /\ waiter \subseteq JobSteps
  /\ request \in [Runs -> RequestStates]
  /\ cancelling \in [Runs -> {"idle", "read", "save"}]
  /\ link \in 0..MaxConns
  /\ conns \in 0..MaxConns
  /\ alive \subseteq Conns
  /\ up \in [Conns -> Seq(Invocation)]
  /\ down \in Seq(Downward)
  /\ executing \subseteq Runs
  /\ started \subseteq executing
  /\ stopping \subseteq executing
  /\ unreported \subseteq Runs
  /\ queue \in Seq(Report)
  /\ pump \in PumpStates
  /\ registered \in BOOLEAN
  /\ registering \in Int
  /\ crashes \in Nat

\* The server sends an agent's commands over the connection whose Register call set the
\* registry last, as long as that connection has not ended for the server, and shows the
\* agent offline otherwise: no disconnect of another connection, however late it is dealt
\* with, takes it offline, and no connection that has ended stays registered.
OnlineIsLatest == registry = IF latest \in alive THEN latest ELSE 0

\* What the agent executes is named in its next Register call, or has been given
\* its end by the server already (a cancel that overtook its RunCommand).
ExecutingTracked ==
  \A r \in executing : r \in unreported \/ run[r] \in Finished

\* A result for r is in the queue or in the pump's hands.
HasResult(r) ==
  LET about(m) == m.kind = "Completed" /\ m.run = r IN
    (\E i \in 1..Len(queue) : about(queue[i])) \/ about(pump.call)

\* A run the agent goes on naming in Register is one it will report: its result
\* cannot get lost between RunAsync, OutboundQueue and the pump.
UnreportedHasResult ==
  \A r \in unreported : r \in executing \/ HasResult(r)

\* Both, through crashes and overlapping Register calls: whatever the agent was given it
\* names until its end is recorded, and it has that end in its hands.
RunsAreAccountedFor == ExecutingTracked /\ UnreportedHasResult

\* A job step is woken only after an end of its run was saved.  (What it then reads may
\* be Running all the same: see WokenRunFinished.)
WokenAfterEnd ==
  \A r \in Runs : request[r].step = "wait" /\ r \notin waiter => r \in ended

\* Does not hold (RunService.cs:118, waits until it has ended): a report of the start that
\* was read as pending over an older connection is saved after the end of the run.
WokenRunFinished ==
  \A r \in Runs : request[r].step = "wait" /\ r \notin waiter => run[r] \in Finished

\* Does not hold (AgentHub.cs:70, an agent registered on a new connection is not taken
\* offline): the Register call of an older connection may be dealt with after the newer
\* one's, and the end of that connection then takes the agent offline.
RegisteredIsOnline == registered => registry = link

\* Does not hold (RunService.cs:152): a job step does not wait for a run that is over
\* already, the completion signal was not missed.  A Register call between the INSERT
\* of the run and the registration of its waiter fails the run and tells nobody.
NoMissedCompletion ==
  \A r \in Runs : request[r].step = "wait" /\ r \in waiter => run[r] \in Active

\* Does not hold with Overlap (CommandRunner.cs:16): the server gives up no run that the
\* agent is executing.  Of two Register calls the later one may not name it.
ExecutingNotOrphaned ==
  [][\A r \in executing : run'[r] = "Orphaned" => run[r] = "Orphaned"]_vars

\* What the agent claims to hold in the Register calls on their way, and what the
\* operations between their SELECT and their save are going to save.
Claims  == {S \in SUBSET Runs : \E c \in Conns : \E i \in 1..Len(up[c]) :
              up[c][i] = [kind |-> "Register", known |-> S]}
Decides(c, r, to) ==
  /\ hub[c].step = "save"
  /\ \/ hub[c].call.kind = "Started" /\ hub[c].call.run = r /\ to = "Running"
     \/ hub[c].call.kind = "Completed" /\ hub[c].call.run = r /\ to = hub[c].call.state
     \/ hub[c].call.kind = "Register" /\ r \in hub[c].orphans /\ to = "Orphaned"
Decided == {d \in Runs \X ({"Running"} \cup Finished) :
              \/ \E c \in Conns : Decides(c, d[1], d[2])
              \/ cancelling[d[1]] = "save" /\ d[2] = "Cancelled"}

\* The server and the agent keep the contract of RunContract, whatever interleaves: an
\* operation that begins when the end of a run is recorded changes nothing, only runs the
\* agent did not hold when it registered are given up, and the agent lets a run go only
\* when an end of it has been recorded.
Contract == INSTANCE RunContract WITH
  ledger <- run, held <- unreported, claims <- Claims, decided <- Decided
KeepsContract == Contract!Spec

\* A user who keeps cancelling a run sees it end, whatever was lost on the way.
CancelEnds == \A r \in Cancellable : run[r] \in Active ~> run[r] \in Finished
=============================================================================
