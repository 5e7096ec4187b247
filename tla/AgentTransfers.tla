---------------------------- MODULE AgentTransfers ----------------------------
(***************************************************************************)
(* File transfers that one agent carries out for the server: TransferService *)
(* (DispatchAsync and the handlers that end a transfer), the two HTTP routes *)
(* the agent moves the file over, and StartTransfer of FileTransferService. *)
(* The copies the server relays itself are another matter.                 *)
(*                                                                         *)
(* The connection is the one of CommandRuns, without its registration      *)
(* overlap: an agent has at most one call to the hub outstanding.  Files   *)
(* are counted, not named; their contents, progress reports and error      *)
(* texts are left out; "Failed" includes the cancelled transfers, as in    *)
(* the code.                                                               *)
(***************************************************************************)
EXTENDS Integers, Sequences, FiniteSets

CONSTANTS
  Transfers,     \* transfer ids
  MaxFiles,      \* bound: files the patterns of a collect match
  MaxConns,      \* bound: connections the agent opens
  MaxCrashes     \* bound: crashes of the agent or the server

ASSUME TransferBounds ==
  /\ MaxFiles \in Nat \ {0}
  /\ MaxConns \in Nat \ {0}
  /\ MaxCrashes \in Nat

VARIABLES
  kind,          \* transfer -> what it is, see Kinds
  awaited,       \* transfers someone awaits: CollectAndWaitAsync, PushAndWaitAsync
  found,         \* transfer -> the files its work finds to move, see Files
  \* server: what is on disk
  table,         \* transfer -> state in the Transfers table
  content,       \* pushes whose content file is in data/transfers
  arrived,       \* transfer -> its files that are where they should be: rows of the
                 \* Artifacts table, or the pushed file in place on the PC
  \* server: memory
  request,       \* transfer -> progress of the call that starts it
  waiter,        \* CompletionNotifier._waiters
  registry,      \* AgentRegistry: connection of the agent, 0 when offline
  due,           \* transfers with a ForceCancelAsync to come
  ops,           \* handlers that found a transfer Pending and are ending it
  http,          \* transfer -> its upload or download
  \* network
  link, conns, alive, down,   \* as in CommandRuns
  call,          \* connection -> the hub invocation on its way or being served
  serving,       \* connections whose invocation is being served
  \* agent
  unreported,    \* FileTransferService._unreported
  running,       \* FileTransferService._running
  stopping,      \* of these, the transfers whose token is signalled
  results,       \* results to report, the first one in the pump's hands
  registered,    \* AgentWorker._registered
  crashes,
  \* history
  worked,        \* transfers whose work ended without an error
  undeleted      \* pushes whose content could not be deleted

asked   == <<kind, awaited, found>>
disk    == <<table, content, arrived, worked, undeleted>>
memory  == <<request, waiter, registry, due, ops>>
network == <<link, conns, alive, down, call, serving>>
agent   == <<unreported, running, stopping, results, registered>>
vars    == <<asked, disk, memory, http, network, agent, crashes>>

\* A "Collect" and a "Fetch" the agent uploads; a "Push" it downloads; "Local" is
\* Compress and Extract.
Kinds    == {"Collect", "Fetch", "Push", "Local"}
Conns    == 1..MaxConns
Finished == {"Succeeded", "Failed"}
States   == {"None", "Pending"} \cup Finished

\* A collect finds the files its patterns match, which may be none; a fetch and a push are
\* about one file; what Compress and Extract do stays on the PC.
Files(k) ==
  CASE k = "Collect"            -> 0..MaxFiles
    [] k \in {"Fetch", "Push"} -> {1}
    [] k = "Local"              -> {0}

Result     == [transfer : Transfers, ok : BOOLEAN]
NoCall     == [kind |-> "None"]
Call       == {NoCall} \cup [kind : {"Register"}, known : SUBSET Transfers]
              \cup [kind : {"Report"}, transfer : Transfers, ok : BOOLEAN]
Downward   == [kind : {"Work", "CancelTransfer"}, transfer : Transfers]
              \cup [kind : {"Registered", "Acked"}]
\* An ending in progress, for the invocation of conn, or for a cancellation (0).
Op         == [conn : 0..MaxConns, ts : SUBSET Transfers, ok : BOOLEAN,
               step : {"save", "free"}]
RequestSteps == {"new", "lookup", "insert", "send", "close", "wait", "done"}
HttpSteps    == {"none", "open", "refused"}

\* The transfers that will be asked for are any.
Init ==
  /\ kind \in [Transfers -> Kinds]
  /\ awaited \in SUBSET {t \in Transfers : kind[t] \in {"Collect", "Push"}}
  /\ found \in {n \in [Transfers -> 0..MaxFiles] : \A t \in Transfers : n[t] \in Files(kind[t])}
  /\ table = [t \in Transfers |-> "None"] /\ content = {}
  /\ arrived = [t \in Transfers |-> 0] /\ worked = {} /\ undeleted = {}
  /\ request = [t \in Transfers |-> [step |-> "new", conn |-> 0]]
  /\ waiter = {} /\ registry = 0 /\ due = {} /\ ops = {}
  /\ http = [t \in Transfers |-> "none"]
  /\ link = 0 /\ conns = 0 /\ alive = {} /\ down = <<>>
  /\ call = [c \in Conns |-> NoCall] /\ serving = {}
  /\ unreported = {} /\ running = {} /\ stopping = {} /\ results = <<>>
  /\ registered = FALSE /\ crashes = 0

SendTo(c, m) == down' = IF c = link /\ c # 0 THEN Append(down, m) ELSE down

-----------------------------------------------------------------------------
(* Starting a transfer: PushAsync, PushAndWaitAsync, CollectAndWaitAsync,    *)
(* FetchAsync, CompressAsync, ExtractAsync.                                  *)

At(t, step)   == request[t].step = step
GoTo(t, step) == request' = [request EXCEPT ![t].step = step]

\* The waiter is registered before anything of the transfer exists.  (Mutants: it is
\* not; it is once more, after the command.)
WaitEarly_No(t) == waiter
WaitEarly(t)    == IF t \in awaited THEN waiter \cup {t} ELSE waiter
WaitLate_Yes(t) == IF t \in awaited THEN waiter \cup {t} ELSE waiter
WaitLate(t)     == waiter

\* The content of a push is saved first, before its row.  (Mutant: PushAsync forgets.)
Stored_IfAwaited(t) ==
  IF kind[t] = "Push" /\ t \in awaited THEN content \cup {t} ELSE content
Stored(t) == IF kind[t] = "Push" THEN content \cup {t} ELSE content

Prepare(t) ==
  /\ At(t, "new")
  /\ content' = Stored(t)
  /\ waiter' = WaitEarly(t)
  /\ GoTo(t, "lookup")
  /\ UNCHANGED <<table, arrived, worked, undeleted, registry, due, ops, http, network,
                 agent, crashes, asked>>

\* DispatchAsync looks the connection up ...
Lookup(t) ==
  /\ At(t, "lookup")
  /\ request' = [request EXCEPT ![t] = [step |-> "insert", conn |-> registry]]
  /\ UNCHANGED <<disk, waiter, registry, due, ops, http, network, agent, crashes, asked>>

\* ... adds the row ...
Insert(t) ==
  /\ At(t, "insert")
  /\ LET online == request[t].conn # 0 IN
       /\ table' = [table EXCEPT ![t] = IF online THEN "Pending" ELSE "Failed"]
       /\ GoTo(t, IF online THEN "send" ELSE "close")
  /\ UNCHANGED <<content, arrived, worked, undeleted, waiter, registry, due, ops, http,
                 network, agent, crashes, asked>>

AfterDispatch(t) == GoTo(t, IF t \in awaited THEN "wait" ELSE "done")

\* ... and sends the work over the connection it found,
Send(t) ==
  /\ At(t, "send")
  /\ SendTo(request[t].conn, [kind |-> "Work", transfer |-> t])
  /\ waiter' = WaitLate(t)
  /\ AfterDispatch(t)
  /\ UNCHANGED <<disk, registry, due, ops, http, link, conns, alive, call, serving,
                 agent, crashes, asked>>

\* DeletePushContent of the pushes of ts: the contents that cannot be deleted stay.
\* (Mutant: it is not called.)
DeletePushContent_Not(ts) == UNCHANGED <<content, undeleted>>
DeletePushContent(ts) ==
  \E stay \in SUBSET (ts \cap content) :
    /\ content' = (content \ ts) \cup stay
    /\ undeleted' = undeleted \cup stay

\* or, offline, deletes the content and tells the waiter.
Close(t) ==
  /\ At(t, "close")
  /\ DeletePushContent({t})
  /\ waiter' = waiter \ {t}
  /\ AfterDispatch(t)
  /\ UNCHANGED <<table, arrived, worked, registry, due, ops, http, network, agent,
                 crashes, asked>>

\* The await returns; the row is read again and gives the outcome.
Wake(t) ==
  /\ At(t, "wait")
  /\ t \notin waiter
  /\ GoTo(t, "done")
  /\ UNCHANGED <<disk, waiter, registry, due, ops, http, network, agent, crashes, asked>>

\* Or the job, or the HTTP request, is cancelled: the transfer goes on by itself.
WaitCancelled(t) ==
  /\ At(t, "wait")
  /\ GoTo(t, "done")
  /\ UNCHANGED <<disk, waiter, registry, due, ops, http, network, agent, crashes, asked>>

-----------------------------------------------------------------------------
(* Ending a transfer.  MarkCompletedAsync, ForceCancelAsync and              *)
(* FailOrphanedAsync do it alike: they read rows that are Pending, save       *)
(* their end, and then delete the content of pushes and tell the waiters.     *)

Pending(ts) == {t \in ts : table[t] = "Pending"}

\* A handler has read its rows; it goes on only if some are Pending.
OpsWith(c, ts, ok) ==
  IF ts = {} THEN ops
  ELSE ops \cup {[conn |-> c, ts |-> ts, ok |-> ok, step |-> "save"]}

\* SaveChangesAsync writes what was decided on the rows as they were read.
Save(o) ==
  /\ o.step = "save"
  /\ table' = [t \in Transfers |->
                 IF t \in o.ts THEN (IF o.ok THEN "Succeeded" ELSE "Failed") ELSE table[t]]
  /\ ops' = (ops \ {o}) \cup {[o EXCEPT !.step = "free"]}
  /\ UNCHANGED <<content, arrived, worked, undeleted, request, waiter, registry, due,
                 http, network, agent, crashes, asked>>

\* The invocation of c is over.
Answer(c, k) ==
  /\ call' = [call EXCEPT ![c] = NoCall]
  /\ serving' = serving \ {c}
  /\ SendTo(c, [kind |-> k])

\* The rows freed one after another; of the three only a report is answered here.
Free(o) ==
  /\ o.step = "free"
  /\ DeletePushContent(o.ts)
  /\ waiter' = waiter \ o.ts
  /\ ops' = ops \ {o}
  /\ IF o.conn # 0 /\ call[o.conn].kind = "Report" THEN Answer(o.conn, "Acked")
     ELSE UNCHANGED <<call, serving, down>>
  /\ UNCHANGED <<table, arrived, worked, request, registry, due, http, link, conns,
                 alive, agent, crashes, asked>>

\* CancelAsync: the agent is told, and in any case ForceCancelAsync follows, at once
\* or after eight seconds.  (Mutant: only when the agent is offline.)
Forced_IfOffline(t) == IF registry = 0 THEN due \cup {t} ELSE due
Forced(t)           == due \cup {t}

\* A user cancels; again only once the last attempt is over.
UserCancel(t) ==
  /\ table[t] = "Pending"
  /\ t \notin due
  /\ \A o \in ops : t \notin o.ts
  /\ SendTo(registry, [kind |-> "CancelTransfer", transfer |-> t])
  /\ due' = Forced(t)
  /\ UNCHANGED <<disk, request, waiter, registry, ops, http, link, conns, alive, call,
                 serving, agent, crashes, asked>>

ForceCancel(t) ==
  /\ t \in due
  /\ due' = due \ {t}
  /\ ops' = OpsWith(0, Pending({t}), FALSE)
  /\ UNCHANGED <<disk, request, waiter, registry, http, network, agent, crashes, asked>>

-----------------------------------------------------------------------------
(* AgentHub *)

Serves(c, k) == c \in alive /\ c \notin serving /\ call[c].kind = k

\* Register: FailOrphanedAsync reads the pending rows the agent did not name.
RegisterRead(c) ==
  /\ Serves(c, "Register")
  /\ serving' = serving \cup {c}
  /\ ops' = OpsWith(c, Pending(Transfers \ call[c].known), FALSE)
  /\ UNCHANGED <<disk, request, waiter, registry, due, http, link, conns, alive, down,
                 call, agent, crashes, asked>>

\* registry.Set, once they are failed.
RegisterSet(c) ==
  /\ c \in serving
  /\ call[c].kind = "Register"
  /\ \A o \in ops : o.conn # c
  /\ registry' = c
  /\ Answer(c, "Registered")
  /\ UNCHANGED <<disk, request, waiter, due, ops, http, link, conns, alive, agent,
                 crashes, asked>>

\* ReportTransferCompleted: MarkCompletedAsync reads the row.
ReportRead(c) ==
  /\ Serves(c, "Report")
  /\ LET ts == Pending({call[c].transfer}) IN
       /\ ops' = OpsWith(c, ts, call[c].ok)
       /\ IF ts = {} THEN Answer(c, "Acked")
          ELSE serving' = serving \cup {c} /\ UNCHANGED <<call, down>>
  /\ UNCHANGED <<disk, request, waiter, registry, due, http, link, conns, alive, agent,
                 crashes, asked>>

\* OnDisconnectedAsync; a call that had not arrived is lost.
OnDisconnected(c) ==
  /\ c \in alive
  /\ c # link
  /\ c \notin serving
  /\ alive' = alive \ {c}
  /\ call' = [call EXCEPT ![c] = NoCall]
  /\ registry' = IF registry = c THEN 0 ELSE registry
  /\ UNCHANGED <<disk, request, waiter, due, ops, http, link, conns, down, serving,
                 agent, crashes, asked>>

-----------------------------------------------------------------------------
(* Agent: FileTransferService and AgentWorker *)

\* StartTransfer, unless it tracks that transfer already.
StartTransfer ==
  /\ down # <<>>
  /\ Head(down).kind = "Work"
  /\ LET t == Head(down).transfer IN
       IF t \in unreported THEN UNCHANGED <<unreported, running>>
       ELSE unreported' = unreported \cup {t} /\ running' = running \cup {t}
  /\ down' = Tail(down)
  /\ UNCHANGED <<disk, memory, http, link, conns, alive, call, serving, stopping, results,
                 registered, crashes, asked>>

\* The tokens signalled for t, if it is running.  (Mutant: or not.)
Signalled_Any(t) == stopping \cup {t}
Signalled(t)     == stopping \cup ({t} \cap running)

\* CancelTransfer: an unknown transfer is ignored.
CancelTransfer ==
  /\ down # <<>>
  /\ Head(down).kind = "CancelTransfer"
  /\ stopping' = Signalled(Head(down).transfer)
  /\ down' = Tail(down)
  /\ UNCHANGED <<disk, memory, http, link, conns, alive, call, serving, unreported,
                 running, results, registered, crashes, asked>>

\* SaveUploadedFileAsync and GetPushContentPathAsync admit pending transfers only.
Admitted(t) == table[t] = "Pending" /\ (kind[t] = "Push" => t \in content)

\* The agent's POST of the next file, or its GET, reaches the server.
HttpOpen(t) ==
  /\ t \in running
  /\ http[t] = "none"
  /\ arrived[t] < found[t]
  /\ http' = [http EXCEPT ![t] = IF Admitted(t) THEN "open" ELSE "refused"]
  /\ UNCHANGED <<disk, memory, network, agent, crashes, asked>>

\* The whole file is there: the server adds the artifact, or the agent moves its
\* temporary file into place.  The server does so even when the agent is gone.
HttpStored(t) ==
  /\ http[t] = "open"
  /\ kind[t] # "Push" \/ t \in running
  /\ http' = [http EXCEPT ![t] = "none"]
  /\ arrived' = [arrived EXCEPT ![t] = @ + 1]
  /\ UNCHANGED <<table, content, worked, undeleted, memory, network, agent, crashes,
                 asked>>

HttpBroken(t) ==
  /\ http[t] = "open"
  /\ http' = [http EXCEPT ![t] = "refused"]
  /\ UNCHANGED <<disk, memory, network, agent, crashes, asked>>

\* How the work may end: without an error only behind the last file, with an error at
\* any time.  (Mutant: the answer of the server is not looked at.)
Outcomes_Unchecked(t) ==
  IF arrived[t] = found[t] \/ http[t] = "refused" THEN BOOLEAN ELSE {FALSE}
Outcomes(t) == IF arrived[t] = found[t] THEN BOOLEAN ELSE {FALSE}

WorkEnds(t) ==
  /\ t \in running
  /\ running' = running \ {t}
  /\ stopping' = stopping \ {t}
  /\ \E ok \in Outcomes(t) :
       /\ results' = Append(results, [transfer |-> t, ok |-> ok])
       /\ worked' = IF ok THEN worked \cup {t} ELSE worked
  /\ UNCHANGED <<table, content, arrived, undeleted, memory, http, network, unreported,
                 registered, crashes, asked>>

\* A call over the current connection, one at a time.
Invoke(m) == call[link] = NoCall /\ call' = [call EXCEPT ![link] = m]

\* RegisterAsync.
Register ==
  /\ link # 0
  /\ ~registered
  /\ \A i \in 1..Len(down) : down[i].kind # "Registered"
  /\ Invoke([kind |-> "Register", known |-> unreported])
  /\ UNCHANGED <<disk, memory, http, link, conns, alive, down, serving, agent,
                 crashes, asked>>

RegisterDone ==
  /\ down # <<>>
  /\ Head(down).kind = "Registered"
  /\ down' = Tail(down)
  /\ registered' = TRUE
  /\ UNCHANGED <<disk, memory, http, link, conns, alive, call, serving, unreported,
                 running, stopping, results, crashes, asked>>

\* PumpOutboundAsync sends the first result ...
Report ==
  /\ registered
  /\ results # <<>>
  /\ \A i \in 1..Len(down) : down[i].kind # "Acked"
  /\ Invoke([kind |-> "Report", transfer |-> Head(results).transfer,
             ok |-> Head(results).ok])
  /\ UNCHANGED <<disk, memory, http, link, conns, alive, down, serving, agent,
                 crashes, asked>>

\* ... and MarkReported follows the answer.  (A lost answer has it sent again.)
Acked ==
  /\ down # <<>>
  /\ Head(down).kind = "Acked"
  /\ down' = Tail(down)
  /\ unreported' = unreported \ {Head(results).transfer}
  /\ results' = Tail(results)
  /\ UNCHANGED <<disk, memory, http, link, conns, alive, call, serving, running, stopping,
                 registered, crashes, asked>>

Connect ==
  /\ link = 0
  /\ conns < MaxConns
  /\ link' = conns + 1 /\ conns' = conns + 1
  /\ alive' = alive \cup {conns + 1}
  /\ UNCHANGED <<disk, memory, http, down, call, serving, agent, crashes, asked>>

-----------------------------------------------------------------------------
(* The environment *)

\* Bound: a failure leaves a connection to come back on.
MayFail == conns < MaxConns

AgentDrops ==
  /\ link' = 0
  /\ down' = <<>>
  /\ registered' = FALSE

\* A call that had not reached the server may be lost with the connection.
CallLost ==
  \/ UNCHANGED call
  \/ /\ link \in Conns \ serving
     /\ call' = [call EXCEPT ![link] = NoCall]

LinkDrop ==
  /\ link # 0
  /\ MayFail
  /\ AgentDrops
  /\ CallLost
  /\ UNCHANGED <<disk, memory, http, conns, alive, serving, unreported, running, stopping,
                 results, crashes, asked>>

AgentCrash ==
  /\ crashes < MaxCrashes
  /\ MayFail
  /\ crashes' = crashes + 1
  /\ AgentDrops
  /\ CallLost
  /\ unreported' = {} /\ running' = {} /\ stopping' = {} /\ results' = <<>>
  /\ UNCHANGED <<disk, memory, http, conns, alive, serving, asked>>

\* A request that had its row, or was about to get it, is not made again.
ServerCrash ==
  /\ crashes < MaxCrashes
  /\ MayFail
  /\ crashes' = crashes + 1
  /\ AgentDrops
  /\ request' = [t \in Transfers |->
                   IF At(t, "new") THEN request[t] ELSE [step |-> "done", conn |-> 0]]
  /\ waiter' = {} /\ registry' = 0 /\ due' = {} /\ ops' = {}
  /\ http' = [t \in Transfers |-> IF http[t] = "open" THEN "refused" ELSE http[t]]
  /\ alive' = {} /\ serving' = {}
  /\ call' = [c \in Conns |-> NoCall]
  /\ UNCHANGED <<disk, conns, unreported, running, stopping, results, asked>>

-----------------------------------------------------------------------------
RequestStep ==
  \E t \in Transfers : \/ Prepare(t) \/ Lookup(t) \/ Insert(t) \/ Send(t) \/ Close(t)
                       \/ Wake(t) \/ WaitCancelled(t)
                       \/ UserCancel(t) \/ ForceCancel(t)

EndStep == \E o \in ops : Save(o) \/ Free(o)

HubStep ==
  \E c \in Conns : RegisterRead(c) \/ RegisterSet(c) \/ ReportRead(c) \/ OnDisconnected(c)

WorkStep ==
  \/ StartTransfer \/ CancelTransfer
  \/ \E t \in Transfers : HttpOpen(t) \/ HttpStored(t) \/ HttpBroken(t) \/ WorkEnds(t)

WorkerStep == Register \/ RegisterDone \/ Report \/ Acked \/ Connect

Failure == LinkDrop \/ AgentCrash \/ ServerCrash

Next == RequestStep \/ EndStep \/ HubStep \/ WorkStep \/ WorkerStep \/ Failure

Spec == Init /\ [][Next]_vars

\* The handlers of the server finish, and a user presses cancel as long as a transfer
\* is shown as pending.  Nothing is asked of the agent or the network.
Fairness ==
  /\ WF_vars(EndStep)
  /\ \A t \in Transfers : WF_vars(UserCancel(t)) /\ WF_vars(ForceCancel(t))

FairSpec == Spec /\ Fairness

-----------------------------------------------------------------------------
(* Properties *)

TypeOK ==
  /\ kind \in [Transfers -> Kinds]
  /\ awaited \subseteq Transfers
  /\ table \in [Transfers -> States]
  /\ content \subseteq Transfers
  /\ found \in [Transfers -> 0..MaxFiles]
  /\ worked \subseteq Transfers /\ undeleted \subseteq Transfers
  /\ arrived \in [Transfers -> Nat]
  /\ request \in [Transfers -> [step : RequestSteps, conn : 0..MaxConns]]
  /\ waiter \subseteq awaited
  /\ registry \in 0..MaxConns
  /\ due \subseteq Transfers
  /\ ops \subseteq Op
  /\ http \in [Transfers -> HttpSteps]
  /\ link \in 0..MaxConns /\ conns \in 0..MaxConns
  /\ alive \subseteq Conns /\ serving \subseteq Conns
  /\ down \in Seq(Downward)
  /\ call \in [Conns -> Call]
  /\ unreported \subseteq Transfers
  /\ running \subseteq unreported /\ stopping \subseteq running
  /\ results \in Seq(Result)
  /\ registered \in BOOLEAN /\ crashes \in 0..MaxCrashes

\* A transfer recorded as succeeded did all of what it says, whoever crashed or cancelled
\* meanwhile: the agent's work ended without an error, every file the collect found (it may
\* have found none) or the fetched one is in the Artifacts table, the pushed one is in place
\* on the PC.
SucceededIsReal ==
  \A t \in Transfers : table[t] = "Succeeded" => t \in worked /\ arrived[t] = found[t]

\* A push that is shown as pending still has its content for the agent to fetch.
PendingHasContent ==
  \A t \in Transfers : kind[t] = "Push" /\ table[t] = "Pending" => t \in content

\* Whoever finishes a push deletes its content (a crash in between, or a file that cannot
\* be deleted, leaves it on the disk for good).
FinishedIsFreed ==
  \A t \in content : table[t] \in Finished =>
    \/ \E o \in ops : t \in o.ts /\ o.step = "free"
    \/ At(t, "close")
    \/ t \in undeleted
    \/ crashes > 0

\* The content of a push is there as long as it may be fetched, and then its deletion is
\* tried once its end is recorded, whoever of the four handlers records it.
ContentIsThere == PendingHasContent /\ FinishedIsFreed

\* Whoever awaits a transfer wakes only when it is over ...
WokenIsFinished ==
  \A t \in awaited : At(t, "wait") /\ t \notin waiter => table[t] \in Finished

\* ... and is not left waiting for one that is over already.
FinishedIsWoken ==
  \A t \in awaited : At(t, "wait") /\ t \in waiter /\ table[t] \in Finished =>
    \E o \in ops : t \in o.ts /\ o.step = "free"

\* Whoever awaits a transfer is woken exactly when it is over.
WaitersAreTold == WokenIsFinished /\ FinishedIsWoken

\* Does not hold (TransferService.cs:837): a recorded end is final, a transfer that is
\* over is not ended again.  ForceCancelAsync and MarkCompletedAsync may both read it as
\* pending and both write their end.
EndIsFinal ==
  [][\A t \in Transfers : table[t] \in Finished => table'[t] = table[t]]_vars

\* A transfer someone cancels is over some day, even when the agent never hears of it
\* or does not answer.
CancelEnds == \A t \in Transfers : table[t] = "Pending" ~> table[t] \in Finished
=============================================================================
