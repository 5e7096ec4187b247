------------------------ MODULE AgentTransfers_proof ------------------------
(***************************************************************************)
(* Proofs about AgentTransfers, for every set of transfers, number of      *)
(* connections and number of crashes.                                      *)
(***************************************************************************)
EXTENDS AgentTransfers, TLAPS, MessageTheorems

-----------------------------------------------------------------------------
(* The agent's side: what it tracks and what it reports. *)

\* A result waits to be reported for each transfer that is over and not reported, once.
ResultsInv ==
  /\ \A i \in 1..Len(results) : results[i].transfer \in unreported \ running
  /\ \A i, j \in 1..Len(results) : results[i].transfer = results[j].transfer => i = j

\* Nothing comes down a link that is gone, and connections to come have no call.
LinkInv ==
  /\ link \in 0..conns
  /\ link = 0 => down = <<>> /\ ~registered
  /\ \A c \in Conns : c > conns => call[c] = NoCall /\ c \notin serving

\* The report of the agent's connection is the first result, and not answered yet.
ReportInv ==
  /\ Once(down, {"Acked"})
  /\ Has(down, {"Acked"}) => results # <<>> /\ (link # 0 => call[link].kind # "Report")
  /\ link # 0 /\ call[link].kind = "Report" =>
       results # <<>> /\ call[link].transfer = results[1].transfer /\ call[link].ok = results[1].ok

AgentInv == ResultsInv /\ LinkInv /\ ReportInv

-----------------------------------------------------------------------------
(* Types *)

\* Commands and answers sent down the link are messages of the right kind.
LEMMA SendToType ==
  ASSUME TypeOK, NEW c, NEW m \in Downward, SendTo(c, m)
  PROVE  down' \in Seq(Downward)
BY AppendType DEF TypeOK, SendTo

\* The call is over, and its answer of the right kind.
LEMMA AnswerType ==
  ASSUME TypeOK, NEW c, NEW k \in {"Registered", "Acked"}, Answer(c, k)
  PROVE  /\ down' \in Seq(Downward)
         /\ call' \in [Conns -> Call]
         /\ serving' \subseteq Conns
<1>1. down' \in Seq(Downward)
  <2>1. [kind |-> k] \in Downward
    BY DEF Downward
  <2>. QED  BY <2>1, SendToType DEF Answer
<1>2. NoCall \in Call
  BY DEF Call
<1>. QED  BY <1>1, <1>2 DEF Answer, TypeOK

\* A call that is a report names a transfer.
LEMMA ReportShape ==
  ASSUME TypeOK, NEW c \in Conns, call[c].kind = "Report"
  PROVE  call[c] \in [kind : {"Report"}, transfer : Transfers, ok : BOOLEAN]
<1>1. call[c] \in Call
  BY DEF TypeOK
<1>. QED  BY <1>1 DEF Call, NoCall

\* The operation of a handler that found rows to end.
LEMMA OpsWithType ==
  ASSUME TypeOK, NEW c \in 0..MaxConns, NEW ts \in SUBSET Transfers, NEW ok \in BOOLEAN
  PROVE  OpsWith(c, Pending(ts), ok) \subseteq Op
<1>1. Pending(ts) \in SUBSET Transfers
  BY DEF Pending
<1>2. [conn |-> c, ts |-> Pending(ts), ok |-> ok, step |-> "save"] \in Op
  BY <1>1 DEF Op
<1>. QED  BY <1>2 DEF OpsWith, TypeOK

\* What is left when contents are deleted, or cannot be.
LEMMA DeleteLeaves ==
  ASSUME TypeOK, NEW ts \in SUBSET Transfers, DeletePushContent(ts)
  PROVE  /\ content' \subseteq content /\ undeleted \subseteq undeleted'
         /\ content' \subseteq Transfers /\ undeleted' \subseteq Transfers
         /\ \A t \in content : t \notin ts => t \in content'
         /\ \A t \in content' : t \in ts => t \in undeleted'
BY DEF DeletePushContent, TypeOK

\* A request goes on.
LEMMA RequestType == TypeOK /\ RequestStep => TypeOK'
<1>. SUFFICES ASSUME TypeOK, NEW t \in Transfers,
                     \/ Prepare(t) \/ Lookup(t) \/ Insert(t) \/ Send(t) \/ Close(t)
                     \/ Wake(t) \/ WaitCancelled(t) \/ UserCancel(t) \/ ForceCancel(t)
              PROVE  TypeOK'
  BY DEF RequestStep
<1>. USE DEF At, GoTo, AfterDispatch, asked, disk, memory, network, agent, RequestSteps
<1>1. CASE Prepare(t)
  BY <1>1 DEF TypeOK, Prepare, Stored, WaitEarly
<1>2. CASE Lookup(t)
  BY <1>2 DEF TypeOK, Lookup
<1>3. CASE Insert(t)
  BY <1>3 DEF TypeOK, Insert, States, Finished
<1>4. CASE Send(t)
  <2>1. [kind |-> "Work", transfer |-> t] \in Downward
    BY DEF Downward
  <2>2. down' \in Seq(Downward)
    BY <1>4, <2>1, SendToType DEF Send
  <2>. QED  BY <1>4, <2>2 DEF TypeOK, Send, WaitLate
<1>5. CASE Close(t)
  <2>1. content' \subseteq Transfers /\ undeleted' \subseteq Transfers
    BY <1>5, DeleteLeaves DEF Close
  <2>2. request' \in [Transfers -> [step : RequestSteps, conn : 0..MaxConns]]
    BY <1>5 DEF TypeOK, Close
  <2>3. waiter' \subseteq awaited
    BY <1>5 DEF TypeOK, Close
  <2>4. UNCHANGED <<asked, table, arrived, worked, registry, due, ops, http, network, agent, crashes>>
    BY <1>5 DEF Close
  <2>. QED  BY <2>1, <2>2, <2>3, <2>4 DEF TypeOK
<1>6. CASE Wake(t)
  BY <1>6 DEF TypeOK, Wake
<1>7. CASE WaitCancelled(t)
  BY <1>7 DEF TypeOK, WaitCancelled
<1>8. CASE UserCancel(t)
  <2>1. [kind |-> "CancelTransfer", transfer |-> t] \in Downward
    BY DEF Downward
  <2>2. down' \in Seq(Downward)
    BY <1>8, <2>1, SendToType DEF UserCancel
  <2>. QED  BY <1>8, <2>2 DEF TypeOK, UserCancel, Forced
<1>9. CASE ForceCancel(t)
  <2>1. ops' \subseteq Op
    <3>1. 0 \in 0..MaxConns /\ {t} \in SUBSET Transfers /\ FALSE \in BOOLEAN
      BY TransferBounds
    <3>. QED  BY <1>9, <3>1, OpsWithType DEF ForceCancel
  <2>. QED  BY <1>9, <2>1 DEF TypeOK, ForceCancel
<1>. QED  BY <1>1, <1>2, <1>3, <1>4, <1>5, <1>6, <1>7, <1>8, <1>9

\* A handler goes on with an ending.
LEMMA EndType == TypeOK /\ EndStep => TypeOK'
<1>. SUFFICES ASSUME TypeOK, NEW o \in ops, Save(o) \/ Free(o)
              PROVE  TypeOK'
  BY DEF EndStep
<1>. USE DEF disk, memory, network, agent, asked
<1>0. o \in Op
  BY DEF TypeOK
<1>1. CASE Save(o)
  <2>1. [o EXCEPT !.step = "free"] \in Op
    BY <1>0 DEF Op
  <2>2. ops' \subseteq Op
    BY <1>1, <2>1 DEF TypeOK, Save
  <2>3. table' \in [Transfers -> States]
    BY <1>1 DEF TypeOK, Save, States, Finished
  <2>. QED  BY <1>1, <2>2, <2>3 DEF TypeOK, Save
<1>2. CASE Free(o)
  <2>1. /\ down' \in Seq(Downward)
        /\ call' \in [Conns -> Call]
        /\ serving' \subseteq Conns
    BY <1>2, AnswerType DEF Free, TypeOK
  <2>2. content' \subseteq Transfers /\ undeleted' \subseteq Transfers
    <3>1. o.ts \in SUBSET Transfers
      BY <1>0 DEF Op
    <3>. QED  BY <1>2, <3>1, DeleteLeaves DEF Free
  <2>. QED  BY <1>2, <2>1, <2>2 DEF TypeOK, Free
<1>. QED  BY <1>1, <1>2

\* The hub serves a call or sees a disconnect.
LEMMA HubType == TypeOK /\ HubStep => TypeOK'
<1>. SUFFICES ASSUME TypeOK, NEW c \in Conns,
                     RegisterRead(c) \/ RegisterSet(c) \/ ReportRead(c) \/ OnDisconnected(c)
              PROVE  TypeOK'
  BY DEF HubStep
<1>. USE DEF disk, memory, network, agent, asked
<1>0. c \in 0..MaxConns
  BY TransferBounds DEF Conns
<1>1. CASE RegisterRead(c)
  <2>1. ops' \subseteq Op
    BY <1>0, <1>1, OpsWithType DEF RegisterRead
  <2>. QED  BY <1>1, <2>1 DEF TypeOK, RegisterRead
<1>2. CASE RegisterSet(c)
  <2>1. /\ down' \in Seq(Downward)
        /\ call' \in [Conns -> Call]
        /\ serving' \subseteq Conns
    BY <1>2, AnswerType DEF RegisterSet
  <2>. QED  BY <1>0, <1>2, <2>1 DEF TypeOK, RegisterSet
<1>3. CASE ReportRead(c)
  <2>1. call[c] \in [kind : {"Report"}, transfer : Transfers, ok : BOOLEAN]
    BY <1>3, ReportShape DEF ReportRead, Serves
  <2>2. ops' \subseteq Op
    BY <1>0, <1>3, <2>1, OpsWithType DEF ReportRead
  <2>3. /\ down' \in Seq(Downward)
        /\ call' \in [Conns -> Call]
        /\ serving' \subseteq Conns
    BY <1>3, AnswerType DEF ReportRead, TypeOK
  <2>. QED  BY <1>3, <2>2, <2>3 DEF TypeOK, ReportRead
<1>4. CASE OnDisconnected(c)
  <2>1. call' \in [Conns -> Call]
    BY <1>4 DEF TypeOK, OnDisconnected, Call
  <2>2. registry' \in 0..MaxConns
    BY <1>4, <1>0, TransferBounds DEF TypeOK, OnDisconnected
  <2>. QED  BY <1>4, <2>1, <2>2 DEF TypeOK, OnDisconnected
<1>. QED  BY <1>1, <1>2, <1>3, <1>4

\* The agent works on transfers.
LEMMA WorkType == TypeOK /\ WorkStep => TypeOK'
<1>. SUFFICES ASSUME TypeOK, WorkStep
              PROVE  TypeOK'
  OBVIOUS
<1>. USE DEF disk, memory, network, agent, asked
<1>1. CASE StartTransfer
  <2>1. Tail(down) \in Seq(Downward) /\ Head(down) \in Downward
    BY <1>1, TailType DEF StartTransfer, TypeOK
  <2>2. Head(down).transfer \in Transfers
    BY <1>1, <2>1 DEF StartTransfer, Downward
  <2>. QED  BY <1>1, <2>1, <2>2 DEF TypeOK, StartTransfer
<1>2. CASE CancelTransfer
  <2>1. Tail(down) \in Seq(Downward)
    BY <1>2, TailType DEF CancelTransfer, TypeOK
  <2>. QED  BY <1>2, <2>1 DEF TypeOK, CancelTransfer, Signalled
<1>3. ASSUME NEW t \in Transfers, HttpOpen(t) \/ HttpStored(t) \/ HttpBroken(t)
      PROVE  TypeOK'
  <2>1. http' \in [Transfers -> HttpSteps] /\ arrived' \in [Transfers -> Nat]
    <3>1. CASE HttpOpen(t) \/ HttpBroken(t)
      BY <3>1 DEF TypeOK, HttpOpen, HttpBroken, HttpSteps, disk
    <3>2. CASE HttpStored(t)
      <4>1. arrived[t] + 1 \in Nat
        BY DEF TypeOK
      <4>. QED  BY <3>2, <4>1 DEF TypeOK, HttpStored, HttpSteps
    <3>. QED  BY <1>3, <3>1, <3>2
  <2>2. UNCHANGED <<table, content, worked, undeleted, memory, network, agent, crashes, asked>>
    BY <1>3 DEF HttpOpen, HttpStored, HttpBroken
  <2>. QED  BY <2>1, <2>2 DEF TypeOK
<1>4. ASSUME NEW t \in Transfers, WorkEnds(t)
      PROVE  TypeOK'
  <2>1. PICK ok \in Outcomes(t) : /\ results' = Append(results, [transfer |-> t, ok |-> ok])
                                   /\ worked' = IF ok THEN worked \cup {t} ELSE worked
    BY <1>4 DEF WorkEnds
  <2>2. [transfer |-> t, ok |-> ok] \in Result
    BY DEF Result, Outcomes
  <2>3. results' \in Seq(Result) /\ worked' \subseteq Transfers
    BY <2>1, <2>2, AppendType DEF TypeOK
  <2>. QED  BY <1>4, <2>3 DEF TypeOK, WorkEnds
<1>. QED  BY <1>1, <1>2, <1>3, <1>4 DEF WorkStep

\* The first result waits for its answer when one has come.
LEMMA AckedReady ==
  ASSUME TypeOK, AgentInv, Acked
  PROVE  /\ results # <<>> /\ Head(results) = results[1] /\ 1 \in 1..Len(results)
         /\ Tail(down) \in Seq(Downward)
         /\ Tail(results) \in Seq(Result) /\ Head(results) \in Result
<1>1. down \in Seq(Downward) /\ down # <<>> /\ Head(down).kind \in {"Acked"}
  BY DEF TypeOK, Acked
<1>2. Has(down, {"Acked"})
  BY <1>1, TailMessages
<1>3. results # <<>>
  BY <1>2 DEF AgentInv, ReportInv
<1>. QED  BY <1>1, <1>3, TailType, TailPlaces DEF TypeOK

\* The worker of the agent registers, reports and connects.
LEMMA WorkerType == TypeOK /\ AgentInv /\ WorkerStep => TypeOK'
<1>. SUFFICES ASSUME TypeOK, AgentInv, WorkerStep
              PROVE  TypeOK'
  OBVIOUS
<1>. USE DEF disk, memory, network, agent, asked
<1>1. CASE Register
  <2>1. [kind |-> "Register", known |-> unreported] \in Call
    BY DEF Call, TypeOK
  <2>. QED  BY <1>1, <2>1 DEF TypeOK, Register, Invoke
<1>2. CASE RegisterDone
  <2>1. Tail(down) \in Seq(Downward)
    BY <1>2, TailType DEF RegisterDone, TypeOK
  <2>. QED  BY <1>2, <2>1 DEF TypeOK, RegisterDone
<1>3. CASE Report
  <2>1. Head(results) \in Result
    BY <1>3, TailType DEF Report, TypeOK
  <2>2. [kind |-> "Report", transfer |-> Head(results).transfer, ok |-> Head(results).ok] \in Call
    BY <2>1 DEF Call, Result
  <2>. QED  BY <1>3, <2>2 DEF TypeOK, Report, Invoke
<1>4. CASE Acked
  <2>1. running \subseteq unreported \ {Head(results).transfer}
    BY <1>4, AckedReady DEF AgentInv, ResultsInv, TypeOK
  <2>. QED  BY <1>4, <2>1, AckedReady DEF TypeOK, Acked
<1>5. CASE Connect
  <2>1. conns + 1 \in Conns /\ conns + 1 \in 0..MaxConns
    BY <1>5, TransferBounds DEF Connect, TypeOK, Conns
  <2>. QED  BY <1>5, <2>1 DEF TypeOK, Connect
<1>. QED  BY <1>1, <1>2, <1>3, <1>4, <1>5 DEF WorkerStep

\* What the loss of the connection leaves of its call.
LEMMA DropType ==
  ASSUME TypeOK, AgentDrops, CallLost
  PROVE  /\ link' \in 0..MaxConns /\ down' \in Seq(Downward) /\ registered' \in BOOLEAN
         /\ call' \in [Conns -> Call]
<1>1. NoCall \in Call /\ 0 \in 0..MaxConns /\ <<>> \in Seq(Downward)
  BY TransferBounds DEF Call
<1>2. call' \in [Conns -> Call]
  BY <1>1 DEF TypeOK, CallLost
<1>. QED  BY <1>1, <1>2 DEF AgentDrops

\* Something fails.
LEMMA FailureType == TypeOK /\ Failure => TypeOK'
<1>. SUFFICES ASSUME TypeOK, Failure
              PROVE  TypeOK'
  OBVIOUS
<1>. USE DEF disk, memory, network, agent, asked
<1>1. CASE LinkDrop
  BY <1>1, DropType DEF TypeOK, LinkDrop
<1>2. crashes < MaxCrashes => crashes + 1 \in 0..MaxCrashes
  BY TransferBounds DEF TypeOK
<1>3. CASE AgentCrash
  BY <1>2, <1>3, DropType DEF TypeOK, AgentCrash
<1>4. CASE ServerCrash
  <2>1. NoCall \in Call /\ <<>> \in Seq(Downward) /\ 0 \in 0..MaxConns
    BY TransferBounds DEF Call
  <2>2. request' \in [Transfers -> [step : RequestSteps, conn : 0..MaxConns]]
    BY <1>4, <2>1 DEF TypeOK, ServerCrash, RequestSteps
  <2>3. http' \in [Transfers -> HttpSteps]
    BY <1>4 DEF TypeOK, ServerCrash, HttpSteps
  <2>4. call' \in [Conns -> Call]
    BY <1>4, <2>1 DEF ServerCrash
  <2>5. UNCHANGED <<disk, conns, unreported, running, stopping, results, asked>>
        /\ crashes' \in 0..MaxCrashes /\ registered' = FALSE
    BY <1>2, <1>4 DEF ServerCrash, AgentDrops
  <2>. QED  BY <1>4, <2>1, <2>2, <2>3, <2>4, <2>5 DEF TypeOK, ServerCrash, AgentDrops
<1>. QED  BY <1>1, <1>3, <1>4 DEF Failure

\* Every step keeps the types.
LEMMA TypeStep == TypeOK /\ AgentInv /\ [Next]_vars => TypeOK'
<1>1. TypeOK /\ UNCHANGED vars => TypeOK'
  BY DEF TypeOK, vars, asked, disk, memory, network, agent
<1>. QED  BY <1>1, RequestType, EndType, HubType, WorkType, WorkerType, FailureType DEF Next

-----------------------------------------------------------------------------
(* What the agent tracks and reports. *)

\* Steps that leave the agent and its calls alone, and bring no answer to a report.
LEMMA AgentFrame ==
  ASSUME TypeOK, AgentInv, UNCHANGED <<link, conns, call, unreported, running, results, registered>>,
         Loses(down, down', {"Acked"}), link = 0 => down' = down,
         serving' \subseteq serving \cup {c \in Conns : call[c] # NoCall}
  PROVE  AgentInv'
<1>1. down \in Seq(Downward)
  BY DEF TypeOK
<1>2. /\ Has(down', {"Acked"}) => Has(down, {"Acked"})
      /\ Once(down, {"Acked"}) => Once(down', {"Acked"})
  BY <1>1, LosesMessages
<1>3. ResultsInv'
  BY DEF AgentInv, ResultsInv
<1>4. LinkInv'
  BY DEF AgentInv, LinkInv
<1>5. ReportInv'
  BY <1>2 DEF AgentInv, ReportInv
<1>. QED  BY <1>3, <1>4, <1>5 DEF AgentInv

\* A message that is no answer to a report, over any connection.
LEMMA SentLoses ==
  ASSUME TypeOK, NEW c, NEW m, SendTo(c, m), m.kind \notin {"Acked"}
  PROVE  Loses(down, down', {"Acked"}) /\ (link = 0 => down' = down)
BY DEF SendTo, Loses

\* Requests and cancellations send commands only.
LEMMA AgentRequest == TypeOK /\ AgentInv /\ RequestStep => AgentInv'
<1>. SUFFICES ASSUME TypeOK, AgentInv, NEW t \in Transfers,
                     \/ Prepare(t) \/ Lookup(t) \/ Insert(t) \/ Send(t) \/ Close(t)
                     \/ Wake(t) \/ WaitCancelled(t) \/ UserCancel(t) \/ ForceCancel(t)
              PROVE  AgentInv'
  BY DEF RequestStep
<1>1. Loses(down, down', {"Acked"}) /\ (link = 0 => down' = down)
  <2>1. CASE Send(t)
    BY <2>1, SentLoses DEF Send
  <2>2. CASE UserCancel(t)
    BY <2>2, SentLoses DEF UserCancel
  <2>3. CASE UNCHANGED down
    BY <2>3 DEF Loses
  <2>. QED  BY <2>1, <2>2, <2>3 DEF Prepare, Lookup, Insert, Close, Wake, WaitCancelled, ForceCancel, network
<1>2. UNCHANGED <<link, conns, call, serving, unreported, running, results, registered>>
  BY DEF Prepare, Lookup, Insert, Send, Close, Wake, WaitCancelled, UserCancel, ForceCancel, network, agent
<1>. QED  BY <1>1, <1>2, AgentFrame

\* The hub answers a call; a report only if it was one.
LEMMA AgentAnswered ==
  ASSUME TypeOK, AgentInv, UNCHANGED <<link, conns, unreported, running, results, registered>>,
         NEW c \in Conns, NEW k \in {"Registered", "Acked"}, Answer(c, k),
         k = "Acked" => call[c].kind = "Report"
  PROVE  AgentInv'
<1>. DEFINE m == [kind |-> k]
<1>1. down \in Seq(Downward)
  BY DEF TypeOK
<1>2. /\ Has(Append(down, m), {"Acked"}) <=> Has(down, {"Acked"}) \/ m.kind \in {"Acked"}
      /\ Once(down, {"Acked"}) /\ (m.kind \in {"Acked"} => ~Has(down, {"Acked"}))
           => Once(Append(down, m), {"Acked"})
  <2>. HIDE DEF m
  <2>. QED  BY <1>1, AppendMessages
<1>3. /\ \A d \in Conns : call'[d] = IF d = c THEN NoCall ELSE call[d]
      /\ serving' \subseteq serving
      /\ down' = IF c = link /\ c # 0 THEN Append(down, m) ELSE down
  BY DEF Answer, SendTo, TypeOK
<1>4. m.kind = k /\ NoCall.kind = "None" /\ c # 0
  BY DEF NoCall, Conns
<1>5. link # 0 => link \in Conns
  BY TransferBounds DEF TypeOK, Conns
<1>. HIDE DEF m
<1>6. ResultsInv'
  BY DEF AgentInv, ResultsInv
<1>7. LinkInv'
  BY <1>3, <1>4 DEF AgentInv, LinkInv
<1>8. ReportInv'
  <2>1. CASE c = link
    BY <2>1, <1>2, <1>3, <1>4 DEF AgentInv, ReportInv
  <2>2. CASE c # link
    BY <2>2, <1>3, <1>5 DEF AgentInv, ReportInv
  <2>. QED  BY <2>1, <2>2
<1>. QED  BY <1>6, <1>7, <1>8 DEF AgentInv

\* A handler that has ended a transfer answers the report it came by.
LEMMA AgentEnd == TypeOK /\ AgentInv /\ EndStep => AgentInv'
<1>. SUFFICES ASSUME TypeOK, AgentInv, NEW o \in ops, Save(o) \/ Free(o)
              PROVE  AgentInv'
  BY DEF EndStep
<1>1. UNCHANGED <<link, conns, unreported, running, results, registered>>
  BY DEF Save, Free, network, agent
<1>2. CASE UNCHANGED <<call, serving, down>>
  BY <1>1, <1>2, AgentFrame DEF Loses
<1>3. CASE Free(o) /\ o.conn # 0 /\ call[o.conn].kind = "Report" /\ Answer(o.conn, "Acked")
  <2>1. o.conn \in Conns
    BY <1>3 DEF TypeOK, Op, Conns
  <2>. QED  BY <1>1, <1>3, <2>1, AgentAnswered
<1>. QED  BY <1>2, <1>3 DEF Save, Free, network

\* The hub serves calls; it answers a report once.
LEMMA AgentHub == TypeOK /\ AgentInv /\ HubStep => AgentInv'
<1>. SUFFICES ASSUME TypeOK, AgentInv, NEW c \in Conns,
                     RegisterRead(c) \/ RegisterSet(c) \/ ReportRead(c) \/ OnDisconnected(c)
              PROVE  AgentInv'
  BY DEF HubStep
<1>1. UNCHANGED <<link, conns, unreported, running, results, registered>>
  BY DEF RegisterRead, RegisterSet, ReportRead, OnDisconnected, network, agent
<1>2. CASE UNCHANGED <<call, down>> /\ serving' = serving \cup {c} /\ call[c].kind # "None"
  <2>1. call[c] # NoCall
    BY <1>2 DEF NoCall
  <2>. QED  BY <1>1, <1>2, <2>1, AgentFrame DEF Loses
<1>3. CASE RegisterRead(c)
  BY <1>2, <1>3 DEF RegisterRead, Serves
<1>4. CASE RegisterSet(c)
  BY <1>1, <1>4, AgentAnswered DEF RegisterSet
<1>5. CASE ReportRead(c)
  BY <1>1, <1>2, <1>5, AgentAnswered DEF ReportRead, Serves
<1>6. CASE OnDisconnected(c)
  <2>1. /\ \A d \in Conns : call'[d] = IF d = c THEN NoCall ELSE call[d]
        /\ UNCHANGED <<serving, down>> /\ c # link
    BY <1>6 DEF OnDisconnected, TypeOK
  <2>2. link # 0 => call'[link] = call[link]
    BY <2>1, TransferBounds DEF TypeOK, Conns
  <2>3. ResultsInv'
    BY <1>1 DEF AgentInv, ResultsInv
  <2>4. LinkInv'
    BY <1>1, <2>1 DEF AgentInv, LinkInv
  <2>5. ReportInv'
    BY <1>1, <2>1, <2>2 DEF AgentInv, ReportInv
  <2>. QED  BY <2>3, <2>4, <2>5 DEF AgentInv
<1>. QED  BY <1>3, <1>4, <1>5, <1>6

\* A transfer that ends leaves one result.
LEMMA AgentWork == TypeOK /\ AgentInv /\ WorkStep => AgentInv'
<1>. SUFFICES ASSUME TypeOK, AgentInv, WorkStep
              PROVE  AgentInv'
  OBVIOUS
<1>. USE DEF network, agent
<1>1. CASE StartTransfer
  <2>1. /\ Loses(down, down', {"Acked"}) /\ link # 0
        /\ UNCHANGED <<link, conns, call, serving, results, registered>>
    BY <1>1 DEF StartTransfer, Loses, AgentInv, LinkInv
  <2>2. down \in Seq(Downward)
    BY DEF TypeOK
  <2>3. /\ Has(down', {"Acked"}) => Has(down, {"Acked"})
        /\ Once(down, {"Acked"}) => Once(down', {"Acked"})
    BY <2>1, <2>2, LosesMessages
  <2>4. ResultsInv'
    <3>1. unreported \ running \subseteq unreported' \ running'
      BY <1>1 DEF StartTransfer, TypeOK
    <3>. QED  BY <2>1, <3>1 DEF AgentInv, ResultsInv
  <2>5. LinkInv'
    BY <2>1 DEF AgentInv, LinkInv
  <2>6. ReportInv'
    BY <2>1, <2>3 DEF AgentInv, ReportInv
  <2>. QED  BY <2>4, <2>5, <2>6 DEF AgentInv
<1>2. CASE CancelTransfer
  BY <1>2, AgentFrame DEF CancelTransfer, Loses, AgentInv, LinkInv
<1>3. ASSUME NEW t \in Transfers, HttpOpen(t) \/ HttpStored(t) \/ HttpBroken(t)
      PROVE  AgentInv'
  BY <1>3, AgentFrame DEF HttpOpen, HttpStored, HttpBroken, Loses
<1>4. ASSUME NEW t \in Transfers, WorkEnds(t)
      PROVE  AgentInv'
  <2>1. PICK ok \in Outcomes(t) : results' = Append(results, [transfer |-> t, ok |-> ok])
    BY <1>4 DEF WorkEnds
  <2>2. results \in Seq(Result)
    BY DEF TypeOK
  <2>. DEFINE r == [transfer |-> t, ok |-> ok]
  <2>3. r.transfer = t
    OBVIOUS
  <2>. HIDE DEF r
  <2>4. \A i \in 1..Len(results') :
          \/ i \in 1..Len(results) /\ results'[i] = results[i]
          \/ i = Len(results) + 1 /\ results'[i] = r
    BY <2>1, <2>2, AppendPlaces DEF r
  <2>5. t \in unreported /\ t \in running /\ unreported' = unreported /\ running' = running \ {t}
    BY <1>4 DEF WorkEnds, TypeOK
  <2>6. \A i \in 1..Len(results) : results[i].transfer # t
    BY <2>5 DEF AgentInv, ResultsInv
  <2>7. ResultsInv'
    <3>1. \A i \in 1..Len(results') : results'[i].transfer \in unreported' \ running'
      BY <2>3, <2>4, <2>5, <2>6 DEF AgentInv, ResultsInv
    <3>2. \A i, j \in 1..Len(results') : results'[i].transfer = results'[j].transfer => i = j
      BY <2>3, <2>4, <2>6 DEF AgentInv, ResultsInv
    <3>. QED  BY <3>1, <3>2 DEF ResultsInv
  <2>8. LinkInv'
    BY <1>4 DEF AgentInv, LinkInv, WorkEnds
  <2>9. ReportInv'
    <3>1. results # <<>> => results' # <<>> /\ results'[1] = results[1]
      BY <2>1, <2>2 DEF r
    <3>. QED  BY <1>4, <3>1 DEF AgentInv, ReportInv, WorkEnds
  <2>. QED  BY <2>7, <2>8, <2>9 DEF AgentInv
<1>. QED  BY <1>1, <1>2, <1>3, <1>4 DEF WorkStep

\* The agent makes a call over its connection; a report of the first result, if none
\* is answered.
LEMMA AgentInvoked ==
  ASSUME TypeOK, AgentInv, NEW m, Invoke(m), link # 0,
         m.kind = "Report" => /\ results # <<>> /\ ~Has(down, {"Acked"})
                              /\ m.transfer = results[1].transfer /\ m.ok = results[1].ok,
         UNCHANGED <<link, conns, down, serving, unreported, running, results, registered>>
  PROVE  AgentInv'
<1>1. \A d \in Conns : call'[d] = IF d = link THEN m ELSE call[d]
  BY DEF Invoke, TypeOK
<1>2. link \in Conns /\ link \in Nat /\ conns \in Nat
  BY TransferBounds DEF TypeOK, Conns
<1>3. ResultsInv'
  BY DEF AgentInv, ResultsInv
<1>4. LinkInv'
  <2>1. \A c \in Conns : c > conns => c # link
    BY <1>2 DEF Conns, AgentInv, LinkInv
  <2>. QED  BY <1>1, <2>1 DEF AgentInv, LinkInv
<1>5. ReportInv'
  BY <1>1, <1>2 DEF AgentInv, ReportInv
<1>. QED  BY <1>3, <1>4, <1>5 DEF AgentInv

\* One result is taken for one answer.
LEMMA AgentWorker == TypeOK /\ AgentInv /\ WorkerStep => AgentInv'
<1>. SUFFICES ASSUME TypeOK, AgentInv, WorkerStep
              PROVE  AgentInv'
  OBVIOUS
<1>. USE DEF network, agent
<1>1. CASE Register
  <2>. DEFINE m == [kind |-> "Register", known |-> unreported]
  <2>1. m.kind # "Report"
    OBVIOUS
  <2>. HIDE DEF m
  <2>. QED  BY <1>1, <2>1, AgentInvoked DEF Register, m
<1>2. CASE RegisterDone
  <2>1. /\ Loses(down, down', {"Acked"}) /\ link # 0
        /\ UNCHANGED <<link, conns, call, serving, results, unreported, running>>
    BY <1>2 DEF RegisterDone, Loses, AgentInv, LinkInv
  <2>2. down \in Seq(Downward)
    BY DEF TypeOK
  <2>3. /\ Has(down', {"Acked"}) => Has(down, {"Acked"})
        /\ Once(down, {"Acked"}) => Once(down', {"Acked"})
    BY <2>1, <2>2, LosesMessages
  <2>. QED  BY <2>1, <2>3 DEF AgentInv, ResultsInv, LinkInv, ReportInv
<1>3. CASE Report
  <2>. DEFINE m == [kind |-> "Report", transfer |-> Head(results).transfer, ok |-> Head(results).ok]
  <2>1. m.transfer = results[1].transfer /\ m.ok = results[1].ok
    BY <1>3, TailPlaces DEF Report, TypeOK
  <2>2. ~Has(down, {"Acked"}) /\ link # 0
    BY <1>3 DEF Report, Has, AgentInv, LinkInv
  <2>. HIDE DEF m
  <2>. QED  BY <1>3, <2>1, <2>2, AgentInvoked DEF Report, m
<1>4. CASE Acked
  <2>1. /\ results # <<>> /\ Head(results) = results[1] /\ 1 \in 1..Len(results)
    BY <1>4, AckedReady
  <2>2. results \in Seq(Result) /\ down \in Seq(Downward)
    BY DEF TypeOK
  <2>3. \A i \in 1..Len(results') : i + 1 \in 2..Len(results) /\ results'[i] = results[i + 1]
    BY <1>4, <2>1, <2>2, TailPlaces DEF Acked
  <2>4. /\ Has(down, {"Acked"}) /\ ~Has(down', {"Acked"}) /\ Once(down', {"Acked"})
    BY <1>4, <2>2, TailMessages DEF Acked, AgentInv, ReportInv
  <2>5. /\ UNCHANGED <<link, conns, call, serving, running, registered>>
        /\ unreported' = unreported \ {Head(results).transfer} /\ down' = Tail(down) /\ down # <<>>
    BY <1>4 DEF Acked
  <2>6. ResultsInv'
    <3>1. \A i \in 1..Len(results') : i \in Nat /\ i + 1 \in 1..Len(results) /\ i + 1 # 1
      BY <2>2, <2>3, LenProperties
    <3>2. \A i \in 1..Len(results') : results'[i].transfer \in unreported' \ running'
      BY <2>1, <2>3, <2>5, <3>1 DEF AgentInv, ResultsInv
    <3>3. \A i, j \in 1..Len(results') : results'[i].transfer = results'[j].transfer => i + 1 = j + 1
      BY <2>3, <3>1 DEF AgentInv, ResultsInv
    <3>4. \A i, j \in 1..Len(results') : i + 1 = j + 1 => i = j
      BY <3>1
    <3>. QED  BY <3>2, <3>3, <3>4 DEF ResultsInv
  <2>7. LinkInv'
    BY <2>5 DEF AgentInv, LinkInv
  <2>8. ReportInv'
    BY <2>4, <2>5 DEF AgentInv, ReportInv
  <2>. QED  BY <2>6, <2>7, <2>8 DEF AgentInv
<1>5. CASE Connect
  <2>1. conns + 1 \in Conns /\ conns + 1 \in 0..MaxConns /\ conns + 1 > conns
    BY <1>5, TransferBounds DEF Connect, TypeOK, Conns
  <2>2. /\ link' = conns + 1 /\ conns' = conns + 1 /\ link = 0 /\ conns \in Nat
        /\ UNCHANGED <<down, call, serving, unreported, running, results, registered>>
    BY <1>5 DEF Connect, TypeOK
  <2>3. call[conns + 1] = NoCall /\ down = <<>>
    BY <2>1, <2>2 DEF AgentInv, LinkInv
  <2>4. ~Has(<<>>, {"Acked"})
    BY EmptyMessages
  <2>5. LinkInv'
    <3>1. \A c \in Conns : c > conns' => c > conns
      BY <2>2, TransferBounds DEF Conns
    <3>2. link' \in 0..conns' /\ link' # 0
      BY <2>2
    <3>. QED  BY <2>2, <3>1, <3>2 DEF AgentInv, LinkInv
  <2>6. ResultsInv'
    BY <2>2 DEF AgentInv, ResultsInv
  <2>7. ReportInv'
    BY <2>2, <2>3, <2>4 DEF AgentInv, ReportInv, NoCall
  <2>. QED  BY <2>5, <2>6, <2>7 DEF AgentInv
<1>. QED  BY <1>1, <1>2, <1>3, <1>4, <1>5 DEF WorkerStep

\* The connection is gone, and with it at most its call.
LEMMA AgentDropped ==
  ASSUME TypeOK, AgentInv, AgentDrops, UNCHANGED conns, serving' \subseteq serving,
         \A c \in Conns : call'[c] = call[c] \/ call'[c] = NoCall,
         UNCHANGED <<unreported, running, results>> \/ (results' = <<>> /\ unreported' = {} /\ running' = {})
  PROVE  AgentInv'
<1>1. ~Has(<<>>, {"Acked"}) /\ Once(<<>>, {"Acked"})
  BY EmptyMessages
<1>2. ReportInv'
  BY <1>1 DEF AgentDrops, ReportInv
<1>3. LinkInv'
  BY DEF AgentDrops, AgentInv, LinkInv, TypeOK
<1>4. ResultsInv'
  <2>1. CASE UNCHANGED <<unreported, running, results>>
    BY <2>1 DEF AgentInv, ResultsInv
  <2>2. CASE results' = <<>>
    <3>1. 1..Len(results') = {}
      BY <2>2, EmptySeq
    <3>. QED  BY <3>1 DEF ResultsInv
  <2>. QED  BY <2>1, <2>2
<1>. QED  BY <1>2, <1>3, <1>4 DEF AgentInv

\* Answers are lost with their connection.
LEMMA AgentFailure == TypeOK /\ AgentInv /\ Failure => AgentInv'
<1>. SUFFICES ASSUME TypeOK, AgentInv, Failure
              PROVE  AgentInv'
  OBVIOUS
<1>1. CallLost => \A c \in Conns : call'[c] = call[c] \/ call'[c] = NoCall
  BY DEF CallLost, TypeOK
<1>2. CASE LinkDrop
  BY <1>1, <1>2, AgentDropped DEF LinkDrop
<1>3. CASE AgentCrash
  BY <1>1, <1>3, AgentDropped DEF AgentCrash
<1>4. CASE ServerCrash
  <2>1. \A c \in Conns : call'[c] = NoCall
    BY <1>4 DEF ServerCrash
  <2>. QED  BY <1>4, <2>1, AgentDropped DEF ServerCrash
<1>. QED  BY <1>2, <1>3, <1>4 DEF Failure

\* Every step keeps what is tracked and reported.
LEMMA AgentStep == TypeOK /\ AgentInv /\ [Next]_vars => AgentInv'
<1>1. TypeOK /\ AgentInv /\ UNCHANGED vars => AgentInv'
  BY AgentFrame DEF vars, network, agent, Loses
<1>. QED  BY <1>1, AgentRequest, AgentEnd, AgentHub, AgentWork, AgentWorker, AgentFailure DEF Next

\* Every variable keeps its type.  The agent has a result to report for what it tracks
\* and no longer runs, each once; there is one report on its way at most, of the first
\* result; and the answer that makes the agent forget a result is the one to its report
\* (FileTransferService.MarkReported, AgentWorker.PumpOutboundAsync).
THEOREM AgentCorrect == Spec => [](TypeOK /\ AgentInv)
<1>1. Init => TypeOK /\ AgentInv
  <2>. SUFFICES ASSUME Init
                PROVE  TypeOK /\ AgentInv
    OBVIOUS
  <2>1. /\ 0 \in 0..MaxConns /\ 0 \in 0..MaxCrashes /\ NoCall \in Call
        /\ <<>> \in Seq(Downward) /\ <<>> \in Seq(Result)
    BY TransferBounds DEF Call
  <2>2. TypeOK
    BY <2>1 DEF Init, TypeOK, States, RequestSteps, HttpSteps
  <2>3. ~Has(<<>>, {"Acked"}) /\ Once(<<>>, {"Acked"}) /\ 1..Len(<<>>) = {}
    BY EmptyMessages, EmptySeq
  <2>4. AgentInv
    BY <2>3 DEF Init, AgentInv, ResultsInv, LinkInv, ReportInv
  <2>. QED  BY <2>2, <2>4
<1>2. TypeOK /\ AgentInv /\ [Next]_vars => TypeOK' /\ AgentInv'
  BY TypeStep, AgentStep
<1>. QED  BY <1>1, <1>2, PTL DEF Spec

-----------------------------------------------------------------------------
(* The end of a transfer: its row, its content and its waiter. *)

\* A request finds no row before it inserts one, and a handler only ends transfers that
\* have one; whoever frees a transfer has recorded its end.
EndsInv ==
  /\ \A t \in Transfers :
       /\ request[t].step \in {"new", "lookup", "insert"} => table[t] = "None"
       /\ request[t].step \in {"send", "wait"} => table[t] # "None"
       /\ request[t].step = "close" => table[t] \in Finished
  /\ \A o \in ops : \A t \in o.ts :
       /\ table[t] # "None"
       /\ o.step = "free" => table[t] \in Finished

\* A push that is pending, or on its way into the table, has its content.
PushInv ==
  \A t \in Transfers :
    kind[t] = "Push" /\ (table[t] = "Pending" \/ request[t].step \in {"lookup", "insert"}) => t \in content

\* A waiter is there from before the row until someone who ended the transfer took it.
WaitInv ==
  \A t \in awaited :
    /\ request[t].step \in {"lookup", "insert", "send", "close", "wait"} /\ t \notin waiter =>
         table[t] \in Finished
    /\ request[t].step \in {"send", "wait"} /\ t \in waiter /\ table[t] \in Finished =>
         \E o \in ops : t \in o.ts /\ o.step = "free"

TableInv == EndsInv /\ PushInv /\ FinishedIsFreed /\ WaitInv

\* Steps that at most read rows to end.
LEMMA TableFrame ==
  ASSUME TypeOK, TableInv, UNCHANGED <<asked, table, content, undeleted, request, waiter>>, ops \subseteq ops',
         \A o \in ops' \ ops : o.step = "save" /\ \A t \in o.ts : table[t] = "Pending",
         crashes > 0 => crashes' > 0
  PROVE  TableInv'
<1>. USE DEF asked
<1>1. EndsInv'
  <2>1. \A o \in ops' : o \notin ops => o.step # "free" /\ \A t \in o.ts : table[t] # "None"
    OBVIOUS
  <2>. QED  BY <2>1 DEF TableInv, EndsInv
<1>2. PushInv'
  BY DEF TableInv, PushInv
<1>3. FinishedIsFreed'
  BY DEF TableInv, FinishedIsFreed, At
<1>4. WaitInv'
  BY DEF TableInv, WaitInv
<1>. QED  BY <1>1, <1>2, <1>3, <1>4 DEF TableInv

\* The operation that a handler adds is about rows it found pending.
LEMMA OpsWithOpens ==
  ASSUME NEW c, NEW ts, NEW ok, ops' = OpsWith(c, Pending(ts), ok)
  PROVE  /\ ops \subseteq ops'
         /\ \A o \in ops' \ ops : o.step = "save" /\ \A t \in o.ts : table[t] = "Pending"
<1>. DEFINE p == Pending(ts)
<1>1. \A t \in p : table[t] = "Pending"
  BY DEF Pending
<1>. HIDE DEF p
<1>. QED  BY <1>1 DEF OpsWith, p

\* The steps of the requests.
LEMMA GoToStep ==
  ASSUME TypeOK, NEW t \in Transfers, NEW s, GoTo(t, s)
  PROVE  \A u \in Transfers : request'[u].step = IF u = t THEN s ELSE request[u].step
BY DEF TypeOK, GoTo

\* A request keeps its row, content and waiter in step.
LEMMA TableRequest == TypeOK /\ TableInv /\ RequestStep => TableInv'
<1>. SUFFICES ASSUME TypeOK, TableInv, NEW t \in Transfers,
                     \/ Prepare(t) \/ Lookup(t) \/ Insert(t) \/ Send(t) \/ Close(t)
                     \/ Wake(t) \/ WaitCancelled(t) \/ UserCancel(t) \/ ForceCancel(t)
              PROVE  TableInv'
  BY DEF RequestStep
<1>. USE DEF At, asked, disk
<1>0. awaited \subseteq Transfers
  BY DEF TypeOK
<1>1. CASE Prepare(t)
  <2>1. \A u \in Transfers : request'[u].step = IF u = t THEN "lookup" ELSE request[u].step
    BY <1>1, GoToStep DEF Prepare
  <2>2. /\ request[t].step = "new" /\ UNCHANGED <<kind, awaited, table, undeleted, ops, crashes>>
        /\ content \subseteq content' /\ content' \subseteq content \cup {t}
        /\ kind[t] = "Push" => t \in content'
        /\ waiter \subseteq waiter' /\ waiter' \subseteq waiter \cup {t}
        /\ t \in awaited => t \in waiter'
    BY <1>1 DEF Prepare, Stored, WaitEarly
  <2>3. table[t] = "None"
    BY <2>2 DEF TableInv, EndsInv
  <2>4. EndsInv'
    BY <2>1, <2>2, <2>3 DEF TableInv, EndsInv
  <2>5. PushInv'
    BY <2>1, <2>2 DEF TableInv, PushInv
  <2>6. FinishedIsFreed'
    BY <2>1, <2>2, <2>3 DEF TableInv, FinishedIsFreed, Finished, TypeOK
  <2>7. WaitInv'
    BY <1>0, <2>1, <2>2, <2>3 DEF TableInv, WaitInv, Finished
  <2>. QED  BY <2>4, <2>5, <2>6, <2>7 DEF TableInv
<1>2. CASE Lookup(t)
  <2>1. \A u \in Transfers : request'[u].step = IF u = t THEN "insert" ELSE request[u].step
    BY <1>2 DEF Lookup, TypeOK
  <2>2. request[t].step = "lookup" /\ UNCHANGED <<kind, awaited, table, content, undeleted, waiter, ops, crashes>>
    BY <1>2 DEF Lookup
  <2>3. EndsInv'
    BY <2>1, <2>2 DEF TableInv, EndsInv
  <2>4. PushInv'
    BY <2>1, <2>2 DEF TableInv, PushInv
  <2>5. FinishedIsFreed'
    BY <2>1, <2>2 DEF TableInv, FinishedIsFreed, TypeOK
  <2>6. WaitInv'
    BY <1>0, <2>1, <2>2 DEF TableInv, WaitInv
  <2>. QED  BY <2>3, <2>4, <2>5, <2>6 DEF TableInv
<1>3. CASE Insert(t)
  <2>. DEFINE s == IF request[t].conn # 0 THEN "send" ELSE "close"
  <2>1. \A u \in Transfers : request'[u].step = IF u = t THEN s ELSE request[u].step
    BY <1>3, GoToStep DEF Insert
  <2>2. \A u \in Transfers : table'[u] = IF u = t THEN IF s = "send" THEN "Pending" ELSE "Failed" ELSE table[u]
    BY <1>3 DEF Insert, TypeOK
  <2>3. request[t].step = "insert" /\ UNCHANGED <<kind, awaited, content, undeleted, waiter, ops, crashes>> /\ s \in {"send", "close"}
    BY <1>3 DEF Insert
  <2>. HIDE DEF s
  <2>4. table[t] = "None"
    BY <2>3 DEF TableInv, EndsInv
  <2>5. \A o \in ops : t \notin o.ts /\ o.ts \subseteq Transfers
    BY <2>4 DEF TableInv, EndsInv, TypeOK, Op
  <2>6. EndsInv'
    <3>1. \A o \in ops : \A u \in o.ts : table'[u] = table[u]
      BY <2>2, <2>5
    <3>. QED  BY <2>1, <2>2, <2>3, <3>1 DEF TableInv, EndsInv, Finished
  <2>7. PushInv'
    BY <2>1, <2>2, <2>3 DEF TableInv, PushInv
  <2>8. FinishedIsFreed'
    BY <2>1, <2>2, <2>3 DEF TableInv, FinishedIsFreed, TypeOK, Finished
  <2>9. WaitInv'
    BY <1>0, <2>1, <2>2, <2>3, <2>4 DEF TableInv, WaitInv, Finished
  <2>. QED  BY <2>6, <2>7, <2>8, <2>9 DEF TableInv
<1>4. CASE Send(t)
  <2>. DEFINE s == IF t \in awaited THEN "wait" ELSE "done"
  <2>1. \A u \in Transfers : request'[u].step = IF u = t THEN s ELSE request[u].step
    BY <1>4, GoToStep DEF Send, AfterDispatch
  <2>2. request[t].step = "send" /\ UNCHANGED <<kind, awaited, table, content, undeleted, waiter, ops, crashes>> /\ s \in {"wait", "done"}
    BY <1>4 DEF Send, WaitLate
  <2>. HIDE DEF s
  <2>3. EndsInv'
    BY <2>1, <2>2 DEF TableInv, EndsInv
  <2>4. PushInv'
    BY <2>1, <2>2 DEF TableInv, PushInv
  <2>5. FinishedIsFreed'
    BY <2>1, <2>2 DEF TableInv, FinishedIsFreed, TypeOK
  <2>6. WaitInv'
    BY <1>0, <2>1, <2>2 DEF TableInv, WaitInv
  <2>. QED  BY <2>3, <2>4, <2>5, <2>6 DEF TableInv
<1>5. CASE Close(t)
  <2>. DEFINE s == IF t \in awaited THEN "wait" ELSE "done"
  <2>1. \A u \in Transfers : request'[u].step = IF u = t THEN s ELSE request[u].step
    BY <1>5, GoToStep DEF Close, AfterDispatch
  <2>2. /\ request[t].step = "close" /\ UNCHANGED <<kind, awaited, table, ops, crashes>> /\ s \in {"wait", "done"}
        /\ waiter' = waiter \ {t}
    BY <1>5 DEF Close
  <2>0. /\ content' \subseteq content /\ undeleted \subseteq undeleted'
        /\ \A u \in content : u # t => u \in content'
        /\ t \in content' => t \in undeleted'
    BY <1>5, DeleteLeaves DEF Close
  <2>. HIDE DEF s
  <2>3. table[t] \in Finished
    BY <2>2 DEF TableInv, EndsInv
  <2>4. EndsInv'
    BY <2>1, <2>2, <2>3 DEF TableInv, EndsInv, Finished
  <2>5. PushInv'
    BY <2>0, <2>1, <2>2, <2>3 DEF TableInv, PushInv, Finished
  <2>6. FinishedIsFreed'
    BY <2>0, <2>1, <2>2 DEF TableInv, FinishedIsFreed, TypeOK
  <2>7. WaitInv'
    BY <1>0, <2>1, <2>2, <2>3 DEF TableInv, WaitInv
  <2>. QED  BY <2>4, <2>5, <2>6, <2>7 DEF TableInv
<1>6. CASE Wake(t) \/ WaitCancelled(t)
  <2>1. \A u \in Transfers : request'[u].step = IF u = t THEN "done" ELSE request[u].step
    BY <1>6, GoToStep DEF Wake, WaitCancelled
  <2>2. request[t].step = "wait" /\ UNCHANGED <<kind, awaited, table, content, undeleted, waiter, ops, crashes>>
    BY <1>6 DEF Wake, WaitCancelled
  <2>3. EndsInv'
    BY <2>1, <2>2 DEF TableInv, EndsInv
  <2>4. PushInv'
    BY <2>1, <2>2 DEF TableInv, PushInv
  <2>5. FinishedIsFreed'
    BY <2>1, <2>2 DEF TableInv, FinishedIsFreed, TypeOK
  <2>6. WaitInv'
    BY <1>0, <2>1, <2>2 DEF TableInv, WaitInv
  <2>. QED  BY <2>3, <2>4, <2>5, <2>6 DEF TableInv
<1>7. CASE UserCancel(t)
  BY <1>7, TableFrame DEF UserCancel
<1>8. CASE ForceCancel(t)
  BY <1>8, TableFrame, OpsWithOpens DEF ForceCancel
<1>. QED  BY <1>1, <1>2, <1>3, <1>4, <1>5, <1>6, <1>7, <1>8

\* A handler saves the end before it frees.
LEMMA TableEnd == TypeOK /\ TableInv /\ EndStep => TableInv'
<1>. SUFFICES ASSUME TypeOK, TableInv, NEW o \in ops, Save(o) \/ Free(o)
              PROVE  TableInv'
  BY DEF EndStep
<1>. USE DEF At, asked, disk
<1>0. awaited \subseteq Transfers /\ o \in Op /\ o.ts \subseteq Transfers
  BY DEF TypeOK, Op
<1>1. CASE Save(o)
  <2>. DEFINE p == [o EXCEPT !.step = "free"]
              s == IF o.ok THEN "Succeeded" ELSE "Failed"
  <2>1. p.step = "free" /\ p.ts = o.ts /\ s \in Finished
    BY <1>0 DEF Op, Finished
  <2>2. /\ o.step = "save" /\ ops' = (ops \ {o}) \cup {p}
        /\ \A t \in Transfers : table'[t] = IF t \in o.ts THEN s ELSE table[t]
        /\ UNCHANGED <<kind, awaited, request, content, undeleted, waiter, crashes>>
    BY <1>1 DEF Save
  <2>. HIDE DEF p, s
  <2>3. \A q \in ops : q.step = "free" => q \in ops'
    BY <2>2
  <2>4. \A t \in o.ts : table[t] # "None"
    BY DEF TableInv, EndsInv
  <2>5. EndsInv'
    <3>1. \A t \in Transfers :
            /\ table'[t] = "None" <=> table[t] = "None"
            /\ table[t] \in Finished => table'[t] \in Finished
      BY <2>1, <2>2, <2>4 DEF Finished
    <3>2. \A q \in ops' : \A t \in q.ts :
            table'[t] # "None" /\ (q.step = "free" => table'[t] \in Finished)
      <4>. SUFFICES ASSUME NEW q \in ops', NEW t \in q.ts
                    PROVE  table'[t] # "None" /\ (q.step = "free" => table'[t] \in Finished)
        OBVIOUS
      <4>1. CASE q = p
        BY <1>0, <2>1, <2>2, <4>1 DEF Finished
      <4>2. CASE q \in ops
        <5>1. t \in Transfers
          BY <4>2 DEF TypeOK, Op
        <5>. QED  BY <3>1, <4>2, <5>1 DEF TableInv, EndsInv
      <4>. QED  BY <2>2, <4>1, <4>2
    <3>. QED  BY <2>2, <3>1, <3>2 DEF TableInv, EndsInv
  <2>6. PushInv'
    BY <2>1, <2>2 DEF TableInv, PushInv, Finished
  <2>7. FinishedIsFreed'
    <3>. SUFFICES ASSUME NEW t \in content', table'[t] \in Finished
                  PROVE  \/ \E q \in ops' : t \in q.ts /\ q.step = "free"
                         \/ request'[t].step = "close"
                         \/ t \in undeleted'
                         \/ crashes' > 0
      BY DEF FinishedIsFreed
    <3>1. CASE t \in o.ts
      BY <2>1, <2>2, <3>1
    <3>2. CASE t \notin o.ts
      <4>1. t \in content /\ t \in Transfers /\ table[t] \in Finished
        BY <2>2, <3>2 DEF TypeOK
      <4>. QED  BY <2>2, <2>3, <4>1 DEF TableInv, FinishedIsFreed
    <3>. QED  BY <3>1, <3>2
  <2>8. WaitInv'
    <3>. SUFFICES ASSUME NEW t \in awaited
                  PROVE  /\ request[t].step \in {"lookup", "insert", "send", "close", "wait"} /\ t \notin waiter =>
                              table'[t] \in Finished
                         /\ request[t].step \in {"send", "wait"} /\ t \in waiter /\ table'[t] \in Finished =>
                              \E q \in ops' : t \in q.ts /\ q.step = "free"
      BY <2>2 DEF WaitInv
    <3>1. CASE t \in o.ts
      BY <1>0, <2>1, <2>2, <3>1
    <3>2. CASE t \notin o.ts
      BY <1>0, <2>2, <2>3, <3>2 DEF TableInv, WaitInv
    <3>. QED  BY <3>1, <3>2
  <2>. QED  BY <2>5, <2>6, <2>7, <2>8 DEF TableInv
<1>2. CASE Free(o)
  <2>1. /\ o.step = "free" /\ ops' = ops \ {o}
        /\ waiter' = waiter \ o.ts
        /\ UNCHANGED <<kind, awaited, table, request, crashes>>
    BY <1>2 DEF Free
  <2>0. /\ content' \subseteq content /\ undeleted \subseteq undeleted'
        /\ \A t \in content : t \notin o.ts => t \in content'
        /\ \A t \in content' : t \in o.ts => t \in undeleted'
    BY <1>0, <1>2, DeleteLeaves DEF Free
  <2>2. \A t \in o.ts : table[t] \in Finished
    BY <2>1 DEF TableInv, EndsInv
  <2>3. \A t \in Transfers : t \notin o.ts => \A q \in ops : t \in q.ts => q \in ops'
    BY <2>1
  <2>4. EndsInv'
    BY <2>1 DEF TableInv, EndsInv
  <2>5. PushInv'
    BY <2>0, <2>1, <2>2 DEF TableInv, EndsInv, PushInv, Finished
  <2>6. FinishedIsFreed'
    BY <2>0, <2>1, <2>3 DEF TableInv, FinishedIsFreed, TypeOK
  <2>7. WaitInv'
    BY <1>0, <2>1, <2>2, <2>3 DEF TableInv, WaitInv
  <2>. QED  BY <2>4, <2>5, <2>6, <2>7 DEF TableInv
<1>. QED  BY <1>1, <1>2

\* The hub's calls at most read rows to end.
LEMMA TableHub == TypeOK /\ TableInv /\ HubStep => TableInv'
<1>. SUFFICES ASSUME TypeOK, TableInv, NEW c \in Conns,
                     RegisterRead(c) \/ RegisterSet(c) \/ ReportRead(c) \/ OnDisconnected(c)
              PROVE  TableInv'
  BY DEF HubStep
<1>1. CASE RegisterRead(c)
  BY <1>1, OpsWithOpens, TableFrame DEF RegisterRead, disk
<1>2. CASE ReportRead(c)
  BY <1>2, OpsWithOpens, TableFrame DEF ReportRead, disk
<1>3. CASE RegisterSet(c) \/ OnDisconnected(c)
  BY <1>3, TableFrame DEF RegisterSet, OnDisconnected, disk
<1>. QED  BY <1>1, <1>2, <1>3

\* The agent changes nothing of it.
LEMMA TableAgent == TypeOK /\ TableInv /\ (WorkStep \/ WorkerStep) => TableInv'
<1>. SUFFICES ASSUME TypeOK, TableInv, WorkStep \/ WorkerStep
              PROVE  TableInv'
  OBVIOUS
<1>1. UNCHANGED <<asked, table, content, undeleted, request, waiter, ops, crashes>>
  <2>1. WorkStep => UNCHANGED <<asked, table, content, undeleted, request, waiter, ops, crashes>>
    BY DEF WorkStep, StartTransfer, CancelTransfer, HttpOpen, HttpStored, HttpBroken, WorkEnds, disk, memory
  <2>2. WorkerStep => UNCHANGED <<asked, table, content, undeleted, request, waiter, ops, crashes>>
    BY DEF WorkerStep, Register, RegisterDone, Report, Acked, Connect, disk, memory
  <2>. QED  BY <2>1, <2>2
<1>. QED  BY <1>1, TableFrame

\* A crash of the server ends its requests, and nothing is said of freed contents then.
LEMMA TableFailure == TypeOK /\ TableInv /\ Failure => TableInv'
<1>. SUFFICES ASSUME TypeOK, TableInv, Failure
              PROVE  TableInv'
  OBVIOUS
<1>0. crashes > 0 => crashes + 1 > 0
  BY TransferBounds DEF TypeOK
<1>1. CASE LinkDrop
  BY <1>1, TableFrame DEF LinkDrop, disk, memory
<1>2. CASE AgentCrash
  BY <1>0, <1>2, TableFrame DEF AgentCrash, disk, memory
<1>3. CASE ServerCrash
  <2>1. \A t \in Transfers : request'[t].step \in {"new", "done"} /\ (request'[t].step = "new" => request[t].step = "new")
    BY <1>3 DEF ServerCrash, At
  <2>2. crashes' > 0
    BY <1>3, TransferBounds DEF ServerCrash, TypeOK
  <2>3. UNCHANGED <<kind, awaited, table, content>> /\ ops' = {}
    BY <1>3 DEF ServerCrash, disk, asked
  <2>4. EndsInv' /\ PushInv'
    BY <2>1, <2>3 DEF TableInv, EndsInv, PushInv
  <2>5. FinishedIsFreed'
    BY <2>2 DEF FinishedIsFreed
  <2>6. WaitInv'
    BY <2>1, <2>3 DEF WaitInv, TypeOK
  <2>. QED  BY <2>4, <2>5, <2>6 DEF TableInv
<1>. QED  BY <1>1, <1>2, <1>3 DEF Failure

\* Every step keeps it.
LEMMA TableStep == TypeOK /\ TableInv /\ [Next]_vars => TableInv'
<1>1. TypeOK /\ TableInv /\ UNCHANGED vars => TableInv'
  BY TableFrame DEF vars, disk, memory
<1>. QED  BY <1>1, TableRequest, TableEnd, TableHub, TableAgent, TableFailure DEF Next

\* What the server keeps of a transfer outside its row is there as long as it is needed:
\* the content of a push until its end is recorded, the waiter until someone who recorded
\* it took it.
THEOREM TableCorrect == Spec => []TableInv
<1>1. Init => TableInv
  <2>. SUFFICES ASSUME Init
                PROVE  TableInv
    OBVIOUS
  <2>1. EndsInv /\ PushInv /\ FinishedIsFreed
    BY DEF Init, EndsInv, PushInv, FinishedIsFreed, Finished
  <2>2. WaitInv
    BY DEF Init, WaitInv
  <2>. QED  BY <2>1, <2>2 DEF TableInv
<1>2. TypeOK /\ TableInv /\ [Next]_vars => TableInv'
  BY TableStep
<1>. QED  BY <1>1, <1>2, AgentCorrect, PTL DEF Spec

\* The content of a push is there as long as the agent may fetch it, and its deletion is
\* tried by whoever ended the transfer (MarkCompletedAsync, ForceCancelAsync,
\* FailOrphanedAsync, DispatchAsync).
THEOREM ContentCorrect == Spec => []ContentIsThere
<1>1. TypeOK /\ TableInv => ContentIsThere
  BY DEF TableInv, PushInv, ContentIsThere, PendingHasContent
<1>. QED  BY <1>1, AgentCorrect, TableCorrect, PTL

\* CollectAndWaitAsync and PushAndWaitAsync return when their transfer is over, and never
\* miss that it is, whichever handler ended it (CompletionNotifier).
THEOREM WaitersCorrect == Spec => []WaitersAreTold
<1>1. TypeOK /\ TableInv => WaitersAreTold
  BY DEF TableInv, WaitInv, WaitersAreTold, WokenIsFinished, FinishedIsWoken, At
<1>. QED  BY <1>1, AgentCorrect, TableCorrect, PTL

-----------------------------------------------------------------------------
(* A success is work done, all the way from the agent to the table. *)

\* The work of t ended without an error and every file of it got where it should.
Real(t) == t \in worked /\ arrived[t] = found[t]

\* No more files are moved than there are, and a success that is on its way, decided on or
\* recorded is real.
HttpInv ==
  \A t \in Transfers : arrived[t] <= found[t] /\ (http[t] = "open" => arrived[t] < found[t])
RealInv ==
  /\ HttpInv
  /\ \A i \in 1..Len(results) : results[i].ok => Real(results[i].transfer)
  /\ \A c \in Conns : call[c].kind = "Report" /\ call[c].ok => Real(call[c].transfer)
  /\ \A o \in ops : o.ok => \A t \in o.ts : Real(t)
  /\ \A t \in Transfers : table[t] = "Succeeded" => Real(t)

\* What is real stays so; no result, call, operation or row claims anything else.
LEMMA RealFrame ==
  ASSUME TypeOK, RealInv, HttpInv',
         \A t \in Transfers : Real(t) => Real(t)',
         (\A i \in 1..Len(results) : results[i].ok => Real(results[i].transfer))',
         \A c \in Conns : call'[c] = call[c] \/ (call'[c].kind = "Report" /\ call'[c].ok => Real(call'[c].transfer)),
         \A o \in ops' \ ops : o.ok => \A t \in o.ts : Real(t),
         \A t \in Transfers : table'[t] = "Succeeded" => table[t] = "Succeeded" \/ Real(t),
         call' \in [Conns -> Call], ops' \subseteq Op
  PROVE  RealInv'
<1>3. \A c \in Conns : call'[c].kind = "Report" => call'[c].transfer \in Transfers
  <2>. SUFFICES ASSUME NEW c \in Conns, call'[c].kind = "Report"
                PROVE  call'[c].transfer \in Transfers
    OBVIOUS
  <2>1. call'[c] \in Call
    OBVIOUS
  <2>. QED  BY <2>1 DEF Call, NoCall
<1>4. \A o \in ops' : o.ts \subseteq Transfers
  BY DEF Op
<1>6. (\A c \in Conns : call[c].kind = "Report" /\ call[c].ok => Real(call[c].transfer))'
  BY <1>3 DEF RealInv
<1>7. (\A o \in ops : o.ok => \A t \in o.ts : Real(t))'
  <2>1. \A o \in ops' : o.ok => \A t \in o.ts : Real(t)
    BY DEF RealInv
  <2>. QED  BY <1>4, <2>1
<1>8. (\A t \in Transfers : table[t] = "Succeeded" => Real(t))'
  BY DEF RealInv
<1>. QED  BY <1>6, <1>7, <1>8 DEF RealInv

\* The same for steps that move nothing and report nothing new.
LEMMA RealRest ==
  ASSUME TypeOK, RealInv, UNCHANGED <<found, arrived, worked, results>>,
         \A t \in Transfers : http'[t] = "open" => http[t] = "open",
         \A c \in Conns : call'[c] = call[c] \/ (call'[c].kind = "Report" /\ call'[c].ok => Real(call'[c].transfer)),
         \A o \in ops' \ ops : o.ok => \A t \in o.ts : Real(t),
         \A t \in Transfers : table'[t] = "Succeeded" => table[t] = "Succeeded" \/ Real(t),
         call' \in [Conns -> Call], ops' \subseteq Op
  PROVE  RealInv'
<1>1. \A t : Real(t) <=> Real(t)'
  BY DEF Real
<1>2. HttpInv'
  BY DEF RealInv, HttpInv
<1>3. (\A i \in 1..Len(results) : results[i].ok => Real(results[i].transfer))'
  BY <1>1 DEF RealInv
<1>. QED  BY <1>1, <1>2, <1>3, RealFrame

\* Nor is one claimed by the answer to a call.
LEMMA AnsweredReal ==
  ASSUME TypeOK, NEW c \in Conns, NEW k, Answer(c, k) \/ UNCHANGED <<call, serving, down>>
  PROVE  \A d \in Conns : call'[d] = call[d] \/ call'[d].kind # "Report"
BY DEF Answer, TypeOK, NoCall

\* Every step passes on successes that are real.
LEMMA RealStep == TypeOK /\ AgentInv /\ RealInv /\ [Next]_vars => RealInv'
<1>. SUFFICES ASSUME TypeOK, AgentInv, RealInv, [Next]_vars
              PROVE  RealInv'
  OBVIOUS
<1>. USE DEF asked, disk, memory, network, agent
<1>0. /\ call' \in [Conns -> Call] /\ ops' \subseteq Op
      /\ call \in [Conns -> Call]
  BY TypeStep DEF TypeOK
<1>1. CASE RequestStep
  <2>1. PICK t \in Transfers : \/ Prepare(t) \/ Lookup(t) \/ Insert(t) \/ Send(t) \/ Close(t)
                               \/ Wake(t) \/ WaitCancelled(t) \/ UserCancel(t) \/ ForceCancel(t)
    BY <1>1 DEF RequestStep
  <2>2. UNCHANGED <<found, arrived, worked, http, results, call>>
    BY <2>1 DEF Prepare, Lookup, Insert, Send, Close, Wake, WaitCancelled, UserCancel, ForceCancel
  <2>3. \A u \in Transfers : table'[u] = "Succeeded" => table[u] = "Succeeded"
    BY <2>1 DEF Prepare, Lookup, Insert, Send, Close, Wake, WaitCancelled, UserCancel, ForceCancel, TypeOK
  <2>4. \A o \in ops' \ ops : ~o.ok
    BY <2>1 DEF Prepare, Lookup, Insert, Send, Close, Wake, WaitCancelled, UserCancel, ForceCancel, OpsWith
  <2>. QED  BY <1>0, <2>2, <2>3, <2>4, RealRest DEF RealInv
<1>2. CASE EndStep
  <2>1. PICK o \in ops : Save(o) \/ Free(o)
    BY <1>2 DEF EndStep
  <2>2. UNCHANGED <<found, arrived, worked, http, results>> /\ o \in Op
    BY <2>1 DEF Save, Free, TypeOK
  <2>3. CASE Save(o)
    <3>1. \A q \in ops' \ ops : q.ok = o.ok /\ q.ts = o.ts
      BY <2>2, <2>3 DEF Save, Op
    <3>2. \A u \in Transfers : table'[u] = "Succeeded" => table[u] = "Succeeded" \/ (u \in o.ts /\ o.ok)
      BY <2>3 DEF Save
    <3>3. o.ok => \A u \in o.ts : Real(u)
      BY DEF RealInv
    <3>4. UNCHANGED call
      BY <2>3 DEF Save
    <3>. QED  BY <1>0, <2>2, <3>1, <3>2, <3>3, <3>4, RealRest DEF RealInv
  <2>4. CASE Free(o)
    <3>1. \A d \in Conns : call'[d] = call[d] \/ call'[d].kind # "Report"
      <4>1. CASE UNCHANGED call
        BY <4>1
      <4>2. CASE o.conn # 0 /\ Answer(o.conn, "Acked")
        BY <2>2, <4>2, AnsweredReal DEF Op, Conns
      <4>. QED  BY <2>4, <4>1, <4>2 DEF Free
    <3>2. UNCHANGED table /\ ops' \subseteq ops
      BY <2>4 DEF Free
    <3>. QED  BY <1>0, <2>2, <3>1, <3>2, RealRest DEF RealInv
  <2>. QED  BY <2>1, <2>3, <2>4
<1>3. CASE HubStep
  <2>1. PICK c \in Conns : RegisterRead(c) \/ RegisterSet(c) \/ ReportRead(c) \/ OnDisconnected(c)
    BY <1>3 DEF HubStep
  <2>2. UNCHANGED <<found, arrived, worked, http, results, table>>
    BY <2>1 DEF RegisterRead, RegisterSet, ReportRead, OnDisconnected
  <2>3. \A d \in Conns : call'[d] = call[d] \/ call'[d].kind # "Report"
    <3>1. CASE UNCHANGED call
      BY <3>1
    <3>2. CASE Answer(c, "Registered") \/ Answer(c, "Acked")
      BY <3>2, AnsweredReal
    <3>3. CASE OnDisconnected(c)
      BY <3>3 DEF OnDisconnected, TypeOK, NoCall
    <3>. QED  BY <2>1, <3>1, <3>2, <3>3 DEF RegisterRead, RegisterSet, ReportRead
  <2>4. \A o \in ops' \ ops : o.ok => \A t \in o.ts : Real(t)
    <3>1. CASE RegisterRead(c)
      BY <3>1 DEF RegisterRead, OpsWith
    <3>2. CASE RegisterSet(c) \/ OnDisconnected(c)
      BY <3>2 DEF RegisterSet, OnDisconnected
    <3>3. CASE ReportRead(c)
      <4>1. call[c].ok => Real(call[c].transfer)
        BY <3>3 DEF ReportRead, Serves, RealInv
      <4>2. \A t \in Pending({call[c].transfer}) : t = call[c].transfer
        BY DEF Pending
      <4>3. \A o \in ops' \ ops : o.ok = call[c].ok /\ o.ts = Pending({call[c].transfer})
        BY <3>3 DEF ReportRead, OpsWith
      <4>. QED  BY <4>1, <4>2, <4>3
    <3>. QED  BY <2>1, <3>1, <3>2, <3>3
  <2>. QED  BY <1>0, <2>2, <2>3, <2>4, RealRest DEF RealInv
<1>4. CASE WorkStep
  <2>1. CASE StartTransfer \/ CancelTransfer
    BY <1>0, <2>1, RealRest DEF StartTransfer, CancelTransfer, RealInv
  <2>2. ASSUME NEW t \in Transfers, HttpOpen(t) \/ HttpStored(t) \/ HttpBroken(t)
        PROVE  RealInv'
    <3>1. /\ \A u \in Transfers : u # t => arrived'[u] = arrived[u] /\ http'[u] = http[u]
          /\ UNCHANGED <<found, worked, table, ops, call, results>>
      BY <2>2 DEF HttpOpen, HttpStored, HttpBroken, TypeOK
    <3>2. /\ arrived[t] <= found[t] /\ (http[t] = "open" => arrived[t] < found[t])
          /\ arrived[t] \in Nat /\ found[t] \in Nat
      BY TransferBounds DEF RealInv, HttpInv, TypeOK
    <3>3. /\ arrived'[t] = arrived[t] \/ (arrived[t] < found[t] /\ arrived'[t] = arrived[t] + 1)
          /\ http'[t] = "open" => arrived'[t] = arrived[t] /\ arrived[t] < found[t]
      BY <2>2, <3>2 DEF HttpOpen, HttpStored, HttpBroken, TypeOK
    <3>4. HttpInv'
      BY <3>1, <3>2, <3>3 DEF RealInv, HttpInv
    <3>5. \A u \in Transfers : Real(u) => Real(u)'
      BY <3>1, <3>2, <3>3 DEF Real
    <3>6. (\A i \in 1..Len(results) : results[i].ok => Real(results[i].transfer))'
      <4>1. \A i \in 1..Len(results) : results[i].transfer \in Transfers
        <5>1. \A i \in 1..Len(results) : results[i] \in Result
          BY ElementOfSeq DEF TypeOK
        <5>. QED  BY <5>1 DEF Result
      <4>. QED  BY <3>1, <3>5, <4>1 DEF RealInv
    <3>. QED  BY <1>0, <3>1, <3>4, <3>5, <3>6, RealFrame
  <2>3. ASSUME NEW t \in Transfers, WorkEnds(t)
        PROVE  RealInv'
    <3>1. PICK ok \in Outcomes(t) : /\ results' = Append(results, [transfer |-> t, ok |-> ok])
                                     /\ worked' = IF ok THEN worked \cup {t} ELSE worked
      BY <2>3 DEF WorkEnds
    <3>2. UNCHANGED <<found, arrived, http, table, ops, call>>
      BY <2>3 DEF WorkEnds
    <3>. DEFINE r == [transfer |-> t, ok |-> ok]
    <3>3. r.transfer = t /\ (r.ok => Real(t)')
      BY <3>1, <3>2 DEF Outcomes, Real
    <3>. HIDE DEF r
    <3>4. \A u : Real(u) => Real(u)'
      BY <3>1, <3>2 DEF Real
    <3>5. \A i \in 1..Len(results') :
            \/ i \in 1..Len(results) /\ results'[i] = results[i]
            \/ results'[i] = r
      <4>1. results \in Seq(Result)
        BY DEF TypeOK
      <4>. QED  BY <3>1, <4>1, AppendPlaces DEF r
    <3>6. (\A i \in 1..Len(results) : results[i].ok => Real(results[i].transfer))'
      BY <3>3, <3>4, <3>5 DEF RealInv
    <3>7. HttpInv'
      BY <3>2 DEF RealInv, HttpInv
    <3>. QED  BY <1>0, <3>2, <3>4, <3>6, <3>7, RealFrame
  <2>. QED  BY <1>4, <2>1, <2>2, <2>3 DEF WorkStep
<1>5. CASE WorkerStep
  <2>1. UNCHANGED <<found, arrived, worked, http, table, ops>>
    BY <1>5 DEF WorkerStep, Register, RegisterDone, Report, Acked, Connect
  <2>0. HttpInv' /\ \A u : Real(u) <=> Real(u)'
    BY <2>1 DEF RealInv, HttpInv, Real
  <2>2. CASE Register \/ RegisterDone \/ Connect
    <3>1. \A c \in Conns : call'[c] = call[c] \/ call'[c].kind # "Report"
      BY <2>2 DEF Register, RegisterDone, Connect, Invoke, TypeOK
    <3>2. UNCHANGED results
      BY <2>2 DEF Register, RegisterDone, Connect
    <3>. QED  BY <1>0, <2>1, <3>1, <3>2, RealRest DEF RealInv
  <2>3. CASE Report
    <3>. DEFINE m == [kind |-> "Report", transfer |-> Head(results).transfer, ok |-> Head(results).ok]
    <3>1. 1 \in 1..Len(results) /\ Head(results) = results[1]
      BY <2>3, TailPlaces DEF Report, TypeOK
    <3>2. m.ok => Real(m.transfer)
      BY <3>1 DEF RealInv
    <3>. HIDE DEF m
    <3>3. \A c \in Conns : call'[c] = call[c] \/ call'[c] = m
      BY <2>3 DEF Report, Invoke, TypeOK, m
    <3>4. UNCHANGED results
      BY <2>3 DEF Report
    <3>. QED  BY <1>0, <2>1, <3>2, <3>3, <3>4, RealRest DEF RealInv
  <2>4. CASE Acked
    <3>1. results # <<>> /\ results \in Seq(Result) /\ results' = Tail(results) /\ UNCHANGED call
      BY <2>4, AckedReady DEF Acked, TypeOK
    <3>2. \A i \in 1..Len(results') : i + 1 \in 2..Len(results) /\ results'[i] = results[i + 1]
      BY <3>1, TailPlaces
    <3>3. \A i \in 1..Len(results') : i + 1 \in 1..Len(results)
      BY <3>2
    <3>4. \A i \in 1..Len(results') : results'[i].ok => Real(results'[i].transfer)
      BY <3>2, <3>3 DEF RealInv
    <3>. QED  BY <1>0, <2>0, <2>1, <3>1, <3>4, RealFrame
  <2>. QED  BY <1>5, <2>2, <2>3, <2>4 DEF WorkerStep
<1>6. CASE Failure
  <2>1. \A c \in Conns : call'[c] = call[c] \/ call'[c] = NoCall
    BY <1>6 DEF Failure, LinkDrop, AgentCrash, ServerCrash, CallLost, TypeOK
  <2>2. \A t \in Transfers : http'[t] = "open" => http[t] = "open"
    BY <1>6 DEF Failure, LinkDrop, AgentCrash, ServerCrash
  <2>3. UNCHANGED <<found, arrived, worked, table>> /\ ops' \subseteq ops
    BY <1>6 DEF Failure, LinkDrop, AgentCrash, ServerCrash
  <2>0. HttpInv' /\ \A u : Real(u) <=> Real(u)'
    BY <2>2, <2>3 DEF RealInv, HttpInv, Real
  <2>4. (\A i \in 1..Len(results) : results[i].ok => Real(results[i].transfer))'
    <3>1. results' = results \/ results' = <<>>
      BY <1>6 DEF Failure, LinkDrop, AgentCrash, ServerCrash
    <3>2. 1..Len(<<>>) = {}
      BY EmptySeq
    <3>. QED  BY <2>0, <3>1, <3>2 DEF RealInv
  <2>5. NoCall.kind # "Report"
    BY DEF NoCall
  <2>. QED  BY <1>0, <2>0, <2>1, <2>3, <2>4, <2>5, RealFrame
<1>7. CASE UNCHANGED vars
  BY <1>0, <1>7, RealRest DEF vars, RealInv
<1>. QED  BY <1>1, <1>2, <1>3, <1>4, <1>5, <1>6, <1>7 DEF Next

\* A transfer recorded as succeeded did all of what it says, whatever was lost, sent again
\* or crashed since: the agent reports a success only behind the answer to its last upload,
\* or with its download in place (FileTransferService.StartTransfer, CollectAsync).
THEOREM SuccessCorrect == Spec => []SucceededIsReal
<1>1. Init => RealInv
  <2>. SUFFICES ASSUME Init
                PROVE  RealInv
    OBVIOUS
  <2>1. 1..Len(results) = {}
    BY EmptySeq DEF Init
  <2>2. HttpInv
    BY TransferBounds DEF Init, HttpInv
  <2>. QED  BY <2>1, <2>2 DEF Init, RealInv, NoCall
<1>2. TypeOK /\ AgentInv /\ RealInv /\ [Next]_vars => RealInv'
  BY RealStep
<1>3. TypeOK /\ RealInv => SucceededIsReal
  BY DEF RealInv, Real, SucceededIsReal
<1>. QED  BY <1>1, <1>2, <1>3, AgentCorrect, PTL DEF Spec

-----------------------------------------------------------------------------
(* What the agent works on and forgets is in the table. *)

\* An operation with a connection is for the call that the hub serves there.
ServeInv ==
  /\ \A o \in ops : o.conn # 0 => o.conn \in serving
  /\ \A o \in ops : o.conn # 0 /\ call[o.conn].kind = "Report" => call[o.conn].transfer \in o.ts
  /\ \A o, p \in ops : o.conn # 0 /\ o.conn = p.conn => o = p
  /\ \A c \in serving : call[c].kind # "None"

\* Steps that leave the calls that are served alone.
LEMMA ServeFrame ==
  ASSUME TypeOK, ServeInv, UNCHANGED serving, \A c \in serving : call'[c] = call[c],
         \A o \in ops' : o \in ops \/ o.conn = 0
  PROVE  ServeInv'
BY DEF ServeInv

\* The call of c is over, and no operation goes on for it.
LEMMA ServeAnswered ==
  ASSUME TypeOK, ServeInv, NEW c \in Conns, NEW k, Answer(c, k), ops' \subseteq ops, \A o \in ops' : o.conn # c
  PROVE  ServeInv'
<1>1. \A d \in Conns : d # c => call'[d] = call[d]
  BY DEF Answer, TypeOK
<1>2. serving' = serving \ {c} /\ serving \subseteq Conns
  BY DEF Answer, TypeOK
<1>. QED  BY <1>1, <1>2 DEF ServeInv

\* The call of c is served, with an operation about ts if there are any.
LEMMA ServeOpened ==
  ASSUME TypeOK, ServeInv, NEW c \in Conns, c \notin serving, NEW ts, NEW ok,
         call[c].kind # "None", call[c].kind = "Report" /\ ts # {} => call[c].transfer \in ts,
         ops' = OpsWith(c, ts, ok), serving' = serving \cup {c}, UNCHANGED call
  PROVE  ServeInv'
<1>. DEFINE p == [conn |-> c, ts |-> ts, ok |-> ok, step |-> "save"]
<1>1. p.conn = c /\ p.ts = ts
  OBVIOUS
<1>. HIDE DEF p
<1>2. ops' = IF ts = {} THEN ops ELSE ops \cup {p}
  BY DEF OpsWith, p
<1>3. \A o \in ops : o.conn # 0 => o.conn # c
  BY DEF ServeInv
<1>4. c # 0
  BY DEF Conns
<1>. QED  BY <1>1, <1>2, <1>3, <1>4 DEF ServeInv

\* Every step keeps a call until its operation is over.
LEMMA ServeStep == TypeOK /\ ServeInv /\ [Next]_vars => ServeInv'
<1>. SUFFICES ASSUME TypeOK, ServeInv, [Next]_vars
              PROVE  ServeInv'
  OBVIOUS
<1>. USE DEF asked, disk, memory, network, agent
<1>1. CASE RequestStep
  <2>1. PICK t \in Transfers : \/ Prepare(t) \/ Lookup(t) \/ Insert(t) \/ Send(t) \/ Close(t)
                               \/ Wake(t) \/ WaitCancelled(t) \/ UserCancel(t) \/ ForceCancel(t)
    BY <1>1 DEF RequestStep
  <2>2. UNCHANGED <<serving, call>>
    BY <2>1 DEF Prepare, Lookup, Insert, Send, Close, Wake, WaitCancelled, UserCancel, ForceCancel
  <2>3. \A o \in ops' : o \in ops \/ o.conn = 0
    BY <2>1 DEF Prepare, Lookup, Insert, Send, Close, Wake, WaitCancelled, UserCancel, ForceCancel, OpsWith
  <2>. QED  BY <2>2, <2>3, ServeFrame
<1>2. CASE EndStep
  <2>1. PICK o \in ops : Save(o) \/ Free(o)
    BY <1>2 DEF EndStep
  <2>2. o \in Op
    BY DEF TypeOK
  <2>3. CASE Save(o)
    <3>. DEFINE p == [o EXCEPT !.step = "free"]
    <3>1. p.conn = o.conn /\ p.ts = o.ts
      BY <2>2 DEF Op
    <3>2. ops' = (ops \ {o}) \cup {p} /\ UNCHANGED <<serving, call>>
      BY <2>3 DEF Save
    <3>. HIDE DEF p
    <3>. QED  BY <3>1, <3>2 DEF ServeInv
  <2>4. CASE Free(o)
    <3>1. CASE UNCHANGED <<call, serving, down>>
      BY <2>4, <3>1, ServeFrame DEF Free
    <3>2. CASE o.conn # 0 /\ Answer(o.conn, "Acked")
      <4>1. ops' \subseteq ops /\ (\A q \in ops' : q.conn # o.conn)
        BY <2>4, <3>2 DEF Free, ServeInv
      <4>2. o.conn \in Conns
        BY <2>2, <3>2 DEF Op, Conns
      <4>. QED  BY <3>2, <4>1, <4>2, ServeAnswered
    <3>. QED  BY <2>4, <3>1, <3>2 DEF Free
  <2>. QED  BY <2>1, <2>3, <2>4
<1>3. CASE HubStep
  <2>1. PICK c \in Conns : RegisterRead(c) \/ RegisterSet(c) \/ ReportRead(c) \/ OnDisconnected(c)
    BY <1>3 DEF HubStep
  <2>2. CASE RegisterRead(c)
    BY <2>2, ServeOpened DEF RegisterRead, Serves
  <2>3. CASE RegisterSet(c)
    BY <2>3, ServeAnswered DEF RegisterSet
  <2>4. CASE ReportRead(c)
    <3>. DEFINE ts == Pending({call[c].transfer})
    <3>1. /\ c \notin serving /\ call[c].kind = "Report" /\ ops' = OpsWith(c, ts, call[c].ok)
          /\ IF ts = {} THEN Answer(c, "Acked") ELSE serving' = serving \cup {c} /\ UNCHANGED <<call, down>>
      BY <2>4 DEF ReportRead, Serves
    <3>2. ts # {} => call[c].transfer \in ts
      BY DEF Pending
    <3>. HIDE DEF ts
    <3>3. CASE ts = {}
      <4>1. ops' = ops
        BY <3>1, <3>3 DEF OpsWith
      <4>2. \A o \in ops : o.conn # c
        BY <3>1 DEF ServeInv, Conns
      <4>. QED  BY <3>1, <3>3, <4>1, <4>2, ServeAnswered
    <3>4. CASE ts # {}
      BY <3>1, <3>2, <3>4, ServeOpened
    <3>. QED  BY <3>3, <3>4
  <2>5. CASE OnDisconnected(c)
    BY <2>5, ServeFrame DEF OnDisconnected, TypeOK
  <2>. QED  BY <2>1, <2>2, <2>3, <2>4, <2>5
<1>4. CASE WorkStep
  BY <1>4, ServeFrame DEF WorkStep, StartTransfer, CancelTransfer, HttpOpen, HttpStored, HttpBroken, WorkEnds
<1>5. CASE WorkerStep
  <2>1. \A m : Invoke(m) => \A c \in serving : call'[c] = call[c]
    BY DEF Invoke, TypeOK, ServeInv, NoCall
  <2>2. UNCHANGED <<serving, ops>>
    BY <1>5 DEF WorkerStep, Register, RegisterDone, Report, Acked, Connect
  <2>3. \A c \in serving : call'[c] = call[c]
    BY <1>5, <2>1 DEF WorkerStep, Register, RegisterDone, Report, Acked, Connect
  <2>. QED  BY <2>2, <2>3, ServeFrame
<1>6. CASE Failure
  <2>1. CASE LinkDrop \/ AgentCrash
    BY <2>1, ServeFrame DEF LinkDrop, AgentCrash, CallLost, TypeOK
  <2>2. CASE ServerCrash
    BY <2>2 DEF ServerCrash, ServeInv
  <2>. QED  BY <1>6, <2>1, <2>2 DEF Failure
<1>7. CASE UNCHANGED vars
  BY <1>7, ServeFrame DEF vars
<1>. QED  BY <1>1, <1>2, <1>3, <1>4, <1>5, <1>6, <1>7 DEF Next

\* A row stays, and an end stays an end (of one kind or the other).
LEMMA RowsStay ==
  ASSUME TypeOK, TableInv, [Next]_vars, NEW t \in Transfers
  PROVE  /\ table[t] # "None" => table'[t] # "None"
         /\ table[t] \in Finished => table'[t] \in Finished
<1>. USE DEF asked, disk, memory, network, agent
<1>1. CASE UNCHANGED table
  BY <1>1
<1>2. ASSUME NEW u \in Transfers, Insert(u)
      PROVE  table[t] # "None" => table'[t] = table[t]
  <2>1. table[u] = "None"
    BY <1>2 DEF Insert, At, TableInv, EndsInv
  <2>. QED  BY <1>2, <2>1 DEF Insert, TypeOK
<1>3. ASSUME NEW o \in ops, Save(o)
      PROVE  table'[t] = table[t] \/ table'[t] \in Finished
  BY <1>3 DEF Save, Finished
<1>4. ~(\E u \in Transfers : Insert(u)) /\ ~(\E o \in ops : Save(o)) => UNCHANGED table
  BY DEF Next, RequestStep, EndStep, HubStep, WorkStep, WorkerStep, Failure, vars,
         Prepare, Lookup, Send, Close, Wake, WaitCancelled, UserCancel, ForceCancel, Free,
         RegisterRead, RegisterSet, ReportRead, OnDisconnected,
         StartTransfer, CancelTransfer, HttpOpen, HttpStored, HttpBroken, WorkEnds,
         Register, RegisterDone, Report, Acked, Connect, LinkDrop, AgentCrash, ServerCrash
<1>. QED  BY <1>1, <1>2, <1>3, <1>4 DEF Finished

\* The agent is only asked for transfers of the table, and only reports those.
Works == {m \in Downward : m.kind = "Work" /\ table[m.transfer] # "None"}

RecordedInv ==
  /\ Every(down, {"Work"}, Works)
  /\ \A t \in unreported : table[t] # "None"
  /\ \A c \in Conns : call[c].kind = "Report" => table[call[c].transfer] # "None"

\* A report is answered when its transfer has ended.
AckedInv == Has(down, {"Acked"}) => table[results[1].transfer] \in Finished

LedgerInv == TypeOK /\ AgentInv /\ TableInv /\ ServeInv /\ RecordedInv /\ AckedInv

\* Steps after which the agent has the same to do, or less.
LEMMA RecordedFrame ==
  ASSUME LedgerInv, [Next]_vars, Loses(down, down', {"Work"}), unreported' \subseteq unreported,
         \A c \in Conns : call'[c] = call[c] \/ call'[c].kind # "Report" \/ call'[c].transfer \in unreported
  PROVE  RecordedInv'
<1>1. TypeOK /\ TableInv /\ RecordedInv
  BY DEF LedgerInv
<1>2. TypeOK'
  BY TypeStep DEF LedgerInv
<1>3. \A t \in Transfers : table[t] # "None" => table'[t] # "None"
  BY <1>1, RowsStay
<1>4. Works \subseteq Works'
  <2>1. \A m \in Downward : m.kind = "Work" => m.transfer \in Transfers
    BY DEF Downward
  <2>. QED  BY <1>3, <2>1 DEF Works
<1>5. Every(down', {"Work"}, Works')
  <2>1. down \in Seq(Downward) /\ Every(down, {"Work"}, Works)
    BY <1>1 DEF TypeOK, RecordedInv
  <2>2. Every(down', {"Work"}, Works)
    BY <2>1, LosesMessages
  <2>. QED  BY <1>4, <2>2, EveryGrows
<1>6. \A t \in unreported' : table'[t] # "None"
  BY <1>1, <1>3 DEF TypeOK, RecordedInv
<1>7. \A c \in Conns : call'[c].kind = "Report" => table'[call'[c].transfer] # "None"
  <2>. SUFFICES ASSUME NEW c \in Conns, call'[c].kind = "Report"
                PROVE  table'[call'[c].transfer] # "None"
    OBVIOUS
  <2>1. CASE call'[c] = call[c]
    BY <1>1, <1>3, <2>1, ReportShape DEF RecordedInv
  <2>2. CASE call'[c].transfer \in unreported
    BY <1>1, <1>3, <2>2 DEF TypeOK, RecordedInv
  <2>. QED  BY <2>1, <2>2
<1>8. RecordedInv' <=> /\ Every(down', {"Work"}, Works')
                       /\ \A t \in unreported' : table'[t] # "None"
                       /\ \A c \in Conns : call'[c].kind = "Report" => table'[call'[c].transfer] # "None"
  BY DEF RecordedInv
<1>. QED  BY <1>5, <1>6, <1>7, <1>8

\* The agent is asked for rows that are there.
LEMMA RecordedStep == LedgerInv /\ [Next]_vars => RecordedInv'
<1>. SUFFICES ASSUME LedgerInv, [Next]_vars
              PROVE  RecordedInv'
  OBVIOUS
<1>. USE DEF asked, disk, memory, network, agent
<1>0. TypeOK /\ AgentInv /\ TableInv /\ RecordedInv /\ down \in Seq(Downward)
  BY DEF LedgerInv, TypeOK
<1>1. CASE UNCHANGED <<down, unreported>> /\ (UNCHANGED call \/ \A c \in Conns : call'[c] = call[c] \/ call'[c] = NoCall)
  <2>1. NoCall.kind # "Report"
    BY DEF NoCall
  <2>. QED  BY <1>1, <2>1, RecordedFrame DEF Loses
<1>2. ASSUME NEW t \in Transfers, Send(t)
      PROVE  RecordedInv'
  <2>. DEFINE m == [kind |-> "Work", transfer |-> t]
  <2>1. table[t] # "None"
    BY <1>0, <1>2 DEF Send, At, TableInv, EndsInv
  <2>2. m \in Works
    BY <2>1 DEF Works, Downward
  <2>3. UNCHANGED <<table, unreported, call>> /\ (down' = down \/ down' = Append(down, m))
    BY <1>2 DEF Send, SendTo
  <2>. HIDE DEF m
  <2>4. Every(Append(down, m), {"Work"}, Works)
    BY <1>0, <2>2, AppendMessages DEF RecordedInv
  <2>. QED  BY <1>0, <2>3, <2>4 DEF RecordedInv, Works
<1>3. ASSUME NEW t \in Transfers, UserCancel(t)
      PROVE  RecordedInv'
  <2>. DEFINE m == [kind |-> "CancelTransfer", transfer |-> t]
  <2>1. m.kind \notin {"Work"}
    OBVIOUS
  <2>2. UNCHANGED <<unreported, call>> /\ (down' = down \/ down' = Append(down, m))
    BY <1>3 DEF UserCancel, SendTo
  <2>. HIDE DEF m
  <2>. QED  BY <2>1, <2>2, RecordedFrame DEF Loses
<1>4. ASSUME NEW c \in Conns, NEW k \in {"Registered", "Acked"}, Answer(c, k), UNCHANGED unreported
      PROVE  RecordedInv'
  <2>. DEFINE m == [kind |-> k]
  <2>1. m.kind \notin {"Work"}
    OBVIOUS
  <2>2. down' = down \/ down' = Append(down, m)
    BY <1>4 DEF Answer, SendTo
  <2>. HIDE DEF m
  <2>3. \A d \in Conns : call'[d] = call[d] \/ call'[d].kind # "Report"
    BY <1>0, <1>4, AnsweredReal
  <2>. QED  BY <1>4, <2>1, <2>2, <2>3, RecordedFrame DEF Loses
<1>5. CASE RequestStep
  BY <1>1, <1>2, <1>3, <1>5
     DEF RequestStep, Prepare, Lookup, Insert, Close, Wake, WaitCancelled, ForceCancel
<1>6. CASE EndStep
  <2>1. PICK o \in ops : Save(o) \/ Free(o)
    BY <1>6 DEF EndStep
  <2>2. UNCHANGED unreported
    BY <2>1 DEF Save, Free
  <2>3. o.conn # 0 => o.conn \in Conns
    BY <1>0 DEF TypeOK, Op, Conns
  <2>4. CASE UNCHANGED <<down, call>>
    BY <1>1, <2>2, <2>4
  <2>. QED  BY <1>4, <2>1, <2>2, <2>3, <2>4 DEF Save, Free
<1>7. CASE HubStep
  <2>1. PICK c \in Conns : RegisterRead(c) \/ RegisterSet(c) \/ ReportRead(c) \/ OnDisconnected(c)
    BY <1>7 DEF HubStep
  <2>2. UNCHANGED unreported
    BY <2>1 DEF RegisterRead, RegisterSet, ReportRead, OnDisconnected
  <2>3. CASE UNCHANGED <<down, call>>
    BY <1>1, <2>2, <2>3
  <2>4. CASE OnDisconnected(c)
    BY <1>0, <1>1, <2>4 DEF OnDisconnected, TypeOK
  <2>. QED  BY <1>4, <2>1, <2>2, <2>3, <2>4 DEF RegisterRead, RegisterSet, ReportRead
<1>8. CASE StartTransfer
  <2>1. /\ Head(down).kind \in {"Work"} /\ down # <<>> /\ down' = Tail(down) /\ UNCHANGED <<table, call>>
        /\ unreported' \subseteq unreported \cup {Head(down).transfer}
    BY <1>8 DEF StartTransfer
  <2>2. Every(Tail(down), {"Work"}, Works) /\ Head(down) \in Works
    BY <1>0, <2>1, TailMessages DEF RecordedInv
  <2>3. table[Head(down).transfer] # "None"
    BY <2>2 DEF Works
  <2>. QED  BY <1>0, <2>1, <2>2, <2>3 DEF RecordedInv, Works
<1>9. CASE CancelTransfer \/ RegisterDone \/ Acked
  BY <1>9, RecordedFrame DEF CancelTransfer, RegisterDone, Acked, Loses
<1>10. CASE \E t \in Transfers : HttpOpen(t) \/ HttpStored(t) \/ HttpBroken(t) \/ WorkEnds(t)
  BY <1>1, <1>10 DEF HttpOpen, HttpStored, HttpBroken, WorkEnds
<1>11. CASE Register \/ Report
  <2>1. CASE Register
    BY <1>0, <2>1, RecordedFrame DEF Register, Invoke, TypeOK, Loses
  <2>2. CASE Report
    <3>1. 1 \in 1..Len(results) /\ Head(results) = results[1]
      BY <1>0, <2>2, TailPlaces DEF Report, TypeOK
    <3>2. Head(results).transfer \in unreported
      BY <1>0, <3>1 DEF AgentInv, ResultsInv
    <3>3. \A c \in Conns : call'[c] = call[c] \/ call'[c].transfer = Head(results).transfer
      BY <1>0, <2>2 DEF Report, Invoke, TypeOK
    <3>. QED  BY <2>2, <3>2, <3>3, RecordedFrame DEF Report, Loses
  <2>. QED  BY <1>11, <2>1, <2>2
<1>12. CASE Connect
  BY <1>1, <1>12 DEF Connect
<1>13. CASE Failure
  <2>1. /\ down' = <<>> /\ unreported' \subseteq unreported
        /\ \A c \in Conns : call'[c] = call[c] \/ call'[c] = NoCall
    BY <1>0, <1>13 DEF Failure, LinkDrop, AgentCrash, ServerCrash, AgentDrops, CallLost, TypeOK
  <2>2. NoCall.kind # "Report"
    BY DEF NoCall
  <2>. QED  BY <2>1, <2>2, RecordedFrame DEF Loses
<1>14. CASE UNCHANGED vars
  BY <1>1, <1>14 DEF vars
<1>. QED  BY <1>5, <1>6, <1>7, <1>8, <1>9, <1>10, <1>11, <1>12, <1>13, <1>14 DEF Next, WorkStep, WorkerStep

\* Steps that bring no answer, while the first result stays.
LEMMA AckedFrame ==
  ASSUME LedgerInv, [Next]_vars, Loses(down, down', {"Acked"}), results # <<>> => results'[1] = results[1]
  PROVE  AckedInv'
<1>1. /\ TypeOK /\ AgentInv /\ TableInv /\ AckedInv
      /\ down \in Seq(Downward) /\ results \in Seq(Result)
  BY DEF LedgerInv, TypeOK
<1>. SUFFICES ASSUME Has(down', {"Acked"})
              PROVE  table'[results'[1].transfer] \in Finished
  BY DEF AckedInv
<1>2. Has(down, {"Acked"})
  BY <1>1, LosesMessages
<1>3. results # <<>>
  BY <1>1, <1>2 DEF AgentInv, ReportInv
<1>4. results[1].transfer \in Transfers
  <2>1. results[1] \in Result
    BY <1>1, <1>3, TailPlaces, TailType
  <2>. QED  BY <2>1 DEF Result
<1>. QED  BY <1>1, <1>2, <1>3, <1>4, RowsStay DEF AckedInv

\* The hub answers the call of c, a report only when its transfer has ended.
LEMMA AckedAnswered ==
  ASSUME LedgerInv, [Next]_vars, NEW c \in Conns, NEW k, Answer(c, k), UNCHANGED <<results, table>>,
         k = "Acked" => call[c].kind = "Report" /\ table[call[c].transfer] \in Finished
  PROVE  AckedInv'
<1>. DEFINE m == [kind |-> k]
<1>1. m.kind = k
  OBVIOUS
<1>2. down' = IF c = link /\ c # 0 THEN Append(down, m) ELSE down
  BY DEF Answer, SendTo
<1>. HIDE DEF m
<1>3. CASE k = "Acked" /\ c = link /\ c # 0
  BY <1>3 DEF LedgerInv, AgentInv, ReportInv, AckedInv
<1>4. CASE ~(k = "Acked" /\ c = link /\ c # 0)
  <2>1. Loses(down, down', {"Acked"})
    BY <1>1, <1>2, <1>4 DEF Loses
  <2>. QED  BY <2>1, AckedFrame
<1>. QED  BY <1>3, <1>4

\* A report is answered once its end is recorded.
LEMMA AckedStep == LedgerInv /\ [Next]_vars => AckedInv'
<1>. SUFFICES ASSUME LedgerInv, [Next]_vars
              PROVE  AckedInv'
  OBVIOUS
<1>. USE DEF asked, disk, memory, network, agent
<1>0. TypeOK /\ AgentInv /\ TableInv /\ ServeInv /\ RecordedInv /\ down \in Seq(Downward) /\ results \in Seq(Result)
  BY DEF LedgerInv, TypeOK
<1>1. CASE UNCHANGED <<down, results>>
  BY <1>1, AckedFrame DEF Loses
<1>2. CASE RequestStep
  <2>1. PICK t \in Transfers : \/ Prepare(t) \/ Lookup(t) \/ Insert(t) \/ Send(t) \/ Close(t)
                               \/ Wake(t) \/ WaitCancelled(t) \/ UserCancel(t) \/ ForceCancel(t)
    BY <1>2 DEF RequestStep
  <2>2. CASE Send(t)
    <3>1. Loses(down, down', {"Acked"}) /\ UNCHANGED results
      BY <1>0, <2>2, SentLoses DEF Send
    <3>. QED  BY <3>1, AckedFrame
  <2>3. CASE UserCancel(t)
    <3>1. Loses(down, down', {"Acked"}) /\ UNCHANGED results
      BY <1>0, <2>3, SentLoses DEF UserCancel
    <3>. QED  BY <3>1, AckedFrame
  <2>. QED  BY <1>1, <2>1, <2>2, <2>3 DEF Prepare, Lookup, Insert, Close, Wake, WaitCancelled, ForceCancel
<1>3. CASE EndStep
  <2>1. PICK o \in ops : Save(o) \/ Free(o)
    BY <1>3 DEF EndStep
  <2>2. CASE UNCHANGED down
    BY <1>1, <2>1, <2>2 DEF Save, Free
  <2>3. CASE Free(o) /\ o.conn # 0 /\ call[o.conn].kind = "Report" /\ Answer(o.conn, "Acked")
    <3>1. o.conn \in Conns
      BY <1>0, <2>3 DEF TypeOK, Op, Conns
    <3>2. table[call[o.conn].transfer] \in Finished
      BY <1>0, <2>3 DEF ServeInv, TableInv, EndsInv, Free
    <3>3. UNCHANGED <<results, table>>
      BY <2>3 DEF Free
    <3>. QED  BY <2>3, <3>1, <3>2, <3>3, AckedAnswered
  <2>. QED  BY <2>1, <2>2, <2>3 DEF Save, Free
<1>4. CASE HubStep
  <2>1. PICK c \in Conns : RegisterRead(c) \/ RegisterSet(c) \/ ReportRead(c) \/ OnDisconnected(c)
    BY <1>4 DEF HubStep
  <2>2. UNCHANGED <<results, table>>
    BY <2>1 DEF RegisterRead, RegisterSet, ReportRead, OnDisconnected
  <2>3. CASE RegisterSet(c)
    BY <2>2, <2>3, AckedAnswered DEF RegisterSet
  <2>4. CASE ReportRead(c) /\ Answer(c, "Acked") /\ Pending({call[c].transfer}) = {}
    <3>1. call[c].kind = "Report" /\ table[call[c].transfer] # "Pending"
      BY <2>4 DEF ReportRead, Serves, Pending
    <3>2. table[call[c].transfer] \in States /\ table[call[c].transfer] # "None"
      BY <1>0, <3>1, ReportShape DEF TypeOK, RecordedInv
    <3>. QED  BY <2>2, <2>4, <3>1, <3>2, AckedAnswered DEF States
  <2>5. CASE UNCHANGED down
    BY <1>1, <2>2, <2>5
  <2>. QED  BY <2>1, <2>3, <2>4, <2>5 DEF RegisterRead, ReportRead, OnDisconnected
<1>5. CASE StartTransfer \/ CancelTransfer \/ RegisterDone
  BY <1>5, AckedFrame DEF StartTransfer, CancelTransfer, RegisterDone, Loses
<1>6. ASSUME NEW t \in Transfers, HttpOpen(t) \/ HttpStored(t) \/ HttpBroken(t)
      PROVE  AckedInv'
  BY <1>1, <1>6 DEF HttpOpen, HttpStored, HttpBroken
<1>7. ASSUME NEW t \in Transfers, WorkEnds(t)
      PROVE  AckedInv'
  <2>1. PICK ok \in Outcomes(t) : results' = Append(results, [transfer |-> t, ok |-> ok])
    BY <1>7 DEF WorkEnds
  <2>2. results # <<>> => results'[1] = results[1]
    BY <1>0, <2>1
  <2>3. UNCHANGED down
    BY <1>7 DEF WorkEnds
  <2>. QED  BY <2>2, <2>3, AckedFrame DEF Loses
<1>8. CASE Register \/ Report \/ Connect
  BY <1>1, <1>8 DEF Register, Report, Connect
<1>9. CASE Acked
  <2>1. ~Has(down', {"Acked"})
    BY <1>0, <1>9, TailMessages DEF Acked, AgentInv, ReportInv
  <2>. QED  BY <2>1 DEF AckedInv
<1>10. CASE Failure
  <2>1. down' = <<>>
    BY <1>10 DEF Failure, LinkDrop, AgentCrash, ServerCrash, AgentDrops
  <2>. QED  BY <2>1, EmptyMessages DEF AckedInv
<1>11. CASE UNCHANGED vars
  BY <1>1, <1>11 DEF vars
<1>. QED  BY <1>2, <1>3, <1>4, <1>5, <1>6, <1>7, <1>8, <1>9, <1>10, <1>11 DEF Next, WorkStep, WorkerStep

\* All of it holds in every state.
LEMMA LedgerCorrect == Spec => []LedgerInv
<1>1. Init => ServeInv /\ RecordedInv /\ AckedInv
  <2>. SUFFICES ASSUME Init
                PROVE  ServeInv /\ RecordedInv /\ AckedInv
    OBVIOUS
  <2>1. Every(down, {"Work"}, Works) /\ ~Has(down, {"Acked"})
    BY EmptyMessages DEF Init
  <2>. QED  BY <2>1 DEF Init, ServeInv, RecordedInv, AckedInv, NoCall
<1>2. TypeOK /\ AgentInv /\ TableInv /\ ServeInv /\ RecordedInv /\ AckedInv /\ [Next]_vars
        => ServeInv' /\ RecordedInv' /\ AckedInv'
  BY ServeStep, RecordedStep, AckedStep DEF LedgerInv
<1>. QED  BY <1>1, <1>2, AgentCorrect, TableCorrect, PTL DEF Spec, LedgerInv

\* An acknowledged result is one whose transfer has its end.
ForgottenIsRecorded == [][Acked => table[Head(results).transfer] \in Finished]_vars

\* The agent forgets the result of a transfer only when the end of the transfer is in the
\* table, through lost answers, reports that are sent again and the orphan check of a new
\* registration (FileTransferService.MarkReported, AgentHub.ReportTransferCompleted).
THEOREM ForgottenCorrect == Spec => ForgottenIsRecorded
<1>1. LedgerInv /\ [Next]_vars => [Acked => table[Head(results).transfer] \in Finished]_vars
  <2>. SUFFICES ASSUME LedgerInv, Acked
                PROVE  table[Head(results).transfer] \in Finished
    OBVIOUS
  <2>1. down \in Seq(Downward) /\ down # <<>> /\ Head(down).kind \in {"Acked"}
    BY DEF LedgerInv, TypeOK, Acked
  <2>2. Has(down, {"Acked"})
    BY <2>1, TailMessages
  <2>3. Head(results) = results[1]
    BY AckedReady DEF LedgerInv
  <2>. QED  BY <2>2, <2>3 DEF LedgerInv, AckedInv
<1>. QED  BY <1>1, LedgerCorrect, PTL DEF Spec, ForgottenIsRecorded
=============================================================================
