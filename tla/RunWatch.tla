------------------------------- MODULE RunWatch -------------------------------
(***************************************************************************)
(* How the dashboard shows the output of a run (useDashboard.ts: the hub   *)
(* connection, sync and watchRun; RunOutput.tsx, TerminalModal.tsx).       *)
(*                                                                         *)
(* A line is its sequence number.  The server logs lines 1..logged and     *)
(* sends each batch to the group of the run; the viewer joins the group    *)
(* with an invocation, fetches what was logged over HTTP, and drops what   *)
(* it has seen.  The hub connection is lost and made again: what was on    *)
(* its way is gone, the server forgets the membership, and sync fetches    *)
(* the lists and joins again.  HTTP answers take any time and are not      *)
(* ordered with the hub.                                                   *)
(***************************************************************************)
EXTENDS Integers, FiniteSets, Functions, SequencesExt

CONSTANTS MaxLogged,  \* bound: lines the run prints
          MaxShown,   \* MAX_LINES of the viewer
          MaxDrops,   \* bound: lost hub connections
          MaxFails    \* bound: failing HTTP calls

ASSUME WatchBounds == MaxLogged \in Nat /\ MaxShown \in Nat \ {0} /\ MaxDrops \in Nat /\ MaxFails \in Nat

VARIABLES
  conn,     \* "connecting", "up" or "down": the hub connection of the dashboard
  logged,   \* lines in the run's log file
  sent,     \* lines sent to the group of the run
  over,     \* the run has ended: no more lines
  member,   \* this connection is in the group (server side)
  up,       \* invocations on their way: the operation and its caller
  down,     \* events and answers on their way: lines of the log, or an answer to its caller
  asked,    \* output requests the server has not read the log for
  answers,  \* answers on their way: the number of lines logged at that time
  syncs,    \* pc of the sync of each connection made so far
  viewer,   \* "panel" (RunOutput) or "terminal" (TerminalModal)
  watch,    \* "none", "joining" (invocation of watchRun pending), "on" or "off"
  seen,     \* sequence numbers received
  shown,    \* lines on the screen
  fails,    \* HTTP calls that failed so far
  drops     \* connections lost so far

serverVars == <<logged, sent, over, member>>
wireVars == <<up, down, asked, answers>>
viewVars == <<viewer, watch, seen, shown>>
watchVars == <<conn, serverVars, wireVars, syncs, viewVars, fails, drops>>

Lines(a, b) == [i \in 1..(b - a + 1) |-> a + i - 1]

Invocations == [op : {"WatchRun", "UnwatchRun"}, caller : Nat]
Messages == [kind : {"lines"}, from : Nat, to : Nat] \cup [kind : {"ack"}, caller : Nat]
Call(op, caller) == [op |-> op, caller |-> caller]
Batch(a, b) == [kind |-> "lines", from |-> a, to |-> b]
Ack(caller) == [kind |-> "ack", caller |-> caller]
Registered == watch \in {"joining", "on"}

TypeOK ==
  /\ conn \in {"connecting", "up", "down"}
  /\ logged \in 0..MaxLogged /\ sent \in 0..logged /\ over \in BOOLEAN /\ member \in BOOLEAN
  /\ up \in Seq(Invocations) /\ down \in Seq(Messages)
  /\ asked \in Nat /\ answers \subseteq 0..logged
  /\ syncs \in Seq({"lists", "loop", "await", "done", "failed"}) /\ Len(syncs) <= MaxDrops + 1
  /\ viewer \in {"panel", "terminal"} /\ watch \in {"none", "joining", "on", "off"}
  /\ seen \subseteq 1..logged /\ shown \in Seq(seen) /\ Len(shown) <= MaxShown
  /\ fails \in 0..MaxFails /\ drops \in 0..MaxDrops

Init ==
  /\ conn = "connecting" /\ logged = 0 /\ sent = 0 /\ over = FALSE /\ member = FALSE
  /\ up = <<>> /\ down = <<>> /\ asked = 0 /\ answers = {} /\ syncs = <<>>
  /\ viewer \in {"panel", "terminal"} /\ watch = "none" /\ seen = {} /\ shown = <<>>
  /\ fails = 0 /\ drops = 0

(***************************************************************************)
(* The server.                                                             *)
(***************************************************************************)

\* AppendOutputAsync writes a batch to the log and only then sends it; the next batch waits.
LogLine ==
  /\ ~over /\ sent = logged /\ logged < MaxLogged
  /\ logged' = logged + 1
  /\ UNCHANGED <<conn, sent, over, member, wireVars, syncs, viewVars, fails, drops>>

SendLine ==
  /\ sent < logged
  /\ sent' = logged
  /\ down' = IF member THEN Append(down, Batch(sent + 1, logged)) ELSE down
  /\ UNCHANGED <<conn, logged, over, member, up, asked, answers, syncs, viewVars, fails, drops>>

RunEnds ==
  /\ ~over /\ sent = logged
  /\ over' = TRUE
  /\ UNCHANGED <<conn, logged, sent, member, wireVars, syncs, viewVars, fails, drops>>

HubTakes ==
  /\ up # <<>>
  /\ up' = Tail(up)
  /\ member' = (Head(up).op = "WatchRun")
  /\ down' = IF Head(up).op = "WatchRun" THEN Append(down, Ack(Head(up).caller)) ELSE down
  /\ UNCHANGED <<conn, logged, sent, over, asked, answers, syncs, viewVars, fails, drops>>

ReadLog ==
  /\ asked > 0
  /\ asked' = asked - 1
  /\ answers' = answers \cup {logged}
  /\ UNCHANGED <<conn, serverVars, up, down, syncs, viewVars, fails, drops>>

(***************************************************************************)
(* The connection.                                                         *)
(***************************************************************************)

\* A bug: a reconnection that trusts the server to remember its groups.
ConnectedOnly ==
  /\ conn # "up"
  /\ conn' = "up"
  /\ syncs' = Append(syncs, IF conn = "down" THEN "done" ELSE "lists")
  /\ UNCHANGED <<serverVars, wireVars, viewVars, fails, drops>>

\* start() or the reconnected event: setConnected(true), then sync().
Connected ==
  /\ conn # "up"
  /\ conn' = "up"
  /\ syncs' = Append(syncs, "lists")
  /\ UNCHANGED <<serverVars, wireVars, viewVars, fails, drops>>

\* A lost connection rejects the invocations that wait for an answer: watchRun then fetches
\* all the same (.catch().finally()), a sync that awaits WatchRun ends.
Dropped ==
  /\ conn = "up" /\ drops < MaxDrops
  /\ conn' = "down" /\ drops' = drops + 1
  /\ member' = FALSE /\ up' = <<>> /\ down' = <<>>
  /\ syncs' = [i \in DOMAIN syncs |-> IF syncs[i] = "await" THEN "failed" ELSE syncs[i]]
  /\ IF watch = "joining" THEN asked' = asked + 1 /\ watch' = "on" ELSE UNCHANGED <<asked, watch>>
  /\ UNCHANGED <<logged, sent, over, answers, viewer, seen, shown, fails>>

(***************************************************************************)
(* sync(): the lists first; if agents, runs or jobs cannot be fetched, the *)
(* whole of it ends there.  Then the runs that are watched.                *)
(***************************************************************************)

SyncLists(i) ==
  /\ syncs[i] = "lists"
  /\ \/ syncs' = [syncs EXCEPT ![i] = "loop"] /\ UNCHANGED fails
     \/ fails < MaxFails /\ fails' = fails + 1 /\ syncs' = [syncs EXCEPT ![i] = "failed"]
  /\ UNCHANGED <<conn, serverVars, wireVars, viewVars, drops>>

SyncWatch(i) ==
  /\ syncs[i] = "loop"
  /\ IF ~Registered
     THEN syncs' = [syncs EXCEPT ![i] = "done"] /\ UNCHANGED up
     ELSE IF conn = "up"
     THEN up' = Append(up, Call("WatchRun", i)) /\ syncs' = [syncs EXCEPT ![i] = "await"]
     ELSE syncs' = [syncs EXCEPT ![i] = "failed"] /\ UNCHANGED up
  /\ UNCHANGED <<conn, serverVars, down, asked, answers, viewVars, fails, drops>>

(***************************************************************************)
(* The viewer.  appendLines keeps the lines it has not seen; the panel     *)
(* ignores all after its unmount and sorts when a live line came first,    *)
(* the terminal shows them as they come.                                   *)
(***************************************************************************)

\* The lines of a set in the order of their numbers.
InOrder(S) ==
  CHOOSE s \in [1..Cardinality(S) -> S] : \A i, j \in 1..Cardinality(S) : i < j => s[i] < s[j]

Unsorted(old, fresh) == old # <<>> /\ fresh[1] < Last(old)
LastLines(lines) == SubSeq(lines, Len(lines) - MaxShown + 1, Len(lines))

Merged(old, fresh) ==
  LET all == old \o fresh
      sorted == IF viewer = "panel" /\ Unsorted(old, fresh) THEN InOrder(ToSet(all)) ELSE all
  IN IF Len(sorted) > MaxShown THEN LastLines(sorted) ELSE sorted

AppendLines(lines) ==
  LET fresh == InOrder(lines \ seen)
  IN IF (viewer = "panel" /\ watch = "off") \/ fresh = <<>>
     THEN UNCHANGED <<seen, shown>>
     ELSE seen' = seen \cup ToSet(fresh) /\ shown' = Merged(shown, fresh)

LinesArrive ==
  /\ down # <<>> /\ Head(down).kind = "lines"
  /\ down' = Tail(down)
  /\ IF Registered THEN AppendLines(Head(down).from..Head(down).to) ELSE UNCHANGED <<seen, shown>>
  /\ UNCHANGED <<conn, serverVars, up, asked, answers, syncs, viewer, watch, fails, drops>>

\* onResync fetches the output, once the answer to WatchRun is there (0: of watchRun itself).
AckArrives ==
  /\ down # <<>> /\ Head(down).kind = "ack"
  /\ down' = Tail(down) /\ asked' = asked + 1
  /\ IF Head(down).caller = 0
     THEN watch' = (IF watch = "joining" THEN "on" ELSE watch) /\ UNCHANGED syncs
     ELSE syncs' = [syncs EXCEPT ![Head(down).caller] = "done"] /\ UNCHANGED watch
  /\ UNCHANGED <<conn, serverVars, up, answers, viewer, seen, shown, fails, drops>>

OutputArrives ==
  /\ \E n \in answers : answers' = answers \ {n} /\ AppendLines(1..n)
  /\ UNCHANGED <<conn, serverVars, up, down, asked, syncs, viewer, watch, fails, drops>>

OutputFails ==
  /\ asked > 0 /\ fails < MaxFails
  /\ asked' = asked - 1 /\ fails' = fails + 1
  /\ UNCHANGED <<conn, serverVars, up, down, answers, syncs, viewVars, drops>>

WatchRun ==
  /\ watch = "none"
  /\ IF conn = "up"
     THEN up' = Append(up, Call("WatchRun", 0)) /\ watch' = "joining" /\ UNCHANGED asked
     ELSE asked' = asked + 1 /\ watch' = "on" /\ UNCHANGED up
  /\ UNCHANGED <<conn, serverVars, down, answers, syncs, viewer, seen, shown, fails, drops>>

\* The panel is unmounted at any time; the terminal leaves when its poll finds the run ended.
Unwatch ==
  /\ watch \in {"joining", "on"}
  /\ viewer = "terminal" => over
  /\ watch' = "off"
  /\ up' = IF conn = "up" THEN Append(up, Call("UnwatchRun", 0)) ELSE up
  /\ UNCHANGED <<conn, serverVars, down, asked, answers, syncs, viewer, seen, shown, fails, drops>>

Delivery ==
  \/ SendLine \/ HubTakes \/ ReadLog \/ Connected
  \/ LinesArrive \/ AckArrives \/ OutputArrives
  \/ \E i \in DOMAIN syncs : SyncLists(i) \/ SyncWatch(i)

Next == Delivery \/ LogLine \/ RunEnds \/ Dropped \/ OutputFails \/ WatchRun \/ Unwatch

\* The browser reconnects and delivers, the server answers; nobody has to watch, print or leave.
WatchSpec == Init /\ [][Next]_watchVars /\ WF_watchVars(Delivery)

(***************************************************************************)
(* Properties.                                                             *)
(***************************************************************************)

Quiet ==
  /\ conn = "up" /\ up = <<>> /\ down = <<>> /\ asked = 0 /\ answers = {} /\ sent = logged
  /\ \A i \in DOMAIN syncs : syncs[i] \in {"done", "failed"}

\* A viewer that is open shows the last lines of the log, none missing and none twice, once
\* nothing is on its way, whatever was lost with a connection and whichever of the group and
\* the fetch was faster (the join comes first, and a reconnection joins and fetches again).
\* No line is on the screen twice at any time.
ShownIsLog ==
  /\ IsInjective(shown)
  /\ Quiet /\ watch = "on" /\ fails = 0 =>
       /\ seen = 1..logged
       /\ viewer = "panel" => shown = Lines(IF logged > MaxShown THEN logged - MaxShown + 1 ELSE 1, logged)

\* Whoever watches is in the group again after every reconnection, unless a call failed.
JoinsAgain == [](watch = "on" => <>(member \/ watch = "off" \/ fails > 0))

\* Does not hold. The comment of sync: after a connection or reconnection the subscriptions are
\* restored (useDashboard.ts:281), but a watch whose join failed is not tried again.
SubscriptionsRestored == Quiet /\ watch = "on" => member
===============================================================================
