---------------------------- MODULE DashboardLists ----------------------------
(***************************************************************************)
(* What the dashboard shows of one thing the server holds (useDashboard.ts,*)
(* useTransfers.ts): the run, the targets of an opened job, a transfer, a  *)
(* PC of the list, the PC groups (favorites, shares and organisation work  *)
(* alike) or the layout of the State page.  `topic` says which.            *)
(*                                                                         *)
(* The server's values are numbers.  A run, target or transfer goes from 0 *)
(* (unknown) over 1 (pending) and 2 (running) to 3 (ended); a PC is listed *)
(* under odd numbers and removed under even ones; each save of the groups  *)
(* or the layout is a number of its own.  Hub events arrive in order and   *)
(* are lost with the connection; HTTP calls overtake events and each other.*)
(***************************************************************************)
EXTENDS Integers, FiniteSets, SequencesExt

CONSTANTS MaxValue,   \* bound: values the server holds after the first (3 for a run)
          MaxCalls,   \* bound: HTTP calls of the dashboard
          ListDrops,  \* bound: lost hub connections
          ListFails   \* bound: refused HTTP calls

VARIABLES
  topic,   \* what the dashboard shows
  hist,    \* the values the server has held, the last one is the current one
  unsent,  \* values stored and not yet broadcast
  hub,     \* "down" or "up"
  events,  \* broadcasts on their way: <<value, made by this dashboard>>
  calls,   \* HTTP calls: [id, kind, val, at]
  issued,  \* calls made so far
  view,    \* the value shown
  own,     \* layout: the last value this dashboard saved, -1 once 1.5 s have passed
  awaited, \* the call of the last sync, 0 once its answer has been applied
  heard,   \* history: place in hist of the newest value that an answer brought or replaced, or the echo filter dropped
  missed,  \* history: a broadcast was lost for want of a connection
  hubDrops, refused

listVars == <<topic, hist, unsent, hub, events, calls, issued, view, own, awaited, heard, missed, hubDrops, refused>>
netVars == <<hub, hubDrops>>

Topics == {"run", "target", "transfer", "pc", "groups", "layout"}
Ladder == {"run", "target", "transfer"}
Now == Last(hist)
Pos(v) == IF \E i \in DOMAIN hist : hist[i] = v THEN CHOOSE i \in DOMAIN hist : hist[i] = v ELSE Len(hist) + 1
Fresh == 1 + Max({hist[i] : i \in DOMAIN hist} \cup {c.val : c \in calls} \cup {view})
Calls(kind) == {c \in calls : c.kind = kind}

TypeOK ==
  /\ topic \in Topics /\ hub \in {"down", "up"} /\ awaited \in 0..issued /\ heard \in 0..Len(hist) /\ missed \in BOOLEAN
  /\ hist \in Seq(Nat) /\ unsent \subseteq Range(hist) /\ \A i \in DOMAIN events : events[i][1] \in Range(hist)
  /\ \A c \in calls : /\ c.kind \in {"post", "detail", "list", "save", "remove"}
                      /\ c.at \in {"asked", "answered", "refused"} /\ c.id <= issued
  /\ view \in Nat /\ own \in Nat \cup {-1} /\ issued <= MaxCalls + ListFails
  /\ hubDrops <= ListDrops /\ refused <= ListFails

Init ==
  /\ topic \in Topics
  /\ hist = <<IF topic = "pc" THEN 1 ELSE 0>> /\ unsent = {} /\ hub = "down" /\ events = <<>>
  /\ calls = (IF topic = "transfer" THEN {[id |-> 1, kind |-> "list", val |-> 0, at |-> "asked"]} ELSE {})
  /\ issued = Cardinality(calls) /\ awaited = issued /\ view = 0 /\ own = -1 /\ heard = 0 /\ missed = FALSE
  /\ hubDrops = 0 /\ refused = 0

(***************************************************************************)
(* Storing a value in the dashboard.                                       *)
(***************************************************************************)

\* isStaleRun, isStaleJob and upsert of useTransfers: an event or the answer of a POST does not
\* take a run back; a transfer only does not go back from its end to pending.
Stale(v) ==
  \/ topic \in {"run", "target"} /\ v < view
  \/ topic = "transfer" /\ view = 3 /\ v < 3
Heard(vs) == heard' = Max({heard} \cup {Pos(v) : v \in vs \cap Range(hist)})
Replace(v) == view' = v /\ Heard({v, view})
Merge(v) == (IF Stale(v) THEN UNCHANGED view ELSE view' = v) /\ UNCHANGED heard

Ask(kind, v) ==
  /\ issued < MaxCalls
  /\ issued' = issued + 1
  /\ calls' = calls \cup {[id |-> issued + 1, kind |-> kind, val |-> v, at |-> "asked"]}

Also(others, kind, v) ==
  /\ issued' = issued + 1
  /\ calls' = others \cup {[id |-> issued + 1, kind |-> kind, val |-> v, at |-> "asked"]}

(***************************************************************************)
(* The server.                                                             *)
(***************************************************************************)

Sends(v, mine) ==
  /\ events' = IF hub = "up" THEN Append(events, <<v, mine>>) ELSE events
  /\ missed' = (missed \/ hub = "down")

\* The run goes on, the agent comes or goes, somebody else saves.
Moves ==
  /\ Len(hist) <= MaxValue
  /\ topic = "run" => Now > 0
  /\ \E v \in IF topic \in Ladder THEN Now + 1..3 ELSE {Fresh} : hist' = Append(hist, v) /\ Sends(v, FALSE)
  /\ UNCHANGED <<topic, unsent, netVars, calls, issued, view, own, awaited, heard, refused>>

\* CreateAsync hands the run to the agent first: its start may be broadcast before its creation.
Broadcast ==
  /\ \E v \in unsent : unsent' = unsent \ {v} /\ Sends(v, FALSE)
  /\ UNCHANGED <<topic, hist, netVars, calls, issued, view, own, awaited, heard, refused>>

\* A POST creates the run and a PUT stores the value, then both broadcast it; a DELETE removes a
\* PC that is listed; a GET reads.  A PUT of this dashboard comes back as its own echo.
Serve(c) ==
  /\ c.at = "asked"
  /\ CASE c.kind = "post" -> hist' = Append(hist, 1) /\ unsent' = {1} /\ UNCHANGED <<events, missed>>
       [] c.kind = "save" -> hist' = Append(hist, c.val) /\ Sends(c.val, TRUE) /\ UNCHANGED unsent
       [] c.kind = "remove" /\ Now % 2 = 1 -> hist' = Append(hist, Fresh) /\ Sends(Fresh, FALSE) /\ UNCHANGED unsent
       [] OTHER -> UNCHANGED <<hist, unsent, events, missed>>
  /\ calls' = (calls \ {c}) \cup {[c EXCEPT !.at = "answered", !.val = Last(hist')]}
  /\ UNCHANGED <<topic, netVars, issued, view, own, awaited, heard, refused>>

Refuse(c) ==
  /\ c.at = "asked" /\ refused < ListFails
  /\ refused' = refused + 1
  /\ calls' = (calls \ {c}) \cup {[c EXCEPT !.at = "refused"]}
  /\ UNCHANGED <<topic, hist, unsent, netVars, events, issued, view, own, awaited, heard, missed>>

(***************************************************************************)
(* The dashboard.                                                          *)
(***************************************************************************)

\* Connected for the first time or again: sync fetches the list and the opened jobs.  useTransfers
\* fetches its list when it is mounted, and does not hear of connections.
Connected ==
  /\ hub = "down" /\ issued < MaxCalls
  /\ hub' = "up"
  /\ IF topic = "transfer"
     THEN UNCHANGED <<calls, issued, awaited>>
     ELSE Also(calls, "list", 0) /\ awaited' = issued + 1
  /\ UNCHANGED <<topic, hist, unsent, events, view, own, heard, missed, hubDrops, refused>>

Dropped ==
  /\ hub = "up" /\ hubDrops < ListDrops
  /\ hub' = "down" /\ hubDrops' = hubDrops + 1 /\ events' = <<>>
  /\ missed' = (missed \/ events # <<>>)
  /\ UNCHANGED <<topic, hist, unsent, calls, issued, view, own, awaited, heard, refused>>

\* The echo of a layout saved less than 1.5 s ago is dropped.
EventArrives ==
  /\ events # <<>>
  /\ events' = Tail(events)
  /\ LET v == Head(events)[1]
     IN IF topic = "layout" /\ Head(events)[2] /\ own # -1
        THEN Heard({v}) /\ UNCHANGED view
        ELSE Merge(v)
  /\ UNCHANGED <<topic, hist, unsent, netVars, calls, issued, own, awaited, missed, refused>>

EchoTimeout ==
  /\ own # -1
  /\ own' = -1
  /\ UNCHANGED <<topic, hist, unsent, netVars, events, calls, issued, view, awaited, heard, missed, refused>>

CreateRuns ==
  /\ topic = "run" /\ Now = 0 /\ Calls("post") = {} /\ Ask("post", 0)
  /\ UNCHANGED <<topic, hist, unsent, netVars, events, view, own, awaited, heard, missed, refused>>

LoadJob ==
  /\ topic = "target" /\ Ask("detail", 0)
  /\ UNCHANGED <<topic, hist, unsent, netVars, events, view, own, awaited, heard, missed, refused>>

RemoveAgent ==
  /\ topic = "pc" /\ view % 2 = 1 /\ Ask("remove", 0)
  /\ UNCHANGED <<topic, hist, unsent, netVars, events, view, own, awaited, heard, missed, refused>>

\* saveGroups, setAgentFavorites, saveFileFavorites, reorderShares, saveStateLayout show the new
\* value at once and send it.
Save ==
  /\ topic \in {"groups", "layout"} /\ Ask("save", Fresh)
  /\ view' = Fresh /\ own' = (IF topic = "layout" THEN Fresh ELSE own)
  /\ UNCHANGED <<topic, hist, unsent, netVars, events, awaited, heard, missed, refused>>

\* The answers.  A list or a detail replaces what is shown; a run is merged; the answer to a PUT
\* of the groups is shown, that of the layout is not looked at; a removed PC leaves the list.
Answered(c) ==
  /\ c.at = "answered"
  /\ calls' = calls \ {c}
  /\ awaited' = (IF c.id = awaited THEN 0 ELSE awaited)
  /\ CASE c.kind = "post" -> Merge(c.val)
       [] c.kind = "save" /\ topic = "layout" -> UNCHANGED <<view, heard>>
       [] c.kind = "remove" /\ view % 2 = 0 -> UNCHANGED <<view, heard>>
       [] OTHER -> Replace(c.val)
  /\ UNCHANGED <<topic, hist, unsent, netVars, events, issued, own, missed, refused>>

\* A refused save of the groups is undone by fetching them; all other refusals are dropped.
Failed(c) ==
  /\ c.at = "refused"
  /\ IF c.kind = "save" /\ topic = "groups"
     THEN Also(calls \ {c}, "detail", 0)
     ELSE calls' = calls \ {c} /\ UNCHANGED issued
  /\ UNCHANGED <<topic, hist, unsent, netVars, events, view, own, awaited, heard, missed, refused>>

Next ==
  \/ Moves \/ Broadcast \/ Connected \/ Dropped \/ EventArrives \/ EchoTimeout
  \/ CreateRuns \/ LoadJob \/ RemoveAgent \/ Save
  \/ \E c \in calls : Serve(c) \/ Refuse(c) \/ Answered(c) \/ Failed(c)

ListSpec == Init /\ [][Next]_listVars

Rest == hub = "up" /\ events = <<>> /\ calls = {} /\ unsent = {} /\ awaited = 0

Same(v, w) == IF topic = "pc" THEN v % 2 = w % 2 ELSE v = w

\* Once nothing is on its way, the dashboard shows what the server holds: events that came before
\* the answer to the POST, that were lost with the connection, and saves of the groups that were
\* refused make no difference.  It is not so, and the code does not promise it,
\*   - for a list or an answer that was read before an event and applied after it (Pos(view) < heard),
\*   - for transfers after an event was lost with the connection: they are not fetched again,
\*   - for a layout that was refused: it stays as it was dragged.
ShownIsServer ==
  Rest /\ Pos(view) >= heard /\ (topic = "transfer" => ~missed) /\ (topic = "layout" => refused = 0) =>
    Same(view, Now)

\* Does not hold:
\* useTransfers.ts:22: the transfers of all PCs are tracked.
TransfersTracked == Rest /\ topic = "transfer" /\ refused = 0 => view = Now
===============================================================================
