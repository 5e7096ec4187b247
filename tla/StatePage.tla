----------------------------- MODULE StatePage ------------------------------
(***************************************************************************)
(* The State page (StatePage.tsx).                                         *)
(*                                                                         *)
(* The board: where the server, the groups and the users are drawn, which  *)
(* any user may move and all share.  A screen publishes the whole layout,  *)
(* while it drags and when it lets go; the server keeps the last one it    *)
(* gets and announces it to all.                                           *)
(*                                                                         *)
(* The events: who works on which PC and what happened, which the page     *)
(* finds by comparing what it shows now with what it showed before.  A     *)
(* user with limited folders is shown only the PCs of those folders.       *)
(***************************************************************************)
EXTENDS Naturals, Sequences, FiniteSets

CONSTANTS Users, Nodes, Places,    \* screens, what can be moved, where to
          MaxPuts                  \* bound: layouts on their way to the server

None == "none"
Default == "default"     \* a node that was never moved is drawn around the server

VARIABLES server,     \* the layout of the server: [at, locked, by]
          announced,  \* layouts stored and not announced yet
          puts,       \* layouts on their way to the server, of any user
          news,       \* news[u]: announcements on their way to a screen, in order
          screen      \* screen[u]: [shared, pos, drag, push, recent]

boardVars == <<server, announced, puts, news, screen>>

Layout(at, locked, by) == [at |-> at, locked |-> locked, by |-> by]
NoLayout == Layout([n \in Nodes |-> Default], FALSE, None)

\* push: what the timer publishes; recent: a layout was saved in the last 1.5 s.
BoardInit ==
  /\ server = NoLayout /\ announced = {} /\ puts = {} /\ news = [u \in Users |-> <<>>]
  /\ screen = [u \in Users |-> [shared |-> NoLayout, pos |-> NoLayout.at, drag |-> None,
                                timer |-> FALSE, push |-> NoLayout, recent |-> FALSE]]

\* The effect of [shared, dragging]: the positions follow what is shared, unless the
\* user drags.
Free(s) == s.drag = None
Follows(s) == IF Free(s) THEN [s EXCEPT !.pos = s.shared.at] ELSE s

\* saveStateLayout: it is shown at once and sent.
Publish(u, s, at, locked) ==
  /\ Cardinality(puts) < MaxPuts
  /\ puts' = puts \cup {Layout(at, locked, u)}
  /\ screen' = [screen EXCEPT ![u] = Follows([s EXCEPT !.shared = Layout(at, locked, u), !.recent = TRUE])]
  /\ UNCHANGED <<server, announced, news>>

\* A press on something that can be moved, unless the layout is locked.
Grab(u, n) ==
  /\ screen[u].drag = None /\ ~screen[u].shared.locked
  /\ screen' = [screen EXCEPT ![u].drag = n]
  /\ UNCHANGED <<server, announced, puts, news>>

\* The pointer moves: the first move of a quarter of a second is published at its end.
Move(u, p) ==
  /\ screen[u].drag # None
  /\ LET pos == [screen[u].pos EXCEPT ![screen[u].drag] = p]
     IN screen' = [screen EXCEPT ![u].pos = pos, ![u].timer = TRUE,
                     ![u].push = IF screen[u].timer THEN @ ELSE Layout(pos, screen[u].shared.locked, u)]
  /\ UNCHANGED <<server, announced, puts, news>>
PushTime(u) ==
  /\ screen[u].timer
  /\ Publish(u, [screen[u] EXCEPT !.timer = FALSE, !.push = NoLayout], screen[u].push.at, screen[u].push.locked)

\* The button is released, or the pointer leaves the board.
Release(u) ==
  /\ screen[u].drag # None
  /\ Publish(u, [screen[u] EXCEPT !.drag = None, !.timer = FALSE, !.push = NoLayout],
             screen[u].pos, screen[u].shared.locked)

ResetLayout(u) ==
  /\ ~screen[u].shared.locked /\ screen[u].drag = None
  /\ Publish(u, [screen[u] EXCEPT !.pos = NoLayout.at], NoLayout.at, FALSE)
ToggleLocked(u) ==
  /\ screen[u].drag = None
  /\ Publish(u, screen[u], screen[u].pos, ~screen[u].shared.locked)

\* The server stores one layout after the other, and announces each then; two that
\* come together may be announced in either order.
Stored(l) ==
  /\ puts' = puts \ {l} /\ server' = l /\ announced' = announced \cup {l}
  /\ UNCHANGED <<news, screen>>
Lost(l) == puts' = puts \ {l} /\ UNCHANGED <<server, announced, news, screen>>
Announce(l) ==
  /\ announced' = announced \ {l} /\ news' = [u \in Users |-> Append(news[u], l)]
  /\ UNCHANGED <<server, puts, screen>>

\* StateLayoutChanged: an echo of what this screen has just saved is not shown.
IsEcho(u, l) == l.by = u /\ screen[u].recent
Hears(u) ==
  /\ news[u] # <<>> /\ news' = [news EXCEPT ![u] = Tail(@)]
  /\ screen' = IF IsEcho(u, Head(news[u])) THEN screen
               ELSE [screen EXCEPT ![u] = Follows([@ EXCEPT !.shared = Head(news[u])])]
  /\ UNCHANGED <<server, announced, puts>>
TimePasses(u) ==
  /\ screen[u].recent /\ screen' = [screen EXCEPT ![u].recent = FALSE]
  /\ UNCHANGED <<server, announced, puts, news>>
\* The page is left and opened again: it shows what the dashboard has; a layout that
\* the timer was to publish still is.
Reopen(u) ==
  /\ screen[u].pos # screen[u].shared.at \/ screen[u].drag # None
  /\ screen' = [screen EXCEPT ![u].pos = screen[u].shared.at, ![u].drag = None]
  /\ UNCHANGED <<server, announced, puts, news>>

BoardNext ==
  \/ \E u \in Users, n \in Nodes : Grab(u, n)
  \/ \E u \in Users, p \in Places : Move(u, p)
  \/ \E u \in Users : PushTime(u) \/ Release(u) \/ ResetLayout(u) \/ ToggleLocked(u)
  \/ \E l \in puts : Stored(l) \/ Lost(l)
  \/ \E l \in announced : Announce(l)
  \/ \E u \in Users : Hears(u) \/ TimePasses(u) \/ Reopen(u)

BoardSpec == BoardInit /\ [][BoardNext]_boardVars

\* What a user is dragging stays under the pointer, whatever the others move and
\* whatever comes back of what was published before.
DragStays ==
  \A u \in Users : screen[u].drag # None /\ screen'[u].drag = screen[u].drag =>
    screen'[u].pos = screen[u].pos \/ \E p \in Places :
      screen'[u].pos = [screen[u].pos EXCEPT ![screen[u].drag] = p] /\ puts' = puts /\ news' = news

\* Not so: all see the same layout, the server's, once nothing is under way
\* (StatePage.tsx:132): the echo that is left out may be older than another user's
\* layout that was shown before it.
Still == puts = {} /\ announced = {} /\ \A u \in Users : news[u] = <<>> /\ screen[u].drag = None /\ ~screen[u].timer
AllSeeTheSame == Still => \A u \in Users : screen[u].pos = server.at

\* Not so: a locked layout is not moved (StatePage.tsx:834-835): a drag that began
\* before goes on, and what its timer publishes even unlocks it.
LockedStays == [][server.locked /\ server'.locked => server'.at = server.at]_boardVars

\* A bound: announcements on their way.
FewNews ==
  /\ Cardinality(announced) + Cardinality(puts) <= 1 /\ \A u \in Users : Len(news[u]) <= 1
  /\ (\E u \in Users : news[u] # <<>>) => announced = {} /\ puts = {}

(***************************************************************************)
(* The events.                                                             *)
(***************************************************************************)
CONSTANTS PCs, Transfers, TransferOf   \* TransferOf[t]: the PC a transfer is for

Untold == "untold"
States == {None, "Pending", "Succeeded", "Failed"}

VARIABLES agents,    \* [PCs -> "online", "offline", or None: not registered]
          usage,     \* [PCs -> the user who has the remote control, or None]
          transfers, \* [Transfers -> its state, None: not begun]
          seen,      \* the PCs that this user may see
          before,    \* what the page compares with: [agents, usage, transfers], shown before
          told       \* the last event told: [pc, remote, transfer]

eventVars == <<agents, usage, transfers, seen, before, told>>

\* What is on show: filtered by the folders this user may see.
Showing(ags, us, ts, visible) ==
  [agents |-> [p \in PCs |-> IF p \in visible THEN ags[p] ELSE None],
   usage |-> [p \in PCs |-> IF p \in visible THEN us[p] ELSE None],
   transfers |-> [t \in Transfers |-> IF TransferOf[t] \in visible THEN ts[t] ELSE None]]
Shown == Showing(agents, usage, transfers, seen)

EventsInit ==
  /\ agents \in [PCs -> {"online", "offline"}] /\ usage = [p \in PCs |-> None]
  /\ transfers \in [Transfers -> {None, "Pending"}] /\ seen = PCs
  /\ before = Showing(agents, usage, transfers, seen)
  /\ told = [pc |-> [p \in PCs |-> Untold], remote |-> [p \in PCs |-> Untold],
             transfer |-> [t \in Transfers |-> Untold]]

\* The effect of [transfers, remoteUsage, agents]: what has changed is told.
PcEvent(p, was, is) ==
  IF was[p] # None /\ is[p] # None /\ was[p] # is[p] THEN is[p] ELSE told.pc[p]
\* A bug: only the first user is told of.
Appeared(was, is) == is # None /\ was = None
Changed(was, is) == is # None /\ was # is
RemoteEvent(p, was, is) ==
  IF Changed(was[p], is[p]) THEN is[p]
  ELSE IF was[p] # None /\ is[p] = None THEN None ELSE told.remote[p]
TransferEvent(t, was, is) ==
  IF (was[t] = None /\ is[t] = "Pending") \/ (was[t] = "Pending" /\ is[t] \in {"Succeeded", "Failed"})
  THEN is[t] ELSE told.transfer[t]
Tells(now) ==
  /\ before' = now
  /\ told' = [pc |-> [p \in PCs |-> PcEvent(p, before.agents, now.agents)],
              remote |-> [p \in PCs |-> RemoteEvent(p, before.usage, now.usage)],
              transfer |-> [t \in Transfers |-> TransferEvent(t, before.transfers, now.transfers)]]

\* The lists of the dashboard change, one at a time, or several by one answer.
AgentsChange(p, s) ==
  /\ agents[p] # s /\ agents' = [agents EXCEPT ![p] = s]
  /\ Tells(Showing(agents', usage, transfers, seen))
  /\ UNCHANGED <<usage, transfers, seen>>
UsageChanges(p, u) ==
  /\ usage[p] # u /\ usage' = [usage EXCEPT ![p] = u]
  /\ Tells(Showing(agents, usage', transfers, seen))
  /\ UNCHANGED <<agents, transfers, seen>>
TransfersChange(t, s) ==
  /\ transfers[t] = None \/ (transfers[t] = "Pending" /\ s # None)
  /\ transfers[t] # s /\ transfers' = [transfers EXCEPT ![t] = s]
  /\ Tells(Showing(agents, usage, transfers', seen))
  /\ UNCHANGED <<agents, usage, seen>>
\* A PC is moved to another folder, or this user's folders are changed.
FoldersChange(visible) ==
  /\ visible # seen /\ seen' = visible
  /\ Tells(Showing(agents, usage, transfers, visible))
  /\ UNCHANGED <<agents, usage, transfers>>

EventsNext ==
  \/ \E p \in PCs, s \in {"online", "offline", None} : AgentsChange(p, s)
  \/ \E p \in PCs, u \in Users \cup {None} : UsageChanges(p, u)
  \/ \E t \in Transfers, s \in States : TransfersChange(t, s)
  \/ \E v \in SUBSET PCs : FoldersChange(v)

EventsSpec == EventsInit /\ [][EventsNext]_eventVars

\* The last that was told of the remote control of a PC is so, also when it went from
\* one user to another at once, and of PCs that are not shown any more.
LastRemoteIsSo == \A p \in PCs : told.remote[p] \in {Untold, Shown.usage[p]}

\* Not so: the last that was told of the connection of a PC; one that was removed and
\* comes back, or was not shown for a while, is told nothing of (StatePage.tsx:273).
LastConnectionIsSo == \A p \in PCs : told.pc[p] \in {Untold, Shown.agents[p]}

\* Not so: a transfer that is shown as done was told to be done
\* (StatePage.tsx:252-263), if it began while the page was open.
EndsAreTold ==
  \A t \in Transfers : told.transfer[t] = "Pending" => Shown.transfers[t] \notin {"Succeeded", "Failed"}
=============================================================================
