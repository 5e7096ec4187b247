------------------------------- MODULE SideHub -------------------------------
(***************************************************************************)
(* Chat, notes and progress (sideHubState.ts), which the dashboard shows   *)
(* in the sidebar of the PC list (PcTree.tsx) or, where there is none or   *)
(* something covers it, in a floating window (TransfersPip.tsx).  Requests *)
(* to show a tab, made by the user or by a job, are carried out when the   *)
(* screen is next drawn.                                                   *)
(***************************************************************************)
EXTENDS FiniteSets, Naturals

CONSTANTS Rooms,
          Pages,     \* of "files", "results", which have the sidebar, and "state"
          HubTabs,   \* of "chat", "notes", "transfers"
          MaxResults \* bound: results being loaded

VARIABLES page,
          mounted,   \* the page whose sidebar is mounted, as of the last drawing
          covered,   \* something covers the sidebar: a dialog, the full screen, an opened result
          side, pip, \* the sidebar and the floating window: [tab, folded]
          request,   \* reveal: [tab, reason, new: not drawn yet]
          wanted,    \* history: the tab the user asked for since the last drawing, "none"
          keys,      \* which of the two is reported to show the chat (shownRef)
          drawn,     \* everything has been drawn and its effects have run
          room,      \* the room that is open
          focus,     \* the window of the browser has the focus
          flashing,  \* the title flashes
          list,      \* a job of this user's as the dashboard was last told: "unknown", "none", "running" or "ended"
          prior,     \* the same as last drawn (jobStatesRef)
          notices,   \* history: how often its end was notified
          results    \* results being loaded, and how many were last drawn (sessionCount)

hubVars == <<page, mounted, covered, side, pip, request, wanted, keys, drawn, room, focus, flashing, list, prior, notices, results>>

Tabs == HubTabs \cup {"pc"}
None == "none"
Sidebar(p) == p # "state"
Hidden == Sidebar(page) /\ ~covered

HubInit ==
  /\ page = "files" /\ mounted = "files" /\ covered = FALSE
  /\ side = [tab |-> "pc", folded |-> FALSE] /\ pip = [tab |-> "transfers", folded |-> FALSE]
  /\ request = [tab |-> None, reason |-> None, new |-> FALSE] /\ wanted = None
  /\ keys = {} /\ drawn = TRUE /\ room = None /\ focus = TRUE /\ flashing = FALSE
  /\ list = "unknown" /\ prior = "unknown" /\ notices = 0
  /\ results = [now |-> 0, was |-> 0]

\* show: a request of the user's that is not drawn yet is not replaced by one of a job's.
Show(r, tab, reason) ==
  IF r.new /\ r.reason = "user" /\ reason = "auto" THEN r ELSE [tab |-> tab, reason |-> reason, new |-> TRUE]

(***************************************************************************)
(* Drawing.                                                                *)
(***************************************************************************)
\* Where the chat is open: in the sidebar unless it is folded or covered, in the floating
\* window unless that is folded or not there (useReportChatShown).
ChatShown(s, p) ==
  (IF Sidebar(page) /\ ~s.folded /\ ~covered /\ s.tab = "chat" THEN {"side"} ELSE {})
    \cup (IF ~Hidden /\ p.tab = "chat" /\ ~p.folded THEN {"pip"} ELSE {})
\* Only what was there before takes the request; the sidebar takes the user's alone, and never when covered.
SideTakes == request.new /\ request.reason = "user" /\ ~covered /\ Sidebar(page) /\ mounted = page
Revealed(v, takes) == IF takes THEN [tab |-> request.tab, folded |-> FALSE] ELSE v
\* The effects of what changed make requests of their own, which the next drawing carries out.
JobChanged == list # "unknown" /\ prior # "unknown" /\ list # prior /\ list # None
Ended == prior = "running" /\ list = "ended"
More == results.now > results.was
Draw ==
  /\ ~drawn
  /\ side' = Revealed(side, SideTakes) /\ pip' = Revealed(pip, request.new /\ ~Hidden)
  /\ keys' = ChatShown(side', pip')
  /\ LET old == [request EXCEPT !.new = FALSE]
         one == IF More THEN Show(old, "transfers", "user") ELSE old
     IN request' = IF JobChanged THEN Show(one, "transfers", "auto") ELSE one
  /\ wanted' = IF More THEN "transfers" ELSE None
  /\ notices' = notices + (IF Ended THEN 1 ELSE 0)
  /\ prior' = list /\ results' = [results EXCEPT !.was = results.now] /\ mounted' = page
  /\ drawn' = (~request'.new /\ side' = side /\ pip' = pip)
  /\ UNCHANGED <<page, covered, room, focus, flashing, list>>

Changes == drawn' = FALSE
Stay(v) == UNCHANGED v

(***************************************************************************)
(* What the user does.                                                     *)
(***************************************************************************)
Others == UNCHANGED <<request, wanted, keys, mounted, flashing, list, prior, notices, results>>
GoTo == \E p \in Pages :
  /\ p # page /\ ~covered /\ page' = p /\ Changes /\ Others /\ Stay(<<covered, side, pip, room, focus>>)
Cover == covered' = ~covered /\ Changes /\ Others /\ Stay(<<page, side, pip, room, focus>>)
ChooseTab == \E t \in Tabs :
  /\ Sidebar(page) /\ ~covered
  /\ side' = [tab |-> t, folded |-> FALSE] /\ Changes /\ Others /\ Stay(<<page, covered, pip, room, focus>>)
Fold == /\ Sidebar(page) /\ ~covered
        /\ side' = [side EXCEPT !.folded = ~@] /\ Changes /\ Others /\ Stay(<<page, covered, pip, room, focus>>)
SwitchTab == \E t \in HubTabs :
  ~Hidden /\ pip' = [pip EXCEPT !.tab = t] /\ Changes /\ Others /\ Stay(<<page, covered, side, room, focus>>)
ToggleCollapsed ==
  ~Hidden /\ pip' = [pip EXCEPT !.folded = ~@] /\ Changes /\ Others /\ Stay(<<page, covered, side, room, focus>>)
ChangeRoom == \E r \in Rooms \cup {None} :
  ChatShown(side, pip) # {} /\ room' = r /\ Changes /\ Others /\ Stay(<<page, covered, side, pip, focus>>)
Focus ==
  /\ focus' = ~focus /\ flashing' = FALSE /\ Changes
  /\ UNCHANGED <<page, mounted, covered, side, pip, request, wanted, keys, room, list, prior, notices, results>>
StartResult ==
  /\ results.now < MaxResults /\ results' = [results EXCEPT !.now = @ + 1] /\ Changes
  /\ UNCHANGED <<page, mounted, covered, side, pip, request, wanted, keys, room, focus, flashing, list, prior, notices>>
RemoveResult ==
  /\ results.now > 0 /\ results' = [results EXCEPT !.now = @ - 1] /\ Changes
  /\ UNCHANGED <<page, mounted, covered, side, pip, request, wanted, keys, room, focus, flashing, list, prior, notices>>

(***************************************************************************)
(* Messages and jobs.                                                      *)
(***************************************************************************)
\* Notified unless it is looked at: the room is the open one, and the chat is shown somewhere.
Watching(r) == keys # {} /\ room = r
Message == \E r \in Rooms :
  /\ flashing' = (flashing \/ ~focus \/ ~Watching(r))
  /\ UNCHANGED <<page, mounted, covered, side, pip, request, wanted, keys, drawn, room, focus, list, prior, notices, results>>
\* The notification is clicked: the window comes to the front, on that room.
ClickNotice == \E r \in Rooms :
  /\ flashing /\ focus' = TRUE /\ flashing' = FALSE /\ room' = r
  /\ request' = Show(request, "chat", "user") /\ wanted' = "chat" /\ Changes
  /\ UNCHANGED <<page, mounted, covered, side, pip, keys, list, prior, notices, results>>
\* The list comes when a job starts or ends, at first, and again after a lost connection.
JobsArrive == \E now \in {None, "running", "ended"} :
  /\ list # now /\ list # "ended" /\ (list = "running" => now = "ended")
  /\ list' = now /\ Changes
  /\ UNCHANGED <<page, mounted, covered, side, pip, request, wanted, keys, room, focus, flashing, prior, notices, results>>

HubNext ==
  \/ Draw \/ GoTo \/ Cover \/ ChooseTab \/ Fold \/ SwitchTab \/ ToggleCollapsed \/ ChangeRoom \/ Focus
  \/ StartResult \/ RemoveResult \/ Message \/ ClickNotice \/ JobsArrive

HubSpec == HubInit /\ [][HubNext]_hubVars

(***************************************************************************)
(* Properties.                                                             *)
(***************************************************************************)

\* What the notifications of messages go by is true once all is drawn: the chat counts
\* as shown exactly where it is (the sidebar that is covered, folded or gone, the window
\* that is hidden do not count); and the end of a job is notified once at most, after it.
KnowsWhatIsShown ==
  /\ drawn => keys = ChatShown(side, pip)
  /\ notices <= 1 /\ (notices = 1 => list = "ended")

\* A request of the user's is carried out although a job makes one before the screen is
\* drawn (sideHubState.ts:98): its tab is then open, in the sidebar or in the floating
\* window, unless the page was left.
UserIsShown ==
  Draw /\ wanted # None /\ mounted = page =>
    IF Hidden THEN side'.tab = wanted /\ ~side'.folded ELSE pip'.tab = wanted /\ ~pip'.folded
=============================================================================
