----------------------------- MODULE MCDashboard -----------------------------
(***************************************************************************)
(* The parts of the dashboard other than the test results, on small        *)
(* instances.  They share no state while they run, so a behaviour is one   *)
(* of a single part: part says of which, and s1..s16 are its variables.    *)
(***************************************************************************)
EXTENDS Integers, Sequences, FiniteSets, TLC

CONSTANTS Parts,        \* the parts that are checked
          NoteVersions  \* the writes of a note that are looked into

VARIABLES part, s1, s2, s3, s4, s5, s6, s7, s8, s9, s10, s11, s12, s13, s14, s15, s16
allVars == <<part, s1, s2, s3, s4, s5, s6, s7, s8, s9, s10, s11, s12, s13, s14, s15, s16>>

(***************************************************************************)
(* The instances.                                                          *)
(***************************************************************************)

\* One drive, with a hidden file in it; the drive may be written in two ways.
Entry(n, hidden, like) == [name |-> n, hidden |-> hidden, like |-> like]
FolderEntries == [f \in {"", "d"} |-> IF f = "" THEN <<Entry("d", FALSE, TRUE)>> ELSE <<Entry("h", TRUE, FALSE)>>]
SameFolder == [p \in {"", "d", "d:"} |-> IF p = "d:" THEN "d" ELSE p]

Pane == INSTANCE ExplorerPane WITH
  tabs <- s1, tab <- s2, pane <- s3, asks <- s4, seen <- s5, chosen <- s6, anchor <- s7, op <- s8, clip <- s9,
  Entries <- FolderEntries, Canon <- SameFolder, MaxTabs <- 2, MaxVisits <- 2, MaxAsks <- 2

Panes == INSTANCE ExplorerPanes WITH
  windows <- s1, active <- s2, toolbar <- s3, unseen <- s4, locks <- s5, known <- s6, works <- s7, calls <- s8,
  dialog <- s9, PCs <- {"p", "q"}, Lockable <- {"p"}

View == INSTANCE RemoteView WITH
  win <- s1, sock <- s2, opened <- s3, keys <- s4, held <- s5, full <- s6, sink <- s7, waiting <- s8,
  stream <- s9, request <- s10, PCs <- {"p", "q"}, Locked <- {"q"}, Limit <- 2

CopiedOn == [pc \in {"here", "p", "q"} |-> CASE pc = "here" -> {"a", "b", "f"} [] pc = "p" -> {"f", "g"} [] pc = "q" -> {"a"}]
Clipboard == INSTANCE RemoteClipboard WITH
  board <- s1, conn <- s2, shared <- s3, known <- s4, job <- s5, taking <- s6, newest <- s7,
  PCs <- {"p", "q"}, Texts <- {"a", "b"}, FileLists <- {"f", "g"}, Copied <- CopiedOn

Tree == INSTANCE PcTree WITH
  parents <- s1, folderOf <- s2, others <- s3, granted <- s4, manages <- s5, selected <- s6, folderMenu <- s7,
  editing <- s8, expanded <- s9, Folders <- {"a", "b"}, PCs <- {"p"}

Lists == INSTANCE DashboardLists WITH
  topic <- s1, hist <- s2, unsent <- s3, hub <- s4, events <- s5, calls <- s6, issued <- s7, view <- s8,
  own <- s9, awaited <- s10, heard <- s11, missed <- s12, hubDrops <- s13, refused <- s14, MaxValue <- 2,
  MaxCalls <- 2, ListDrops <- 1, ListFails <- 1

RoomList == INSTANCE ChatRooms WITH
  author <- s1, inRoom <- s2, readTo <- s3, unsent <- s4, line <- s5, joins <- s6, feed <- s7, posts <- s8, here <- s9,
  room <- s10, list <- s11, loaded <- s12, open <- s13, visible <- s14, fetched <- s15, apart <- s16,
  MaxMessages <- 3, Kept <- 2, Take <- 1, MaxLoads <- 2

Chat == INSTANCE ChatWindow WITH
  members <- s1, owner <- s2, panel <- s3, saved <- s4, sends <- s5, past <- s6, overlay <- s7, asks <- s8,
  Rooms <- {"g", "h"}, Users <- {"u"}, Begins <- [u \in {"u"} |-> {u}], MaxTexts <- 2, MaxPanels <- 2, MaxAsks <- 1

Hub == INSTANCE SideHub WITH
  page <- s1, mounted <- s2, covered <- s3, side <- s4, pip <- s5, request <- s6, wanted <- s7, keys <- s8,
  drawn <- s9, room <- s10, focus <- s11, flashing <- s12, list <- s13, prior <- s14, notices <- s15,
  results <- s16,
  Rooms <- {"r"}, Pages <- {"files", "state"}, HubTabs <- {"chat", "transfers"}, MaxResults <- 1

Logins == INSTANCE Login WITH
  tab <- s1, stored <- s2, sessions <- s3, kept <- s4, projects <- s5, granted <- s6, here <- s7, left <- s8,
  Tabs <- {"t"}, Users <- {"u", "v"}, Projects <- {"p"}

Panel == INSTANCE NotesPanel WITH
  server <- s1, list <- s2, editor <- s3, flight <- s4, conflict <- s5, news <- s6, waived <- s7,
  Notes <- {"a", "b"}, MaxVersion <- NoteVersions, MaxEdits <- 2

State == INSTANCE StatePage WITH
  server <- s1, announced <- s2, puts <- s3, news <- s4, screen <- s5, agents <- s6, usage <- s7,
  transfers <- s8, seen <- s9, before <- s10, told <- s11, Users <- {"u", "v"}, Nodes <- {"a"},
  Places <- {"x"}, MaxPuts <- 1, PCs <- {"p"}, Transfers <- {"t"}, TransferOf <- [t \in {"t"} |-> "p"]

\* The folder g is in the folder f.
FoldersOver == [f \in {"f", "g"} |-> IF f = "g" THEN {"f"} ELSE {}]
FolderOver == [f \in {"f", "g"} |-> IF f = "g" THEN "f" ELSE "root"]
Admin == INSTANCE SettingsPage WITH
  org <- s1, view <- s2, news <- s3, saves <- s4, dialog <- s5, apart <- s6, made <- s7, pcs <- s8,
  picked <- s9, move <- s10, results <- s11,
  Features <- {"a", "b"}, Folders <- {"f", "g"}, Over <- FoldersOver, Nearest <- FolderOver, PCs <- {"p", "q"}, MaxSaves <- 2

(***************************************************************************)
(* The behaviours.                                                         *)
(***************************************************************************)
Without15 == s15 = 0 /\ s16 = 0
Without12 == s12 = 0 /\ s13 = 0 /\ s14 = 0 /\ Without15
Without11 == s11 = 0 /\ Without12
Without10 == s10 = 0 /\ Without11
Without9 == s9 = 0 /\ Without10
Without8 == s8 = 0 /\ Without9
Without7 == s7 = 0 /\ Without8
Without6 == s6 = 0 /\ Without7
Init ==
  /\ part \in Parts
  /\ \/ part = "pane" /\ Pane!PaneInit /\ Without10
     \/ part = "panes" /\ Panes!ExplorerInit /\ Without10
     \/ part = "remote" /\ View!RemoteInit /\ Without7
     \/ part = "screen" /\ View!ScreenInit /\ s1 = 0 /\ s2 = 0 /\ s3 = 0 /\ s4 = 0 /\ s5 = 0 /\ s6 = 0 /\ Without11
     \/ part = "clipboard" /\ Clipboard!ClipInit /\ Without8
     \/ part = "tree" /\ Tree!TreeInit /\ Without10
     \/ part = "lists" /\ Lists!Init /\ Without15
     \/ part = "rooms" /\ RoomList!Init
     \/ part = "chat" /\ Chat!ChatWindowInit /\ Without9
     \/ part = "hub" /\ Hub!HubInit
     \/ part = "login" /\ Logins!LoginInit /\ Without9
     \/ part = "notes" /\ Panel!NotesInit /\ Without8
     \/ part = "board" /\ State!BoardInit /\ Without6
     \/ part = "events" /\ State!EventsInit /\ s1 = 0 /\ s2 = 0 /\ s3 = 0 /\ s4 = 0 /\ s5 = 0 /\ Without12
     \/ part = "settings" /\ Admin!SettingsInit /\ Without12

Of(p) == part = p /\ UNCHANGED part
PaneStep == Of("pane") /\ Pane!PaneNext /\ UNCHANGED <<s10, s11, s12, s13, s14, s15, s16>>
PanesStep == Of("panes") /\ Panes!ExplorerNext /\ UNCHANGED <<s10, s11, s12, s13, s14, s15, s16>>
RemoteStep == Of("remote") /\ View!RemoteNext /\ UNCHANGED <<s7, s8, s9, s10, s11, s12, s13, s14, s15, s16>>
ScreenStep == Of("screen") /\ View!ScreenNext /\ UNCHANGED <<s1, s2, s3, s4, s5, s6, s11, s12, s13, s14, s15, s16>>
ClipboardStep == Of("clipboard") /\ Clipboard!ClipNext /\ UNCHANGED <<s8, s9, s10, s11, s12, s13, s14, s15, s16>>
TreeStep == Of("tree") /\ Tree!TreeNext /\ UNCHANGED <<s10, s11, s12, s13, s14, s15, s16>>
ListsStep == Of("lists") /\ Lists!Next /\ UNCHANGED <<s15, s16>>
RoomsStep == Of("rooms") /\ RoomList!Next
ChatStep == Of("chat") /\ Chat!Next /\ UNCHANGED <<s9, s10, s11, s12, s13, s14, s15, s16>>
HubStep == Of("hub") /\ Hub!HubNext
LoginStep == Of("login") /\ Logins!LoginNext /\ UNCHANGED <<s9, s10, s11, s12, s13, s14, s15, s16>>
NotesStep == Of("notes") /\ Panel!NotesNext /\ UNCHANGED <<s8, s9, s10, s11, s12, s13, s14, s15, s16>>
BoardStep == Of("board") /\ State!BoardNext /\ UNCHANGED <<s6, s7, s8, s9, s10, s11, s12, s13, s14, s15, s16>>
EventsStep == Of("events") /\ State!EventsNext /\ UNCHANGED <<s1, s2, s3, s4, s5, s12, s13, s14, s15, s16>>
SettingsStep == Of("settings") /\ Admin!Next /\ UNCHANGED <<s12, s13, s14, s15, s16>>
Next ==
  \/ PaneStep \/ PanesStep \/ RemoteStep \/ ScreenStep \/ ClipboardStep \/ TreeStep \/ ListsStep \/ RoomsStep
  \/ ChatStep \/ HubStep \/ LoginStep \/ NotesStep \/ BoardStep \/ EventsStep \/ SettingsStep
Spec == Init /\ [][Next]_allVars

\* What TLC looks into, see the bounds of each module.  Only a lone tab is searched and chosen in, and nothing is hidden
\* while an operation is under way or the clipboard holds something.
PaneBound ==
  /\ Len(s1) > 1 => Cardinality(s4) <= 1 /\ s6 = {} /\ ~s5.search /\ ~s5.hidden /\ s9 = "none" /\ s8 = Pane!NoOp
  /\ s8 # Pane!NoOp \/ s9 # "none" => Cardinality(s4) <= 1 /\ ~s5.search /\ ~s5.hidden
\* q, which nobody locks, is always seen and has no call of its files under way.
PanesBound == "q" \notin s4 /\ s8["q"] = "none"
\* No name is edited while a menu is open.
TreeBound == s8 = "none" \/ s7 = Tree!NoMenu
\* The title flashes while no job is known and no result is being loaded.
HubBound == s12 \/ ~s11 => s13 = "unknown" /\ s16.now = 0
Bounds ==
  CASE part = "pane" -> PaneBound
    [] part = "panes" -> PanesBound
    [] part = "tree" -> TreeBound
    [] part = "rooms" -> RoomList!FewWait
    [] part = "clipboard" -> Clipboard!OneAtATime
    [] part = "chat" -> Chat!WritesOrAsks
    [] part = "hub" -> HubBound
    [] part = "notes" -> Panel!FewNews
    [] part = "board" -> State!FewNews
    [] part = "settings" -> Admin!OnePart /\ Admin!FewAnnounced
    [] OTHER -> TRUE

(***************************************************************************)
(* Properties.                                                             *)
(***************************************************************************)

\* What a window shows is of what it says it shows, whatever came late, twice or from another user: the folder a pane
\* names, the last that was told of a PC, the frames of one picture after the other; once nothing is on its way also the
\* state the server holds and the badge of a room, unless an answer older than what had been heard took its place or an
\* event was lost that nothing fetches again: each module names these cases, for the code does not promise more there
\* (ExplorerPane.tsx, useDashboard.ts, useTransfers.ts, StatePage.tsx, sinks.ts, PcTree.tsx).
ShownIsSo ==
  /\ part = "pane" => Pane!ListsItsPath
  /\ part = "tree" => Tree!SeenIsDrawn
  /\ part = "lists" => Lists!ShownIsServer
  /\ part = "rooms" => RoomList!BadgeIsServer
  /\ part = "events" => State!LastRemoteIsSo
  /\ part = "screen" => View!FedIsWhole

\* What the user started reaches what it was started for, or nothing: one window asks one PIN, the clipboard brings the
\* last copy, a text is kept until it is sent and picks are of the room they were made in, the notifications know what
\* is on the screen, nobody is logged in again who has logged out, a folder made below one that a person sees is seen
\* (explorerPanes.ts, pcLocks.ts, sharedClipboard.ts, ChatPanel.tsx, sideHubState.ts, App.tsx, SettingsPage.tsx).
ReachesItsPlace ==
  /\ part = "panes" => Panes!OneWindowOneQuestion
  /\ part = "clipboard" => Clipboard!WaitsIsNewest /\ Clipboard!SetsTheNewest
  /\ part = "chat" => Chat!WrittenIsKept /\ Chat!PicksAreOfTheRoom
  /\ part = "hub" => Hub!KnowsWhatIsShown
  /\ part = "login" => Logins!NobodyComesBack
  /\ part = "settings" => Admin!BelowComesAlong

\* No step takes anything away from somebody else: a save of a note keeps what others wrote, but for the case that
\* LastSaveDoesNotWin is about, an announcement does not move what is being dragged, a window that leaves a PC leaves no
\* key down there, a tick changes the features that were clicked, a job does not cover the tab the user asked for.
OthersAreLeft ==
  [][/\ part = "notes" => Panel!OthersAreKept
     /\ part = "board" => State!DragStays
     /\ part = "remote" => View!LeavesNoKeys
     /\ part = "settings" => Admin!OnlyWhatWasClicked
     /\ part = "hub" => Hub!UserIsShown]_allVars

\* NoteStore.cs:10: if a note is edited at the same time, the save that comes last does not win.  The panel's does, for a
\* note that was opened again while a save of it was on its way.
LastSaveDoesNotWin == [][part = "notes" => \A n \in {"a", "b"} : ~Panel!Overwrites(n)]_allVars
===============================================================================
