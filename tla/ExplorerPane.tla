---------------------------- MODULE ExplorerPane ----------------------------
(***************************************************************************)
(* One window of the file explorer (ExplorerPane.tsx): its tabs with the   *)
(* folders each has visited, the listing on show, what is chosen in it,    *)
(* and the operations on files, which end with the listing being read      *)
(* again.  Listings and operations are answered by the agent, late and in  *)
(* any order.                                                              *)
(***************************************************************************)
EXTENDS Naturals, Sequences, FiniteSets

CONSTANTS Entries,     \* the names in each folder: sequence of [name, hidden, like: found by the search]
          Canon,       \* the folder a path leads to: paths may be written in several ways
          MaxTabs, MaxVisits, MaxAsks   \* bounds: tabs, visits of a tab, listings not answered

VARIABLES tabs,     \* sequence of [id, stack, at]
          tab,      \* the id of the active one
          pane,     \* [listing, failed]: the folder listed, and whether the last one asked for failed
          asks,     \* the listings not answered: set of [path, latest: by requestRef]
          seen,     \* [search, hidden, deep]: what is filtered away, the search below the folder
          chosen,   \* the names chosen
          anchor,   \* where a range starts, 0: nowhere
          op,       \* the operation under way: [path, cut, always: the folder is read again even when it failed]
          clip      \* what the clipboard holds: "none", "cut" or "copy"

paneVars == <<tabs, tab, pane, asks, seen, chosen, anchor, op, clip>>

None == "none"
NoOp == [path |-> None, cut |-> FALSE, always |-> FALSE]
Seq1(x) == <<x>>

Index(id) == CHOOSE i \in DOMAIN tabs : tabs[i].id = id
Active == tabs[Index(tab)]
Path == Active.stack[Active.at]
SetTab(ts, id, t) == [i \in DOMAIN ts |-> IF ts[i].id = id THEN t ELSE ts[i]]
Listed == IF pane.listing = None THEN <<>> ELSE Entries[pane.listing]

\* What is drawn: without the hidden and what the search leaves out (displayed).
Shown(e) == (seen.hidden \/ ~e.hidden) /\ (seen.search => e.like)
Displayed == SelectSeq(Listed, Shown)
Names(s) == {s[i].name : i \in DOMAIN s}
\* selectedEntries: of the folder listed, whether or not it is drawn.
Selected == chosen \cap Names(Listed)

PaneInit ==
  /\ tabs = <<[id |-> 1, stack |-> <<"">>, at |-> 1]>> /\ tab = 1
  /\ pane = [listing |-> None, failed |-> FALSE]
  /\ asks = {[path |-> "", latest |-> TRUE]}
  /\ seen = [search |-> FALSE, hidden |-> FALSE, deep |-> FALSE]
  /\ chosen = {} /\ anchor = 0 /\ op = NoOp /\ clip = None

\* load: the search is over, and only the answer to this one counts.
Load(path) ==
  /\ asks' = {[a EXCEPT !.latest = FALSE] : a \in asks} \cup {[path |-> path, latest |-> TRUE]}
  /\ Cardinality(asks') <= MaxAsks /\ UNCHANGED pane
  /\ seen' = [seen EXCEPT !.search = FALSE, !.deep = FALSE]

(***************************************************************************)
(* Going from folder to folder, and the tabs.                              *)
(***************************************************************************)
Visit(t, path) ==
  LET kept == SubSeq(t.stack, 1, t.at)
      now == IF kept[t.at] = path THEN kept ELSE Append(kept, path)
  IN [t EXCEPT !.stack = now, !.at = Len(now)]
\* A folder of the listing, of the favorites, of the tree, of the path; or the parent.
Navigate == \E path \in DOMAIN Canon :
  /\ Len(Visit(Active, path).stack) <= MaxVisits
  /\ tabs' = SetTab(tabs, tab, Visit(Active, path)) /\ Load(path)
  /\ UNCHANGED <<tab, chosen, anchor, op, clip>>
Go(by) ==
  /\ tabs' = SetTab(tabs, tab, [Active EXCEPT !.at = by]) /\ Load(Active.stack[by])
  /\ UNCHANGED <<tab, chosen, anchor, op, clip>>
Back == Active.at > 1 /\ Go(Active.at - 1)
Forward == Active.at < Len(Active.stack) /\ Go(Active.at + 1)
Refresh == Load(Path) /\ UNCHANGED <<tabs, tab, chosen, anchor, op, clip>>

NewId == CHOOSE n \in 1 .. MaxTabs + 1 : \A i \in DOMAIN tabs : tabs[i].id # n
OpenTab(path, after) ==
  /\ Len(tabs) < MaxTabs
  /\ tabs' = SubSeq(tabs, 1, after) \o Seq1([id |-> NewId, stack |-> <<path>>, at |-> 1])
             \o SubSeq(tabs, after + 1, Len(tabs))
  /\ tab' = NewId /\ Load(path) /\ UNCHANGED <<chosen, anchor, op, clip>>
AddTab == OpenTab(Path, Len(tabs))
OpenInNewTab == \E path \in DOMAIN Canon : OpenTab(path, Index(tab))
PickTab == \E i \in DOMAIN tabs :
  /\ tabs[i].id # tab /\ tab' = tabs[i].id /\ Load(tabs[i].stack[tabs[i].at])
  /\ UNCHANGED <<tabs, chosen, anchor, op, clip>>
CloseTab == \E i \in DOMAIN tabs :
  LET left == SelectSeq(tabs, LAMBDA t : t.id # tabs[i].id)
      next == left[IF i > 1 THEN i - 1 ELSE 1]
  IN /\ Len(tabs) > 1 /\ tabs' = left
     /\ IF tabs[i].id = tab THEN tab' = next.id /\ Load(next.stack[next.at])
        ELSE UNCHANGED <<tab, pane, asks, seen>>
  /\ UNCHANGED <<chosen, anchor, op, clip>>

(***************************************************************************)
(* Listings.  The visit that is current takes the path as the agent writes *)
(* it.                                                                     *)
(***************************************************************************)
Latest(a) == a.latest
Rewritten(t, path) == [t EXCEPT !.stack[t.at] = path]
ListingAnswers == \E a \in asks :
  /\ asks' = asks \ {a}
  /\ IF Latest(a)
     THEN /\ pane' = [pane EXCEPT !.listing = Canon[a.path], !.failed = FALSE]
          /\ chosen' = {} /\ anchor' = 0
          /\ tabs' = SetTab(tabs, tab, Rewritten(Active, Canon[a.path]))
     ELSE UNCHANGED <<pane, chosen, anchor, tabs>>
  /\ UNCHANGED <<tab, seen, op, clip>>
\* The agent is away, or may not read it: what was listed stays on show.
ListingFails == \E a \in asks :
  /\ asks' = asks \ {a}
  /\ pane' = IF Latest(a) THEN [pane EXCEPT !.failed = TRUE] ELSE pane
  /\ UNCHANGED <<tabs, tab, seen, chosen, anchor, op, clip>>

(***************************************************************************)
(* Searching and choosing.                                                 *)
(***************************************************************************)
Look == UNCHANGED <<tabs, tab, pane, asks, op, clip>>
Search ==
  /\ seen' = [seen EXCEPT !.search = ~@, !.deep = IF seen.search THEN FALSE ELSE @]
  /\ Look /\ UNCHANGED <<chosen, anchor>>
ShowHidden == seen' = [seen EXCEPT !.hidden = ~@] /\ Look /\ UNCHANGED <<chosen, anchor>>
DeepSearch ==
  /\ seen.search /\ Path # "" /\ seen' = [seen EXCEPT !.deep = TRUE]
  /\ Look /\ UNCHANGED <<chosen, anchor>>
CloseDeep == seen.deep /\ seen' = [seen EXCEPT !.deep = FALSE] /\ Look /\ UNCHANGED <<chosen, anchor>>

Order(x, y) == IF x < y THEN x .. y ELSE y .. x
Choose == \E i \in DOMAIN Displayed, how \in {"one", "toggle", "range"} :
  LET name == Displayed[i].name
  IN /\ ~seen.deep
     /\ IF how = "range" /\ anchor > 0
        THEN chosen' = {Displayed[k].name : k \in Order(anchor, i) \cap DOMAIN Displayed} /\ UNCHANGED anchor
        ELSE /\ anchor' = i
             /\ chosen' = IF how # "toggle" THEN {name}
                          ELSE IF name \in chosen THEN chosen \ {name} ELSE chosen \cup {name}
  /\ Look /\ UNCHANGED seen
ChooseAll == ~seen.deep /\ chosen' = Names(Displayed) /\ Look /\ UNCHANGED <<seen, anchor>>
ChooseNone == chosen' = {} /\ Look /\ UNCHANGED <<seen, anchor>>

(***************************************************************************)
(* Operations.  Each goes to the folder of the click, and reads it again.  *)
(***************************************************************************)
Start(cut, always) ==
  /\ op = NoOp /\ op' = [path |-> Path, cut |-> cut, always |-> always]
  /\ UNCHANGED <<tabs, tab, pane, asks, seen, chosen, anchor, clip>>
Paste == clip # None /\ Path # "" /\ Start(clip = "cut", TRUE)
RemoveChosen == Selected # {} /\ Start(FALSE, TRUE)
Rename == Cardinality(Selected) = 1 /\ Start(FALSE, FALSE)
CreateFolder == Path # "" /\ Start(FALSE, FALSE)
Clip == \E mode \in {"cut", "copy"} :
  /\ Selected # {} /\ clip' = mode
  /\ UNCHANGED <<tabs, tab, pane, asks, seen, chosen, anchor, op>>

\* Renaming and creating read the folder again only when they went well; a cut that
\* went well leaves the clipboard empty.
OpEnds == \E well \in BOOLEAN :
  /\ op # NoOp /\ op' = NoOp
  /\ IF well \/ op.always THEN Load(op.path) ELSE UNCHANGED <<pane, asks, seen>>
  /\ clip' = IF op.cut /\ well THEN None ELSE clip
  /\ UNCHANGED <<tabs, tab, chosen, anchor>>
\* A file that was pushed to this PC, or packed on it: the folder on show now.
TransferDone == Path # "" /\ Refresh

PaneNext ==
  \/ Navigate \/ Back \/ Forward \/ Refresh \/ AddTab \/ OpenInNewTab \/ PickTab \/ CloseTab
  \/ ListingAnswers \/ ListingFails \/ Search \/ ShowHidden \/ DeepSearch \/ CloseDeep
  \/ Choose \/ ChooseAll \/ ChooseNone
  \/ Paste \/ RemoveChosen \/ Rename \/ CreateFolder \/ Clip \/ OpEnds \/ TransferDone

PaneSpec == PaneInit /\ [][PaneNext]_paneVars

(***************************************************************************)
(* Properties.                                                             *)
(***************************************************************************)

\* With no listing on its way and the last one read, the window lists the folder its
\* path names, however many were asked for and in whatever order they were answered
\* (requestRef), and what is chosen lies in that folder; there is always an active tab.
ListsItsPath ==
  /\ tab \in {tabs[i].id : i \in DOMAIN tabs}
  /\ (\A a \in asks : ~a.latest) /\ ~pane.failed => pane.listing = Path /\ chosen \subseteq Names(Listed)

\* Does not hold:
\* "The current item of the visits is brought up to the path as it is written"
\* (ExplorerPane.tsx:288): a folder that was visited stays that folder.
VisitsStay ==
  [][\A i \in DOMAIN tabs, j \in DOMAIN tabs' : tabs[i].id = tabs'[j].id =>
       \A k \in DOMAIN tabs[i].stack : k <= tabs'[j].at /\ k <= tabs[i].at =>
         Canon[tabs'[j].stack[k]] = Canon[tabs[i].stack[k]]]_paneVars
=============================================================================
