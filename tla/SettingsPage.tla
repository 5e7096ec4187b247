---------------------------- MODULE SettingsPage ----------------------------
(***************************************************************************)
(* The administrator's part of the Setting page (SettingsPage.tsx,         *)
(* FolderPermDialog.tsx, folderPermTree.ts): the features and the folders  *)
(* of one person, and the PCs that are sent to another server.             *)
(*                                                                         *)
(* The page shows the organisation and the folders as the server last      *)
(* announced them; the announcements come in order and late.  A save sends *)
(* a whole list and may be overtaken by another.  A new folder goes to     *)
(* whoever may see the folder above it (OrgStore.InheritFolders).          *)
(***************************************************************************)
EXTENDS Naturals, Sequences, FiniteSets

CONSTANTS Features, Folders,
          Over,      \* Over[f]: the folders f is in, the nearest and those above it
          Nearest,   \* Nearest[f]: the folder f is directly in, or "root"
          PCs,
          MaxSaves   \* bound: saves

VARIABLES
  org,      \* server: [perms, reviewed, sees, made]; made: the folders there are
  view,     \* the same as the page has it
  news,     \* announcements on their way
  saves,    \* saves on their way
  dialog,   \* the window of the folders
  apart,    \* history: folders the person does not see though he sees the one above: unticked, or not in the window
  made,     \* bound: saves made
  pcs,      \* "offline", "old" or "ready"
  picked,   \* the PCs picked to be sent to the other server
  move,     \* those that are being sent
  results   \* what has been told of each

settingsVars == <<org, view, news, saves, dialog, apart, made, pcs, picked, move, results>>
orgPart == <<org, view, news, saves, dialog, apart, made>>
movePart == <<pcs, picked, move, results>>

Everything == {"all"}   \* null: every folder, those made later too
Never == {"never"}      \* the person has never logged in
Ungrouped == "ungrouped"
Limited(o) == o.sees # Everything
NoDialog == [open |-> FALSE, all |-> FALSE, picked |-> {}, busy |-> FALSE, known |-> {}, unticked |-> {}]
Roots == {f \in Folders : Over[f] = {}}
Below(f, there) == {x \in there : f \in Over[x]}

SettingsInit ==
  /\ org \in {[perms |-> Never, reviewed |-> FALSE, sees |-> Everything, made |-> Roots],
              [perms |-> Features, reviewed |-> TRUE, sees |-> Roots, made |-> Roots]}
  /\ view = org /\ news = <<>> /\ saves = {} /\ dialog = NoDialog /\ apart = {} /\ made = 0
  /\ pcs \in [PCs -> {"offline", "old", "ready"}] /\ picked = {} /\ move = {} /\ results = [p \in PCs |-> "none"]

(***************************************************************************)
(* The server.                                                             *)
(***************************************************************************)
Changed(o) == org' = o /\ news' = Append(news, [of |-> "org", o |-> o])

\* The first login in a project brings every feature.
LogsIn ==
  /\ org.perms = Never /\ Changed([org EXCEPT !.perms = Features])
  /\ UNCHANGED <<view, saves, dialog, apart, made, movePart>>

\* A person whose folders are chosen is given the new one if he sees the one above or has made it.
Inherited(sees, f, own) == IF own \/ Nearest[f] \in sees THEN sees \cup {f} ELSE sees

FolderMade(f, own) ==
  /\ f \notin org.made /\ Over[f] \subseteq org.made
  /\ LET sees == IF Limited(org) THEN Inherited(org.sees, f, own) ELSE Everything
         groups == [of |-> "groups", o |-> [org EXCEPT !.made = @ \cup {f}]]
         next == [org EXCEPT !.made = @ \cup {f}, !.sees = sees]
     IN org' = next /\ news' = news \o (IF sees = org.sees THEN <<groups>> ELSE <<groups, [of |-> "org", o |-> next]>>)
  /\ UNCHANGED <<view, saves, dialog, apart, made, movePart>>

\* PcGroupsChanged brings the folders, OrgChanged the rest.
Announced ==
  /\ news # <<>> /\ news' = Tail(news)
  /\ LET n == Head(news)
     IN view' = IF n.of = "groups" THEN [view EXCEPT !.made = n.o.made] ELSE [n.o EXCEPT !.made = view.made]
  /\ UNCHANGED <<org, saves, dialog, apart, made, movePart>>

(***************************************************************************)
(* The table of features: a tick saves at once, from what the page shows.  *)
(***************************************************************************)
Mine == IF view.perms = Never THEN {} ELSE view.perms
Ticked(f) == IF f \in Mine THEN Mine \ {f} ELSE Mine \cup {f}

Save(request) ==
  /\ made < MaxSaves /\ made' = made + 1 /\ saves' = saves \cup {request}

Tick(fs, value) ==
  /\ Save([of |-> "perms", value |-> value, base |-> view.perms, clicked |-> fs, known |-> {}, unticked |-> {}])
  /\ UNCHANGED <<org, view, news, dialog, apart, movePart>>

TickOne == \E f \in Features : Tick({f}, Ticked(f))
TickAll == Tick(Features, IF Mine = Features THEN {} ELSE Features)

(***************************************************************************)
(* The window of the folders, filled when it is opened.                    *)
(***************************************************************************)
All(there) == there \cup {Ungrouped}

OpenFolders ==
  /\ ~dialog.open
  /\ dialog' = [NoDialog EXCEPT !.open = TRUE, !.all = ~Limited(view), !.picked = IF Limited(view) THEN view.sees ELSE All(view.made),
                                !.known = view.made \cap (IF Limited(view) THEN view.sees ELSE view.made)]
  /\ UNCHANGED <<org, view, news, saves, apart, made, movePart>>

SetAll(on) ==
  /\ dialog.open /\ dialog' = [dialog EXCEPT !.all = on]
  /\ UNCHANGED <<org, view, news, saves, apart, made, movePart>>

\* setMany: what is unticked is so by the administrator, what is ticked no longer is.
SetMany(fs, on) ==
  /\ dialog.open /\ ~dialog.all
  /\ dialog' = [dialog EXCEPT !.picked = IF on THEN @ \cup fs ELSE @ \ fs, !.known = @ \cup fs,
                              !.unticked = IF on THEN @ \ fs ELSE @ \cup fs]
  /\ UNCHANGED <<org, view, news, saves, apart, made, movePart>>

\* A folder takes those below it along, the ones the page has by now.
Toggle(f) == SetMany({f} \cup Below(f, view.made), f \notin dialog.picked)

ToggleFolder == \/ \E f \in view.made : Toggle(f)
                \/ SetMany({Ungrouped}, Ungrouped \notin dialog.picked)
PickAllFolders == SetMany(All(view.made), TRUE)
PickNone == SetMany(dialog.picked, FALSE)

SaveFolders ==
  /\ dialog.open /\ ~dialog.busy
  /\ Save([of |-> "folders", value |-> IF dialog.all THEN Everything ELSE dialog.picked, base |-> view.perms,
           clicked |-> {}, known |-> dialog.known, unticked |-> dialog.unticked])
  /\ dialog' = [dialog EXCEPT !.busy = TRUE]
  /\ UNCHANGED <<org, view, news, apart, movePart>>

CloseFolders ==
  /\ dialog.open /\ dialog' = NoDialog
  /\ UNCHANGED <<org, view, news, saves, apart, made, movePart>>

\* SetUserPerms and SetUserFolders take the list as it is; the person counts as looked at.
Served(s) ==
  /\ saves' = saves \ {s}
  /\ \/ /\ s.of = "perms" /\ Changed([org EXCEPT !.perms = s.value, !.reviewed = TRUE])
        /\ UNCHANGED <<dialog, apart>>
     \/ /\ s.of = "folders" /\ Changed([org EXCEPT !.sees = s.value, !.reviewed = TRUE])
        /\ apart' = s.unticked \cup (org.made \ s.known)
        /\ dialog' = IF dialog.busy THEN NoDialog ELSE dialog
  /\ UNCHANGED <<view, made, movePart>>

SaveFails(s) ==
  /\ saves' = saves \ {s}
  /\ dialog' = IF s.of = "folders" THEN [dialog EXCEPT !.busy = FALSE] ELSE dialog
  /\ UNCHANGED <<org, view, news, apart, made, movePart>>

(***************************************************************************)
(* Sending PCs to another server.                                          *)
(***************************************************************************)
Ready == {p \in PCs : pcs[p] = "ready"}
Chosen == Ready \cap picked

PcChanges(p, to) ==
  /\ pcs[p] # to /\ pcs' = [pcs EXCEPT ![p] = to]
  /\ UNCHANGED <<orgPart, picked, move, results>>

PickPc(p) ==
  /\ p \in Ready /\ picked' = (IF p \in picked THEN picked \ {p} ELSE picked \cup {p})
  /\ UNCHANGED <<orgPart, pcs, move, results>>

PickReady ==
  /\ Ready # {} /\ picked' = (IF Chosen = Ready THEN {} ELSE Ready)
  /\ UNCHANGED <<orgPart, pcs, move, results>>

SubmitMove ==
  /\ move = {} /\ Chosen # {} /\ move' = Chosen
  /\ UNCHANGED <<orgPart, pcs, picked, results>>

\* Each PC tries the other server first; one that reaches it goes.  Nothing is picked any more.
MoveAnswers ==
  /\ move # {}
  /\ \E gone \in SUBSET move :
       /\ pcs' = [p \in PCs |-> IF p \in gone THEN "offline" ELSE pcs[p]]
       /\ results' = [p \in PCs |-> IF p \in gone THEN "moved" ELSE IF p \in move THEN "refused" ELSE results[p]]
  /\ move' = {} /\ picked' = {} /\ UNCHANGED orgPart

MoveFails == move # {} /\ move' = {} /\ UNCHANGED <<orgPart, pcs, picked, results>>

Next ==
  \/ LogsIn \/ Announced \/ TickOne \/ TickAll
  \/ \E f \in Folders, own \in BOOLEAN : FolderMade(f, own)
  \/ OpenFolders \/ SetAll(TRUE) \/ SetAll(FALSE) \/ ToggleFolder \/ PickAllFolders \/ PickNone \/ SaveFolders \/ CloseFolders
  \/ \E s \in saves : Served(s) \/ SaveFails(s)
  \/ \E p \in PCs : PickPc(p) \/ \E to \in {"offline", "old", "ready"} : PcChanges(p, to)
  \/ PickReady \/ SubmitMove \/ MoveAnswers \/ MoveFails

\* What TLC looks into: one part of the page at a time, and few announcements on their way.
Untouched == picked = {} /\ results = [p \in PCs |-> "none"] /\ \A p \in PCs : pcs[p] = "old"
OnePart == \/ made = 0 /\ org = view /\ ~dialog.open /\ org.perms = Never /\ org.made = Roots
           \/ Untouched /\ ~dialog.open /\ ~Limited(org) /\ org.made = Roots
           \/ Untouched /\ org.perms = Features /\ made <= 1
FewAnnounced == Len(news) <= 2

SettingsSpec == SettingsInit /\ [][Next]_settingsVars

(***************************************************************************)
(* Properties.                                                             *)
(***************************************************************************)
SettingsTypeOK ==
  /\ \A o \in {org, view} : /\ o.perms = Never \/ o.perms \subseteq Features
                            /\ Limited(o) => o.sees \subseteq All(Folders)
                            /\ o.reviewed \in BOOLEAN /\ o.made \subseteq Folders
  /\ dialog.picked \subseteq All(Folders) /\ made \in 0..MaxSaves
  /\ picked \subseteq PCs /\ move \subseteq PCs /\ results \in [PCs -> {"none", "moved", "refused"}]

\* A person sees the folders below one he sees, also those made later (FolderPermDialog.tsx:139), except where the
\* administrator has unticked them or has saved a window that did not hold them.
BelowComesAlong ==
  Limited(org) => \A f \in org.made : Nearest[f] \in org.sees => f \in org.sees \cup apart

\* A tick that finds the features as the page showed them changes those that were clicked and no others.
OnlyWhatWasClicked ==
  \A s \in saves \ saves' : s.of = "perms" /\ s.base = org.perms /\ org.perms # Never /\ org' # org
    => \A f \in Features : (f \in org.perms) # (f \in org'.perms) => f \in s.clicked

\* Does not hold:
\* FolderPermDialog.tsx:139: a folder made below one that is ticked comes in by itself.  A window opened before, or
\* between the two announcements of the folder, takes it away again without having shown it ticked.
TakenWereUnticked ==
  [][\A s \in saves \ saves' : s.of = "folders" /\ org' # org /\ Limited(org) /\ Limited(org')
       => org.sees \ org'.sees \subseteq s.unticked]_settingsVars

\* Does not hold:
\* SettingsPage.tsx:241: a tick is saved at once.  A second one made before the first is announced undoes it.
EveryTickCounts ==
  [][\A s \in saves \ saves' : s.of = "perms" /\ org' # org /\ org.perms # Never
       => \A f \in Features : (f \in org.perms) # (f \in org'.perms) => f \in s.clicked]_settingsVars

\* Does not hold:
\* A PC that is said to have been moved is not on this server (SettingsPage.tsx:471: the word stays when it comes back).
MovedIsAway == \A p \in PCs : results[p] = "moved" => pcs[p] = "offline"
=============================================================================
