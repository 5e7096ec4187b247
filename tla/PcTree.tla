-------------------------------- MODULE PcTree --------------------------------
(***************************************************************************)
(* The list of PCs (PcTree.tsx, pcGroups.ts): folders in folders, which    *)
(* everybody edits and everybody is sent, drawn for one user: by the       *)
(* folders this user may see (perms.ts) and the project each folder is     *)
(* assigned to.  The Remote view lists the same PCs by rules of its own    *)
(* (remotePcs.ts).                                                         *)
(***************************************************************************)
EXTENDS FiniteSets

CONSTANTS Folders, PCs

VARIABLES parents,    \* [Folders -> a folder, "none": at the top, or "gone"]
          folderOf,   \* assignments: [PCs -> a folder or "none"]
          others,     \* the folders assigned to a project this user is not in
          granted,    \* the folders this user may see, "ungrouped" among them; All: every one
          manages,    \* may this user edit the list
          selected,   \* the folder whose PCs the Remote view shows, "none": all
          folderMenu, \* the menu that is open: [folder, deletable]
          editing,    \* the folder whose name is being edited
          expanded    \* the folders that are open

treeVars == <<parents, folderOf, others, granted, manages, selected, folderMenu, editing, expanded>>
groupVars == <<parents, folderOf>>
lookVars == <<selected, folderMenu, editing, expanded>>
accessVars == <<others, granted, manages>>

None == "none"
Gone == "gone"
Ungrouped == "ungrouped"
All == Folders \cup {Ungrouped}
NoMenu == [folder |-> None, deletable |-> FALSE]

Existing == {f \in Folders : parents[f] # Gone}
\* The folder a folder is drawn in: one whose parent is missing is drawn at the top (buildTree).
ParentOf(f) == IF parents[f] \in Existing THEN parents[f] ELSE None
Above[f \in Folders] == {f} \cup (IF ParentOf(f) = None THEN {} ELSE Above[ParentOf(f)])
Below(f) == {g \in Existing : f \in Above[g]}
\* Ids are never used again: one that something still names is not new.
Fresh == {f \in Folders \ Existing : (\A g \in Folders : parents[g] # f) /\ (\A p \in PCs : folderOf[p] # f)}
Roots == {f \in Existing : ParentOf(f) = None}
Placed(p) == IF folderOf[p] \in Existing THEN folderOf[p] ELSE Ungrouped

(***************************************************************************)
(* What this user sees (folderAccess): a folder that is granted, and those *)
(* above it for the way; a PC, when its folder is granted.                 *)
(***************************************************************************)
Limited == granted # All
Opens(f) == ~Limited \/ f \in granted
OnTheWay == UNION {Above[f] : f \in granted \cap Existing}
Shows(f) == ~Limited \/ f \in OnTheWay
ShowsAgent(p) == Opens(Placed(p))
FolderVisible(f) == Shows(f) /\ f \notin others

\* The tree draws a folder inside folders it draws, whether they are open or not.
DrawnFolders == {f \in Existing : \A g \in Above[f] : FolderVisible(g)}
Drawn == {p \in PCs : ShowsAgent(p) /\ (IF Placed(p) = Ungrouped THEN Opens(Ungrouped) ELSE Placed(p) \in DrawnFolders)}

\* The sections of the Remote view: the selected folder and those below, or all.
Walked(f) == {g \in Below(f) : \A h \in Above[g] \cap Below(f) : h \notin others}
Sections == IF selected \in Existing THEN Walked(selected) ELSE UNION {Walked(f) : f \in Roots}
Targets == {p \in PCs : ShowsAgent(p) /\ (Placed(p) \in Sections \/ (Placed(p) = Ungrouped /\ selected \notin Existing))}

(***************************************************************************)
(* Editing.                                                                *)
(***************************************************************************)
Editable(f) == manages /\ Opens(f)
Deletable(f) == \A g \in Below(f) : Editable(g)

TreeInit ==
  /\ parents = [f \in Folders |-> Gone] /\ folderOf = [p \in PCs |-> None]
  /\ others = {} /\ granted = All /\ manages = TRUE
  /\ selected = None /\ folderMenu = NoMenu /\ editing = None /\ expanded = {}

Added(f, in) == parents' = [parents EXCEPT ![f] = in] /\ UNCHANGED folderOf
Deleted(f) ==
  /\ parents' = [g \in Folders |-> IF g \in Below(f) THEN Gone ELSE parents[g]]
  /\ folderOf' = [p \in PCs |-> IF folderOf[p] \in Below(f) THEN None ELSE folderOf[p]]
Assigned(p, f) == folderOf' = [folderOf EXCEPT ![p] = f] /\ UNCHANGED parents

\* A folder at the top, or in the folder of the button or of the menu.
CreateFolder == \E f \in Fresh \ {folderMenu.folder}, in \in DrawnFolders \cup {folderMenu.folder, None} :
  /\ manages /\ (in \in DrawnFolders => Editable(in)) /\ (in \notin DrawnFolders => in \in {folderMenu.folder, None})
  /\ Added(f, in) /\ editing' = f /\ expanded' = expanded \cup ({in} \ {None})
  /\ folderMenu' = IF in = folderMenu.folder THEN NoMenu ELSE folderMenu
  /\ UNCHANGED selected /\ UNCHANGED accessVars
DeleteFolder == \E f \in DrawnFolders :
  /\ Editable(f) /\ Deletable(f) /\ Deleted(f) /\ UNCHANGED lookVars /\ UNCHANGED accessVars
OpenFolderMenu == \E f \in DrawnFolders :
  /\ Editable(f) /\ folderMenu' = [folder |-> f, deletable |-> Deletable(f)]
  /\ UNCHANGED <<selected, editing, expanded>> /\ UNCHANGED groupVars /\ UNCHANGED accessVars
CloseFolderMenu ==
  /\ folderMenu # NoMenu /\ folderMenu' = NoMenu
  /\ UNCHANGED <<selected, editing, expanded>> /\ UNCHANGED groupVars /\ UNCHANGED accessVars
\* The menu knows from when it was opened whether the folder may be deleted.
DeleteFromMenu ==
  /\ folderMenu.deletable
  /\ IF folderMenu.folder \in Existing THEN Deleted(folderMenu.folder) ELSE UNCHANGED groupVars
  /\ folderMenu' = NoMenu /\ UNCHANGED <<selected, editing, expanded>> /\ UNCHANGED accessVars
Rename == \E f \in DrawnFolders :
  /\ Editable(f) /\ editing' = f /\ UNCHANGED <<selected, folderMenu, expanded>> /\ UNCHANGED groupVars /\ UNCHANGED accessVars
EndRename ==
  /\ editing # None /\ editing' = None
  /\ UNCHANGED <<selected, folderMenu, expanded>> /\ UNCHANGED groupVars /\ UNCHANGED accessVars
\* Dragging a PC of the list to a folder, or out of its folder.
DropAgent == \E p \in Drawn, f \in DrawnFolders \cup {Ungrouped} :
  /\ Editable(f) /\ Assigned(p, IF f = Ungrouped THEN None ELSE f) /\ UNCHANGED lookVars /\ UNCHANGED accessVars
SetFolderProject == \E f \in DrawnFolders :
  /\ Editable(f) /\ others' = others \cup {f} /\ UNCHANGED <<granted, manages>> /\ UNCHANGED groupVars /\ UNCHANGED lookVars

ToggleFolder == \E f \in DrawnFolders :
  /\ expanded' = (expanded \ {f}) \cup ({f} \ expanded)
  /\ UNCHANGED <<selected, folderMenu, editing>> /\ UNCHANGED groupVars /\ UNCHANGED accessVars
SelectFolder == \E f \in DrawnFolders :
  /\ selected' = IF selected = f THEN None ELSE f
  /\ UNCHANGED <<folderMenu, editing, expanded>> /\ UNCHANGED groupVars /\ UNCHANGED accessVars
ShowAll ==
  /\ selected # None /\ selected' = None
  /\ UNCHANGED <<folderMenu, editing, expanded>> /\ UNCHANGED groupVars /\ UNCHANGED accessVars

\* The list as somebody else saved it, and what the administrator grants.
Others ==
  /\ \/ \E f \in Fresh \ {folderMenu.folder}, in \in Existing \cup {None} : Added(f, in)
     \/ \E f \in Existing : Deleted(f)
     \/ \E p \in PCs, f \in Existing \cup {None} : Assigned(p, f)
  /\ UNCHANGED lookVars /\ UNCHANGED accessVars
OthersAssign == \E f \in Existing :
  /\ others' = (others \ {f}) \cup ({f} \ others) /\ UNCHANGED <<granted, manages>> /\ UNCHANGED groupVars /\ UNCHANGED lookVars
Grant ==
  /\ \/ \E f \in All : granted' = (granted \ {f}) \cup ({f} \ granted) /\ UNCHANGED manages
     \/ manages' = ~manages /\ UNCHANGED granted
  /\ UNCHANGED others /\ UNCHANGED groupVars /\ UNCHANGED lookVars

TreeNext ==
  \/ CreateFolder \/ DeleteFolder \/ OpenFolderMenu \/ CloseFolderMenu \/ DeleteFromMenu \/ Rename \/ EndRename
  \/ DropAgent \/ SetFolderProject \/ ToggleFolder \/ SelectFolder \/ ShowAll \/ Others \/ OthersAssign \/ Grant

TreeSpec == TreeInit /\ [][TreeNext]_treeVars

(***************************************************************************)
(* Properties.                                                             *)
(***************************************************************************)

\* Whatever is edited in between, by whomever: a PC this user may see is drawn, unless its
\* folder is inside one of another project; the Remote view shows exactly the PCs that
\* are drawn while no folder is selected (remotePcs.ts:37, "the same rules as the tree");
\* and no folder is lost or drawn inside itself.
SeenIsDrawn ==
  /\ \A f \in Existing : Above[f] \cap Roots # {} /\ Cardinality(Above[f] \cap Roots) = 1
  /\ \A p \in PCs : ShowsAgent(p) /\ (Placed(p) = Ungrouped \/ Above[Placed(p)] \cap others = {}) => p \in Drawn
  /\ selected \notin Existing => Targets = Drawn

\* Does not hold:
\* "The same rules as the tree: folders assigned to another project are hidden" (remotePcs.ts:37).
TargetsAreDrawn == Targets \subseteq Drawn

\* Does not hold:
\* "Deleting only when every folder below may be seen too" (PcTree.tsx:99): no step of the menu
\* deletes a folder this user may not edit.
DeletesOnlyEditable == [][DeleteFromMenu => \A f \in Folders : parents[f] # Gone /\ parents'[f] = Gone => Editable(f)]_treeVars
=============================================================================
