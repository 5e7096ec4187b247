---------------------------- MODULE ExplorerPanes ----------------------------
(***************************************************************************)
(* The windows of the file explorer, one for each PC (FileExplorer.tsx),   *)
(* and the PIN locks of the PCs: what this browser knows of them, the      *)
(* questions for a PIN that are under way, and the one dialog that asks    *)
(* them (pcLocks.ts, PinDialog.tsx, api.ts).  A PC is unlocked for each    *)
(* browser by itself.                                                      *)
(***************************************************************************)
EXTENDS Naturals, Sequences

CONSTANTS PCs,
          Lockable   \* bound: the PCs somebody locks

VARIABLES windows,     \* the windows in their order: sequence of [id, pc]
          active,      \* the id of the active window
          toolbar,     \* the window the toolbar and the status bar act on
          unseen,      \* the PCs whose folder this user may not see
          locks,       \* the server's lock of each PC, for this browser: "none", "locked" or "open"
          known,       \* the same as this browser last read it (locks of pcLocks.ts)
          works,       \* ensureUnlocked under way: [stage, for: what waits for it, accepted]
          calls,       \* the calls to each PC's files: "none", "sent", "waits" or "again"
          dialog       \* who asked the question on show: [who, what]

explorerVars == <<windows, active, toolbar, unseen, locks, known, works, calls, dialog>>
lockVars == <<locks, known, works, calls, dialog>>
windowVars == <<windows, active, toolbar, unseen>>

None == "none"
NoWork == [stage |-> None, for |-> {}]
NoDialog == [who |-> None, what |-> None]
Ids == 1 .. 4
Shown == SelectSeq(windows, LAMBDA w : w.pc \notin unseen)
IdsOf(s) == {s[i].id : i \in DOMAIN s}
PcsOf(s) == {s[i].pc : i \in DOMAIN s}

ExplorerInit ==
  /\ windows = <<>> /\ active = 0 /\ toolbar = 0 /\ unseen = {}
  /\ locks \in {[p \in PCs |-> IF p \in now THEN "locked" ELSE None] : now \in SUBSET Lockable} /\ known = locks
  /\ works = [p \in PCs |-> NoWork] /\ calls = [p \in PCs |-> None] /\ dialog = NoDialog

(***************************************************************************)
(* The windows.  The active one, when it is drawn, tells the toolbar.      *)
(***************************************************************************)
Windows(ws, now, tool) ==
  /\ windows' = ws /\ active' = now
  /\ toolbar' = IF now \in IdsOf(SelectSeq(ws, LAMBDA w : w.pc \notin unseen)) THEN now ELSE tool
  /\ UNCHANGED unseen
NewId == CHOOSE n \in Ids : n \notin IdsOf(windows) \cup {active}
\* openPane once the PC is unlocked: a window of its own unless there is one by now.
Opened(p) ==
  Windows(IF p \in PcsOf(windows) THEN windows ELSE Append(windows, [id |-> NewId, pc |-> p]), NewId, toolbar)
Activate == \E i \in DOMAIN Shown : Windows(windows, Shown[i].id, toolbar) /\ UNCHANGED lockVars
Closed(p) ==
  LET left == SelectSeq(windows, LAMBDA w : w.pc # p)
      was == (CHOOSE i \in DOMAIN windows : windows[i].pc = p)
  IN IF windows[was].id = active
     THEN Windows(left, IF left = <<>> THEN 0 ELSE left[Len(left)].id, 0) ELSE Windows(left, active, toolbar)
Close == \E p \in PcsOf(windows) : Closed(p) /\ UNCHANGED lockVars
Reorder == \E i, j \in DOMAIN Shown :
  LET other == SelectSeq(windows, LAMBDA w : w.id # Shown[i].id)
      to == CHOOSE k \in DOMAIN windows : windows[k].id = Shown[j].id
  IN /\ i # j
     /\ Windows(SubSeq(other, 1, to - 1) \o <<Shown[i]>> \o SubSeq(other, to, Len(other)), active, toolbar)
     /\ UNCHANGED lockVars
FolderAccess == \E p \in PCs :
  /\ unseen' = (unseen \ {p}) \cup ({p} \ unseen)
  /\ toolbar' = IF active \in IdsOf(SelectSeq(windows, LAMBDA w : w.pc \notin unseen')) THEN active ELSE toolbar
  /\ UNCHANGED <<windows, active>> /\ UNCHANGED lockVars

(***************************************************************************)
(* Asking for PINs.  The dialog answers one question; the one it showed    *)
(* before ends as cancelled.                                               *)
(***************************************************************************)
\* ensureUnlocked ends: what waited goes on, or gives up.
Ended(p) == [works EXCEPT ![p] = NoWork]
Waiting(c, p, now) == IF c[p] = "waits" THEN [c EXCEPT ![p] = now] ELSE c
\* The asker before is told "cancelled"; `ws` and `cs` are the works and calls so far.
Ask(who, what, ws, cs) ==
  /\ dialog' = [who |-> who, what |-> what]
  /\ works' = IF dialog.who \in PCs /\ dialog.who # who /\ ws[dialog.who].stage = "asked"
              THEN [ws EXCEPT ![dialog.who] = NoWork] ELSE ws
  /\ calls' = IF dialog.who \in PCs /\ dialog.who # who THEN Waiting(cs, dialog.who, None) ELSE cs

\* ensureUnlocked: joins the question that is under way.  `force`: what the browser knows may be out of date.
Begun(p, for) == [works EXCEPT ![p] = [stage |-> "asked", for |-> {for}]]
Joined(p, for) == [works EXCEPT ![p].for = @ \cup {for}]
\* From the list, a drop, or the menu of the PC (unlock).
Open == \E p \in PCs \ unseen, for \in {"window", "nothing"} :
  /\ for = "window" => p \notin PcsOf(windows)
  /\ IF known[p] # "locked" THEN for = "window" /\ Opened(p) /\ UNCHANGED lockVars
     ELSE /\ IF works[p] # NoWork THEN works' = Joined(p, for) /\ UNCHANGED <<calls, dialog>>
             ELSE Ask(p, "unlock", Begun(p, for), calls)
          /\ UNCHANGED <<locks, known>> /\ UNCHANGED windowVars
\* Clicking the PC of an open window closes it; anything else that opens it makes it active.
Again == \E i \in DOMAIN windows : Windows(windows, windows[i].id, toolbar) /\ UNCHANGED lockVars

\* A call to the PC's files: 423 asks for the PIN, and the call is tried once more.
CallPc == \E p \in PcsOf(Shown) :
  /\ calls[p] = None /\ calls' = [calls EXCEPT ![p] = "sent"]
  /\ UNCHANGED <<locks, known, works, dialog>> /\ UNCHANGED windowVars
CallAnswers == \E p \in PCs :
  /\ calls[p] \in {"sent", "again"}
  /\ IF calls[p] = "sent" /\ locks[p] = "locked"
     THEN LET waits == [calls EXCEPT ![p] = "waits"]
          IN IF works[p] # NoWork THEN works' = Joined(p, "call") /\ calls' = waits /\ UNCHANGED dialog
             ELSE Ask(p, "unlock", Begun(p, "call"), waits)
     ELSE calls' = [calls EXCEPT ![p] = None] /\ UNCHANGED <<works, dialog>>
  /\ UNCHANGED <<locks, known>> /\ UNCHANGED windowVars

\* The menu of a PC: lock it, change its PIN (the old, then the new), or take the lock off.
AskFromMenu == \E p \in Lockable \ unseen :
  /\ \E what \in (IF known[p] = "none" THEN {"lock"} ELSE {"change", "remove"}) : Ask(None, <<what, p>>, works, calls)
  /\ UNCHANGED <<locks, known>> /\ UNCHANGED windowVars
Relock == \E p \in PCs \ unseen :
  /\ known[p] = "open" /\ locks' = [locks EXCEPT ![p] = IF @ = "open" THEN "locked" ELSE @]
  /\ known' = locks' /\ UNCHANGED <<works, calls, dialog>> /\ UNCHANGED windowVars

Submit ==
  /\ dialog # NoDialog
  /\ IF dialog.who \in PCs
     THEN /\ works' = [works EXCEPT ![dialog.who].stage = "sent"] /\ dialog' = NoDialog /\ UNCHANGED locks
     ELSE /\ UNCHANGED works
          /\ LET p == dialog.what[2]
             IN CASE dialog.what[1] = "change" -> dialog' = [dialog EXCEPT !.what[1] = "new"] /\ UNCHANGED locks
                  [] dialog.what[1] = "remove" -> /\ dialog' = NoDialog
                                                  /\ \E right \in BOOLEAN : locks' = IF right THEN [locks EXCEPT ![p] = "none"] ELSE locks
                  [] dialog.what[1] = "lock" -> dialog' = NoDialog /\ locks' = [locks EXCEPT ![p] = IF @ = "none" THEN "open" ELSE @]
                  [] OTHER -> dialog' = NoDialog
                              /\ \E right \in BOOLEAN : locks' = IF right /\ locks[p] # "none" THEN [locks EXCEPT ![p] = "open"] ELSE locks
  /\ UNCHANGED <<known, calls>> /\ UNCHANGED windowVars
Cancel ==
  /\ dialog # NoDialog /\ dialog' = NoDialog
  /\ IF dialog.who \in PCs THEN works' = Ended(dialog.who) /\ calls' = Waiting(calls, dialog.who, None)
     ELSE UNCHANGED <<works, calls>>
  /\ UNCHANGED <<locks, known>> /\ UNCHANGED windowVars
\* The PIN was right: the locks are read again, and everything that waited goes on.
PinAccepted == \E p \in PCs :
  /\ works[p].stage = "sent" /\ locks[p] # "none"
  /\ locks' = [locks EXCEPT ![p] = "open"]
  /\ \E read \in BOOLEAN : known' = IF read THEN locks' ELSE known
  /\ works' = Ended(p) /\ calls' = Waiting(calls, p, "again") /\ UNCHANGED dialog
  /\ IF "window" \in works[p].for THEN Opened(p) ELSE UNCHANGED windowVars
\* It was wrong, or the lock is gone: it is asked again.
PinRefused == \E p \in PCs :
  /\ works[p].stage = "sent" /\ Ask(p, "unlock", [works EXCEPT ![p].stage = "asked"], calls)
  /\ UNCHANGED <<locks, known>> /\ UNCHANGED windowVars

\* Elsewhere a PC is locked, gets another PIN (its cookies end), or its lock is taken off; the locks are read again.
LockedElsewhere == \E p \in Lockable, now \in {"none", "locked"} :
  /\ locks' = [locks EXCEPT ![p] = now] /\ UNCHANGED <<known, works, calls, dialog>> /\ UNCHANGED windowVars
Reload == known' = locks /\ UNCHANGED <<locks, works, calls, dialog>> /\ UNCHANGED windowVars

ExplorerNext ==
  \/ Activate \/ Close \/ Reorder \/ FolderAccess \/ Open \/ Again \/ CallPc \/ CallAnswers
  \/ AskFromMenu \/ Relock \/ Submit \/ Cancel \/ PinAccepted \/ PinRefused \/ LockedElsewhere \/ Reload

ExplorerSpec == ExplorerInit /\ [][ExplorerNext]_explorerVars

(***************************************************************************)
(* Properties.                                                             *)
(***************************************************************************)

\* However many questions for a PC's PIN are under way when it is unlocked, it gets one
\* window, and windows never share an id (openPane); the question for a PIN that is
\* waited for is the one on show, so none waits for a dialog that is gone (PinDialog.tsx),
\* and a call waits only while its PC is being unlocked.
OneWindowOneQuestion ==
  /\ \A i, j \in DOMAIN windows : i # j => windows[i].pc # windows[j].pc /\ windows[i].id # windows[j].id
  /\ \A p \in PCs : /\ works[p].stage = "asked" <=> dialog.who = p
                    /\ calls[p] = "waits" => works[p] # NoWork

\* Does not hold:
\* "One window for a PC; if there is one it is only made active" (FileExplorer.tsx:185).
ActiveExists == active # 0 => active \in IdsOf(windows)
=============================================================================
