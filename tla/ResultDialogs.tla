---------------------------- MODULE ResultDialogs ---------------------------
(***************************************************************************)
(* The windows around a result (ResultViewer.tsx, resultSessions.ts): the  *)
(* setup popup, where the files of a result are dropped one by one; the    *)
(* dialog that saves a result as a set, backed up by the server meanwhile; *)
(* and the list of the sets.  Requests are answered in any order, and some *)
(* after the dialog that made them is gone.                                *)
(***************************************************************************)
EXTENDS Naturals, FiniteSets

CONSTANTS PCs, Modes,  \* where files are; the formats of a result
          Items,       \* what is dropped: [pc, kind]; kind: "result", "video" or "dir"
          Sessions,    \* the results loaded in this tab
          MaxSets,     \* bound: sets made
          MaxAsks,     \* bound: requests on their way
          MaxKept      \* bound: folders remembered

VARIABLES
  setup,       \* [on, pc, mode, result, videos, images, ref, warned]: the popup and its source
  remembered,  \* remembered[pc, mode]: the reference folder last used (localStorage)
  active,      \* the session that is looked at, or NoSession
  dialog,      \* [on, busy, saved]: its save dialog; saved: the set it has made, as last seen
  setOf,       \* setOf[s]: the number of the set the session is of, 0: none
  sets,        \* the server's: sets[i] = [of, backup]; of: the session it was made of
  asks,        \* requests and answers on their way: [kind, session, seen]
  list         \* whether the list of the sets is open

setupVars == <<setup, remembered>>
savingVars == <<active, dialog, setOf, sets, asks, list>>
dialogVars == <<setup, remembered, active, dialog, setOf, sets, asks, list>>

(***************************************************************************)
(* The setup popup.  An item is a file or a folder of a PC.  The popup     *)
(* that has opened its result keeps the source, to be corrected.           *)
(***************************************************************************)
Folders == [pc : PCs, name : {"dir", "parent"}]
Slots == {"result", "video", "ref", "image"}
None == [pc |-> "none", name |-> "none"]
DirName(item) == [pc |-> item.pc, name |-> IF item.kind = "dir" THEN "dir" ELSE "parent"]

First == CHOOSE m \in Modes : TRUE
Fresh(pc) == [on |-> TRUE, pc |-> pc, mode |-> First, result |-> None, videos |-> {}, images |-> None,
              ref |-> remembered[pc, First], warned |-> FALSE]
NoSetup == [on |-> FALSE, pc |-> "none", mode |-> "none", result |-> None, videos |-> {}, images |-> None, ref |-> None,
            warned |-> FALSE]

AutoAssign(s, items) ==
  [s EXCEPT !.result = IF \E i \in items : i.kind = "result" THEN CHOOSE i \in items : i.kind = "result" ELSE @,
            !.videos = @ \cup {i \in items : i.kind = "video"},
            !.images = IF \E i \in items : i.kind = "dir" THEN DirName(CHOOSE i \in items : i.kind = "dir") ELSE @]

Put(s, slot, item) ==
  CASE slot = "result" -> [s EXCEPT !.result = item]
    [] slot = "video" -> [s EXCEPT !.videos = @ \cup {item}]
    [] slot = "ref" -> [s EXCEPT !.ref = DirName(item)]
    [] slot = "image" -> [s EXCEPT !.images = DirName(item)]

PutAll(s, slot, items) ==
  IF slot = "video" THEN [s EXCEPT !.videos = @ \cup items] ELSE Put(s, slot, CHOOSE i \in items : TRUE)

Empty(s) ==
  /\ s.result = None /\ s.videos = {} /\ s.images = None
  /\ s.ref \in {None, remembered[s.pc, s.mode]}

\* What is dropped is all of one PC; the popup changes to it while it holds nothing.
Accepted(items) == \A i \in items : i.pc = setup.pc \/ Empty(setup)
MovedTo(pc) ==
  IF pc = setup.pc THEN [setup EXCEPT !.warned = FALSE]
  ELSE [setup EXCEPT !.pc = pc, !.ref = remembered[pc, setup.mode], !.warned = FALSE]

SwitchRefDir(s, mode) ==
  IF s.ref \notin {None, remembered[s.pc, s.mode]} THEN s.ref ELSE remembered[s.pc, mode]

OpenSetup(pc, items) ==
  /\ ~setup.on /\ setup' = AutoAssign(Fresh(pc), items) /\ UNCHANGED <<remembered, savingVars>>

\* The way back to the source of the result that was opened.
CorrectSetup ==
  /\ ~setup.on /\ setup.result # None /\ setup' = [setup EXCEPT !.on = TRUE, !.warned = FALSE]
  /\ UNCHANGED <<remembered, savingVars>>

DropInto(slot, pc, items) ==
  /\ setup.on
  /\ setup' = IF Accepted(items) THEN PutAll(MovedTo(pc), slot, items) ELSE [setup EXCEPT !.warned = TRUE]
  /\ UNCHANGED <<remembered, savingVars>>

DropAnywhere(pc, items) ==
  /\ setup.on
  /\ setup' = IF Accepted(items) THEN AutoAssign(MovedTo(pc), items) ELSE [setup EXCEPT !.warned = TRUE]
  /\ UNCHANGED <<remembered, savingVars>>

ChangeMode(mode) ==
  /\ setup.on /\ setup.mode # mode /\ setup' = [setup EXCEPT !.mode = mode, !.ref = SwitchRefDir(setup, mode)]
  /\ UNCHANGED <<remembered, savingVars>>

TakeOut(slot) ==
  /\ setup.on
  /\ setup' = CASE slot = "result" -> [setup EXCEPT !.result = None]
                [] slot = "video" -> [setup EXCEPT !.videos = {}]
                [] slot = "ref" -> [setup EXCEPT !.ref = None]
                [] slot = "image" -> [setup EXCEPT !.images = None]
  /\ setup' # setup /\ UNCHANGED <<remembered, savingVars>>

RememberRefDir(pc, mode, dir) == remembered' = IF dir = None THEN remembered ELSE [remembered EXCEPT ![pc, mode] = dir]

\* Open: the folder is remembered whether or not the browser lets the new tab open.
OpenResult(blocked) ==
  /\ setup.on /\ setup.result # None /\ RememberRefDir(setup.pc, setup.mode, setup.ref)
  /\ setup' = IF blocked THEN [setup EXCEPT !.warned = TRUE] ELSE [setup EXCEPT !.on = FALSE]
  /\ UNCHANGED savingVars

\* Another tab opens a result.
OtherTab(pc, mode, dir) == RememberRefDir(pc, mode, dir) /\ remembered' # remembered /\ UNCHANGED <<setup, savingVars>>

CloseSetup == setup.on /\ setup' = NoSetup /\ UNCHANGED <<remembered, savingVars>>

SetupNext ==
  \/ \E pc \in PCs, items \in SUBSET Items :
       /\ Cardinality(items) \in 1..2 /\ \A i \in items : i.pc = pc
       /\ \/ OpenSetup(pc, items) \/ DropAnywhere(pc, items)
          \/ \E slot \in Slots : DropInto(slot, pc, items)
  \/ CorrectSetup \/ CloseSetup
  \/ \E mode \in Modes : ChangeMode(mode)
  \/ \E slot \in Slots : TakeOut(slot)
  \/ \E blocked \in BOOLEAN : OpenResult(blocked)
  \/ \E dir \in Folders, mode \in Modes : OtherTab(dir.pc, mode, dir)

(***************************************************************************)
(* Saving a result as a set, and the list of the sets.                     *)
(***************************************************************************)
NoSession == "none"
NoSet == [id |-> 0, running |-> FALSE]
NoDialog == [on |-> FALSE, busy |-> FALSE, saved |-> NoSet]

There(i) == i # 0 /\ sets[i].backup # "none"

\* openViewer: another session; what was open is closed with the one before.
LookAt(s) ==
  /\ active # s /\ active' = s /\ dialog' = NoDialog
  /\ UNCHANGED <<setupVars, setOf, sets, asks, list>>

OpenDialog == active # NoSession /\ ~dialog.on /\ dialog' = [NoDialog EXCEPT !.on = TRUE]
              /\ UNCHANGED <<setupVars, active, setOf, sets, asks, list>>
CloseDialog == dialog.on /\ dialog' = NoDialog /\ UNCHANGED <<setupVars, active, setOf, sets, asks, list>>

Ask(kind, s, i) == asks' = asks \cup {[kind |-> kind, session |-> s, id |-> i, seen |-> NoSet]}
MayAsk == Cardinality(asks) < MaxAsks

Create ==
  /\ dialog.on /\ ~dialog.busy /\ dialog.saved = NoSet /\ MayAsk
  /\ Ask("create", active, 0) /\ dialog' = [dialog EXCEPT !.busy = TRUE]
  /\ UNCHANGED <<setupVars, active, setOf, sets, list>>

Overwrite ==
  /\ dialog.on /\ ~dialog.busy /\ dialog.saved = NoSet /\ setOf[active] # 0 /\ MayAsk
  /\ Ask("update", active, setOf[active]) /\ dialog' = [dialog EXCEPT !.busy = TRUE]
  /\ UNCHANGED <<setupVars, active, setOf, sets, list>>

\* Once a second while the backup of the set just made is running.
Poll ==
  /\ dialog.on /\ dialog.saved.running /\ MayAsk /\ Ask("poll", active, dialog.saved.id)
  /\ UNCHANGED <<setupVars, active, dialog, setOf, sets, list>>

\* The server makes or changes the set, or reads it; a set that is gone fails the request.
Serve(a) ==
  /\ a \in asks /\ a.seen = NoSet
  /\ \E i \in 1..MaxSets :
       /\ IF a.kind = "create" THEN sets[i].of = NoSession /\ \A j \in 1..(i - 1) : sets[j].of # NoSession
          ELSE i = a.id /\ There(i)
       /\ sets' = IF a.kind = "create" THEN [sets EXCEPT ![i] = [of |-> a.session, backup |-> "running"]] ELSE sets
       /\ asks' = (asks \ {a}) \cup {[a EXCEPT !.id = i, !.seen = [id |-> i, running |-> sets'[i].backup = "running"]]}
  /\ UNCHANGED <<setupVars, active, dialog, setOf, list>>

SetSessionSet(s, seen) == setOf' = [t \in Sessions |-> IF t = s THEN seen.id ELSE setOf[t]]

\* The answer.  Its session takes the set; the dialog that asked, if it is still there, shows it, or closes (update).  The
\* dialog of a session that was left is gone, but the close of an update is that of the window: it closes whichever is open.
Answered(a) ==
  /\ a \in asks /\ a.seen # NoSet /\ asks' = asks \ {a} /\ SetSessionSet(a.session, a.seen)
  /\ dialog' = CASE a.kind = "update" -> NoDialog
                 [] a.kind # "update" /\ dialog.on /\ a.session = active -> [dialog EXCEPT !.busy = FALSE, !.saved = a.seen]
                 [] OTHER -> dialog
  /\ UNCHANGED <<setupVars, active, sets, list>>

AskFails(a) ==
  /\ a \in asks /\ a.seen = NoSet /\ asks' = asks \ {a}
  /\ dialog' = IF a.kind # "poll" /\ a.session = active THEN [dialog EXCEPT !.busy = FALSE] ELSE dialog
  /\ UNCHANGED <<setupVars, active, setOf, sets, list>>

\* The server's backup of a set ends.
BackupEnds(i, how) ==
  /\ sets[i].backup = "running" /\ sets' = [sets EXCEPT ![i].backup = how]
  /\ UNCHANGED <<setupVars, active, dialog, setOf, asks, list>>

OpenSets == ~list /\ list' = TRUE /\ UNCHANGED <<setupVars, active, dialog, setOf, sets, asks>>
CloseSets == list /\ list' = FALSE /\ UNCHANGED <<setupVars, active, dialog, setOf, sets, asks>>

\* remove, retry: done at the server, and the list is read again.
RemoveSet(i) ==
  /\ list /\ There(i) /\ sets' = [sets EXCEPT ![i].backup = "none"]
  /\ UNCHANGED <<setupVars, active, dialog, setOf, asks, list>>
RetryBackup(i) ==
  /\ list /\ sets[i].backup = "failed" /\ sets' = [sets EXCEPT ![i].backup = "running"]
  /\ UNCHANGED <<setupVars, active, dialog, setOf, asks, list>>

SavingNext ==
  \/ \E s \in Sessions \cup {NoSession} : LookAt(s)
  \/ OpenDialog \/ CloseDialog \/ Create \/ Overwrite \/ Poll \/ OpenSets \/ CloseSets
  \/ \E a \in asks : Serve(a) \/ Answered(a) \/ AskFails(a)
  \/ \E i \in 1..MaxSets : RemoveSet(i) \/ RetryBackup(i) \/ \E how \in {"done", "failed"} : BackupEnds(i, how)

DialogsInit ==
  /\ setup = NoSetup /\ remembered = [k \in PCs \X Modes |-> None]
  /\ active = NoSession /\ dialog = NoDialog /\ setOf = [s \in Sessions |-> 0]
  /\ sets = [i \in 1..MaxSets |-> [of |-> NoSession, backup |-> "none"]]
  /\ asks = {} /\ list = FALSE

Next == SetupNext \/ SavingNext
DialogsSpec == DialogsInit /\ [][Next]_dialogVars

\* What TLC looks into: a result is put together, or the results there are are saved; few folders are remembered, and one
\* video is enough; the list is looked at while nothing is saved.
OneAtWork ==
  /\ list => asks = {} /\ ~dialog.on
  /\ (setup # NoSetup \/ \E k \in PCs \X Modes : remembered[k] # None) => active = NoSession /\ ~list /\ sets[1].of = NoSession
  /\ Cardinality({k \in PCs \X Modes : remembered[k] # None}) =< MaxKept /\ Cardinality(setup.videos) < 2

(***************************************************************************)
(* Properties.                                                             *)
(***************************************************************************)
DialogsTypeOK ==
  /\ setup.ref \in Folders \cup {None} /\ setup.images \in Folders \cup {None} /\ setup.result \in Items \cup {None}
  /\ setup.videos \subseteq Items /\ \A k \in PCs \X Modes : remembered[k] \in Folders \cup {None}
  /\ active \in Sessions \cup {NoSession} /\ \A a \in asks : a.id \in 0..MaxSets 

\* All the files of a result are of the PC it is opened from, the reference folder that is filled in by itself included
\* (the warning of ResultViewer.tsx:279).
OnePcOnly ==
  /\ \A f \in {setup.result, setup.images, setup.ref} \cup setup.videos : f = None \/ f.pc = setup.pc
  /\ \A k \in PCs \X Modes : remembered[k] = None \/ remembered[k].pc = k[1]

\* The set a session would overwrite was made of that session, whichever session is looked at when the answer comes.
OverwritesItsOwn == \A s \in Sessions : setOf[s] # 0 => sets[setOf[s]].of = s

\* Does not hold:
\* ... and it is the last one made of it.  It is not: a poll that was on its way when the dialog was closed and a new set was
\* made brings the older set back (ResultViewer.tsx:2170).
OverwritesTheLast ==
  \A s \in Sessions, i \in 1..MaxSets : setOf[s] # 0 /\ sets[i].of = s /\ i > setOf[s] => \E a \in asks : a.seen.id = i

\* Does not hold:
\* A dialog is closed by its user, or by the answer of its own request.  The answer of an update that was left behind closes
\* the one opened since (ResultViewer.tsx:2199).
ClosedByItsOwn ==
  [][dialog.on /\ ~dialog'.on /\ active' = active /\ asks' # asks => dialog.busy]_dialogVars
=============================================================================
