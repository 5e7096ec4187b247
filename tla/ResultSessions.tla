--------------------------- MODULE ResultSessions ---------------------------
(***************************************************************************)
(* The Results a tab has loaded (resultSessions.ts, ResultViewer.tsx:      *)
(* ResultHost, SetupPopup, SetsDialog; SideHub.tsx: ResultItem).  A        *)
(* session is put into the list and read in the background: its file and   *)
(* its folders together, then its videos one by one, some of which must be *)
(* converted.  It may be opened, replaced and taken out at any moment of   *)
(* that.  What a session that is gone still reads is written nowhere, so   *)
(* its loading goes with it.                                               *)
(***************************************************************************)
EXTENDS Naturals, Sequences, FiniteSets
LOCAL INSTANCE SequencesExt

CONSTANTS Films,        \* the videos of a Result
          Cut,          \* the film that is cut from one of them
          SavedSets,    \* the saved sets there are
          MaxItems      \* bound: films and folders ever put into a session

VARIABLES sessions,  \* the newest first
          active,    \* the id of the session that is viewed, 0: none
          setup,     \* the window that asks for paths: [open, replace]
          fetching,  \* the sets that are being fetched, with the sessions of them there were at the click
          started    \* [sessions, items] ever, the latter bounded by MaxItems

sessionVars == <<sessions, active, setup, fetching, started>>

NoSet == "paths"
Sources == [films : SUBSET Films \ {{}}, dirs : {0}] \cup [films : {{}}, dirs : {1}]
Items(source) == Cardinality(source.films) + source.dirs
Idle == [open |-> FALSE, replace |-> 0]

Prepared == {"ready", "failed", "convert"}

NewSession(id, set, source) ==
  [id |-> id, set |-> set, source |-> source, state |-> "loading", text |-> FALSE, opened |-> FALSE,
   prep |-> [f \in Films \cup {Cut} |-> IF f \in source.films THEN "waiting" ELSE "none"],
   done |-> 0, total |-> 1 + Cardinality(source.films) + source.dirs,
   dirs |-> source.dirs, todo |-> SetToSeq(source.films), busy |-> "none"]

Ids == {sessions[i].id : i \in DOMAIN sessions}
Session(id) == sessions[CHOOSE i \in DOMAIN sessions : sessions[i].id = id]
Patch(id, s) == [i \in DOMAIN sessions |-> IF sessions[i].id = id THEN s ELSE sessions[i]]
Without(id) == SelectSeq(sessions, LAMBDA s : s.id # id)

\* The effect of ResultHost: with nothing viewed, the first session not yet seen is opened.
Fresh(list) == {i \in DOMAIN list : list[i].state # "failed" /\ ~list[i].opened}
Settled(list, a) ==
  IF a # 0 \/ Fresh(list) = {} THEN sessions' = list /\ active' = a
  ELSE LET i == CHOOSE x \in Fresh(list) : \A y \in Fresh(list) : x <= y
       IN sessions' = [list EXCEPT ![i].opened = TRUE] /\ active' = list[i].id

Set1(s) == Settled(Patch(s.id, s), active)

\* startSession: the one it replaces is no longer viewed.
Start(set, source, replace) ==
  /\ started.items + Items(source) <= MaxItems
  /\ started' = [sessions |-> started.sessions + 1, items |-> started.items + Items(source)]
  /\ Settled(<<NewSession(started.sessions + 1, set, source)>> \o (IF replace = 0 THEN sessions ELSE Without(replace)),
             IF replace # 0 /\ active = replace THEN 0 ELSE active)

SessionsInit ==
  /\ \E source \in Sources :
       /\ sessions = <<[NewSession(1, NoSet, source) EXCEPT !.opened = TRUE]>>
       /\ started = [sessions |-> 1, items |-> Items(source)]
  /\ active = 1 /\ setup = Idle /\ fetching = {}

(***************************************************************************)
(* Loading.                                                                *)
(***************************************************************************)
FileAnswers == \E id \in Ids :
  LET s == Session(id)
  IN /\ ~s.text /\ s.state = "loading"
     /\ \/ Set1([s EXCEPT !.text = TRUE, !.done = @ + 1])
        \/ Set1([s EXCEPT !.state = "failed"])
  /\ UNCHANGED <<setup, fetching, started>>

\* A folder that cannot be listed is an empty one; it goes on after the file has failed.
FolderAnswers == \E id \in Ids :
  LET s == Session(id)
  IN s.dirs > 0 /\ Set1([s EXCEPT !.dirs = @ - 1, !.done = @ + 1])
  /\ UNCHANGED <<setup, fetching, started>>

\* The loop of load over the videos.
Whole(s) == s.todo = <<>>
LoadNext == \E id \in Ids :
  LET s == Session(id)
  IN /\ s.state = "loading" /\ s.text /\ s.dirs = 0 /\ s.busy = "none"
     /\ IF Whole(s) THEN Set1([s EXCEPT !.state = "ready"])
        ELSE Set1([s EXCEPT !.busy = Head(s.todo), !.prep[Head(s.todo)] = "checking", !.todo = Tail(@)])
  /\ UNCHANGED <<setup, fetching, started>>

\* prepareVideo without leave to convert: what plays, what must be converted, what
\* cannot be read; without an answer the original, or the copy of the set, is played.
VideoAnswers == \E id \in Ids, f \in Films \cup {Cut}, as \in Prepared :
  LET s == Session(id)
  IN s.prep[f] = "checking" /\ Set1([s EXCEPT !.prep[f] = as])
  /\ UNCHANGED <<setup, fetching, started>>

\* Its details and its length have come too.
VideoLoaded == \E id \in Ids :
  LET s == Session(id)
  IN /\ s.busy # "none" /\ s.prep[s.busy] # "checking"
     /\ Set1([s EXCEPT !.busy = "none", !.done = @ + 1])
  /\ UNCHANGED <<setup, fetching, started>>

(***************************************************************************)
(* What the user decides about a video that is viewed.                     *)
(***************************************************************************)
Viewed == {id \in Ids : id = active /\ Session(id).state # "failed"}

Convert == \E id \in Viewed, f \in Films \cup {Cut} :
  LET s == Session(id)
  IN s.prep[f] \in {"convert", "failed"} /\ Set1([s EXCEPT !.prep[f] = "converting"])
  /\ UNCHANGED <<setup, fetching, started>>

ConvertAnswers == \E id \in Ids, f \in Films \cup {Cut}, as \in {"ready", "failed"} :
  LET s == Session(id)
  IN s.prep[f] = "converting" /\ Set1([s EXCEPT !.prep[f] = as])
  /\ UNCHANGED <<setup, fetching, started>>

PlayOriginal == \E id \in Viewed, f \in Films \cup {Cut} :
  LET s == Session(id)
  IN s.prep[f] \in {"convert", "failed"} /\ Set1([s EXCEPT !.prep[f] = "ready"])
  /\ UNCHANGED <<setup, fetching, started>>

\* addSessionVideo: what was cut from a video joins the list, and is loaded at once.
AddVideo == \E id \in Viewed :
  LET s == Session(id)
  IN /\ s.prep[Cut] = "none" /\ \E f \in Films : s.prep[f] = "ready"
     /\ Set1([s EXCEPT !.prep[Cut] = "checking"])
  /\ started.items < MaxItems /\ started' = [started EXCEPT !.items = @ + 1]
  /\ UNCHANGED <<setup, fetching>>

(***************************************************************************)
(* Which session is viewed, and which there are.                           *)
(***************************************************************************)
OpenViewer == \E id \in Ids :
  LET s == Session(id)
  IN s.state # "failed" /\ id # active /\ Settled(Patch(id, [s EXCEPT !.opened = TRUE]), id)
  /\ UNCHANGED <<setup, fetching, started>>

CloseViewer == Viewed # {} /\ Settled(sessions, 0) /\ UNCHANGED <<setup, fetching, started>>

RemoveSession == \E id \in Ids :
  /\ Settled(Without(id), IF active = id THEN 0 ELSE active) /\ UNCHANGED <<setup, fetching, started>>

\* "Edit the paths": from the view, which it closes, or of the newest when nothing is viewed.
EditPaths == \E id \in Viewed :
  Settled(sessions, 0) /\ setup' = [open |-> TRUE, replace |-> id] /\ UNCHANGED <<fetching, started>>
EditLatest ==
  /\ Viewed = {} /\ sessions # <<>> /\ setup' = [open |-> TRUE, replace |-> Head(sessions).id]
  /\ UNCHANGED <<sessions, active, fetching, started>>
Go == \E source \in Sources :
  setup.open /\ Start(NoSet, source, setup.replace) /\ setup' = Idle /\ UNCHANGED fetching
CloseSetup == setup.open /\ setup' = Idle /\ UNCHANGED <<sessions, active, fetching, started>>

\* "Load again", of a session that failed.
Retry == \E id \in Ids :
  /\ Session(id).state = "failed" /\ Start(Session(id).set, Session(id).source, id) /\ UNCHANGED <<setup, fetching>>

\* openSet: the set is fetched, and looked for among the sessions of the click.
Asked(set) == [set |-> set, loaded |-> {id \in Ids : Session(id).set = set /\ Session(id).state # "failed"}]
AskSet == \E set \in SavedSets :
  /\ Cardinality(fetching) < 2 /\ Asked(set) \notin fetching
  /\ fetching' = fetching \cup {Asked(set)} /\ UNCHANGED <<sessions, active, setup, started>>
SetAnswers == \E k \in fetching, source \in Sources :
  /\ fetching' = fetching \ {k} /\ setup' = Idle
  /\ IF k.loaded = {} THEN Start(k.set, source, 0)
     ELSE LET id == CHOOSE x \in k.loaded : TRUE
          IN /\ UNCHANGED started
             /\ IF id \in Ids /\ Session(id).state # "failed"
                THEN Settled(Patch(id, [Session(id) EXCEPT !.opened = TRUE]), id)
                ELSE UNCHANGED <<sessions, active>>

SessionsNext ==
  \/ FileAnswers \/ FolderAnswers \/ LoadNext \/ VideoAnswers \/ VideoLoaded
  \/ Convert \/ ConvertAnswers \/ PlayOriginal \/ AddVideo
  \/ OpenViewer \/ CloseViewer \/ RemoveSession \/ EditPaths \/ EditLatest \/ Go \/ CloseSetup \/ Retry
  \/ AskSet \/ SetAnswers

SessionsSpec == SessionsInit /\ [][SessionsNext]_sessionVars

(***************************************************************************)
(* Properties.                                                             *)
(***************************************************************************)

\* A session is called ready only when all of it has been read: the file, the folders
\* and every video it was opened with, and the bar of its progress is full (load, tick).
ReadyIsWhole == \A id \in Ids :
  LET s == Session(id)
  IN /\ s.done <= s.total
     /\ s.state = "ready" =>
          s.text /\ s.done = s.total /\ \A f \in s.source.films : s.prep[f] \notin {"waiting", "checking"}

\* A video that plays is never taken away again by a late answer about it, and a
\* session that was taken out or replaced does not come back (patch, updateSessionVideo).
KeepsPlaying ==
  /\ \A id \in Ids \cap {sessions'[i].id : i \in DOMAIN sessions'}, f \in Films \cup {Cut} :
       Session(id).prep[f] = "ready" => \A i \in DOMAIN sessions' : sessions'[i].id = id => sessions'[i].prep[f] = "ready"
  /\ \A i \in DOMAIN sessions' : sessions'[i].id \in Ids \/ sessions'[i].id > started.sessions

\* Does not hold:
\* "With nothing viewed, a session is opened as soon as its loading starts"
\* (ResultViewer.tsx:86): none waits unseen while the tab shows none.
FreshIsOpened == Viewed = {} => Fresh(sessions) = {}
=============================================================================
