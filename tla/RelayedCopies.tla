---------------------------- MODULE RelayedCopies ----------------------------
(***************************************************************************)
(* Copies from one PC to another that the server relays: CrossCopyAsync and *)
(* CrossCopyFolderAsync of TransferService, with the write sessions of      *)
(* FileTransferService on the PC that receives.  Every copy goes to that    *)
(* one PC and there to one folder, where the files of the same part number  *)
(* have the same name.                                                     *)
(*                                                                         *)
(* A file is its length in pieces of CrossCopyChunkSize.  An invocation of  *)
(* the source PC changes nothing there and is one step; those of the        *)
(* receiving PC are messages, handled one after the other.  A server        *)
(* handler that reads rows of the Transfers table and saves them later is   *)
(* two steps, and others may save in between.                               *)
(***************************************************************************)
EXTENDS Integers, Sequences

CONSTANTS
  Copies,        \* requests to paste, by the id of their transfer
  Folders,       \* those of a folder
  Cut,           \* those to be cut instead of copied
  MaxParts,      \* bound: files in a folder
  MaxSize,       \* bound: pieces in a file
  MaxNames,      \* bound: names UniqueChildPath tries
  MaxConns,      \* bound: connections the receiving PC opens
  MaxCrashes,    \* bound: crashes of the receiving PC or the server
  MaxChanges,    \* bound: changes others make to a source
  MaxIntrusions  \* bound: files others make at the destination

ASSUME CopyKinds == Folders \subseteq Copies /\ Cut \subseteq Copies

ASSUME CopyBounds ==
  /\ {MaxParts, MaxSize, MaxNames, MaxConns} \subseteq Nat \ {0}
  /\ {MaxCrashes, MaxChanges, MaxIntrusions} \subseteq Nat

VARIABLES
  source,        \* copy -> the files at its source, part -> length
  \* server
  table,         \* copy -> state in the Transfers table
  step,          \* copy -> where its request is
  cur,           \* copy -> its locals, see Locals
  answer,        \* copy -> answer to the invocation it awaits
  ok,            \* copies of which nothing has failed
  token,         \* copies whose cancellation token is signalled
  serverRuns,    \* TransferService._serverRuns
  due,           \* copies with a ForceCancelAsync to come
  failing,       \* copies whose row a ForceCancelAsync has read as pending
  raced,         \* history: copies whose result was saved while such a row was held
  registry,      \* AgentRegistry: connection of the receiving PC, 0 when offline
  registering,   \* connection -> how far its AgentHub.Register is
  orphans,       \* connection -> rows its FailOrphanedAsync has read as pending
  \* network
  link, conns,   \* current connection of the receiving PC (0: none), opened so far
  inbox,         \* invocations on their way to it
  \* receiving PC
  sessions,      \* FileTransferService._writes: copy, name of the file
  temps,         \* files NAME.pcm-recv
  files,         \* finished files, by nobody or by a copy
  crashes, changes, intrusions

memory  == <<step, cur, answer, ok, token, serverRuns>>
rows    == <<due, failing, raced>>
hub     == <<registry, registering, orphans>>
network == <<link, conns, inbox>>
disk    == <<temps, files>>
counters == <<crashes, changes, intrusions>>
world   == <<rows, hub, network, sessions, disk, counters>>   \* not the requests
vars    == <<source, table, memory, world>>

Parts == 1..MaxParts
Conns == 1..MaxConns
Names == [part : Parts, n : 1..MaxNames]
Temp  == [name : Names, len : 0..MaxSize]
File  == [name : Names, by : {{}} \cup {{c} : c \in Copies}, len : 0..MaxSize]
Folder == UNION {[S -> 0..MaxSize] : S \in SUBSET Parts}
Locals == [listed : SUBSET Parts, left : SUBSET Parts, part : Parts, size : 0..MaxSize,
           offset : 0..MaxSize, conn : 0..MaxConns, open : BOOLEAN]
Calls  == {"BeginWrite", "WriteChunk", "CommitWrite", "AbortWrite"}
Messages == [kind : Calls, copy : Copies, part : Parts]

\* The invocation a request awaits at a step.
Awaited == [beginning |-> "BeginWrite", writing |-> "WriteChunk",
            committing |-> "CommitWrite", aborting |-> "AbortWrite"]
Steps == {"new", "row", "track", "next", "begin", "write", "mark", "marking", "delete",
          "done", "killed"} \cup DOMAIN Awaited
Over  == {"done", "killed"}

At(c, s)   == step[c] = s
GoTo(c, s) == step' = [step EXCEPT ![c] = s]

Init ==
  /\ source \in [Copies -> Folder]
  /\ \A c \in Copies \ Folders : DOMAIN source[c] = {1}
  /\ table = [c \in Copies |-> "None"]
  /\ step = [c \in Copies |-> "new"]
  /\ cur = [c \in Copies |->
              [listed |-> {}, left |-> {}, part |-> 1, size |-> 0, offset |-> 0,
               conn |-> 0, open |-> FALSE]]
  /\ answer = [c \in Copies |-> "none"]
  /\ ok = Copies /\ token = {} /\ serverRuns = {}
  /\ due = {} /\ failing = {} /\ raced = {}
  /\ registry = 0 /\ registering = [k \in Conns |-> "none"]
  /\ orphans = [k \in Conns |-> {}]
  /\ link = 0 /\ conns = 0 /\ inbox = <<>>
  /\ sessions = {} /\ temps = {} /\ files = {}
  /\ crashes = 0 /\ changes = 0 /\ intrusions = 0

-----------------------------------------------------------------------------
(* The request up to the first invocation.                                  *)

\* A file is opened at both ends; an error is the answer to the request.
OpenFile(c) ==
  /\ At(c, "new") /\ c \notin Folders /\ c \notin token /\ registry # 0
  /\ cur' = [cur EXCEPT ![c].listed = {1}, ![c].size = source[c][1],
                        ![c].conn = registry]
  /\ GoTo(c, "row")
  /\ UNCHANGED <<source, table, answer, ok, token, serverRuns, world>>

\* A folder is listed and its counterpart made.  ListDirectory leaves out what is hidden
\* in the system, what cannot be read and what comes after MaxListEntries.
ListFolder(c) ==
  /\ At(c, "new") /\ c \in Folders /\ c \notin token /\ registry # 0
  /\ \E S \in SUBSET DOMAIN source[c] :
       cur' = [cur EXCEPT ![c].listed = S, ![c].left = S]
  /\ GoTo(c, "row")
  /\ UNCHANGED <<source, table, answer, ok, token, serverRuns, world>>

\* Either PC is offline or cannot do it, or the client is gone.
Refuse(c) ==
  /\ At(c, "new")
  /\ ok' = ok \ {c}
  /\ GoTo(c, "done")
  /\ token' = token \ {c}
  /\ UNCHANGED <<source, table, cur, answer, serverRuns, world>>

AddRow(c) ==
  /\ At(c, "row")
  /\ IF c \in token
       THEN /\ GoTo(c, "done")
            /\ token' = token \ {c}
            /\ ok' = ok \ {c}
            /\ UNCHANGED table
       ELSE /\ GoTo(c, "track")
            /\ table' = [table EXCEPT ![c] = "Pending"]
            /\ UNCHANGED <<ok, token>>
  /\ UNCHANGED <<source, cur, answer, serverRuns, world>>

\* The copy goes on with its next file, or its row is next.
Onward(c) ==
  IF cur[c].left = {} THEN GoTo(c, "mark") /\ serverRuns' = serverRuns \ {c}
                      ELSE GoTo(c, "next") /\ UNCHANGED serverRuns

Track(c) ==
  /\ At(c, "track")
  /\ serverRuns' = serverRuns \cup {c}
  /\ GoTo(c, IF c \in Folders THEN "next" ELSE "begin")
  /\ UNCHANGED <<source, table, cur, answer, ok, token, world>>

\* The subfolders of a folder without files are made.
MakeFolders(c) ==
  /\ At(c, "next") /\ cur[c].left = {}
  /\ Onward(c)
  /\ UNCHANGED <<source, table, cur, answer, ok, token, world>>

\* The next file of a folder is opened at both ends, over today's connection.
OpenNext(c) ==
  /\ At(c, "next") /\ c \notin token /\ registry # 0
  /\ \E p \in cur[c].left \cap DOMAIN source[c] :
       cur' = [cur EXCEPT ![c] = [listed |-> @.listed, left |-> @.left \ {p},
                                  part |-> p, size |-> source[c][p], offset |-> 0,
                                  conn |-> registry, open |-> FALSE]]
  /\ GoTo(c, "begin")
  /\ UNCHANGED <<source, table, answer, ok, token, serverRuns, world>>

-----------------------------------------------------------------------------
(* The loop over the pieces of a file.                                      *)

Reachable(c) == cur[c].conn = link
Message(c, kind) == [kind |-> kind, copy |-> c, part |-> cur[c].part]

\* InvokeAsync over the connection looked up before, awaited at the next step.
Invoke(c, next) ==
  /\ Reachable(c) /\ c \notin token
  /\ inbox' = Append(inbox, Message(c, Awaited[next]))
  /\ answer' = [answer EXCEPT ![c] = "none"]
  /\ GoTo(c, next)

Begin(c) ==
  /\ At(c, "begin") /\ Invoke(c, "beginning")
  /\ UNCHANGED <<source, table, cur, ok, token, serverRuns, rows, hub, link, conns,
                 sessions, disk, counters>>

\* The answer to BeginWrite or WriteChunk has come; the loop is at this offset.
InLoop(c)  == step[c] \in {"beginning", "writing"} /\ answer[c] = "ok"
Reached(c) == IF At(c, "writing") THEN cur[c].offset + 1 ELSE 0
Advance(c) == cur' = [cur EXCEPT ![c].offset = Reached(c), ![c].open = TRUE]

HasPiece(c)  == cur[c].part \in DOMAIN source[c] /\ Reached(c) < source[c][cur[c].part]
\* A source that has shrunk gives no data, which ends the loop as its end does.  (Mutant:
\* any piece shorter than asked for does.)
LoopEnds_Early(c) == Reached(c) = cur[c].size \/ Reached(c) > 0
LoopEnds(c) ==
  \/ Reached(c) = cur[c].size
  \/ cur[c].part \in DOMAIN source[c] /\ ~HasPiece(c)

Read(c) ==
  /\ InLoop(c) /\ c \notin token /\ ~LoopEnds(c) /\ HasPiece(c)
  /\ Advance(c)
  /\ GoTo(c, "write")
  /\ UNCHANGED <<source, table, answer, ok, token, serverRuns, world>>

Write(c) ==
  /\ At(c, "write") /\ Invoke(c, "writing")
  /\ UNCHANGED <<source, table, cur, ok, token, serverRuns, rows, hub, link, conns,
                 sessions, disk, counters>>

Commit(c) ==
  /\ InLoop(c) /\ LoopEnds(c)
  /\ Advance(c)
  /\ Invoke(c, "committing")
  /\ UNCHANGED <<source, table, ok, token, serverRuns, rows, hub, link, conns,
                 sessions, disk, counters>>

Committed(c) ==
  /\ At(c, "committing") /\ answer[c] = "ok"
  /\ Onward(c)
  /\ UNCHANGED <<source, table, cur, answer, ok, token, world>>

\* The token, the connection or the answer of the receiving PC makes a call throw.
Throws(c) == c \in token \/ ~Reachable(c) \/ answer[c] = "error"

Close(c) == GoTo(c, "mark") /\ serverRuns' = serverRuns \ {c}

\* Making a folder, opening a file or BeginWrite throws: nothing is aborted, for the
\* request knows of no session.
FailOpening(c) ==
  /\ At(c, "next") \/ (step[c] \in {"begin", "beginning"} /\ Throws(c))
  /\ ok' = ok \ {c}
  /\ Close(c)
  /\ UNCHANGED <<source, table, cur, answer, token, world>>

\* The session is aborted with CancellationToken.None.  (Mutant: it is left.)
Abandon_Leave(c) == Close(c) /\ UNCHANGED <<inbox, answer>>
Abandon(c) ==
  IF Reachable(c)
    THEN /\ inbox' = Append(inbox, Message(c, "AbortWrite"))
         /\ answer' = [answer EXCEPT ![c] = "none"]
         /\ GoTo(c, "aborting")
         /\ UNCHANGED serverRuns
    ELSE Close(c) /\ UNCHANGED <<inbox, answer>>

\* A call throws within the loop or CommitWrite; reading may throw by itself.
FailCopying(c) ==
  /\ \/ InLoop(c) /\ Reached(c) < cur[c].size
     \/ (InLoop(c) \/ step[c] \in {"write", "writing", "committing"}) /\ Throws(c)
  /\ ok' = ok \ {c}
  /\ cur' = [cur EXCEPT ![c].open = TRUE]
  /\ Abandon(c)
  /\ UNCHANGED <<source, table, token, rows, hub, link, conns, sessions, disk,
                 counters>>

\* Whatever became of AbortWrite.  (Mutant: only its answer counts.)
Aborted_Answered(c) ==
  /\ At(c, "aborting") /\ answer[c] # "none"
  /\ Close(c)
  /\ UNCHANGED <<source, table, cur, answer, ok, token, world>>
Aborted(c) ==
  /\ At(c, "aborting") /\ (answer[c] # "none" \/ ~Reachable(c))
  /\ Close(c)
  /\ UNCHANGED <<source, table, cur, answer, ok, token, world>>

-----------------------------------------------------------------------------
(* The end of the request.                                                  *)

\* The request is answered and its token disposed of.
Done(c) == GoTo(c, "done") /\ token' = token \ {c}

\* The row takes the result whatever it says by now.  (Mutant: only if Pending.)
Outcome_IfPending(c) ==
  IF table[c] # "Pending" THEN table[c] ELSE IF c \in ok THEN "Succeeded" ELSE "Failed"
Outcome(c) == IF c \in ok THEN "Succeeded" ELSE "Failed"

\* The copies whose source is deleted next.  (Mutant: also after a failure.)
ToDelete_Any == Cut
ToDelete     == ok \cap Cut

\* Somebody has read the row as pending and will save it as failed.
Held(c) == c \in failing \/ \E k \in Conns : c \in orphans[k]

\* MarkCrossCopyResultAsync reads the row, whatever it says ...
MarkRead(c) ==
  /\ At(c, "mark") /\ GoTo(c, "marking")
  /\ UNCHANGED <<source, table, cur, answer, ok, token, serverRuns, world>>

\* ... and saves the result.
MarkSave(c) ==
  /\ At(c, "marking")
  /\ table' = [table EXCEPT ![c] = Outcome(c)]
  /\ raced' = IF Held(c) THEN raced \cup {c} ELSE raced
  /\ IF c \in ToDelete THEN GoTo(c, "delete") /\ UNCHANGED token ELSE Done(c)
  /\ UNCHANGED <<source, cur, answer, ok, serverRuns, due, failing, hub, network,
                 sessions, disk, counters>>

\* DeleteSourceAsync deletes the file or the whole folder, what was not listed with it ...
Delete(c) ==
  /\ At(c, "delete") /\ c \notin token
  /\ source' = [source EXCEPT ![c] = <<>>]
  /\ Done(c)
  /\ UNCHANGED <<table, cur, answer, ok, serverRuns, world>>

\* ... or cannot: the source PC is offline or refuses, or the client is gone.
KeepSource(c) ==
  /\ At(c, "delete")
  /\ Done(c)
  /\ UNCHANGED <<source, table, cur, answer, ok, serverRuns, world>>

-----------------------------------------------------------------------------
(* Cancelling.                                                              *)

\* The HTTP request is aborted.
ClientLeaves(c) ==
  /\ step[c] \notin Over /\ c \notin token
  /\ token' = token \cup {c}
  /\ UNCHANGED <<source, table, step, cur, answer, ok, serverRuns, world>>

\* CancelAsync of a copy shown as pending: the copies in _serverRuns are stopped, for
\* any other the receiving PC is told, which knows no such transfer, and
\* ForceCancelAsync follows, at once when the PC is offline.
Cancel(c) ==
  /\ table[c] = "Pending" /\ c \notin token \cup due \cup failing
  /\ IF c \in serverRuns
       THEN token' = token \cup {c} /\ UNCHANGED due
       ELSE due' = due \cup {c} /\ UNCHANGED token
  /\ UNCHANGED <<source, table, step, cur, answer, ok, serverRuns, failing, raced, hub,
                 network, sessions, disk, counters>>

SaveFailed(cs) == table' = [c \in Copies |-> IF c \in cs THEN "Failed" ELSE table[c]]

\* ForceCancelAsync reads a row that is pending and saves it as failed, whatever it says
\* by then.
ForceCancelRead(c) ==
  /\ c \in due
  /\ due' = due \ {c}
  /\ failing' = IF table[c] = "Pending" THEN failing \cup {c} ELSE failing
  /\ UNCHANGED <<source, table, memory, raced, hub, network, sessions, disk, counters>>

ForceCancelSave(c) ==
  /\ c \in failing
  /\ failing' = failing \ {c}
  /\ SaveFailed({c})
  /\ UNCHANGED <<source, memory, due, raced, hub, network, sessions, disk, counters>>

ForceCancel(c) == ForceCancelRead(c) \/ ForceCancelSave(c)

-----------------------------------------------------------------------------
(* The write sessions of the receiving PC.                                  *)

NameOf(p, n)    == [part |-> p, n |-> n]
Free(name)      == \A f \in files : f.name # name

\* The names UniqueChildPath settles for: none, or the first that is free.
UniqueChildPath(p) ==
  {NameOf(p, n) : n \in {m \in 1..MaxNames :
     /\ Free(NameOf(p, m))
     /\ \A k \in 1..(m - 1) : ~Free(NameOf(p, k))}}

\* The temporary file is open.  (Mutant: it can be opened twice.)
Locked_Never(name) == FALSE
Locked(name)     == \E s \in sessions : s.name = name
SessionsOf(c)    == {s \in sessions : s.copy = c}
TempsOf(names)   == {t \in temps : t.name \in names}
NamesOf(c)       == {s.name : s \in SessionsOf(c)}

\* The request is answered if it still waits for this.  (Mutant: errors are swallowed.)
Reply_Ok(m, result) ==
  answer' = IF step[m.copy] \in DOMAIN Awaited /\ Awaited[step[m.copy]] = m.kind
            THEN [answer EXCEPT ![m.copy] = "ok"] ELSE answer
Reply(m, result) ==
  answer' = IF step[m.copy] \in DOMAIN Awaited /\ Awaited[step[m.copy]] = m.kind
            THEN [answer EXCEPT ![m.copy] = result] ELSE answer

\* FileMode.Create with FileShare.None: an old temporary file is overwritten, one that
\* is open cannot be.
BeginWrite(m) ==
  LET names == {x \in UniqueChildPath(m.part) : ~Locked(x)} IN
    /\ sessions' = sessions \cup {[copy |-> m.copy, name |-> x] : x \in names}
    /\ temps' = (temps \ TempsOf(names)) \cup {[name |-> x, len |-> 0] : x \in names}
    /\ Reply(m, IF names # {} THEN "ok" ELSE "error")
    /\ UNCHANGED files

\* WriteChunkAsync.  (Mutant: the piece is written twice.)
WriteChunk_Twice(m) ==
  LET open == NamesOf(m.copy) IN
    /\ temps' = (temps \ TempsOf(open))
                  \cup {[t EXCEPT !.len = @ + 2] : t \in TempsOf(open)}
    /\ Reply(m, IF open # {} THEN "ok" ELSE "error")
    /\ UNCHANGED <<sessions, files>>
WriteChunk(m) ==
  LET open == NamesOf(m.copy) IN
    /\ temps' = (temps \ TempsOf(open))
                  \cup {[t EXCEPT !.len = @ + 1] : t \in TempsOf(open)}
    /\ Reply(m, IF open # {} THEN "ok" ELSE "error")
    /\ UNCHANGED <<sessions, files>>

\* File.Move with overwrite: false.  The session is gone in either case, and with it
\* what AbortWrite would need to delete the temporary file.  (Mutant: overwrite: true.)
CommitWrite_Overwrite(m) ==
  LET placed == TempsOf(NamesOf(m.copy)) IN
    /\ sessions' = sessions \ SessionsOf(m.copy)
    /\ temps' = temps \ placed
    /\ files' = {f \in files : \A t \in placed : t.name # f.name}
                  \cup {[name |-> t.name, by |-> {m.copy}, len |-> t.len] : t \in placed}
    /\ Reply(m, IF placed # {} THEN "ok" ELSE "error")
CommitWrite(m) ==
  LET placed == {t \in TempsOf(NamesOf(m.copy)) : Free(t.name)} IN
    /\ sessions' = sessions \ SessionsOf(m.copy)
    /\ temps' = temps \ placed
    /\ files' = files \cup {[name |-> t.name, by |-> {m.copy}, len |-> t.len] :
                              t \in placed}
    /\ Reply(m, IF placed # {} THEN "ok" ELSE "error")

AbortWrite(m) ==
  /\ sessions' = sessions \ SessionsOf(m.copy)
  /\ temps' = temps \ TempsOf(NamesOf(m.copy))
  /\ Reply(m, "ok")
  /\ UNCHANGED files

Handle ==
  /\ inbox # <<>>
  /\ LET m == Head(inbox) IN
       \/ m.kind = "BeginWrite" /\ BeginWrite(m)
       \/ m.kind = "WriteChunk" /\ WriteChunk(m)
       \/ m.kind = "CommitWrite" /\ CommitWrite(m)
       \/ m.kind = "AbortWrite" /\ AbortWrite(m)
  /\ inbox' = Tail(inbox)
  /\ UNCHANGED <<source, table, step, cur, ok, token, serverRuns, rows, hub, link, conns,
                 counters>>

-----------------------------------------------------------------------------
(* The connection of the receiving PC, crashes, and others at work.         *)

Connect ==
  /\ link = 0 /\ conns < MaxConns
  /\ link' = conns + 1 /\ conns' = conns + 1
  /\ UNCHANGED <<source, table, memory, rows, hub, inbox, sessions, disk, counters>>

\* The pending transfers FailOrphanedAsync fails: all, since an agent knows nothing of
\* relayed copies.  (Mutant: the copies of a lost server process are forgotten.)
Orphaned_Tracked == serverRuns
Orphaned == Copies

\* AgentHub.Register of a connection, which may be gone by now and have a successor:
\* FailOrphanedAsync reads the pending rows ...
RegisterRead(k) ==
  /\ registering[k] = "none" /\ k <= conns
  /\ registering' = [registering EXCEPT ![k] = "read"]
  /\ orphans' = [orphans EXCEPT ![k] = {c \in Orphaned : table[c] = "Pending"}]
  /\ UNCHANGED <<source, table, memory, rows, registry, network, sessions, disk, counters>>

\* ... and saves them as failed, whatever they say by then, ...
RegisterSave(k) ==
  /\ registering[k] = "read"
  /\ registering' = [registering EXCEPT ![k] = "saved"]
  /\ SaveFailed(orphans[k])
  /\ orphans' = [orphans EXCEPT ![k] = {}]
  /\ UNCHANGED <<source, memory, rows, registry, network, sessions, disk, counters>>

\* ... and AgentRegistry.Set follows.
RegisterSet(k) ==
  /\ registering[k] = "saved"
  /\ registering' = [registering EXCEPT ![k] = "done"]
  /\ registry' = k
  /\ UNCHANGED <<source, table, memory, rows, orphans, network, sessions, disk, counters>>

Register == \E k \in Conns : RegisterRead(k) \/ RegisterSave(k) \/ RegisterSet(k)

\* OnDisconnectedAsync of the connection that is registered.
Disconnected ==
  /\ registry \notin {0, link}
  /\ registry' = 0
  /\ UNCHANGED <<source, table, memory, rows, registering, orphans, network, sessions,
                 disk, counters>>

MayFail == link # 0 /\ conns < MaxConns
Drop    == link' = 0 /\ inbox' = <<>> /\ UNCHANGED conns

Break ==
  /\ MayFail /\ Drop
  /\ UNCHANGED <<source, table, memory, rows, hub, sessions, disk, counters>>

\* The receiving PC restarts: its sessions are gone, its files are not.
AgentCrash ==
  /\ MayFail /\ Drop /\ crashes < MaxCrashes
  /\ crashes' = crashes + 1
  /\ sessions' = {}
  /\ UNCHANGED <<source, table, memory, rows, hub, disk, changes, intrusions>>

\* The server restarts: the requests under way are gone.
ServerCrash ==
  /\ MayFail /\ Drop /\ crashes < MaxCrashes
  /\ crashes' = crashes + 1
  /\ step' = [c \in Copies |-> IF step[c] \in Over \cup {"new"} THEN step[c]
                               ELSE "killed"]
  /\ token' = {} /\ serverRuns' = {} /\ due' = {} /\ failing' = {} /\ registry' = 0
  /\ registering' = [k \in Conns |-> IF k <= conns THEN "done" ELSE "none"]
  /\ orphans' = [k \in Conns |-> {}]
  /\ UNCHANGED <<source, table, cur, answer, ok, raced, sessions, disk, changes,
                 intrusions>>

\* A program at the source writes a file, as tests write their logs.
SourceChanges(c) ==
  /\ step[c] \notin Over /\ changes < MaxChanges
  /\ changes' = changes + 1
  /\ \E p \in IF c \in Folders THEN Parts ELSE {1}, n \in 0..MaxSize :
       source' = [source EXCEPT ![c] =
                    [q \in DOMAIN @ \cup {p} |-> IF q = p THEN n ELSE @[q]]]
  /\ UNCHANGED <<table, memory, rows, hub, network, sessions, disk, crashes, intrusions>>

\* Another program at the destination makes a file.
Intrude ==
  /\ intrusions < MaxIntrusions
  /\ intrusions' = intrusions + 1
  /\ \E p \in Parts, n \in 1..MaxNames :
       /\ Free(NameOf(p, n))
       /\ files' = files \cup {[name |-> NameOf(p, n), by |-> {}, len |-> 0]}
  /\ UNCHANGED <<source, table, memory, rows, hub, network, sessions, temps, crashes,
                 changes>>

-----------------------------------------------------------------------------
(* The specification.                                                       *)

Request(c) ==
  \/ OpenFile(c) \/ ListFolder(c) \/ Refuse(c) \/ AddRow(c) \/ Track(c)
  \/ MakeFolders(c) \/ OpenNext(c) \/ Begin(c) \/ Read(c) \/ Write(c)
  \/ Commit(c) \/ Committed(c) \/ FailOpening(c) \/ FailCopying(c) \/ Aborted(c)
  \/ MarkRead(c) \/ MarkSave(c) \/ Delete(c) \/ KeepSource(c)

User(c) == ClientLeaves(c) \/ Cancel(c) \/ SourceChanges(c)

Environment == Break \/ AgentCrash \/ ServerCrash \/ Intrude

Next ==
  \/ \E c \in Copies : Request(c) \/ User(c) \/ ForceCancel(c)
  \/ Handle \/ Connect \/ Register \/ Disconnected
  \/ Environment

\* A request and the receiving PC go on with what they do; the PC comes back.
Fairness ==
  /\ \A c \in Copies : WF_vars(Request(c)) /\ WF_vars(ForceCancel(c))
  /\ WF_vars(Handle) /\ WF_vars(Connect) /\ WF_vars(Register) /\ WF_vars(Disconnected)

Spec == Init /\ [][Next]_vars /\ Fairness

-----------------------------------------------------------------------------
(* Properties *)

TypeOK ==
  /\ source \in [Copies -> Folder]
  /\ table \in [Copies -> {"None", "Pending", "Succeeded", "Failed"}]
  /\ step \in [Copies -> Steps]
  /\ cur \in [Copies -> Locals]
  /\ answer \in [Copies -> {"none", "ok", "error"}]
  /\ ok \subseteq Copies /\ token \subseteq Copies
  /\ serverRuns \subseteq Copies
  /\ due \subseteq Copies /\ failing \subseteq Copies /\ raced \subseteq Copies
  /\ registering \in [Conns -> {"none", "read", "saved", "done"}]
  /\ orphans \in [Conns -> SUBSET Copies]
  /\ registry \in 0..MaxConns /\ link \in 0..MaxConns /\ conns \in 0..MaxConns
  /\ inbox \in Seq(Messages)
  /\ sessions \subseteq [copy : Copies, name : Names]
  /\ temps \subseteq Temp /\ files \subseteq File
  /\ crashes \in 0..MaxCrashes /\ changes \in 0..MaxChanges
  /\ intrusions \in 0..MaxIntrusions

\* The file p of copy c is in place in full: by its name at the destination and with
\* the length it has at the source.
InPlace(c, p) ==
  \E f \in files : /\ f.by = {c} /\ f.name.part = p /\ f.len = source[c][p]

\* Everything that was listed of a source, and is still there, is in place.
ListedInPlace(c) == \A p \in cur[c].listed \cap DOMAIN source[c] : InPlace(c, p)

\* A cut deletes its source only when everything that was listed of it is in place at the
\* destination.
MoveKeepsListed ==
  [][\A c \in Copies : source[c] # <<>> /\ source'[c] = <<>> => ListedInPlace(c)]_vars

\* Does not hold (TransferService.cs:447, FileTransferService.cs:17): what was not listed
\* is deleted with the rest of its folder and is nowhere any more.
MoveKeepsData ==
  [][\A c \in Copies : source[c] # <<>> /\ source'[c] = <<>> =>
       \A p \in DOMAIN source[c] : InPlace(c, p)]_vars

\* A copy that is recorded as succeeded, and whose source nobody touched, is there, as
\* far as it was listed.
SucceededIsWhole ==
  \A c \in Copies : table[c] = "Succeeded" /\ changes = 0 => ListedInPlace(c)

\* A file under its final name is never half of it, whatever failed on the way: what
\* was not committed is a temporary file.
NoHalfFile ==
  changes = 0 => \A c \in Copies : \A f \in files : f.by = {c} =>
    source[c] = <<>> \/ InPlace(c, f.name.part)

\* A file is there in full, or not at all, and it is there if the row says so.
WholeOrNothing == SucceededIsWhole /\ NoHalfFile

\* A file that is there is never overwritten by a copy.
NeverOverwritten == [][files \subseteq files']_vars

\* When a request is over, the row says what the request answered, whatever failed the
\* row before.  Only who had read it as pending before the result was saved can change it
\* afterwards, and then a success is shown as a failure, never a failure as a success.
RowIsAnswer ==
  \A c \in Copies : At(c, "done") /\ table[c] # "None" =>
    \/ table[c] = IF c \in ok THEN "Succeeded" ELSE "Failed"
    \/ c \in raced /\ table[c] = "Failed"

\* A request that is over left no open session, if the PC stayed connected and has seen
\* to all it was asked, and the request had learnt of the session.
NoSessionLeft ==
  \A c \in Copies : At(c, "done") /\ cur[c].conn = link /\ cur[c].open =>
    \/ SessionsOf(c) = {}
    \/ \E i \in DOMAIN inbox : inbox[i].copy = c

\* Does not hold (FileTransferService.cs:376): a failed or cancelled copy leaves no
\* temporary file, here of a PC that stayed connected and has seen to all it was asked.
FailedIsCleaned ==
  \A c \in Copies :
    /\ At(c, "done") /\ c \notin ok
    /\ conns = 1 /\ link = 1 /\ crashes = 0 /\ intrusions = 0 /\ inbox = <<>>
    => TempsOf(NamesOf(c)) = {}

\* A copy shown as pending is over some day, even when the server forgot it.
PendingEnds == \A c \in Copies : table[c] = "Pending" ~> table[c] # "Pending"

\* A cancelled request comes to its end, while an answer is awaited or not.
CancelEnds == \A c \in Copies : c \in token ~> step[c] \in Over
=============================================================================
