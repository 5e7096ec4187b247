-------------------------- MODULE RelayedCopies_proof --------------------------
(***************************************************************************)
(* Proofs about RelayedCopies, for every number of copies, files, pieces,  *)
(* connections, crashes and interferences.                                 *)
(***************************************************************************)
EXTENDS RelayedCopies, TLAPS, MessageTheorems

-----------------------------------------------------------------------------
(* The row and the answer of a request.                                     *)

States == {"None", "Pending", "Succeeded", "Failed"}

\* RowIsAnswer is not inductive: it needs that there is no row before AddRow, that the row
\* says the result from MarkSave on, while the source is being deleted, and that nobody
\* holds it as pending by then who did not when the result was saved.
RowOf(c) ==
  /\ step[c] \in {"new", "row"} => table[c] = "None"
  /\ Held(c) => table[c] # "None"
  /\ step[c] \in {"delete", "done"} /\ table[c] # "None" =>
       \/ table[c] = Outcome(c) /\ ~Held(c)
       \/ c \in raced /\ table[c] \in {Outcome(c), "Failed"}

RowInv ==
  /\ table \in [Copies -> States]
  /\ step \in [Copies -> Steps]
  /\ orphans \in [Conns -> SUBSET Copies]
  /\ failing \subseteq Copies
  /\ \A c \in Copies : RowOf(c)

\* The program counters are different steps.
LEMMA StepValues ==
  Steps = {"new", "row", "track", "next", "begin", "write", "mark", "marking", "delete",
           "done", "killed", "beginning", "writing", "committing", "aborting"}
<1>1. DOMAIN Awaited = {"beginning", "writing", "committing", "aborting"}
  BY DEF Awaited
<1>. QED  BY <1>1 DEF Steps

\* The invariant holds initially.
LEMMA RowInit == Init => RowInv
BY StepValues DEF Init, RowInv, RowOf, States, Held

\* Nobody else looks at the row during most steps.
LEMMA HeldStays ==
  ASSUME UNCHANGED <<failing, orphans>>
  PROVE  \A c : Held(c)' = Held(c)
BY DEF Held

\* A request that stays away from its row and goes on to a step before the result keeps
\* the invariant, whatever it counts as failed.
LEMMA RowUntouched ==
  ASSUME RowInv, NEW c \in Copies, NEW s \in Steps,
         step[c] \notin {"new", "row", "delete", "done"},
         s \notin {"new", "row", "delete", "done"},
         step' = [step EXCEPT ![c] = s], table' = table, UNCHANGED <<rows, hub>>,
         ok' = ok \/ ok' = ok \ {c}
  PROVE  RowInv'
<1>0. /\ UNCHANGED <<failing, orphans, raced>>
      /\ \A d : Held(d)' = Held(d)
  BY HeldStays DEF rows, hub
<1>. SUFFICES ASSUME NEW d \in Copies
              PROVE  RowOf(d)'
  BY <1>0 DEF RowInv
<1>1. CASE d = c
  BY <1>0, <1>1 DEF RowInv, RowOf
<1>2. CASE d # c
  BY <1>0, <1>2 DEF RowInv, RowOf, Outcome
<1>. QED  BY <1>1, <1>2

\* Saving as failed what one holds as pending touches neither a request that has no row
\* nor a result, but one that raced.
LEMMA RowSaveFailed ==
  ASSUME RowInv, NEW cs, SaveFailed(cs), UNCHANGED <<step, ok, raced>>,
         \A c \in cs : Held(c), \A c \in Copies : Held(c)' => Held(c),
         failing' \subseteq Copies, orphans' \in [Conns -> SUBSET Copies]
  PROVE  RowInv'
<1>1. table' \in [Copies -> States]
  BY DEF SaveFailed, RowInv, States
<1>2. ASSUME NEW c \in Copies  PROVE RowOf(c)'
  <2>1. RowOf(c) /\ Outcome(c)' = Outcome(c) /\ (Held(c)' => Held(c))
    BY DEF RowInv, Outcome
  <2>2. CASE c \in cs
    <3>1. Held(c) /\ table'[c] = "Failed"
      BY <2>2 DEF SaveFailed
    <3>2. table[c] # "None" /\ step'[c] = step[c]
      BY <2>1, <3>1 DEF RowOf
    <3>. QED  BY <2>1, <3>1, <3>2 DEF RowOf
  <2>3. CASE c \notin cs
    <3>1. table'[c] = table[c]
      BY <2>3 DEF SaveFailed
    <3>. QED  BY <2>1, <3>1 DEF RowOf
  <2>. QED  BY <2>2, <2>3
<1>. QED  BY <1>1, <1>2 DEF RowInv

\* Nor does reading rows that are pending.
LEMMA RowReadPending ==
  ASSUME RowInv, UNCHANGED <<table, step, ok, raced>>,
         \A c \in Copies : Held(c)' => Held(c) \/ table[c] = "Pending",
         failing' \subseteq Copies, orphans' \in [Conns -> SUBSET Copies]
  PROVE  RowInv'
<1>1. ASSUME NEW c \in Copies  PROVE RowOf(c)'
  <2>1. RowOf(c) /\ Outcome(c)' = Outcome(c) /\ (Held(c)' => Held(c) \/ table[c] = "Pending")
    BY DEF RowInv, Outcome
  <2>2. Outcome(c) # "Pending"
    BY DEF Outcome
  <2>. QED  BY <2>1, <2>2 DEF RowOf
<1>. QED  BY <1>1 DEF RowInv

\* The steps of a request before its row takes the result.
LEMMA RowCopying ==
  ASSUME RowInv, NEW c \in Copies,
         \/ Track(c) \/ MakeFolders(c) \/ OpenNext(c) \/ Begin(c) \/ Read(c)
         \/ Write(c) \/ Commit(c) \/ Committed(c) \/ FailOpening(c) \/ FailCopying(c)
         \/ Aborted(c) \/ MarkRead(c)
  PROVE  RowInv'
<1>. USE StepValues DEF At, GoTo, world
<1>1. CASE Track(c)
  BY <1>1, RowUntouched DEF Track
<1>2. CASE OpenNext(c)
  BY <1>2, RowUntouched DEF OpenNext
<1>3. CASE Begin(c)
  BY <1>3, RowUntouched DEF Begin, Invoke
<1>4. CASE Read(c)
  BY <1>4, RowUntouched DEF Read, InLoop
<1>5. CASE Write(c)
  BY <1>5, RowUntouched DEF Write, Invoke
<1>6. CASE Commit(c)
  BY <1>6, RowUntouched DEF Commit, InLoop, Invoke
<1>7. CASE Committed(c)
  BY <1>7, RowUntouched DEF Committed, Onward
<1>8. CASE FailOpening(c)
  BY <1>8, RowUntouched DEF FailOpening, Close
<1>9. CASE FailCopying(c)
  BY <1>9, RowUntouched DEF FailCopying, InLoop, Abandon, Close
<1>10. CASE Aborted(c)
  BY <1>10, RowUntouched DEF Aborted, Close
<1>11. CASE MakeFolders(c)
  BY <1>11, RowUntouched DEF MakeFolders, Onward
<1>12. CASE MarkRead(c)
  BY <1>12, RowUntouched DEF MarkRead
<1>. QED  BY <1>1, <1>2, <1>3, <1>4, <1>5, <1>6, <1>7, <1>8, <1>9, <1>10, <1>11, <1>12

\* A request that opens its source, is refused, adds its row or deletes its source.
LEMMA RowEnds ==
  ASSUME RowInv, NEW c \in Copies,
         \/ OpenFile(c) \/ ListFolder(c) \/ Refuse(c) \/ AddRow(c)
         \/ Delete(c) \/ KeepSource(c)
  PROVE  RowInv'
<1>1. UNCHANGED <<failing, orphans, raced>> /\ \A d : Held(d)' = Held(d)
  <2>1. UNCHANGED <<failing, orphans, raced>>
    BY DEF OpenFile, ListFolder, Refuse, AddRow, Delete, KeepSource, world, rows, hub
  <2>. QED  BY <2>1, HeldStays
<1>2. /\ step' \in [Copies -> Steps] /\ table' \in [Copies -> States]
      /\ \A d \in Copies \ {c} : /\ step'[d] = step[d] /\ table'[d] = table[d]
                                 /\ (d \in ok') = (d \in ok)
  BY StepValues DEF RowInv, States, GoTo, OpenFile, ListFolder, Refuse, AddRow, Delete,
                    KeepSource, Done
<1>3. \/ /\ step[c] \in {"new", "row"} /\ step'[c] \in {"row", "done"} /\ table'[c] = table[c]
      \/ step[c] = "row" /\ step'[c] = "track" /\ table'[c] = "Pending"
      \/ step[c] = "delete" /\ step'[c] = "done" /\ table' = table /\ ok' = ok
  <2>. USE DEF RowInv, GoTo, At
  <2>1. CASE OpenFile(c) \/ ListFolder(c) \/ Refuse(c)
    BY <2>1 DEF OpenFile, ListFolder, Refuse
  <2>2. CASE AddRow(c)
    BY <2>2 DEF AddRow
  <2>3. CASE Delete(c) \/ KeepSource(c)
    BY <2>3 DEF Delete, KeepSource, Done
  <2>. QED  BY <2>1, <2>2, <2>3
<1>4. ASSUME NEW d \in Copies  PROVE RowOf(d)'
  <2>1. RowOf(d)
    BY DEF RowInv
  <2>2. CASE d = c
    BY <2>1, <2>2, <1>1, <1>3 DEF RowOf, Outcome
  <2>3. CASE d # c
    BY <2>1, <2>3, <1>1, <1>2 DEF RowOf, Outcome
  <2>. QED  BY <2>2, <2>3
<1>. QED  BY <1>1, <1>2, <1>4 DEF RowInv

\* The result is saved.
LEMMA RowMark ==
  ASSUME RowInv, NEW c \in Copies, MarkSave(c)
  PROVE  RowInv'
<1>1. UNCHANGED <<failing, orphans, ok>> /\ \A d : Held(d)' = Held(d)
  BY HeldStays DEF MarkSave, hub
<1>2. /\ step[c] = "marking" /\ step'[c] \in {"delete", "done"} /\ table'[c] = Outcome(c)
      /\ Held(c) => c \in raced'
      /\ step' \in [Copies -> Steps] /\ table' \in [Copies -> States] /\ raced \subseteq raced'
      /\ \A d \in Copies \ {c} : step'[d] = step[d] /\ table'[d] = table[d]
  BY StepValues DEF RowInv, MarkSave, Done, GoTo, At, Outcome, States
<1>3. ASSUME NEW d \in Copies  PROVE RowOf(d)'
  <2>1. RowOf(d) /\ Outcome(d)' = Outcome(d)
    BY <1>1 DEF RowInv, Outcome
  <2>2. CASE d = c
    BY <2>1, <2>2, <1>1, <1>2 DEF RowOf, Outcome
  <2>3. CASE d # c
    BY <2>1, <2>3, <1>1, <1>2 DEF RowOf
  <2>. QED  BY <2>2, <2>3
<1>. QED  BY <1>1, <1>2, <1>3 DEF RowInv

\* Forced cancels and registrations.
LEMMA RowFailers ==
  ASSUME RowInv, (\E c \in Copies : ForceCancel(c)) \/ Register
  PROVE  RowInv'
<1>0. orphans \in [Conns -> SUBSET Copies] /\ failing \subseteq Copies
  BY DEF RowInv
<1>1. ASSUME NEW c \in Copies, ForceCancelRead(c)  PROVE RowInv'
  <2>1. /\ UNCHANGED <<table, step, ok, raced, orphans>>
        /\ failing' = IF table[c] = "Pending" THEN failing \cup {c} ELSE failing
    BY <1>1 DEF ForceCancelRead, memory, hub
  <2>2. \A d \in Copies : Held(d)' => Held(d) \/ table[d] = "Pending"
    BY <2>1 DEF Held
  <2>. QED  BY <2>1, <2>2, <1>0, RowReadPending
<1>2. ASSUME NEW c \in Copies, ForceCancelSave(c)  PROVE RowInv'
  <2>1. /\ UNCHANGED <<step, ok, raced, orphans>> /\ failing' = failing \ {c}
        /\ SaveFailed({c}) /\ c \in failing
    BY <1>2 DEF ForceCancelSave, memory, hub
  <2>2. Held(c) /\ \A d \in Copies : Held(d)' => Held(d)
    BY <2>1 DEF Held
  <2>. QED  BY <2>1, <2>2, <1>0, RowSaveFailed
<1>3. ASSUME NEW k \in Conns, RegisterRead(k)  PROVE RowInv'
  <2>1. /\ UNCHANGED <<table, step, ok, raced, failing>>
        /\ orphans' = [orphans EXCEPT ![k] = {c \in Orphaned : table[c] = "Pending"}]
    BY <1>3 DEF RegisterRead, memory, rows
  <2>2. orphans' \in [Conns -> SUBSET Copies]
    BY <2>1, <1>0 DEF Orphaned
  <2>3. \A d \in Copies : Held(d)' => Held(d) \/ table[d] = "Pending"
    BY <2>1, <1>0 DEF Held
  <2>. QED  BY <2>1, <2>2, <2>3, <1>0, RowReadPending
<1>4. ASSUME NEW k \in Conns, RegisterSave(k)  PROVE RowInv'
  <2>1. /\ UNCHANGED <<step, ok, raced, failing>>
        /\ orphans' = [orphans EXCEPT ![k] = {}] /\ SaveFailed(orphans[k])
    BY <1>4 DEF RegisterSave, memory, rows
  <2>2. orphans' \in [Conns -> SUBSET Copies]
    BY <2>1, <1>0
  <2>3. \A d \in orphans[k] : Held(d)
    BY DEF Held
  <2>4. \A d \in Copies : Held(d)' => Held(d)
    BY <2>1, <1>0 DEF Held
  <2>. QED  BY <2>1, <2>2, <2>3, <2>4, <1>0, RowSaveFailed
<1>5. ASSUME NEW k \in Conns, RegisterSet(k)  PROVE RowInv'
  <2>1. UNCHANGED <<table, step, ok, raced, failing, orphans>>
    BY <1>5 DEF RegisterSet, memory, rows
  <2>. QED  BY <2>1, <1>0, HeldStays, RowReadPending
<1>. QED  BY <1>1, <1>2, <1>3, <1>4, <1>5 DEF ForceCancel, Register

\* Everything else: users, the receiving PC, the connection, crashes, others.
LEMMA RowOthers ==
  ASSUME RowInv,
         \/ \E c \in Copies : User(c)
         \/ Handle \/ Connect \/ Disconnected \/ Environment \/ UNCHANGED vars
  PROVE  RowInv'
<1>0. orphans \in [Conns -> SUBSET Copies] /\ failing \subseteq Copies
  BY DEF RowInv
<1>1. ASSUME UNCHANGED <<table, step, ok, raced, failing, orphans>>  PROVE RowInv'
  BY <1>0, <1>1, HeldStays, RowReadPending
<1>. USE DEF memory, rows, hub
<1>2. ASSUME NEW c \in Copies, User(c)  PROVE RowInv'
  BY <1>1, <1>2 DEF User, ClientLeaves, Cancel, SourceChanges, world
<1>3. CASE Handle
  BY <1>1, <1>3 DEF Handle
<1>4. CASE Connect \/ Disconnected \/ UNCHANGED vars
  BY <1>1, <1>4 DEF Connect, Disconnected, vars, world
<1>5. CASE Break \/ AgentCrash \/ Intrude
  BY <1>1, <1>5 DEF Break, AgentCrash, Intrude
<1>6. CASE ServerCrash
  <2>1. /\ UNCHANGED <<table, ok, raced>> /\ failing' = {}
        /\ orphans' = [k \in Conns |-> {}]
        /\ step' = [c \in Copies |-> IF step[c] \in Over \cup {"new"} THEN step[c]
                                     ELSE "killed"]
    BY <1>6 DEF ServerCrash
  <2>2. \A c : ~Held(c)'
    BY <2>1 DEF Held
  <2>3. step' \in [Copies -> Steps]
    BY <2>1, StepValues DEF RowInv
  <2>4. ASSUME NEW c \in Copies  PROVE RowOf(c)'
    BY <2>1, <2>2 DEF RowInv, RowOf, Outcome, Over
  <2>. QED  BY <2>1, <2>3, <2>4 DEF RowInv
<1>. QED  BY <1>2, <1>3, <1>4, <1>5, <1>6 DEF Environment

\* Every step preserves the invariant.
LEMMA RowStep == RowInv /\ [Next]_vars => RowInv'
<1>. SUFFICES ASSUME RowInv, [Next]_vars  PROVE RowInv'
  OBVIOUS
<1>1. ASSUME NEW c \in Copies, Request(c)  PROVE RowInv'
  BY <1>1, RowCopying, RowEnds, RowMark DEF Request
<1>. QED  BY <1>1, RowFailers, RowOthers DEF Next

\* When a request is over, the row says what the request answered, or says that it failed
\* and was held by somebody when the result was saved: CrossCopyAsync and
\* CrossCopyFolderAsync never leave a row that FailOrphanedAsync or ForceCancelAsync has
\* failed before, and neither of the two begins to fail a row that says its result.
THEOREM RowCorrect == Spec => []RowIsAnswer
<1>1. RowInv => RowIsAnswer
  BY DEF RowInv, RowOf, RowIsAnswer, Outcome, At
<1>. QED  BY RowInit, RowStep, <1>1, PTL DEF Spec

-----------------------------------------------------------------------------
(* The files at the destination.                                            *)

\* Forced cancels and registrations change rows and the registry, and no row becomes a
\* success by them.
LEMMA FailersFrame ==
  ASSUME (\E c \in Copies : ForceCancel(c)) \/ Register
  PROVE  /\ UNCHANGED <<source, memory, network, sessions, disk, counters>>
         /\ \A c \in Copies : table'[c] = "Succeeded" => table[c] = "Succeeded"
<1>1. ASSUME NEW c \in Copies, ForceCancel(c)
      PROVE  UNCHANGED <<source, memory, network, sessions, disk, counters>>
             /\ (table' = table \/ SaveFailed({c}))
  BY <1>1 DEF ForceCancel, ForceCancelRead, ForceCancelSave
<1>2. CASE Register
  <2>1. PICK k \in Conns : RegisterRead(k) \/ RegisterSave(k) \/ RegisterSet(k)
    BY <1>2 DEF Register
  <2>2. UNCHANGED <<source, memory, network, sessions, disk, counters>>
        /\ (table' = table \/ SaveFailed(orphans[k]))
    BY <2>1 DEF RegisterRead, RegisterSave, RegisterSet
  <2>3. \A cs : SaveFailed(cs) =>
          \A c \in Copies : table'[c] = "Succeeded" => table[c] = "Succeeded"
    BY DEF SaveFailed
  <2>. QED  BY <2>2, <2>3
<1>3. \A cs : SaveFailed(cs) =>
        \A c \in Copies : table'[c] = "Succeeded" => table[c] = "Succeeded"
  BY DEF SaveFailed
<1>. QED  BY <1>1, <1>2, <1>3

\* No step overwrites or removes a finished file: only CommitWrite and other programs
\* make one, and neither takes a name that is not free.
THEOREM NeverOverwrittenCorrect == Spec => NeverOverwritten
<1>1. ASSUME [Next]_vars  PROVE files \subseteq files'
  <2>1. ASSUME NEW c \in Copies, Request(c)  PROVE files' = files
    BY <2>1 DEF Request, OpenFile, ListFolder, Refuse, AddRow, Track, MakeFolders,
                OpenNext, Begin, Read, Write, Commit, Committed, FailOpening,
                FailCopying, Aborted, MarkRead, MarkSave, Delete, KeepSource, world, disk
  <2>2. ASSUME NEW c \in Copies, User(c)  PROVE files' = files
    BY <2>2 DEF User, ClientLeaves, Cancel, SourceChanges, world, disk
  <2>3. CASE Handle
    BY <2>3 DEF Handle, BeginWrite, WriteChunk, CommitWrite, AbortWrite
  <2>4. CASE Connect \/ Disconnected \/ Break \/ AgentCrash \/ ServerCrash
    BY <2>4 DEF Connect, Disconnected, Break, AgentCrash, ServerCrash, disk
  <2>5. CASE Intrude
    BY <2>5 DEF Intrude
  <2>6. CASE UNCHANGED vars
    BY <2>6 DEF vars, world, disk
  <2>7. CASE (\E c \in Copies : ForceCancel(c)) \/ Register
    BY <2>7, FailersFrame DEF disk
  <2>. QED  BY <1>1, <2>1, <2>2, <2>3, <2>4, <2>5, <2>6, <2>7 DEF Next, Environment
<1>2. [Next]_vars => [files \subseteq files']_vars
  BY <1>1
<1>. QED  BY <1>2, PTL DEF Spec, NeverOverwritten
-----------------------------------------------------------------------------
(* Types, and the sessions of the receiving PC. *)

\* Steps at which a file of the request is open or about to be.
Copying == {"begin", "beginning", "write", "writing", "committing"}

\* Something has failed, and the request is at its end.
Failed(c) == c \notin ok /\ step[c] \in {"aborting", "mark", "marking", "done"}

\* The temporary files that are open for a request.
Opened(c) == TempsOf(NamesOf(c))

\* Connections have ascending numbers, and a request has one when it needs it.
LinkOf(c) ==
  /\ cur[c].conn <= conns
  /\ \/ step[c] \in Copying \cup {"aborting"}
     \/ cur[c].open
     \/ step[c] \in {"row", "track"} /\ c \notin Folders
     => cur[c].conn # 0
LinkInv ==
  /\ link \in {0, conns} /\ registry <= conns
  /\ \A k \in Conns : registering[k] # "none" => k <= conns
  /\ \A c \in Copies : LinkOf(c)

\* The request awaits the answer to an invocation that is part of its loop.
Waits(c, kind) ==
  \/ At(c, "beginning") /\ kind = "BeginWrite"
  \/ At(c, "writing") /\ kind = "WriteChunk"
  \/ At(c, "committing") /\ kind = "CommitWrite"

\* What an invocation on its way tells of its request, which may have failed since.
Expected(m) ==
  LET c == m.copy IN
    /\ m.part = cur[c].part
    /\ \/ Waits(c, m.kind) /\ answer[c] = "none" /\ cur[c].conn = link
       \/ Failed(c)
    /\ m.kind = "BeginWrite" => SessionsOf(c) = {} /\ ~cur[c].open
    /\ m.kind = "WriteChunk" => cur[c].offset < cur[c].size
    /\ m.kind \in {"WriteChunk", "CommitWrite"} =>
         \A t \in Opened(c) : t.len = cur[c].offset

\* A request has one invocation on its way, and AbortWrite after it.
MessageInv ==
  /\ \A i \in 1..Len(inbox) : Expected(inbox[i])
  /\ \A i, j \in 1..Len(inbox) : i < j /\ inbox[i].copy = inbox[j].copy =>
       inbox[i].kind # "AbortWrite" /\ inbox[j].kind = "AbortWrite"

\* The pieces in the temporary file of a request.
Written(c) ==
  IF At(c, "beginning") THEN 0
  ELSE IF At(c, "writing") /\ answer[c] = "ok" THEN cur[c].offset + 1
  ELSE cur[c].offset

\* The request has no session, before BeginWrite and after CommitWrite.
HasNone(c) ==
  \/ step[c] \in {"new", "row", "track", "next", "begin", "delete"}
  \/ step[c] \in {"mark", "marking", "done"} /\ c \in ok
  \/ At(c, "beginning") /\ answer[c] # "ok"
  \/ At(c, "committing") /\ answer[c] # "none"

\* What is open for a request: the file it copies, as far as it has written it.
SessionOf(c) ==
  /\ HasNone(c) => SessionsOf(c) = {}
  /\ \A s \in SessionsOf(c) : s.name.part = cur[c].part
  /\ step[c] \in Copying => \A t \in Opened(c) : t.len = Written(c)
  /\ step[c] \in {"write", "writing"} => cur[c].offset < cur[c].size
  /\ step[c] \in {"new", "row", "track", "begin", "beginning"} => ~cur[c].open
  /\ At(c, "aborting") => c \notin ok

\* No two requests write to one file.
SessionInv ==
  /\ \A s, u \in sessions : s.name = u.name => s.copy = u.copy
  /\ \A c \in Copies : SessionOf(c)

\* A request that failed while connected has its session aborted, if it knew of it.
AbortOf(c) ==
  Failed(c) /\ cur[c].conn = link /\ cur[c].open =>
    \/ SessionsOf(c) = {}
    \/ \E i \in 1..Len(inbox) : inbox[i].copy = c /\ inbox[i].kind = "AbortWrite"
AbortInv == \A c \in Copies : AbortOf(c)

\* The source of a copy that is not of a folder is a file, when it is opened.
KindOf(c) ==
  c \notin Folders /\ At(c, "new") => DOMAIN source[c] = {1} /\ cur[c].part = 1
KindInv == \A c \in Copies : KindOf(c)

RelayInv == LinkInv /\ MessageInv /\ SessionInv /\ AbortInv /\ KindInv

\* A folder is a function from part numbers to lengths.
LEMMA FolderShape ==
  ASSUME NEW f
  PROVE  f \in Folder <=> /\ f = [q \in DOMAIN f |-> f[q]] /\ DOMAIN f \subseteq Parts
                          /\ \A q \in DOMAIN f : f[q] \in 0..MaxSize
<1>1. f \in Folder => /\ f = [q \in DOMAIN f |-> f[q]] /\ DOMAIN f \subseteq Parts
                      /\ \A q \in DOMAIN f : f[q] \in 0..MaxSize
  BY DEF Folder
<1>2. ASSUME f = [q \in DOMAIN f |-> f[q]], DOMAIN f \subseteq Parts,
             \A q \in DOMAIN f : f[q] \in 0..MaxSize
      PROVE  f \in Folder
  <2>1. f \in [DOMAIN f -> 0..MaxSize]
    BY <1>2
  <2>. QED  BY <1>2, <2>1 DEF Folder
<1>. QED  BY <1>1, <1>2

\* A deleted folder is one without files.
LEMMA EmptyFolder == <<>> \in Folder /\ DOMAIN <<>> = {}
<1>1. DOMAIN <<>> = {}
  BY EmptySeq
<1>2. <<>> = [q \in DOMAIN <<>> |-> <<>>[q]]
  BY EmptySeq
<1>. QED  BY <1>1, <1>2, FolderShape

\* The bounds are numbers, and the first part and name are among them.
LEMMA Bounds ==
  /\ {MaxParts, MaxSize, MaxNames, MaxConns, MaxCrashes, MaxChanges, MaxIntrusions}
       \subseteq Nat
  /\ 1 \in Parts /\ 0 \in 0..MaxSize /\ 0 \in 0..MaxConns
BY CopyBounds DEF Parts

\* The invariant holds initially.
LEMMA RelayInit == Init => TypeOK /\ RelayInv
<1>. SUFFICES ASSUME Init  PROVE TypeOK /\ RelayInv
  OBVIOUS
<1>1. TypeOK
  <2>1. cur \in [Copies -> Locals]
    <3>1. [listed |-> {}, left |-> {}, part |-> 1, size |-> 0, offset |-> 0, conn |-> 0,
           open |-> FALSE] \in Locals
      BY Bounds DEF Locals
    <3>. QED  BY <3>1 DEF Init
  <2>. QED  BY <2>1, Bounds, CopyBounds, StepValues DEF Init, TypeOK
<1>2. Len(inbox) = 0 /\ 1..Len(inbox) = {}
  BY DEF Init
<1>3. \A c \in Copies : SessionsOf(c) = {}
  BY DEF Init, SessionsOf
<1>4. LinkInv
  BY DEF Init, LinkInv, LinkOf, Copying
<1>5. MessageInv
  BY <1>2 DEF MessageInv
<1>6. SessionInv
  BY <1>3 DEF Init, SessionInv, SessionOf, Copying, At
<1>7. AbortInv /\ KindInv
  BY <1>3 DEF Init, AbortInv, AbortOf, KindInv, KindOf, At
<1>. QED  BY <1>1, <1>4, <1>5, <1>6, <1>7 DEF RelayInv

\* An invocation is a message.
LEMMA MessageType ==
  ASSUME TypeOK, NEW c \in Copies, NEW k \in Calls
  PROVE  /\ Message(c, k) \in Messages
         /\ Append(inbox, Message(c, k)) \in Seq(Messages)
<1>1. cur[c].part \in Parts
  BY DEF TypeOK, Locals
<1>2. Message(c, k) \in Messages
  BY <1>1 DEF Message, Messages
<1>. QED  BY <1>2, AppendType DEF TypeOK

\* The invocation that is awaited at a step.
LEMMA AwaitedAt ==
  /\ Awaited["beginning"] = "BeginWrite" /\ Awaited["writing"] = "WriteChunk"
  /\ Awaited["committing"] = "CommitWrite" /\ Awaited["aborting"] = "AbortWrite"
BY DEF Awaited

\* A request that does not go on with a file keeps the types.
LEMMA QuietType ==
  ASSUME TypeOK, NEW c \in Copies,
         \/ Refuse(c) \/ AddRow(c) \/ Track(c) \/ MakeFolders(c) \/ Committed(c)
         \/ FailOpening(c) \/ Aborted(c) \/ MarkRead(c) \/ MarkSave(c) \/ KeepSource(c)
  PROVE  TypeOK'
<1>. USE StepValues DEF GoTo, world, rows, hub, network, disk, counters, TypeOK
<1>1. CASE Refuse(c)
  BY <1>1 DEF Refuse
<1>2. CASE AddRow(c)
  BY <1>2 DEF AddRow
<1>3. CASE Track(c)
  BY <1>3 DEF Track
<1>4. CASE MakeFolders(c) \/ Committed(c)
  BY <1>4 DEF MakeFolders, Committed, Onward
<1>5. CASE FailOpening(c) \/ Aborted(c)
  BY <1>5 DEF FailOpening, Aborted, Close
<1>6. CASE MarkRead(c) \/ MarkSave(c)
  BY <1>6 DEF MarkRead, MarkSave, Done, Outcome
<1>7. CASE KeepSource(c)
  BY <1>7 DEF KeepSource, Done
<1>. QED  BY <1>1, <1>2, <1>3, <1>4, <1>5, <1>6, <1>7

\* What the loop has written of a file is no more than the file.
LEMMA ReachedType ==
  ASSUME TypeOK, SessionInv, NEW c \in Copies, InLoop(c)
  PROVE  Reached(c) \in 0..MaxSize /\ Reached(c) <= cur[c].size
<1>1. cur[c].size \in 0..MaxSize /\ cur[c].offset \in 0..MaxSize /\ MaxSize \in Nat
  BY Bounds DEF TypeOK, Locals
<1>2. At(c, "writing") => cur[c].offset < cur[c].size
  BY DEF SessionInv, SessionOf, At
<1>. QED  BY <1>1, <1>2 DEF Reached

\* A file is opened, read or written: the locals keep their types.
LEMMA FileType ==
  ASSUME TypeOK, RelayInv, NEW c \in Copies,
         \/ OpenFile(c) \/ ListFolder(c) \/ OpenNext(c) \/ Begin(c) \/ Read(c) \/ Write(c)
         \/ Commit(c) \/ FailCopying(c) \/ Delete(c)
  PROVE  TypeOK'
<1>0. /\ cur[c] \in Locals /\ registry \in 0..MaxConns /\ source[c] \in Folder
      /\ "BeginWrite" \in Calls /\ "WriteChunk" \in Calls /\ "CommitWrite" \in Calls
      /\ "AbortWrite" \in Calls
  BY DEF TypeOK, Calls
<1>1. /\ DOMAIN source[c] \subseteq Parts
      /\ \A q \in DOMAIN source[c] : source[c][q] \in 0..MaxSize
  BY <1>0, FolderShape
<1>2. \A k \in Calls : Append(inbox, Message(c, k)) \in Seq(Messages)
  BY MessageType
<1>. USE StepValues DEF GoTo, world, rows, hub, network, disk, counters
<1>3. CASE OpenFile(c)
  <2>1. DOMAIN source[c] = {1}
    BY <1>3 DEF OpenFile, RelayInv, KindInv, KindOf
  <2>2. source[c][1] \in 0..MaxSize
    BY <2>1, <1>1
  <2>3. [cur[c] EXCEPT !.listed = {1}, !.size = source[c][1], !.conn = registry] \in Locals
    BY <1>0, <2>2, Bounds DEF Locals
  <2>4. cur' \in [Copies -> Locals]
    BY <1>3, <2>3 DEF OpenFile, TypeOK
  <2>. QED  BY <1>3, <2>4 DEF OpenFile, TypeOK
<1>4. CASE ListFolder(c)
  <2>0. PICK S \in SUBSET DOMAIN source[c] :
          cur' = [cur EXCEPT ![c].listed = S, ![c].left = S]
    BY <1>4 DEF ListFolder
  <2>1. [cur[c] EXCEPT !.listed = S, !.left = S] \in Locals
    BY <1>0, <1>1 DEF Locals
  <2>2. cur' \in [Copies -> Locals]
    BY <2>0, <2>1 DEF TypeOK
  <2>. QED  BY <1>4, <2>2 DEF ListFolder, TypeOK
<1>5. CASE OpenNext(c)
  <2>1. PICK p \in cur[c].left \cap DOMAIN source[c] :
          cur' = [cur EXCEPT ![c] = [listed |-> @.listed, left |-> @.left \ {p},
                                     part |-> p, size |-> source[c][p], offset |-> 0,
                                     conn |-> registry, open |-> FALSE]]
    BY <1>5 DEF OpenNext
  <2>2. [listed |-> cur[c].listed, left |-> cur[c].left \ {p}, part |-> p,
         size |-> source[c][p], offset |-> 0, conn |-> registry, open |-> FALSE] \in Locals
    BY <1>0, <1>1, Bounds DEF Locals
  <2>3. cur' \in [Copies -> Locals]
    BY <2>1, <2>2 DEF TypeOK
  <2>. QED  BY <1>5, <2>3 DEF OpenNext, TypeOK
<1>6. CASE Begin(c)
  BY <1>6, <1>0, <1>2, AwaitedAt DEF Begin, Invoke, TypeOK
<1>7. CASE Read(c) \/ Commit(c)
  <2>1. InLoop(c) /\ Advance(c)
    BY <1>7 DEF Read, Commit
  <2>2. Reached(c) \in 0..MaxSize
    BY <2>1, ReachedType DEF RelayInv
  <2>3. [cur[c] EXCEPT !.offset = Reached(c), !.open = TRUE] \in Locals
    BY <1>0, <2>2 DEF Locals
  <2>4. cur' \in [Copies -> Locals]
    BY <2>1, <2>3 DEF Advance, TypeOK
  <2>5. CASE Read(c)
    BY <2>4, <2>5 DEF Read, TypeOK
  <2>6. CASE Commit(c)
    BY <2>4, <2>6, <1>0, <1>2, AwaitedAt DEF Commit, Invoke, TypeOK
  <2>. QED  BY <1>7, <2>5, <2>6
<1>8. CASE Write(c)
  BY <1>8, <1>0, <1>2, AwaitedAt DEF Write, Invoke, TypeOK
<1>9. CASE FailCopying(c)
  <2>1. [cur[c] EXCEPT !.open = TRUE] \in Locals
    BY <1>0 DEF Locals
  <2>2. cur' \in [Copies -> Locals]
    BY <1>9, <2>1 DEF FailCopying, TypeOK
  <2>3. /\ ok' \subseteq Copies
        /\ UNCHANGED <<source, table, token, rows, hub, link, conns, sessions, disk, counters>>
    BY <1>9 DEF FailCopying, TypeOK
  <2>4. /\ inbox' \in Seq(Messages) /\ serverRuns' \subseteq Copies
        /\ step' \in [Copies -> Steps] /\ answer' \in [Copies -> {"none", "ok", "error"}]
    <3>1. CASE Reachable(c)
      <4>1. inbox' \in Seq(Messages)
        BY <1>9, <1>0, <1>2, <3>1 DEF FailCopying, Abandon
      <4>. QED  BY <1>9, <3>1, <4>1 DEF FailCopying, Abandon, TypeOK
    <3>2. CASE ~Reachable(c)
      BY <1>9, <3>2 DEF FailCopying, Abandon, Close, TypeOK
    <3>. QED  BY <3>1, <3>2
  <2>. QED  BY <2>2, <2>3, <2>4 DEF TypeOK
<1>10. CASE Delete(c)
  BY <1>10, EmptyFolder DEF Delete, Done, TypeOK
<1>. QED  BY <1>3, <1>4, <1>5, <1>6, <1>7, <1>8, <1>9, <1>10

\* The users, the connection, crashes and others keep the types.
LEMMA OthersType ==
  ASSUME TypeOK, LinkInv,
         \/ \E c \in Copies : User(c) \/ ForceCancel(c)
         \/ Connect \/ Register \/ Disconnected \/ Environment
  PROVE  TypeOK'
<1>0. /\ conns \in Nat /\ MaxConns \in Nat /\ <<>> \in Seq(Messages)
      /\ crashes \in Nat /\ changes \in Nat /\ intrusions \in Nat
  BY Bounds DEF TypeOK
<1>. USE StepValues DEF memory, rows, hub, network, disk, counters
<1>1. ASSUME NEW c \in Copies, ClientLeaves(c) \/ Cancel(c)  PROVE TypeOK'
  BY <1>1 DEF ClientLeaves, Cancel, TypeOK, world
<1>2. ASSUME NEW c \in Copies, SourceChanges(c)  PROVE TypeOK'
  <2>1. PICK p \in Parts, n \in 0..MaxSize :
          source' = [source EXCEPT ![c] =
                       [q \in DOMAIN @ \cup {p} |-> IF q = p THEN n ELSE @[q]]]
    <3>1. (IF c \in Folders THEN Parts ELSE {1}) \subseteq Parts
      BY Bounds
    <3>. QED  BY <1>2, <3>1 DEF SourceChanges
  <2>. DEFINE f == [q \in DOMAIN source[c] \cup {p} |-> IF q = p THEN n ELSE source[c][q]]
  <2>2. source[c] \in Folder
    BY DEF TypeOK
  <2>3. /\ DOMAIN source[c] \subseteq Parts
        /\ \A q \in DOMAIN source[c] : source[c][q] \in 0..MaxSize
    BY <2>2, FolderShape
  <2>4. f \in Folder
    <3>1. DOMAIN f \subseteq Parts /\ \A q \in DOMAIN f : f[q] \in 0..MaxSize
      BY <2>3
    <3>2. f = [q \in DOMAIN f |-> f[q]]
      OBVIOUS
    <3>. HIDE DEF f
    <3>. QED  BY <3>1, <3>2, FolderShape
  <2>5. source' \in [Copies -> Folder]
    <3>1. source' = [source EXCEPT ![c] = f]
      BY <2>1
    <3>. HIDE DEF f
    <3>. QED  BY <2>4, <3>1 DEF TypeOK
  <2>6. changes' \in 0..MaxChanges
    BY <1>2, <1>0, Bounds DEF SourceChanges
  <2>. QED  BY <1>2, <2>5, <2>6 DEF SourceChanges, TypeOK
<1>3. ASSUME NEW c \in Copies, ForceCancel(c)  PROVE TypeOK'
  BY <1>3 DEF ForceCancel, ForceCancelRead, ForceCancelSave, SaveFailed, TypeOK
<1>4. CASE Connect
  BY <1>4, <1>0 DEF Connect, TypeOK
<1>5. CASE Register
  <2>1. PICK k \in Conns : RegisterRead(k) \/ RegisterSave(k) \/ RegisterSet(k)
    BY <1>5 DEF Register
  <2>2. CASE RegisterRead(k)
    BY <2>2 DEF RegisterRead, Orphaned, TypeOK
  <2>3. CASE RegisterSave(k)
    BY <2>3 DEF RegisterSave, SaveFailed, TypeOK
  <2>4. CASE RegisterSet(k)
    <3>1. k \in 0..MaxConns
      BY <1>0 DEF Conns
    <3>. QED  BY <2>4, <3>1 DEF RegisterSet, TypeOK
  <2>. QED  BY <2>1, <2>2, <2>3, <2>4
<1>6. CASE Disconnected
  BY <1>6, Bounds DEF Disconnected, TypeOK
<1>7. CASE Break
  BY <1>7, <1>0 DEF Break, Drop, TypeOK
<1>8. CASE AgentCrash
  BY <1>8, <1>0, Bounds DEF AgentCrash, Drop, TypeOK
<1>9. CASE ServerCrash
  BY <1>9, <1>0, Bounds DEF ServerCrash, Drop, TypeOK
<1>10. CASE Intrude
  <2>1. \A p \in Parts, n \in 1..MaxNames :
          [name |-> NameOf(p, n), by |-> {}, len |-> 0] \in File
    BY Bounds DEF File, Names, NameOf
  <2>. QED  BY <1>10, <2>1, <1>0, Bounds DEF Intrude, TypeOK
<1>. QED  BY <1>1, <1>2, <1>3, <1>4, <1>5, <1>6, <1>7, <1>8, <1>9, <1>10
          DEF User, Environment

-----------------------------------------------------------------------------
(* What the receiving PC does with an invocation. *)

\* The first message is an invocation; the others follow it.
LEMMA FirstMessage ==
  ASSUME TypeOK, MessageInv, Handle
  PROVE  /\ Head(inbox) \in Messages /\ Expected(Head(inbox))
         /\ inbox' \in Seq(Messages)
         /\ \A i \in 1..Len(inbox') : /\ i + 1 \in 1..Len(inbox) /\ inbox'[i] = inbox[i + 1]
                                      /\ inbox'[i].copy = Head(inbox).copy =>
                                           /\ Head(inbox).kind # "AbortWrite"
                                           /\ inbox'[i].kind = "AbortWrite"
<1>1. inbox \in Seq(Messages) /\ inbox # <<>> /\ inbox' = Tail(inbox) /\ Len(inbox) \in Nat
  BY LenProperties DEF TypeOK, Handle
<1>2. inbox' \in Seq(Messages) /\ Head(inbox) \in Messages /\ Len(inbox') \in Nat
  BY <1>1, TailType, LenProperties
<1>3. /\ 1 \in 1..Len(inbox) /\ Head(inbox) = inbox[1]
      /\ \A i \in 1..Len(inbox') :
           i + 1 \in 2..Len(inbox) /\ inbox'[i] = inbox[i + 1]
  BY <1>1, TailPlaces
<1>4. \A i \in 1..Len(inbox') : i + 1 \in 1..Len(inbox) /\ 1 < i + 1
  BY <1>1, <1>2, <1>3
<1>. QED  BY <1>1, <1>2, <1>3, <1>4 DEF MessageInv

\* Only the request that sent the message is answered, if it awaits it.
LEMMA ReplyEffect ==
  ASSUME TypeOK, NEW m \in Messages, NEW r \in {"ok", "error"}, Reply(m, r)
  PROVE  /\ answer' \in [Copies -> {"none", "ok", "error"}]
         /\ \A d \in Copies : d # m.copy => answer'[d] = answer[d]
         /\ Waits(m.copy, m.kind) => answer'[m.copy] = r
         /\ ~Waits(m.copy, m.kind) /\ ~At(m.copy, "aborting") =>
              answer'[m.copy] = answer[m.copy]
<1>1. DOMAIN Awaited = {"beginning", "writing", "committing", "aborting"}
  BY DEF Awaited
<1>2. m.copy \in Copies
  BY DEF Messages
<1>. QED  BY <1>1, <1>2, AwaitedAt DEF TypeOK, Reply, Waits, At

\* No request has a temporary file open whose name another's session has.
LEMMA OthersFiles ==
  ASSUME SessionInv, NEW c, NEW d, c # d, NEW names, names \subseteq NamesOf(c)
  PROVE  names \cap NamesOf(d) = {}
BY DEF SessionInv, NamesOf, SessionsOf

\* The sessions and files of the receiving PC after an invocation of c: of their types,
\* no finished file is gone, and other requests' sessions are as they were.
DiskKept(c) ==
  /\ sessions' \subseteq [copy : Copies, name : Names]
  /\ temps' \subseteq Temp /\ files' \subseteq File /\ files \subseteq files'
  /\ \A s, u \in sessions' : s.name = u.name => s.copy = u.copy
  /\ \A d \in Copies : d # c => SessionsOf(d)' = SessionsOf(d) /\ Opened(d)' = Opened(d)

\* BeginWrite opens a session with an empty file, or is answered by an error.
LEMMA BeginEffect ==
  ASSUME TypeOK, SessionInv, NEW m \in Messages, BeginWrite(m), SessionsOf(m.copy) = {}
  PROVE  /\ DiskKept(m.copy) /\ files' = files
         /\ \A s \in SessionsOf(m.copy)' : s.name.part = m.part
         /\ \A t \in Opened(m.copy)' : t.len = 0
         /\ \E r \in {"ok", "error"} : Reply(m, r) /\ (r # "ok" => SessionsOf(m.copy)' = {})
<1>. DEFINE c == m.copy
            names == {x \in UniqueChildPath(m.part) : ~Locked(x)}
            new == {[copy |-> c, name |-> x] : x \in names}
            blank == {[name |-> x, len |-> 0] : x \in names}
<1>1. c \in Copies /\ m.part \in Parts
  BY DEF Messages
<1>2. /\ sessions' = sessions \cup new
      /\ temps' = (temps \ TempsOf(names)) \cup blank
      /\ files' = files
      /\ Reply(m, IF names # {} THEN "ok" ELSE "error")
  BY DEF BeginWrite
<1>3. \A x \in names : x \in Names /\ x.part = m.part /\ \A s \in sessions : s.name # x
  <2>. SUFFICES ASSUME NEW x \in names
                PROVE  x \in Names /\ x.part = m.part /\ \A s \in sessions : s.name # x
    OBVIOUS
  <2>1. x \in UniqueChildPath(m.part) /\ ~Locked(x)
    OBVIOUS
  <2>2. PICK n \in 1..MaxNames : x = NameOf(m.part, n)
    BY <2>1 DEF UniqueChildPath
  <2>3. x \in Names /\ x.part = m.part
    BY <1>1, <2>2 DEF NameOf, Names
  <2>. QED  BY <2>1, <2>3 DEF Locked
<1>. HIDE DEF names
<1>4. /\ sessions' \subseteq [copy : Copies, name : Names] /\ temps' \subseteq Temp
      /\ files' \subseteq File /\ files \subseteq files'
  <2>1. new \subseteq [copy : Copies, name : Names]
    BY <1>1, <1>3
  <2>2. blank \subseteq Temp
    BY <1>3, Bounds DEF Temp
  <2>. HIDE DEF new, blank
  <2>. QED  BY <1>2, <2>1, <2>2 DEF TypeOK
<1>5. \A s, u \in sessions' : s.name = u.name => s.copy = u.copy
  BY <1>2, <1>3 DEF SessionInv
<1>6. ASSUME NEW d \in Copies, d # c
      PROVE  SessionsOf(d)' = SessionsOf(d) /\ Opened(d)' = Opened(d)
  <2>1. SessionsOf(d)' = SessionsOf(d)
    BY <1>2, <1>6 DEF SessionsOf
  <2>2. NamesOf(d)' = NamesOf(d) /\ NamesOf(d) \cap names = {}
    BY <2>1, <1>3 DEF NamesOf, SessionsOf
  <2>3. Opened(d)' = {t \in temps' : t.name \in NamesOf(d)}
    BY <2>2 DEF Opened, TempsOf
  <2>. QED  BY <1>2, <2>1, <2>2, <2>3 DEF Opened, TempsOf
<1>7. SessionsOf(c)' = new
  BY <1>2 DEF SessionsOf
<1>8. Opened(c)' = {t \in temps' : t.name \in names}
  <2>1. NamesOf(c)' = {s.name : s \in new}
    BY <1>7 DEF NamesOf
  <2>2. {s.name : s \in new} = names
    <3>1. \A x \in names : [copy |-> c, name |-> x] \in new /\ [copy |-> c, name |-> x].name = x
      OBVIOUS
    <3>2. \A s \in new : s.name \in names
      OBVIOUS
    <3>. HIDE DEF new
    <3>. QED  BY <3>1, <3>2
  <2>. QED  BY <2>1, <2>2 DEF Opened, TempsOf
<1>9. \A t \in Opened(c)' : t.len = 0
  BY <1>2, <1>8 DEF TempsOf
<1>10. \E r \in {"ok", "error"} : Reply(m, r) /\ (r # "ok" => SessionsOf(c)' = {})
  <2>1. CASE names = {}
    BY <2>1, <1>2, <1>7
  <2>2. CASE names # {}
    BY <2>2, <1>2, <1>7
  <2>. QED  BY <2>1, <2>2
<1>. QED  BY <1>2, <1>3, <1>4, <1>5, <1>6, <1>7, <1>9, <1>10 DEF DiskKept

\* WriteChunk makes the open file longer by one piece.
LEMMA ChunkEffect ==
  ASSUME TypeOK, SessionInv, NEW m \in Messages, WriteChunk(m),
         \A t \in Opened(m.copy) : t.len < MaxSize
  PROVE  /\ DiskKept(m.copy) /\ files' = files
         /\ SessionsOf(m.copy)' = SessionsOf(m.copy)
         /\ \A t \in Opened(m.copy)' : \E u \in Opened(m.copy) : t.len = u.len + 1
         /\ \E r \in {"ok", "error"} : Reply(m, r) /\ (r # "ok" => SessionsOf(m.copy) = {})
<1>. DEFINE c == m.copy
            open == NamesOf(c)
            longer == {[t EXCEPT !.len = @ + 1] : t \in TempsOf(open)}
<1>1. c \in Copies /\ MaxSize \in Nat
  BY Bounds DEF Messages
<1>2. /\ sessions' = sessions /\ files' = files
      /\ temps' = (temps \ TempsOf(open)) \cup longer
      /\ Reply(m, IF open # {} THEN "ok" ELSE "error")
  BY DEF WriteChunk
<1>3. \A t \in longer : \E u \in TempsOf(open) :
        t \in Temp /\ t.name = u.name /\ t.len = u.len + 1
  <2>. SUFFICES ASSUME NEW u \in TempsOf(open)
                PROVE  LET t == [u EXCEPT !.len = @ + 1] IN
                         t \in Temp /\ t.name = u.name /\ t.len = u.len + 1
    OBVIOUS
  <2>1. u \in Temp /\ u.len < MaxSize
    BY DEF TypeOK, TempsOf, Opened
  <2>2. u.len + 1 \in 0..MaxSize /\ u.name \in Names
    BY <1>1, <2>1 DEF Temp
  <2>. QED  BY <2>1, <2>2 DEF Temp
<1>. HIDE DEF longer
<1>4. temps' \subseteq Temp
  BY <1>2, <1>3 DEF TypeOK
<1>5. \A d \in Copies : SessionsOf(d)' = SessionsOf(d) /\ NamesOf(d)' = NamesOf(d)
  BY <1>2 DEF SessionsOf, NamesOf
<1>6. ASSUME NEW d \in Copies, d # c
      PROVE  Opened(d)' = Opened(d)
  <2>1. open \cap NamesOf(d) = {}
    BY <1>6, OthersFiles
  <2>2. Opened(d)' = {t \in temps' : t.name \in NamesOf(d)}
    BY <1>5 DEF Opened, TempsOf
  <2>. QED  BY <1>2, <1>3, <2>1, <2>2 DEF Opened, TempsOf
<1>7. DiskKept(c)
  BY <1>2, <1>4, <1>5, <1>6 DEF DiskKept, TypeOK, SessionInv
<1>8. Opened(c)' = {t \in temps' : t.name \in open}
  BY <1>1, <1>5 DEF Opened, TempsOf
<1>9. \A t \in Opened(c)' : \E u \in Opened(c) : t.len = u.len + 1
  BY <1>2, <1>3, <1>8 DEF Opened, TempsOf
<1>10. \E r \in {"ok", "error"} : Reply(m, r) /\ (r # "ok" => SessionsOf(c) = {})
  <2>1. CASE open = {}
    BY <2>1, <1>2 DEF NamesOf
  <2>2. CASE open # {}
    BY <2>2, <1>2
  <2>. QED  BY <2>1, <2>2
<1>. QED  BY <1>1, <1>2, <1>5, <1>7, <1>9, <1>10

\* CommitWrite puts the open file in place, whole as it is, unless the name is taken.
LEMMA CommitEffect ==
  ASSUME TypeOK, SessionInv, NEW m \in Messages, CommitWrite(m)
  PROVE  /\ DiskKept(m.copy)
         /\ SessionsOf(m.copy)' = {}
         /\ \A f \in files' \ files : \E t \in Opened(m.copy) :
              f.name = t.name /\ f.by = {m.copy} /\ f.len = t.len
         /\ \E r \in {"ok", "error"} :
              /\ Reply(m, r)
              /\ r = "ok" => \E f \in files' : \E t \in Opened(m.copy) :
                               f.name = t.name /\ f.by = {m.copy} /\ f.len = t.len
<1>. DEFINE c == m.copy
            placed == {t \in TempsOf(NamesOf(c)) : Free(t.name)}
            new == {[name |-> t.name, by |-> {c}, len |-> t.len] : t \in placed}
<1>1. c \in Copies
  BY DEF Messages
<1>2. /\ sessions' = sessions \ SessionsOf(c) /\ files' = files \cup new
      /\ temps' = temps \ placed
      /\ Reply(m, IF placed # {} THEN "ok" ELSE "error")
  BY DEF CommitWrite
<1>3. \A t \in placed : t \in Opened(c) /\ t.name \in NamesOf(c) /\ t \in Temp
  BY DEF Opened, TempsOf, TypeOK
<1>. HIDE DEF placed
<1>4. new \subseteq File
  BY <1>1, <1>3 DEF File, Temp
<1>5. SessionsOf(c)' = {} /\ \A d \in Copies : d # c => SessionsOf(d)' = SessionsOf(d)
  BY <1>2 DEF SessionsOf
<1>6. ASSUME NEW d \in Copies, d # c
      PROVE  Opened(d)' = Opened(d)
  <2>1. NamesOf(c) \cap NamesOf(d) = {}
    BY <1>6, OthersFiles
  <2>2. Opened(d)' = {t \in temps' : t.name \in NamesOf(d)}
    BY <1>5, <1>6 DEF Opened, TempsOf, NamesOf
  <2>. QED  BY <1>2, <1>3, <2>1, <2>2 DEF Opened, TempsOf
<1>7. DiskKept(c)
  BY <1>2, <1>4, <1>5, <1>6 DEF DiskKept, TypeOK, SessionInv
<1>8. \A f \in new : \E t \in Opened(c) : f.name = t.name /\ f.by = {c} /\ f.len = t.len
  BY <1>3
<1>9. \E r \in {"ok", "error"} :
        Reply(m, r) /\ (r = "ok" => \E f \in files' : f \in new)
  <2>1. CASE placed = {}
    BY <2>1, <1>2
  <2>2. CASE placed # {}
    BY <2>2, <1>2
  <2>. QED  BY <2>1, <2>2
<1>. HIDE DEF new
<1>. QED  BY <1>2, <1>5, <1>7, <1>8, <1>9

\* AbortWrite deletes the open file.
LEMMA AbortEffect ==
  ASSUME TypeOK, SessionInv, NEW m \in Messages, AbortWrite(m)
  PROVE  /\ DiskKept(m.copy) /\ files' = files
         /\ SessionsOf(m.copy)' = {}
         /\ \E r \in {"ok", "error"} : Reply(m, r)
<1>. DEFINE c == m.copy
<1>1. c \in Copies
  BY DEF Messages
<1>2. /\ sessions' = sessions \ SessionsOf(c) /\ files' = files
      /\ temps' = temps \ TempsOf(NamesOf(c)) /\ Reply(m, "ok")
  BY DEF AbortWrite
<1>3. SessionsOf(c)' = {} /\ \A d \in Copies : d # c => SessionsOf(d)' = SessionsOf(d)
  BY <1>2 DEF SessionsOf
<1>4. ASSUME NEW d \in Copies, d # c
      PROVE  Opened(d)' = Opened(d)
  <2>1. NamesOf(c) \cap NamesOf(d) = {}
    BY <1>4, OthersFiles
  <2>2. Opened(d)' = {t \in temps' : t.name \in NamesOf(d)}
    BY <1>3, <1>4 DEF Opened, TempsOf, NamesOf
  <2>. QED  BY <1>2, <2>1, <2>2 DEF Opened, TempsOf
<1>. QED  BY <1>2, <1>3, <1>4 DEF DiskKept, TypeOK, SessionInv

\* The request of an invocation that is handled, and the files it has open.
LEMMA HandleOwn ==
  ASSUME TypeOK, RelayInv, Handle, NEW m \in Messages, m = Head(inbox),
         NEW c \in Copies, c = m.copy
  PROVE  /\ DiskKept(c) /\ SessionOf(c)'
         /\ \E r \in {"ok", "error"} : Reply(m, r)
         /\ m.kind # "CommitWrite" => files' = files
         /\ SessionsOf(c)' = {} \/ m.kind \in {"BeginWrite", "WriteChunk"}
         /\ m.kind = "WriteChunk" /\ SessionsOf(c) = {} => SessionsOf(c)' = {}
<1>1. Expected(m)
  BY FirstMessage DEF RelayInv
<1>2. /\ SessionInv /\ SessionOf(c) /\ step' = step /\ cur' = cur /\ ok' = ok
  BY <1>1 DEF Messages, RelayInv, SessionInv, SessionOf, Handle
<1>3. /\ cur[c].offset \in 0..MaxSize /\ cur[c].size \in 0..MaxSize /\ MaxSize \in Nat
      /\ answer[c] \in {"none", "ok", "error"}
  BY <1>2, Bounds DEF TypeOK, Locals
<1>4. \/ m.kind = "BeginWrite" /\ BeginWrite(m)
      \/ m.kind = "WriteChunk" /\ WriteChunk(m)
      \/ m.kind = "CommitWrite" /\ CommitWrite(m)
      \/ m.kind = "AbortWrite" /\ AbortWrite(m)
  BY DEF Handle
<1>5. ASSUME NEW r \in {"ok", "error"}, Reply(m, r)
      PROVE  /\ Waits(c, m.kind) => answer'[c] = r
             /\ ~Waits(c, m.kind) => Failed(c)
             /\ Failed(c) => ~HasNone(c)' /\ step'[c] \notin Copying
  <2>1. Waits(c, m.kind) => answer'[c] = r
    BY <1>1, <1>5, ReplyEffect
  <2>2. ~Waits(c, m.kind) => Failed(c)
    BY <1>1 DEF Expected
  <2>3. Failed(c) => ~HasNone(c)' /\ step'[c] \notin Copying
    BY <1>2 DEF Failed, HasNone, Copying, At
  <2>. QED  BY <2>1, <2>2, <2>3
<1>6. CASE m.kind = "BeginWrite" /\ BeginWrite(m)
  <2>1. SessionsOf(c) = {} /\ m.part = cur[c].part
    BY <1>1, <1>6 DEF Expected
  <2>2. PICK r \in {"ok", "error"} : Reply(m, r) /\ (r # "ok" => SessionsOf(c)' = {})
    BY <1>1, <1>2, <1>6, <2>1, BeginEffect
  <2>3. /\ DiskKept(c) /\ files' = files
        /\ \A s \in SessionsOf(c)' : s.name.part = m.part
        /\ \A t \in Opened(c)' : t.len = 0
    BY <1>1, <1>2, <1>6, <2>1, BeginEffect
  <2>4. SessionOf(c)'
    <3>1. CASE Waits(c, m.kind)
      <4>1. step[c] = "beginning" /\ answer'[c] = r
        BY <1>5, <1>6, <2>2, <3>1 DEF Waits, At
      <4>. QED  BY <4>1, <1>2, <2>1, <2>2, <2>3 DEF SessionOf, HasNone, Written, At
    <3>2. CASE Failed(c)
      BY <3>2, <1>2, <1>5, <2>1, <2>2, <2>3 DEF SessionOf, Failed, At
    <3>. QED  BY <3>1, <3>2, <1>5, <2>2
  <2>. QED  BY <1>6, <2>2, <2>3, <2>4
<1>7. CASE m.kind = "WriteChunk" /\ WriteChunk(m)
  <2>1. /\ cur[c].offset < cur[c].size
        /\ \A t \in Opened(c) : t.len = cur[c].offset
    BY <1>1, <1>7 DEF Expected
  <2>2. \A t \in Opened(c) : t.len < MaxSize
    BY <1>3, <2>1
  <2>3. PICK r \in {"ok", "error"} : Reply(m, r) /\ (r # "ok" => SessionsOf(c) = {})
    BY <1>1, <1>2, <1>7, <2>2, ChunkEffect
  <2>4. /\ DiskKept(c) /\ files' = files /\ SessionsOf(c)' = SessionsOf(c)
        /\ \A t \in Opened(c)' : \E u \in Opened(c) : t.len = u.len + 1
    BY <1>1, <1>2, <1>7, <2>2, ChunkEffect
  <2>5. /\ \A t \in Opened(c)' : t.len = cur[c].offset + 1
        /\ SessionsOf(c) = {} => Opened(c)' = {}
    BY <2>1, <2>4 DEF Opened, TempsOf, NamesOf
  <2>6. SessionOf(c)'
    <3>1. CASE Waits(c, m.kind)
      <4>1. step[c] = "writing" /\ answer'[c] = r
        BY <1>5, <1>7, <2>3, <3>1 DEF Waits, At
      <4>. QED  BY <4>1, <1>2, <2>1, <2>3, <2>4, <2>5 DEF SessionOf, HasNone, Written, At
    <3>2. CASE Failed(c)
      BY <3>2, <1>2, <1>5, <2>3, <2>4 DEF SessionOf, Failed, At
    <3>. QED  BY <3>1, <3>2, <1>5, <2>3
  <2>. QED  BY <1>7, <2>3, <2>4, <2>6
<1>8. ASSUME SessionsOf(c)' = {}, NEW r \in {"ok", "error"}, Reply(m, r),
             m.kind \in {"CommitWrite", "AbortWrite"}
      PROVE  SessionOf(c)'
  <2>1. Opened(c)' = {}
    BY <1>8 DEF Opened, TempsOf, NamesOf
  <2>2. CASE Waits(c, m.kind)
    BY <1>2, <1>8, <2>1, <2>2 DEF SessionOf, Waits, At
  <2>3. CASE Failed(c)
    BY <1>2, <1>8, <2>1, <2>3 DEF SessionOf, Failed, At
  <2>. QED  BY <2>2, <2>3, <1>5, <1>8
<1>9. CASE m.kind = "CommitWrite" /\ CommitWrite(m)
  <2>1. DiskKept(c) /\ SessionsOf(c)' = {} /\ \E r \in {"ok", "error"} : Reply(m, r)
    BY <1>1, <1>2, <1>9, CommitEffect
  <2>. QED  BY <1>8, <1>9, <2>1
<1>10. CASE m.kind = "AbortWrite" /\ AbortWrite(m)
  <2>1. /\ DiskKept(c) /\ SessionsOf(c)' = {} /\ files' = files
        /\ \E r \in {"ok", "error"} : Reply(m, r)
    BY <1>1, <1>2, <1>10, AbortEffect
  <2>. QED  BY <1>8, <1>10, <2>1
<1>. QED  BY <1>4, <1>6, <1>7, <1>9, <1>10

\* Handling an invocation keeps the invariant.
LEMMA HandleStep ==
  ASSUME TypeOK, RelayInv, Handle
  PROVE  TypeOK' /\ RelayInv'
<1>0. PICK m \in Messages, c \in Copies : m = Head(inbox) /\ c = m.copy
  BY FirstMessage DEF RelayInv, Messages
<1>1. /\ Expected(m) /\ inbox' \in Seq(Messages)
      /\ \A i \in 1..Len(inbox') : /\ i + 1 \in 1..Len(inbox) /\ inbox'[i] = inbox[i + 1]
                                   /\ inbox'[i].copy = c => /\ m.kind # "AbortWrite"
                                                            /\ inbox'[i].kind = "AbortWrite"
  BY <1>0, FirstMessage DEF RelayInv
<1>2. /\ DiskKept(c) /\ SessionOf(c)'
      /\ \E r \in {"ok", "error"} : Reply(m, r)
      /\ SessionsOf(c)' = {} \/ m.kind \in {"BeginWrite", "WriteChunk"}
      /\ m.kind = "WriteChunk" /\ SessionsOf(c) = {} => SessionsOf(c)' = {}
  BY <1>0, HandleOwn
<1>3. /\ inbox # <<>> /\ inbox' = Tail(inbox)
      /\ UNCHANGED <<source, table, step, cur, ok, token, serverRuns, rows, hub, link,
                     conns, counters>>
  BY DEF Handle
<1>4. inbox \in Seq(Messages)
  BY DEF TypeOK
<1>5. /\ answer' \in [Copies -> {"none", "ok", "error"}]
      /\ \A d \in Copies : d # c => answer'[d] = answer[d]
  BY <1>0, <1>2, ReplyEffect
<1>6. \A d \in Copies : d # c => SessionsOf(d)' = SessionsOf(d) /\ Opened(d)' = Opened(d)
  BY <1>2 DEF DiskKept
<1>7. TypeOK'
  BY <1>1, <1>2, <1>3, <1>5 DEF TypeOK, DiskKept, rows, hub, counters
<1>8. LinkInv' /\ KindInv'
  BY <1>3 DEF RelayInv, LinkInv, LinkOf, KindInv, KindOf, At, hub
<1>9. MessageInv'
  <2>1. ASSUME NEW i \in 1..Len(inbox')  PROVE Expected(inbox[i])'
    <3>1. PICK n \in Messages : n = inbox'[i]
      BY <1>1, <2>1, ElementOfSeq
    <3>2. /\ i + 1 \in 1..Len(inbox) /\ n = inbox[i + 1] /\ Expected(n)
          /\ n.copy = c => n.kind = "AbortWrite"
      BY <1>1, <2>1, <3>1 DEF RelayInv, MessageInv
    <3>3. ASSUME n.copy = c  PROVE Expected(n)'
      BY <3>2, <3>3, <1>3 DEF Expected, Waits, Failed, At
    <3>4. ASSUME n.copy # c  PROVE Expected(n)'
      <4>1. n.copy \in Copies
        BY <3>1 DEF Messages
      <4>. QED  BY <3>2, <3>4, <4>1, <1>3, <1>5, <1>6 DEF Expected, Waits, Failed, At
    <3>5. Expected(n)'
      BY <3>3, <3>4
    <3>. QED  BY <3>1, <3>5
  <2>2. ASSUME NEW i \in 1..Len(inbox'), NEW j \in 1..Len(inbox'), i < j,
               inbox'[i].copy = inbox'[j].copy
        PROVE  inbox'[i].kind # "AbortWrite" /\ inbox'[j].kind = "AbortWrite"
    <3>1. /\ i + 1 \in 1..Len(inbox) /\ inbox'[i] = inbox[i + 1]
          /\ j + 1 \in 1..Len(inbox) /\ inbox'[j] = inbox[j + 1]
          /\ i + 1 < j + 1
      BY <1>1, <2>2
    <3>. QED  BY <3>1, <2>2 DEF RelayInv, MessageInv
  <2>. QED  BY <2>1, <2>2 DEF MessageInv
<1>10. SessionInv'
  <2>1. ASSUME NEW d \in Copies  PROVE SessionOf(d)'
    <3>1. CASE d # c
      <4>1. SessionOf(d)
        BY DEF RelayInv, SessionInv, SessionOf
      <4>. QED  BY <3>1, <4>1, <1>3, <1>5, <1>6 DEF SessionOf, HasNone, Written, At
    <3>. QED  BY <3>1, <1>2
  <2>. QED  BY <2>1, <1>2 DEF SessionInv, SessionOf, DiskKept
<1>11. AbortInv'
  <2>. SUFFICES ASSUME NEW d \in Copies, Failed(d)', cur'[d].conn = link', cur'[d].open
                PROVE  \/ SessionsOf(d)' = {}
                       \/ \E i \in 1..Len(inbox') :
                            inbox'[i].copy = d /\ inbox'[i].kind = "AbortWrite"
    BY DEF AbortInv, AbortOf
  <2>1. \/ SessionsOf(d) = {}
        \/ \E i \in 1..Len(inbox) : inbox[i].copy = d /\ inbox[i].kind = "AbortWrite"
    BY <1>3 DEF RelayInv, AbortInv, AbortOf, Failed
  <2>2. CASE SessionsOf(d) = {}
    <3>1. m.kind = "BeginWrite" /\ d = c => FALSE
      BY <1>0, <1>1, <1>3 DEF Expected
    <3>. QED  BY <3>1, <2>2, <1>2, <1>6
  <2>3. ASSUME NEW i \in 1..Len(inbox), inbox[i].copy = d, inbox[i].kind = "AbortWrite"
        PROVE  \/ SessionsOf(d)' = {}
               \/ \E j \in 1..Len(inbox') :
                    inbox'[j].copy = d /\ inbox'[j].kind = "AbortWrite"
    <3>1. CASE i = 1
      <4>1. m = inbox[1]
        BY <1>0, <1>3, <1>4, TailPlaces
      <4>. QED  BY <3>1, <4>1, <2>3, <1>0, <1>2
    <3>2. CASE i # 1
      <4>1. i - 1 \in 1..Len(inbox') /\ inbox'[i - 1] = inbox[i]
        BY <3>2, <1>3, <1>4, HeadTailProperties, LenProperties
      <4>. QED  BY <4>1, <2>3
    <3>. QED  BY <3>1, <3>2
  <2>. QED  BY <2>1, <2>2, <2>3
<1>. QED  BY <1>7, <1>8, <1>9, <1>10, <1>11 DEF RelayInv

-----------------------------------------------------------------------------
(* What a request does with its own state, and that it leaves the others alone. *)

\* The state of a request and of its messages after a step that sends at most one.
OwnInv(c) ==
  /\ LinkOf(c) /\ SessionOf(c) /\ KindOf(c)

\* A step of a request is its own.
LEMMA RequestFrame ==
  ASSUME TypeOK, NEW c \in Copies, Request(c)
  PROVE  /\ \A d \in Copies \ {c} :
              /\ step'[d] = step[d] /\ cur'[d] = cur[d] /\ answer'[d] = answer[d]
              /\ (d \in ok') = (d \in ok) /\ table'[d] = table[d] /\ source'[d] = source[d]
         /\ UNCHANGED <<due, failing, hub, link, conns, sessions, temps, files, counters>>
<1>. USE DEF GoTo, world, rows, hub, network, disk, counters, TypeOK
<1>1. CASE \/ OpenFile(c) \/ Refuse(c) \/ AddRow(c) \/ Track(c)
           \/ MakeFolders(c) \/ OpenNext(c) \/ Committed(c)
  BY <1>1 DEF OpenFile, Refuse, AddRow, Track, MakeFolders, OpenNext, Committed, Onward
<1>5. CASE ListFolder(c)
  <2>1. PICK S : cur' = [cur EXCEPT ![c].listed = S, ![c].left = S]
    BY <1>5 DEF ListFolder
  <2>2. \A d \in Copies \ {c} : cur'[d] = cur[d]
    BY <2>1
  <2>. QED  BY <1>5, <2>2 DEF ListFolder
<1>2. CASE Begin(c) \/ Read(c) \/ Write(c) \/ Commit(c)
  BY <1>2 DEF Begin, Read, Write, Commit, Invoke, Advance
<1>3. CASE FailOpening(c) \/ FailCopying(c) \/ Aborted(c)
  BY <1>3 DEF FailOpening, FailCopying, Aborted, Abandon, Close
<1>4. CASE MarkRead(c) \/ MarkSave(c) \/ Delete(c) \/ KeepSource(c)
  BY <1>4 DEF MarkRead, MarkSave, Delete, KeepSource, Done
<1>. QED  BY <1>1, <1>2, <1>3, <1>4, <1>5 DEF Request

\* A request that sends nothing.
LEMMA SilentOwn ==
  ASSUME TypeOK, RelayInv, NEW c \in Copies,
         \/ OpenFile(c) \/ ListFolder(c) \/ Refuse(c) \/ AddRow(c) \/ Track(c)
         \/ MakeFolders(c) \/ OpenNext(c) \/ Read(c) \/ Committed(c) \/ FailOpening(c)
         \/ Aborted(c) \/ MarkRead(c) \/ MarkSave(c) \/ Delete(c) \/ KeepSource(c)
  PROVE  /\ inbox' = inbox /\ OwnInv(c)' /\ AbortOf(c)'
         /\ \A m \in Messages : m.copy = c /\ Expected(m) => Expected(m)'
<1>0. /\ LinkOf(c) /\ SessionOf(c) /\ KindOf(c) /\ AbortOf(c)
      /\ registry <= conns /\ conns \in Nat /\ link \in Nat
  BY DEF RelayInv, LinkInv, SessionInv, KindInv, AbortInv, TypeOK
<1>1. UNCHANGED <<link, conns, sessions, temps>>
  BY RequestFrame DEF Request
<1>2. \A d : SessionsOf(d)' = SessionsOf(d) /\ Opened(d)' = Opened(d)
  BY <1>1 DEF SessionsOf, Opened, TempsOf, NamesOf
<1>3. /\ step[c] \in Steps /\ cur[c] \in Locals /\ DOMAIN step = Copies /\ DOMAIN cur = Copies
      /\ answer[c] \in {"none", "ok", "error"}
  BY DEF TypeOK
<1>4. SessionsOf(c) = {} => Opened(c) = {}
  BY DEF Opened, TempsOf, NamesOf
<1>. USE StepValues DEF GoTo, At, OwnInv, LinkOf, SessionOf, KindOf, AbortOf, Expected,
                        Waits, Failed, HasNone, Written, Copying
<1>5. CASE OpenFile(c) \/ ListFolder(c) \/ Refuse(c) \/ AddRow(c) \/ Track(c)
  <2>1. CASE OpenFile(c)
    <3>1. /\ cur'[c].open = cur[c].open /\ cur'[c].conn = registry
          /\ cur'[c].part = cur[c].part
      BY <1>3, <2>1 DEF OpenFile, Locals
    <3>. QED  BY <1>0, <1>1, <1>2, <1>3, <1>4, <2>1, <3>1 DEF OpenFile, world, network
  <2>2. CASE ListFolder(c)
    <3>1. /\ cur'[c].open = cur[c].open /\ cur'[c].conn = cur[c].conn
          /\ cur'[c].part = cur[c].part
      <4>1. PICK S : cur' = [cur EXCEPT ![c].listed = S, ![c].left = S]
        BY <2>2 DEF ListFolder
      <4>2. cur'[c] = [cur[c] EXCEPT !.listed = S, !.left = S]
        BY <1>3, <4>1
      <4>. QED  BY <1>3, <4>2 DEF Locals
    <3>. QED  BY <1>0, <1>1, <1>2, <1>3, <1>4, <2>2, <3>1 DEF ListFolder, world, network
  <2>5. CASE Refuse(c)
    BY <1>0, <1>1, <1>2, <1>3, <1>4, <2>5 DEF Refuse, world, network
  <2>3. CASE AddRow(c)
    BY <1>0, <1>1, <1>2, <1>3, <1>4, <2>3 DEF AddRow, world, network
  <2>4. CASE Track(c)
    BY <1>0, <1>1, <1>2, <1>3, <1>4, <2>4 DEF Track, world, network
  <2>. QED  BY <1>5, <2>1, <2>2, <2>3, <2>4, <2>5
<1>6. CASE MakeFolders(c) \/ Committed(c) \/ FailOpening(c)
  BY <1>0, <1>1, <1>2, <1>3, <1>4, <1>6
     DEF MakeFolders, Committed, FailOpening, Onward, Close, world, network
<1>7. CASE OpenNext(c)
  BY <1>0, <1>1, <1>2, <1>3, <1>4, <1>7 DEF OpenNext, world, network
<1>8. CASE Read(c)
  <2>1. /\ Reached(c) # cur[c].size /\ Reached(c) <= cur[c].size /\ Reached(c) \in Nat
        /\ Reached(c) = Written(c) /\ cur[c].size \in Nat
    BY <1>3, <1>8, ReachedType, Bounds DEF Read, LoopEnds, InLoop, Reached, RelayInv, Locals
  <2>2. cur'[c] = [cur[c] EXCEPT !.offset = Reached(c), !.open = TRUE]
    BY <1>3, <1>8 DEF Read, Advance
  <2>3. cur'[c].offset = Reached(c) /\ cur'[c].size = cur[c].size /\ cur'[c].conn = cur[c].conn
        /\ cur'[c].part = cur[c].part
    BY <1>3, <2>2 DEF Locals
  <2>4. /\ step[c] \in {"beginning", "writing"} /\ step'[c] = "write" /\ inbox' = inbox
        /\ answer[c] = "ok"
    BY <1>3, <1>8 DEF Read, InLoop, world, network
  <2>. QED  BY <1>0, <1>1, <1>2, <1>3, <2>1, <2>3, <2>4
<1>9. CASE Aborted(c) \/ MarkRead(c) \/ MarkSave(c) \/ Delete(c) \/ KeepSource(c)
  BY <1>0, <1>1, <1>2, <1>3, <1>4, <1>9
     DEF Aborted, MarkRead, MarkSave, Delete, KeepSource, Done, Close, ToDelete, world, network
<1>. QED  BY <1>5, <1>6, <1>7, <1>8, <1>9

\* The last message of a queue that got longer.
LEMMA AppendLast ==
  ASSUME NEW S, NEW s \in Seq(S), NEW m
  PROVE  /\ Len(s) + 1 \in 1..Len(Append(s, m)) /\ Append(s, m)[Len(s) + 1] = m
         /\ \A i \in 1..Len(s) : i \in 1..Len(Append(s, m)) /\ Append(s, m)[i] = s[i]
<1>1. Len(s) \in Nat /\ Len(Append(s, m)) = Len(s) + 1
  BY LenProperties
<1>2. Len(s) + 1 \in 1..Len(Append(s, m)) /\ Append(s, m)[Len(s) + 1] = m
  BY <1>1
<1>3. ASSUME NEW i \in 1..Len(s)
      PROVE  i \in 1..Len(Append(s, m)) /\ Append(s, m)[i] = s[i]
  BY <1>1
<1>. QED  BY <1>2, <1>3

\* A request that invokes the receiving PC sends what is expected of it, and only
\* AbortWrite after a message that is still on its way.
LEMMA SendOwn ==
  ASSUME TypeOK, RelayInv, NEW c \in Copies,
         Begin(c) \/ Write(c) \/ Commit(c) \/ FailCopying(c)
  PROVE  /\ OwnInv(c)' /\ AbortOf(c)'
         /\ \A m \in Messages : m.copy = c /\ Expected(m) => Expected(m)'
         /\ \/ inbox' = inbox
            \/ \E m \in Messages :
                 /\ inbox' = Append(inbox, m) /\ m.copy = c /\ Expected(m)'
                 /\ \A n \in Messages : n.copy = c /\ Expected(n) =>
                      n.kind # "AbortWrite" /\ m.kind = "AbortWrite"
<1>0. /\ LinkOf(c) /\ SessionOf(c) /\ KindOf(c)
      /\ registry <= conns /\ conns \in Nat /\ link \in Nat
  BY DEF RelayInv, LinkInv, SessionInv, KindInv, TypeOK
<1>1. UNCHANGED <<link, conns, sessions, temps>>
  BY RequestFrame DEF Request
<1>2. \A d : SessionsOf(d)' = SessionsOf(d) /\ Opened(d)' = Opened(d)
  BY <1>1 DEF SessionsOf, Opened, TempsOf, NamesOf
<1>3. /\ step[c] \in Steps /\ cur[c] \in Locals /\ DOMAIN step = Copies /\ DOMAIN cur = Copies
      /\ answer[c] \in {"none", "ok", "error"} /\ DOMAIN answer = Copies
      /\ inbox \in Seq(Messages)
  BY DEF TypeOK
<1>4. /\ cur[c].offset \in Nat /\ cur[c].size \in Nat
      /\ SessionsOf(c) = {} => Opened(c) = {}
  BY <1>3, Bounds DEF Locals, Opened, TempsOf, NamesOf
<1>5. \A k \in Calls : /\ Message(c, k) \in Messages /\ Message(c, k).kind = k
                       /\ Message(c, k).copy = c /\ Message(c, k).part = cur[c].part
  BY MessageType DEF Message
<1>6. {"BeginWrite", "WriteChunk", "CommitWrite", "AbortWrite"} \subseteq Calls
  BY DEF Calls
<1>7. CASE Begin(c)
  <2>1. PICK m \in Messages : /\ m = Message(c, "BeginWrite") /\ m.kind = "BeginWrite"
                              /\ m.copy = c /\ m.part = cur[c].part
    BY <1>5, <1>6
  <2>2. /\ step[c] = "begin" /\ step'[c] = "beginning" /\ answer'[c] = "none"
        /\ UNCHANGED <<cur, ok>> /\ cur[c].conn = link /\ inbox' = Append(inbox, m)
    BY <1>3, <1>7, <2>1, AwaitedAt DEF Begin, Invoke, GoTo, At, Reachable
  <2>3. OwnInv(c)' /\ AbortOf(c)'
    BY <1>0, <1>1, <1>2, <1>4, <2>2
       DEF OwnInv, LinkOf, SessionOf, KindOf, AbortOf, Failed, HasNone, Written, Copying, At
  <2>4. Expected(m)'
    BY <1>0, <1>1, <1>2, <2>1, <2>2 DEF Expected, Waits, SessionOf, HasNone, At
  <2>5. \A n \in Messages : n.copy = c => ~Expected(n)
    BY <2>2 DEF Expected, Waits, Failed, At
  <2>. QED  BY <2>1, <2>2, <2>3, <2>4, <2>5
<1>8. CASE Write(c)
  <2>1. PICK m \in Messages : /\ m = Message(c, "WriteChunk") /\ m.kind = "WriteChunk"
                              /\ m.copy = c /\ m.part = cur[c].part
    BY <1>5, <1>6
  <2>2. /\ step[c] = "write" /\ step'[c] = "writing" /\ answer'[c] = "none"
        /\ UNCHANGED <<cur, ok>> /\ cur[c].conn = link /\ inbox' = Append(inbox, m)
    BY <1>3, <1>8, <2>1, AwaitedAt DEF Write, Invoke, GoTo, At, Reachable
  <2>3. OwnInv(c)' /\ AbortOf(c)'
    BY <1>0, <1>1, <1>2, <1>4, <2>2
       DEF OwnInv, LinkOf, SessionOf, KindOf, AbortOf, Failed, HasNone, Written, Copying, At
  <2>4. Expected(m)'
    BY <1>0, <1>1, <1>2, <2>1, <2>2
       DEF Expected, Waits, SessionOf, Written, Copying, At
  <2>5. \A n \in Messages : n.copy = c => ~Expected(n)
    BY <2>2 DEF Expected, Waits, Failed, At
  <2>. QED  BY <2>1, <2>2, <2>3, <2>4, <2>5
<1>9. CASE Commit(c)
  <2>1. PICK m \in Messages : /\ m = Message(c, "CommitWrite") /\ m.kind = "CommitWrite"
                              /\ m.copy = c /\ m.part = cur[c].part
    BY <1>5, <1>6
  <2>2. /\ step[c] \in {"beginning", "writing"} /\ answer[c] = "ok"
        /\ step'[c] = "committing" /\ answer'[c] = "none" /\ UNCHANGED ok
        /\ cur[c].conn = link /\ inbox' = Append(inbox, m)
        /\ cur' = [cur EXCEPT ![c].offset = Reached(c), ![c].open = TRUE]
    BY <1>3, <1>9, <2>1, AwaitedAt DEF Commit, Invoke, GoTo, Reachable, InLoop, Advance
  <2>3. cur'[c].offset = Written(c) /\ cur'[c].conn = cur[c].conn /\ cur'[c].part = cur[c].part
    BY <1>3, <2>2 DEF Locals, Reached, Written, At
  <2>4. OwnInv(c)' /\ AbortOf(c)'
    BY <1>0, <1>1, <1>2, <1>4, <2>2, <2>3
       DEF OwnInv, LinkOf, SessionOf, KindOf, AbortOf, Failed, HasNone, Written, Copying, At
  <2>5. Expected(m)'
    BY <1>0, <1>1, <1>2, <2>1, <2>2, <2>3
       DEF Expected, Waits, SessionOf, Written, Copying, At
  <2>6. \A n \in Messages : n.copy = c => ~Expected(n)
    BY <2>2 DEF Expected, Waits, Failed, At
  <2>. QED  BY <2>1, <2>2, <2>4, <2>5, <2>6
<1>10. CASE FailCopying(c)
  <2>1. PICK m \in Messages : /\ m = Message(c, "AbortWrite") /\ m.kind = "AbortWrite"
                              /\ m.copy = c /\ m.part = cur[c].part
    BY <1>5, <1>6
  <2>2. /\ step[c] \in {"beginning", "write", "writing", "committing"} /\ ok' = ok \ {c}
        /\ cur' = [cur EXCEPT ![c].open = TRUE]
        /\ At(c, "beginning") => answer[c] = "ok"
    BY <1>10 DEF FailCopying, InLoop, At
  <2>3. /\ cur'[c].offset = cur[c].offset /\ cur'[c].conn = cur[c].conn
        /\ cur'[c].part = cur[c].part /\ cur'[c].size = cur[c].size
    BY <1>3, <2>2 DEF Locals
  <2>4. \/ step'[c] = "aborting" /\ inbox' = Append(inbox, m)
        \/ step'[c] = "mark" /\ inbox' = inbox /\ cur[c].conn # link
    BY <1>3, <1>10, <2>1 DEF FailCopying, Abandon, Close, GoTo, Reachable
  <2>5. OwnInv(c)'
    BY <1>0, <1>1, <1>2, <1>4, <2>2, <2>3, <2>4
       DEF OwnInv, LinkOf, SessionOf, KindOf, HasNone, Copying, At
  <2>6. AbortOf(c)'
    <3>1. CASE inbox' = Append(inbox, m)
      <4>1. Len(inbox) + 1 \in 1..Len(inbox') /\ inbox'[Len(inbox) + 1] = m
        BY <1>3, <3>1, AppendLast
      <4>. QED  BY <2>1, <4>1 DEF AbortOf
    <3>. QED  BY <3>1, <2>3, <2>4, <1>1 DEF AbortOf
  <2>7. \A n \in Messages : n.copy = c /\ Expected(n) => n.kind # "AbortWrite"
    BY <2>2 DEF Expected, Waits, Failed, At
  <2>8. Expected(m)' /\ \A n \in Messages : n.copy = c /\ Expected(n) => Expected(n)'
    BY <1>1, <1>2, <2>1, <2>2, <2>3, <2>4 DEF Expected, Waits, Failed, At
  <2>. QED  BY <2>1, <2>4, <2>5, <2>6, <2>7, <2>8
<1>. QED  BY <1>7, <1>8, <1>9, <1>10

\* A step of a request keeps the invariant.
LEMMA RequestInv ==
  ASSUME TypeOK, RelayInv, NEW c \in Copies, Request(c)
  PROVE  RelayInv'
<1>1. /\ OwnInv(c)' /\ AbortOf(c)'
      /\ \A m \in Messages : m.copy = c /\ Expected(m) => Expected(m)'
      /\ \/ inbox' = inbox
         \/ \E m \in Messages :
              /\ inbox' = Append(inbox, m) /\ m.copy = c /\ Expected(m)'
              /\ \A n \in Messages : n.copy = c /\ Expected(n) =>
                   n.kind # "AbortWrite" /\ m.kind = "AbortWrite"
  <2>1. CASE Begin(c) \/ Write(c) \/ Commit(c) \/ FailCopying(c)
    BY <2>1, SendOwn
  <2>2. CASE ~(Begin(c) \/ Write(c) \/ Commit(c) \/ FailCopying(c))
    BY <2>2, SilentOwn DEF Request
  <2>. QED  BY <2>1, <2>2
<1>2. /\ \A d \in Copies \ {c} :
           /\ step'[d] = step[d] /\ cur'[d] = cur[d] /\ answer'[d] = answer[d]
           /\ (d \in ok') = (d \in ok) /\ source'[d] = source[d]
      /\ UNCHANGED <<registry, registering, link, conns, sessions, temps>>
  BY RequestFrame DEF hub
<1>3. \A d : SessionsOf(d)' = SessionsOf(d) /\ Opened(d)' = Opened(d)
  BY <1>2 DEF SessionsOf, Opened, TempsOf, NamesOf
<1>4. inbox \in Seq(Messages) /\ Len(inbox) \in Nat
  BY LenProperties DEF TypeOK
<1>5. ASSUME NEW d \in Copies
      PROVE  LinkOf(d)' /\ SessionOf(d)' /\ KindOf(d)'
  <2>1. CASE d = c
    BY <2>1, <1>1 DEF OwnInv
  <2>2. CASE d # c
    BY <2>2, <1>2, <1>3
       DEF RelayInv, LinkInv, SessionInv, KindInv, LinkOf, SessionOf, KindOf, HasNone,
           Written, At
  <2>. QED  BY <2>1, <2>2
<1>6. \A m \in Messages : Expected(m) => Expected(m)'
  <2>1. \A m \in Messages : m.copy # c /\ Expected(m) => Expected(m)'
    BY <1>2, <1>3 DEF Expected, Waits, Failed, At, Messages
  <2>. QED  BY <2>1, <1>1
<1>7. \A i \in 1..Len(inbox) : inbox[i] \in Messages /\ Expected(inbox[i])
  BY <1>4, ElementOfSeq DEF RelayInv, MessageInv
<1>8. ASSUME NEW d \in Copies  PROVE AbortOf(d)'
  <2>1. CASE d # c
    <3>1. \A i \in 1..Len(inbox) : i \in 1..Len(inbox') /\ inbox'[i] = inbox[i]
      BY <1>1, <1>4, AppendLast
    <3>. QED  BY <2>1, <3>1, <1>2, <1>3 DEF RelayInv, AbortInv, AbortOf, Failed
  <2>. QED  BY <2>1, <1>1
<1>9. MessageInv'
  <2>1. CASE inbox' = inbox
    BY <2>1, <1>6, <1>7 DEF RelayInv, MessageInv
  <2>2. ASSUME NEW m \in Messages, inbox' = Append(inbox, m), m.copy = c, Expected(m)',
               \A n \in Messages : n.copy = c /\ Expected(n) =>
                 n.kind # "AbortWrite" /\ m.kind = "AbortWrite"
        PROVE  MessageInv'
    <3>1. \A i \in 1..Len(inbox') : \/ i \in 1..Len(inbox) /\ inbox'[i] = inbox[i]
                                    \/ i = Len(inbox) + 1 /\ inbox'[i] = m
      BY <1>4, <2>2, AppendPlaces
    <3>2. ASSUME NEW i \in 1..Len(inbox')  PROVE Expected(inbox[i])'
      <4>1. PICK n \in Messages : n = inbox'[i] /\ Expected(n)'
        BY <2>2, <3>1, <1>6, <1>7
      <4>. QED  BY <4>1
    <3>3. ASSUME NEW i \in 1..Len(inbox'), NEW j \in 1..Len(inbox'), i < j,
                 inbox'[i].copy = inbox'[j].copy
          PROVE  inbox'[i].kind # "AbortWrite" /\ inbox'[j].kind = "AbortWrite"
      <4>1. CASE i \in 1..Len(inbox) /\ j \in 1..Len(inbox)
        <5>1. inbox'[i] = inbox[i] /\ inbox'[j] = inbox[j]
          BY <4>1, <3>1, <1>4
        <5>. QED  BY <4>1, <5>1, <3>3 DEF RelayInv, MessageInv
      <4>2. CASE j = Len(inbox) + 1
        <5>1. i \in 1..Len(inbox) /\ inbox'[i] = inbox[i] /\ inbox'[j] = m
          BY <4>2, <3>1, <3>3, <1>4
        <5>. QED  BY <5>1, <3>3, <2>2, <1>7
      <4>3. i = Len(inbox) + 1 => FALSE
        BY <3>1, <3>3, <1>4
      <4>. QED  BY <4>1, <4>2, <4>3, <3>1
    <3>. QED  BY <3>2, <3>3 DEF MessageInv
  <2>. QED  BY <2>1, <2>2, <1>1
<1>. QED  BY <1>2, <1>5, <1>8, <1>9 DEF RelayInv, LinkInv, SessionInv, AbortInv, KindInv

\* The users, the connection, crashes and others keep the invariant.
LEMMA OthersInv ==
  ASSUME TypeOK, RelayInv,
         \/ \E c \in Copies : User(c) \/ ForceCancel(c)
         \/ Connect \/ Register \/ Disconnected \/ Environment \/ UNCHANGED vars
  PROVE  RelayInv'
<1>0. /\ inbox \in Seq(Messages) /\ conns \in Nat /\ registry \in Nat /\ link \in Nat
      /\ \A c \in Copies : cur[c].conn \in Nat
      /\ Len(<<>>) = 0 /\ 1..0 = {}
  BY Bounds DEF TypeOK, Locals
<1>. USE DEF memory, rows, hub, network, disk, counters
<1>1. ASSUME UNCHANGED <<step, cur, answer, ok, link, conns, inbox, sessions>>,
             registry' <= conns, \A k \in Conns : registering'[k] # "none" => k <= conns,
             \A c \in Copies : /\ Opened(c)' = Opened(c)
                               /\ source'[c] = source[c] \/ KindOf(c)'
      PROVE  RelayInv'
  <2>1. \A d : SessionsOf(d)' = SessionsOf(d)
    BY <1>1 DEF SessionsOf
  <2>2. \A c \in Copies : LinkOf(c)' /\ SessionOf(c)' /\ AbortOf(c)' /\ KindOf(c)'
    BY <1>1, <2>1 DEF RelayInv, LinkInv, SessionInv, AbortInv, KindInv, LinkOf, SessionOf,
                      AbortOf, KindOf, HasNone, Failed, Written, At
  <2>3. MessageInv'
    <3>1. \A i \in 1..Len(inbox) : inbox[i] \in Messages /\ Expected(inbox[i])
      BY <1>0, ElementOfSeq DEF RelayInv, MessageInv
    <3>2. \A m \in Messages : Expected(m) => Expected(m)'
      BY <1>1, <2>1 DEF Expected, Waits, Failed, At, Messages
    <3>. QED  BY <1>1, <3>1, <3>2 DEF RelayInv, MessageInv
  <2>. QED  BY <1>1, <2>2, <2>3 DEF RelayInv, LinkInv, SessionInv, AbortInv, KindInv
<1>2. \A c : UNCHANGED <<sessions, temps>> => Opened(c)' = Opened(c)
  BY DEF Opened, TempsOf, NamesOf, SessionsOf
<1>3. ASSUME NEW c \in Copies, ClientLeaves(c) \/ Cancel(c) \/ ForceCancel(c)
      PROVE  RelayInv'
  BY <1>1, <1>2, <1>3 DEF ClientLeaves, Cancel, ForceCancel, ForceCancelRead,
                          ForceCancelSave, world, RelayInv, LinkInv
<1>4. ASSUME NEW c \in Copies, SourceChanges(c)  PROVE RelayInv'
  <2>1. KindOf(c)'
    <3>1. CASE c \notin Folders /\ At(c, "new")
      <4>1. DOMAIN source[c] = {1} /\ cur[c].part = 1
        BY <3>1 DEF RelayInv, KindInv, KindOf
      <4>2. PICK p \in {1}, n \in 0..MaxSize :
              source' = [source EXCEPT ![c] =
                           [q \in DOMAIN @ \cup {p} |-> IF q = p THEN n ELSE @[q]]]
        BY <1>4, <3>1 DEF SourceChanges
      <4>3. source'[c] = [q \in {1} |-> IF q = p THEN n ELSE source[c][q]]
        BY <4>1, <4>2 DEF TypeOK
      <4>. QED  BY <1>4, <4>1, <4>3 DEF SourceChanges, KindOf
    <3>2. CASE ~(c \notin Folders /\ At(c, "new"))
      BY <1>4, <3>2 DEF SourceChanges, KindOf, At
    <3>. QED  BY <3>1, <3>2
  <2>2. \A d \in Copies : d # c => source'[d] = source[d]
    BY <1>4 DEF SourceChanges, TypeOK
  <2>. QED  BY <1>1, <1>2, <1>4, <2>1, <2>2 DEF SourceChanges, RelayInv, LinkInv
<1>5. CASE Connect
  <2>1. /\ link = 0 /\ link' = conns + 1 /\ conns' = conns + 1
        /\ UNCHANGED <<source, step, cur, answer, ok, registry, registering, inbox, sessions, temps>>
    BY <1>5 DEF Connect
  <2>2. /\ \A d : SessionsOf(d)' = SessionsOf(d) /\ Opened(d)' = Opened(d)
    BY <2>1 DEF SessionsOf, Opened, TempsOf, NamesOf
  <2>3. \A c \in Copies : /\ LinkOf(c) /\ SessionOf(c) /\ KindOf(c)
                          /\ cur[c].conn \in Nat
    BY <1>0 DEF RelayInv, LinkInv, SessionInv, KindInv
  <2>4. \A c \in Copies : LinkOf(c)' /\ SessionOf(c)' /\ KindOf(c)' /\ cur'[c].conn # link'
    BY <1>0, <2>1, <2>2, <2>3 DEF LinkOf, SessionOf, KindOf, HasNone, Written, At
  <2>5. \A c \in Copies : AbortOf(c)'
    BY <2>4 DEF AbortOf
  <2>7. \A k \in Conns : registering'[k] # "none" => k <= conns'
    BY <1>0, <2>1 DEF RelayInv, LinkInv, Conns
  <2>6. MessageInv'
    <3>1. \A i \in 1..Len(inbox) : inbox[i] \in Messages /\ Expected(inbox[i])
      BY <1>0, ElementOfSeq DEF RelayInv, MessageInv
    <3>2. \A m \in Messages : Expected(m) => Expected(m)'
      <4>. SUFFICES ASSUME NEW m \in Messages, Expected(m)  PROVE Expected(m)'
        OBVIOUS
      <4>1. m.copy \in Copies
        BY DEF Messages
      <4>2. Failed(m.copy)
        BY <2>1, <2>3, <4>1 DEF Expected, Waits, LinkOf, Copying, At
      <4>. QED  BY <2>1, <2>2, <4>1, <4>2 DEF Expected, Failed
    <3>. QED  BY <2>1, <3>1, <3>2 DEF RelayInv, MessageInv
  <2>. QED  BY <1>0, <2>1, <2>4, <2>5, <2>6, <2>7
            DEF RelayInv, LinkInv, SessionInv, AbortInv, KindInv
<1>6. CASE Register
  <2>1. PICK k \in Conns : RegisterRead(k) \/ RegisterSave(k) \/ RegisterSet(k)
    BY <1>6 DEF Register
  <2>2. UNCHANGED <<source, step, cur, answer, ok, link, conns, inbox, sessions, temps>>
    BY <1>6, FailersFrame
  <2>3. /\ registry' \in {registry, k} /\ k <= conns
        /\ \A i \in Conns : i # k => registering'[i] = registering[i]
    BY <2>1 DEF RegisterRead, RegisterSave, RegisterSet, RelayInv, LinkInv, TypeOK
  <2>4. registry' <= conns /\ \A i \in Conns : registering'[i] # "none" => i <= conns
    BY <2>3 DEF RelayInv, LinkInv
  <2>. QED  BY <1>1, <1>2, <2>2, <2>4
<1>11. CASE Disconnected
  BY <1>0, <1>1, <1>2, <1>11 DEF Disconnected, RelayInv, LinkInv
<1>7. ASSUME link' = 0, inbox' = <<>>, conns' = conns, UNCHANGED <<source, cur, ok, answer>>,
             temps' = temps, sessions' = sessions \/ sessions' = {}, registry' \in {0, registry},
             \A k \in Conns : registering'[k] # "none" => k <= conns,
             \A c \in Copies : \/ step'[c] = step[c]
                               \/ step'[c] = "killed" /\ step[c] # "new"
      PROVE  RelayInv'
  <2>1. \A d \in Copies :
          /\ SessionsOf(d)' \in {{}, SessionsOf(d)} /\ Opened(d)' \in {{}, Opened(d)}
    BY <1>7 DEF SessionsOf, Opened, TempsOf, NamesOf
  <2>2. \A c \in Copies : LinkOf(c) /\ SessionOf(c) /\ KindOf(c)
    BY DEF RelayInv, LinkInv, SessionInv, KindInv
  <2>3. \A c \in Copies : LinkOf(c)' /\ SessionOf(c)' /\ KindOf(c)'
    BY <1>7, <2>1, <2>2 DEF LinkOf, SessionOf, KindOf, HasNone, Written, Copying, At
  <2>4. \A c \in Copies : AbortOf(c)'
    BY <1>7, <2>3 DEF AbortOf, LinkOf
  <2>5. MessageInv'
    BY <1>0, <1>7 DEF MessageInv
  <2>6. \A s, u \in sessions' : s.name = u.name => s.copy = u.copy
    BY <1>7 DEF RelayInv, SessionInv
  <2>. QED  BY <1>0, <1>7, <2>3, <2>4, <2>5, <2>6
            DEF RelayInv, LinkInv, SessionInv, AbortInv, KindInv
<1>8. CASE Break \/ AgentCrash
  BY <1>7, <1>8 DEF Break, AgentCrash, Drop, RelayInv, LinkInv
<1>9. CASE ServerCrash
  BY <1>7, <1>9 DEF ServerCrash, Drop, TypeOK
<1>10. CASE Intrude \/ UNCHANGED vars
  BY <1>1, <1>2, <1>10 DEF Intrude, vars, world, RelayInv, LinkInv
<1>. QED  BY <1>3, <1>4, <1>5, <1>6, <1>8, <1>9, <1>10, <1>11 DEF User, Environment

\* Every step keeps the invariant.
LEMMA RelayStep == TypeOK /\ RelayInv /\ [Next]_vars => TypeOK' /\ RelayInv'
<1>. SUFFICES ASSUME TypeOK, RelayInv, [Next]_vars  PROVE TypeOK' /\ RelayInv'
  OBVIOUS
<1>1. ASSUME NEW c \in Copies, Request(c)  PROVE TypeOK' /\ RelayInv'
  BY <1>1, QuietType, FileType, RequestInv DEF Request
<1>2. CASE Handle
  BY <1>2, HandleStep
<1>3. CASE \/ \E c \in Copies : User(c) \/ ForceCancel(c)
           \/ Connect \/ Register \/ Disconnected \/ Environment
  BY <1>3, OthersType, OthersInv DEF RelayInv
<1>4. CASE UNCHANGED vars
  <2>1. TypeOK'
    BY <1>4 DEF TypeOK, vars, memory, world, rows, hub, network, disk, counters
  <2>. QED  BY <1>4, <2>1, OthersInv
<1>. QED  BY <1>1, <1>2, <1>3, <1>4 DEF Next

\* Types, and what the messages and sessions of a copy say of its request: a request has
\* at most one invocation on its way besides AbortWrite, an open temporary file holds the
\* pieces its request has written, and no two requests write to one file.
THEOREM RelayCorrect == Spec => [](TypeOK /\ RelayInv)
BY RelayInit, RelayStep, PTL DEF Spec

\* A request that is over left no open session at a PC that stayed connected: RunCrossCopy
\* sends AbortWrite whatever failed after BeginWrite was answered.
THEOREM SessionsCorrect == Spec => []NoSessionLeft
<1>1. TypeOK /\ RelayInv => NoSessionLeft
  <2>. SUFFICES ASSUME TypeOK, RelayInv, NEW c \in Copies, At(c, "done"),
                       cur[c].conn = link, cur[c].open
                PROVE  \/ SessionsOf(c) = {}
                       \/ \E i \in DOMAIN inbox : inbox[i].copy = c
    BY DEF NoSessionLeft
  <2>1. SessionOf(c) /\ AbortOf(c)
    BY DEF RelayInv, SessionInv, AbortInv
  <2>2. DOMAIN inbox = 1..Len(inbox)
    BY LenProperties DEF TypeOK
  <2>3. CASE c \in ok
    BY <2>1, <2>3 DEF SessionOf, HasNone, At
  <2>4. CASE c \notin ok
    BY <2>1, <2>2, <2>4 DEF AbortOf, Failed, At
  <2>. QED  BY <2>3, <2>4
<1>. QED  BY <1>1, RelayCorrect, PTL

-----------------------------------------------------------------------------
(* What is copied: the files in place and those still to come of what was listed, while *)
(* nobody touches a source.                                                             *)

\* The file that is open is the one at the source, and the loop is through with it.
OfSource(c) == cur[c].part \in DOMAIN source[c] /\ cur[c].size = source[c][cur[c].part]
AllRead(c)  == OfSource(c) /\ cur[c].offset = cur[c].size

\* A part that is not copied yet: listed, or the one the request is at.
Left(c, p) ==
  \/ p \in cur[c].left
  \/ p = cur[c].part /\ ~At(c, "next") /\ (c \in Folders => step[c] \notin {"row", "track"})

\* Every listed part of the source is still to come or in place, in its length.
SourceOf(c) ==
  /\ At(c, "new") => table[c] # "Succeeded"
  /\ step[c] \in Copying \/ (step[c] \in {"row", "track"} /\ c \notin Folders) => OfSource(c)
  /\ At(c, "committing") => AllRead(c)
  /\ At(c, "committing") /\ answer[c] = "ok" => InPlace(c, cur[c].part)
  /\ step[c] \in {"row", "track", "next"} \cup Copying =>
       \A p \in cur[c].listed \cap DOMAIN source[c] : Left(c, p) \/ InPlace(c, p)
  /\ (step[c] \in {"mark", "marking"} /\ c \in ok) \/ At(c, "delete") => ListedInPlace(c)
  /\ table[c] = "Succeeded" => ListedInPlace(c)

\* A file that is there is the one at the source, unless that is deleted.
FilesOf(c) ==
  \A f \in files : f.by = {c} =>
    source[c] = <<>> \/ (f.name.part \in DOMAIN source[c] /\ f.len = source[c][f.name.part])

SourceInv ==
  /\ \A c \in Copies : SourceOf(c) /\ FilesOf(c)
  /\ \A i \in 1..Len(inbox) : inbox[i].kind = "CommitWrite" => AllRead(inbox[i].copy)

\* It holds initially.
LEMMA SourceInit == Init => SourceInv
<1>. SUFFICES ASSUME Init  PROVE SourceInv
  OBVIOUS
<1>1. 1..Len(inbox) = {}
  BY DEF Init
<1>. QED  BY <1>1 DEF Init, SourceInv, SourceOf, FilesOf, Copying, At

\* A request with the same source, where no fewer files are in place.
LEMMA InPlaceStays ==
  ASSUME NEW c, source'[c] = source[c], files \subseteq files'
  PROVE  /\ \A p : InPlace(c, p) => InPlace(c, p)'
         /\ cur'[c].listed = cur[c].listed /\ ListedInPlace(c) => ListedInPlace(c)'
<1>1. \A p : InPlace(c, p) => InPlace(c, p)'
  BY DEF InPlace
<1>. QED  BY <1>1 DEF ListedInPlace

\* A request up to its first file.
LEMMA BeginSource ==
  ASSUME TypeOK, RelayInv, NEW c \in Copies, SourceOf(c), Request(c),
         \/ OpenFile(c) \/ ListFolder(c) \/ Refuse(c) \/ AddRow(c) \/ Track(c)
         \/ MakeFolders(c) \/ OpenNext(c)
  PROVE  SourceOf(c)'
<1>1. /\ step[c] \in Steps /\ cur[c] \in Locals /\ DOMAIN step = Copies /\ DOMAIN cur = Copies
      /\ DOMAIN table = Copies
  BY DEF TypeOK
<1>2. UNCHANGED <<source, files>>
  <2>1. source' = source
    BY DEF OpenFile, ListFolder, Refuse, AddRow, Track, MakeFolders, OpenNext
  <2>. QED  BY <2>1, RequestFrame
<1>3. /\ \A p : InPlace(c, p) => InPlace(c, p)'
      /\ cur'[c].listed = cur[c].listed /\ ListedInPlace(c) => ListedInPlace(c)'
  BY <1>2, InPlaceStays
<1>. USE StepValues DEF GoTo, At, SourceOf, Copying
<1>4. CASE OpenFile(c)
  <2>1. DOMAIN source[c] = {1} /\ cur[c].part = 1
    BY <1>4 DEF OpenFile, RelayInv, KindInv, KindOf
  <2>2. /\ cur'[c].size = source[c][1] /\ cur'[c].part = 1 /\ step'[c] = "row"
        /\ c \notin Folders /\ table' = table /\ step[c] = "new"
    BY <1>1, <1>4, <2>1 DEF OpenFile, Locals
  <2>. QED  BY <1>2, <1>3, <2>1, <2>2 DEF OfSource, Left
<1>5. CASE ListFolder(c)
  <2>0. PICK S \in SUBSET DOMAIN source[c] :
          cur' = [cur EXCEPT ![c].listed = S, ![c].left = S]
    BY <1>5 DEF ListFolder
  <2>2. cur'[c] = [cur[c] EXCEPT !.listed = S, !.left = S]
    BY <1>1, <2>0
  <2>3. cur'[c].left = S /\ cur'[c].listed = S
    BY <1>1, <2>2 DEF Locals
  <2>1. /\ cur'[c].left = cur'[c].listed /\ step[c] = "new" /\ step'[c] = "row"
        /\ c \in Folders /\ table' = table
    BY <1>1, <1>5, <2>3 DEF ListFolder
  <2>. QED  BY <1>2, <1>3, <2>1 DEF Left
<1>6. CASE Refuse(c)
  BY <1>1, <1>3, <1>6 DEF Refuse
<1>7. CASE AddRow(c)
  BY <1>1, <1>2, <1>3, <1>7 DEF AddRow, Left, OfSource
<1>8. CASE Track(c)
  BY <1>1, <1>2, <1>3, <1>8 DEF Track, Left, OfSource
<1>9. CASE MakeFolders(c)
  BY <1>1, <1>2, <1>3, <1>9 DEF MakeFolders, Onward, Left, ListedInPlace
<1>10. CASE OpenNext(c)
  <2>1. PICK p \in cur[c].left \cap DOMAIN source[c] :
          cur' = [cur EXCEPT ![c] = [listed |-> @.listed, left |-> @.left \ {p},
                                     part |-> p, size |-> source[c][p], offset |-> 0,
                                     conn |-> registry, open |-> FALSE]]
    BY <1>10 DEF OpenNext
  <2>2. /\ cur'[c].left = cur[c].left \ {p} /\ cur'[c].part = p
        /\ cur'[c].size = source[c][p] /\ step[c] = "next" /\ step'[c] = "begin"
        /\ table' = table /\ cur'[c].listed = cur[c].listed
    BY <1>1, <1>10, <2>1 DEF OpenNext
  <2>. QED  BY <1>2, <1>3, <2>1, <2>2 DEF Left, OfSource
<1>. QED  BY <1>4, <1>5, <1>6, <1>7, <1>8, <1>9, <1>10

\* A request in the loop over the pieces of a file, and at its end.
LEMMA LoopSource ==
  ASSUME TypeOK, RelayInv, NEW c \in Copies, SourceOf(c), Request(c),
         \/ Begin(c) \/ Read(c) \/ Write(c) \/ Commit(c) \/ Committed(c)
         \/ FailOpening(c) \/ FailCopying(c) \/ Aborted(c)
  PROVE  SourceOf(c)'
<1>1. /\ step[c] \in Steps /\ cur[c] \in Locals /\ DOMAIN step = Copies /\ DOMAIN cur = Copies
      /\ DOMAIN answer = Copies
  BY DEF TypeOK
<1>2. UNCHANGED <<source, files, table>>
  <2>1. UNCHANGED <<source, table>>
    BY DEF Begin, Read, Write, Commit, Committed, FailOpening, FailCopying, Aborted
  <2>. QED  BY <2>1, RequestFrame
<1>3. /\ \A p : InPlace(c, p) => InPlace(c, p)'
      /\ ListedInPlace(c) => ListedInPlace(c)'
      /\ cur'[c].listed = cur[c].listed
  <2>1. cur' = cur \/ Advance(c) \/ cur' = [cur EXCEPT ![c].open = TRUE]
    BY DEF Begin, Read, Write, Commit, Committed, FailOpening, FailCopying, Aborted
  <2>2. cur'[c].listed = cur[c].listed
    <3>1. CASE Advance(c)
      <4>1. cur'[c] = [cur[c] EXCEPT !.offset = Reached(c), !.open = TRUE]
        BY <1>1, <3>1 DEF Advance
      <4>. QED  BY <1>1, <4>1 DEF Locals
    <3>2. CASE cur' = [cur EXCEPT ![c].open = TRUE]
      <4>1. cur'[c] = [cur[c] EXCEPT !.open = TRUE]
        BY <1>1, <3>2
      <4>. QED  BY <1>1, <4>1 DEF Locals
    <3>. QED  BY <2>1, <3>1, <3>2
  <2>. QED  BY <1>2, <2>2, InPlaceStays
<1>. USE StepValues DEF GoTo, At, SourceOf, Copying
<1>4. CASE Begin(c)
  BY <1>1, <1>2, <1>3, <1>4 DEF Begin, Invoke, Left, OfSource
<1>5. CASE Write(c)
  BY <1>1, <1>2, <1>3, <1>5 DEF Write, Invoke, Left, OfSource
<1>6. ASSUME Advance(c)
      PROVE  /\ cur'[c].left = cur[c].left /\ cur'[c].part = cur[c].part
             /\ cur'[c].size = cur[c].size /\ cur'[c].offset = Reached(c)
  <2>1. cur'[c] = [cur[c] EXCEPT !.offset = Reached(c), !.open = TRUE]
    BY <1>1, <1>6 DEF Advance
  <2>. QED  BY <1>1, <2>1 DEF Locals
<1>7. CASE Read(c)
  BY <1>1, <1>2, <1>3, <1>6, <1>7 DEF Read, InLoop, Left, OfSource
<1>8. CASE Commit(c)
  <2>1. OfSource(c) /\ Reached(c) \in 0..MaxSize /\ Reached(c) <= cur[c].size
    BY <1>8, ReachedType DEF Commit, InLoop, RelayInv
  <2>2. Reached(c) = cur[c].size
    BY <1>1, <1>8, <2>1, Bounds DEF Commit, LoopEnds, HasPiece, OfSource, Locals
  <2>3. /\ step[c] \in {"beginning", "writing"} /\ step'[c] = "committing"
        /\ answer'[c] = "none" /\ Advance(c)
    BY <1>1, <1>8 DEF Commit, Invoke, InLoop
  <2>. QED  BY <1>2, <1>3, <1>6, <2>1, <2>2, <2>3 DEF Left, OfSource, AllRead
<1>9. CASE Committed(c)
  BY <1>1, <1>2, <1>3, <1>9 DEF Committed, Onward, Left, ListedInPlace
<1>10. CASE FailOpening(c) \/ FailCopying(c) \/ Aborted(c)
  <2>1. step'[c] \in {"mark", "aborting"} /\ (step'[c] = "mark" => c \notin ok')
    BY <1>1, <1>10
       DEF FailOpening, FailCopying, Aborted, Abandon, Close, RelayInv, SessionInv, SessionOf
  <2>. QED  BY <1>2, <1>3, <2>1
<1>. QED  BY <1>4, <1>5, <1>7, <1>8, <1>9, <1>10

\* The row of a request, and the deletion of its source.
LEMMA EndSource ==
  ASSUME TypeOK, NEW c \in Copies, SourceOf(c), Request(c),
         MarkRead(c) \/ MarkSave(c) \/ Delete(c) \/ KeepSource(c)
  PROVE  SourceOf(c)'
<1>1. /\ step[c] \in Steps /\ DOMAIN step = Copies /\ DOMAIN table = Copies
      /\ DOMAIN source = Copies /\ files' = files /\ cur' = cur
  BY RequestFrame DEF TypeOK, MarkRead, MarkSave, Delete, KeepSource
<1>2. CASE MarkRead(c) \/ MarkSave(c) \/ KeepSource(c)
  <2>1. /\ step'[c] \in {"marking", "delete", "done"}
        /\ step[c] \in {"mark", "marking", "delete"}
        /\ (step'[c] = "marking" => step[c] = "mark")
        /\ (step'[c] = "delete" => c \in ok /\ step[c] = "marking") /\ source' = source
        /\ ok' = ok
        /\ table'[c] = "Succeeded" =>
             table[c] = "Succeeded" \/ (c \in ok /\ step[c] = "marking")
    BY <1>1, <1>2 DEF MarkRead, MarkSave, KeepSource, Done, GoTo, At, ToDelete, Outcome
  <2>2. ListedInPlace(c) => ListedInPlace(c)'
    BY <1>1, <2>1, InPlaceStays
  <2>. QED  BY <2>1, <2>2 DEF SourceOf, At, Copying
<1>3. CASE Delete(c)
  <2>1. source'[c] = <<>> /\ step'[c] = "done"
    BY <1>1, <1>3 DEF Delete, Done, GoTo
  <2>2. ListedInPlace(c)'
    BY <2>1, EmptyFolder DEF ListedInPlace
  <2>. QED  BY <2>1, <2>2 DEF SourceOf, At, Copying
<1>. QED  BY <1>2, <1>3

\* A step of a request keeps what is in place and what is to come.
LEMMA RequestSource ==
  ASSUME TypeOK, RelayInv, SourceInv, NEW c \in Copies, Request(c)
  PROVE  SourceInv'
<1>1. SourceOf(c)'
  BY BeginSource, LoopSource, EndSource DEF Request, SourceInv
<1>2. /\ \A d \in Copies \ {c} :
           /\ step'[d] = step[d] /\ cur'[d] = cur[d] /\ answer'[d] = answer[d]
           /\ (d \in ok') = (d \in ok) /\ table'[d] = table[d] /\ source'[d] = source[d]
      /\ files' = files
  BY RequestFrame
<1>3. source'[c] \in {source[c], <<>>}
  BY DEF Request, OpenFile, ListFolder, Refuse, AddRow, Track, MakeFolders, OpenNext, Begin,
         Read, Write, Commit, Committed, FailOpening, FailCopying, Aborted, MarkRead, MarkSave,
         Delete, KeepSource, TypeOK
<1>4. ASSUME NEW d \in Copies  PROVE SourceOf(d)' /\ FilesOf(d)'
  <2>1. SourceOf(d) /\ FilesOf(d)
    BY DEF SourceInv
  <2>2. FilesOf(d)'
    BY <2>1, <1>2, <1>3 DEF FilesOf
  <2>3. CASE d # c
    <3>1. /\ \A p : InPlace(d, p) => InPlace(d, p)'
          /\ ListedInPlace(d) => ListedInPlace(d)'
      BY <2>3, <1>2, InPlaceStays
    <3>. QED  BY <2>1, <2>2, <2>3, <3>1, <1>2
              DEF SourceOf, OfSource, AllRead, Left, At
  <2>. QED  BY <2>2, <2>3, <1>1
<1>5. inbox \in Seq(Messages)
  BY DEF TypeOK
<1>6. ASSUME NEW m \in Messages, Expected(m), m.kind = "CommitWrite", AllRead(m.copy)
      PROVE  AllRead(m.copy)'
  <2>1. CASE m.copy = c
    <3>1. step[c] \in {"committing", "aborting", "mark", "marking", "done"}
      BY <2>1, <1>6 DEF Expected, Waits, Failed, At
    <3>2. /\ source' = source /\ cur'[c].part = cur[c].part
          /\ cur'[c].size = cur[c].size /\ cur'[c].offset = cur[c].offset
      <4>1. CASE Committed(c) \/ Aborted(c) \/ MarkRead(c) \/ MarkSave(c)
        BY <4>1 DEF Committed, Aborted, MarkRead, MarkSave
      <4>2. CASE FailCopying(c)
        <5>1. cur[c] \in Locals /\ DOMAIN cur = Copies
          BY DEF TypeOK
        <5>. QED  BY <4>2, <5>1 DEF FailCopying, Locals
      <4>. QED  BY <3>1, <4>1, <4>2
                DEF Request, OpenFile, ListFolder, Refuse, AddRow, Track, MakeFolders,
                    OpenNext, Begin, Read, Write, Commit, FailOpening, InLoop, Delete,
                    KeepSource, At
    <3>. QED  BY <2>1, <3>2, <1>6 DEF AllRead, OfSource
  <2>2. CASE m.copy # c
    <3>1. m.copy \in Copies
      BY DEF Messages
    <3>. QED  BY <2>2, <3>1, <1>2, <1>6 DEF AllRead, OfSource
  <2>. QED  BY <2>1, <2>2
<1>7. \A i \in 1..Len(inbox) : inbox[i] \in Messages /\ Expected(inbox[i])
  BY <1>5, ElementOfSeq DEF RelayInv, MessageInv
<1>8. \/ inbox' = inbox
      \/ \E m \in Messages : /\ inbox' = Append(inbox, m) /\ m.copy = c /\ Expected(m)'
                             /\ m.kind = "CommitWrite" => AllRead(c)'
  <2>1. CASE Begin(c) \/ Write(c) \/ Commit(c) \/ FailCopying(c)
    <3>1. \/ inbox' = inbox
          \/ \E m \in Messages : inbox' = Append(inbox, m) /\ m.copy = c /\ Expected(m)'
      BY <2>1, SendOwn
    <3>2. ASSUME NEW m \in Messages, inbox' = Append(inbox, m), m.copy = c, Expected(m)',
                 m.kind = "CommitWrite"
          PROVE  AllRead(c)'
      <4>1. At(c, "committing")' \/ Failed(c)'
        BY <3>2 DEF Expected, Waits
      <4>2. CASE At(c, "committing")'
        BY <4>2, <1>1 DEF SourceOf
      <4>3. Failed(c)' => FailCopying(c)
        BY <2>1 DEF Failed, Begin, Write, Commit, Invoke, GoTo, TypeOK
      <4>4. FailCopying(c) => FALSE
        <5>1. Message(c, "AbortWrite").kind = "AbortWrite"
          BY DEF Message
        <5>2. FailCopying(c) => inbox' = Append(inbox, Message(c, "AbortWrite"))
                                \/ inbox' = inbox
          BY DEF FailCopying, Abandon
        <5>3. Append(inbox, m)[Len(inbox) + 1] = m /\ Append(inbox, m) # inbox
          BY <1>5, AppendLast, LenProperties
        <5>4. Append(inbox, Message(c, "AbortWrite"))[Len(inbox) + 1]
                = Message(c, "AbortWrite")
          BY <1>5, AppendLast
        <5>. QED  BY <3>2, <5>1, <5>2, <5>3, <5>4
      <4>. QED  BY <4>1, <4>2, <4>3, <4>4
    <3>. QED  BY <3>1, <3>2
  <2>2. CASE ~(Begin(c) \/ Write(c) \/ Commit(c) \/ FailCopying(c))
    BY <2>2, SilentOwn DEF Request
  <2>. QED  BY <2>1, <2>2
<1>9. ASSUME NEW i \in 1..Len(inbox'), inbox'[i].kind = "CommitWrite"
      PROVE  AllRead(inbox[i].copy)'
  <2>1. CASE i \in 1..Len(inbox) /\ inbox'[i] = inbox[i]
    <3>1. PICK m \in Messages : m = inbox[i] /\ Expected(m) /\ AllRead(m.copy)
      BY <2>1, <1>7, <1>9 DEF SourceInv
    <3>2. AllRead(m.copy)'
      BY <2>1, <3>1, <1>6, <1>9
    <3>. QED  BY <2>1, <3>1, <3>2
  <2>2. ASSUME NEW m \in Messages, inbox' = Append(inbox, m), inbox'[i] = m, m.copy = c,
               m.kind = "CommitWrite" => AllRead(c)'
        PROVE  AllRead(inbox[i].copy)'
    BY <2>2, <1>9
  <2>. QED  BY <2>1, <2>2, <1>5, <1>8, <1>9, AppendPlaces
<1>. QED  BY <1>4, <1>9 DEF SourceInv

\* Handling an invocation puts a file in place only when it is the one at the source.
LEMMA HandleSource ==
  ASSUME TypeOK, RelayInv, SourceInv, Handle
  PROVE  SourceInv'
<1>0. PICK m \in Messages, c \in Copies : m = Head(inbox) /\ c = m.copy
  BY FirstMessage DEF RelayInv, Messages
<1>1. /\ Expected(m) /\ SessionInv /\ SessionOf(c) /\ inbox' \in Seq(Messages)
      /\ inbox # <<>> /\ inbox \in Seq(Messages) /\ inbox' = Tail(inbox)
      /\ UNCHANGED <<source, table, step, cur, ok>>
  BY <1>0, FirstMessage DEF RelayInv, SessionInv, TypeOK, Handle
<1>2. m.kind = "CommitWrite" => AllRead(c)
  <2>1. 1 \in 1..Len(inbox) /\ m = inbox[1]
    BY <1>0, <1>1, TailPlaces
  <2>. QED  BY <1>0, <2>1 DEF SourceInv
<1>3. /\ files \subseteq files'
      /\ m.kind # "CommitWrite" => files' = files
      /\ \E r \in {"ok", "error"} : Reply(m, r)
  BY <1>0, HandleOwn DEF DiskKept
<1>4. \A d \in Copies : d # c => answer'[d] = answer[d]
  BY <1>0, <1>3, ReplyEffect
<1>5. ASSUME NEW d \in Copies
      PROVE  /\ \A p : InPlace(d, p) => InPlace(d, p)'
             /\ ListedInPlace(d) => ListedInPlace(d)'
  BY <1>1, <1>3, InPlaceStays
<1>6. m.kind = "CommitWrite" => CommitWrite(m)
  BY <1>0 DEF Handle
<1>7. m.kind = "CommitWrite" =>
        /\ \A t \in Opened(c) : /\ t.name.part = cur[c].part /\ t.len = cur[c].offset
        /\ cur[c].part \in DOMAIN source[c] /\ cur[c].offset = source[c][cur[c].part]
  <2>1. \A t \in Opened(c) : t.name.part = cur[c].part
    BY <1>1 DEF SessionOf, Opened, TempsOf, NamesOf
  <2>2. m.kind = "CommitWrite" => \A t \in Opened(c) : t.len = cur[c].offset
    BY <1>0, <1>1 DEF Expected
  <2>3. m.kind = "CommitWrite" =>
          cur[c].part \in DOMAIN source[c] /\ cur[c].offset = source[c][cur[c].part]
    BY <1>2 DEF AllRead, OfSource
  <2>. QED  BY <2>1, <2>2, <2>3
<1>8. ASSUME NEW d \in Copies  PROVE FilesOf(d)'
  <2>1. FilesOf(d)
    BY DEF SourceInv
  <2>2. CASE m.kind # "CommitWrite"
    BY <2>1, <2>2, <1>1, <1>3 DEF FilesOf
  <2>3. CASE m.kind = "CommitWrite"
    <3>1. \A f \in files' \ files : \E t \in Opened(c) :
            f.name = t.name /\ f.by = {c} /\ f.len = t.len
      BY <2>3, <1>0, <1>1, <1>6, CommitEffect
    <3>2. \A f \in files' \ files : f.by = {c} /\ f.name.part = cur[c].part
                                    /\ f.len = cur[c].offset
      BY <2>3, <3>1, <1>7
    <3>. QED  BY <2>1, <2>3, <3>2, <1>1, <1>7 DEF FilesOf
  <2>. QED  BY <2>2, <2>3
<1>9. ASSUME NEW d \in Copies  PROVE SourceOf(d)'
  <2>1. SourceOf(d)
    BY DEF SourceInv
  <2>2. At(d, "committing") /\ answer'[d] = "ok" => InPlace(d, cur[d].part)'
    <3>1. CASE d = c /\ Waits(c, m.kind)
      <4>1. At(c, "committing") => m.kind = "CommitWrite"
        BY <3>1 DEF Waits, At
      <4>2. ASSUME At(c, "committing"), answer'[c] = "ok"
            PROVE  InPlace(c, cur[c].part)'
        <5>1. PICK r \in {"ok", "error"} :
                /\ Reply(m, r)
                /\ r = "ok" => \E f \in files' : \E t \in Opened(c) :
                                 f.name = t.name /\ f.by = {c} /\ f.len = t.len
          BY <4>1, <4>2, <1>0, <1>1, <1>6, CommitEffect
        <5>2. r = "ok"
          BY <4>2, <5>1, <3>1, <1>0, ReplyEffect
        <5>3. PICK f \in files' : /\ f.by = {c} /\ f.name.part = cur[c].part
                                  /\ f.len = cur[c].offset
          BY <4>1, <4>2, <5>1, <5>2, <1>7
        <5>. QED  BY <5>3, <4>1, <4>2, <1>1, <1>7 DEF InPlace
      <4>. QED  BY <3>1, <4>2
    <3>2. CASE ~(d = c /\ Waits(c, m.kind))
      <4>1. d = c => ~At(c, "committing")
        BY <3>2, <1>0, <1>1 DEF Expected, Failed, At
      <4>2. At(d, "committing") /\ answer'[d] = "ok" => InPlace(d, cur[d].part)
        BY <2>1, <4>1, <1>4 DEF SourceOf
      <4>. QED  BY <4>2, <1>1, <1>5
    <3>. QED  BY <3>1, <3>2
  <2>. QED  BY <2>1, <2>2, <1>1, <1>5 DEF SourceOf, OfSource, AllRead, Left, At
<1>10. ASSUME NEW i \in 1..Len(inbox'), inbox'[i].kind = "CommitWrite"
       PROVE  AllRead(inbox[i].copy)'
  <2>1. i + 1 \in 1..Len(inbox) /\ inbox'[i] = inbox[i + 1]
    BY FirstMessage DEF RelayInv
  <2>2. AllRead(inbox[i + 1].copy)
    BY <2>1, <1>10 DEF SourceInv
  <2>. QED  BY <2>1, <2>2, <1>1 DEF AllRead, OfSource
<1>. QED  BY <1>8, <1>9, <1>10 DEF SourceInv

\* Nor does anything else, but a change of a source.
LEMMA OthersSource ==
  ASSUME TypeOK, SourceInv, changes' = 0, changes = 0,
         \/ \E c \in Copies : User(c) \/ ForceCancel(c)
         \/ Connect \/ Register \/ Disconnected \/ Environment \/ UNCHANGED vars
  PROVE  SourceInv'
<1>. USE DEF memory, rows, hub, network, disk, counters
<1>1. ASSUME UNCHANGED <<source, cur, answer, ok>>, inbox' \in {inbox, <<>>},
             files \subseteq files', \A f \in files' \ files : f.by = {},
             \A c \in Copies : /\ step'[c] \in {step[c], "killed"}
                               /\ table'[c] = "Succeeded" => table[c] = "Succeeded"
      PROVE  SourceInv'
  <2>1. ASSUME NEW c \in Copies  PROVE SourceOf(c)' /\ FilesOf(c)'
    <3>1. SourceOf(c) /\ FilesOf(c)
      BY DEF SourceInv
    <3>2. /\ \A p : InPlace(c, p) => InPlace(c, p)'
          /\ ListedInPlace(c) => ListedInPlace(c)'
      BY <1>1, InPlaceStays
    <3>3. FilesOf(c)'
      BY <3>1, <1>1 DEF FilesOf
    <3>. QED  BY <3>1, <3>2, <3>3, <1>1
              DEF SourceOf, OfSource, AllRead, Left, Copying, At
  <2>2. \A i \in 1..Len(inbox') : i \in 1..Len(inbox) /\ inbox'[i] = inbox[i]
    <3>1. 1..Len(<<>>) = {}
      BY EmptySeq
    <3>. QED  BY <3>1, <1>1
  <2>3. \A i \in 1..Len(inbox') : inbox'[i].kind = "CommitWrite" => AllRead(inbox[i].copy)'
    BY <2>2, <1>1 DEF SourceInv, AllRead, OfSource
  <2>. QED  BY <2>1, <2>3 DEF SourceInv
<1>3. ASSUME NEW c \in Copies, User(c)  PROVE SourceInv'
  <2>1. ~SourceChanges(c)
    BY DEF SourceChanges
  <2>. QED  BY <1>1, <1>3, <2>1 DEF User, ClientLeaves, Cancel, world
<1>4. CASE (\E c \in Copies : ForceCancel(c)) \/ Register
  BY <1>1, <1>4, FailersFrame
<1>5. CASE Connect \/ Disconnected \/ UNCHANGED vars
  BY <1>1, <1>5 DEF Connect, Disconnected, vars, world
<1>7. CASE Break \/ AgentCrash
  BY <1>1, <1>7 DEF Break, AgentCrash, Drop
<1>8. CASE ServerCrash
  BY <1>1, <1>8 DEF ServerCrash, Drop
<1>9. CASE Intrude
  BY <1>1, <1>9 DEF Intrude
<1>. QED  BY <1>3, <1>4, <1>5, <1>7, <1>8, <1>9 DEF Environment

\* Only DeleteSourceAsync and others change a source.
LEMMA SourceKept ==
  ASSUME TypeOK, [Next]_vars
  PROVE  \/ UNCHANGED <<source, changes>>
         \/ \E c \in Copies : Delete(c) /\ UNCHANGED changes
         \/ \E c \in Copies : SourceChanges(c) /\ changes' = changes + 1
<1>. USE DEF memory, rows, hub, network, disk, counters
<1>1. ASSUME NEW c \in Copies, Request(c), ~Delete(c)  PROVE UNCHANGED <<source, changes>>
  <2>1. source' = source
    BY <1>1 DEF Request, OpenFile, ListFolder, Refuse, AddRow, Track, MakeFolders, OpenNext,
                Begin, Read, Write, Commit, Committed, FailOpening, FailCopying, Aborted,
                MarkRead, MarkSave, KeepSource
  <2>. QED  BY <1>1, <2>1, RequestFrame
<1>2. ASSUME NEW c \in Copies, Delete(c)  PROVE UNCHANGED changes
  BY <1>2 DEF Delete, world
<1>3. ASSUME NEW c \in Copies, User(c), ~SourceChanges(c)
      PROVE  UNCHANGED <<source, changes>>
  BY <1>3 DEF User, ClientLeaves, Cancel, world
<1>8. CASE (\E c \in Copies : ForceCancel(c)) \/ Register
  BY <1>8, FailersFrame
<1>4. ASSUME NEW c \in Copies, SourceChanges(c)  PROVE changes' = changes + 1
  BY <1>4 DEF SourceChanges
<1>5. CASE Handle \/ Connect \/ Disconnected
  BY <1>5 DEF Handle, Connect, Disconnected
<1>6. CASE Environment
  BY <1>6 DEF Environment, Break, AgentCrash, ServerCrash, Intrude
<1>7. CASE UNCHANGED vars
  BY <1>7 DEF vars, world
<1>. QED  BY <1>1, <1>2, <1>3, <1>4, <1>5, <1>6, <1>7, <1>8 DEF Next

\* What holds of the sources while nobody touches them.
UntouchedInv == changes = 0 => SourceInv

\* Every step keeps it.
LEMMA UntouchedStep ==
  TypeOK /\ RelayInv /\ UntouchedInv /\ [Next]_vars => UntouchedInv'
<1>. SUFFICES ASSUME TypeOK, RelayInv, UntouchedInv, [Next]_vars, changes' = 0
              PROVE  SourceInv'
  BY DEF UntouchedInv
<1>1. ASSUME NEW c \in Copies, Request(c)  PROVE SourceInv'
  <2>1. changes' = changes
    BY <1>1, RequestFrame DEF counters
  <2>. QED  BY <1>1, <2>1, RequestSource DEF UntouchedInv
<1>2. CASE Handle
  BY <1>2, HandleSource DEF UntouchedInv, Handle, counters
<1>3. CASE \/ \E c \in Copies : User(c) \/ ForceCancel(c)
           \/ Connect \/ Register \/ Disconnected \/ Environment \/ UNCHANGED vars
  <2>1. changes = 0
    <3>1. changes \in Nat /\ (changes' = changes \/ changes' = changes + 1)
      BY SourceKept, Bounds DEF TypeOK
    <3>. QED  BY <3>1
  <2>. QED  BY <1>3, <2>1, OthersSource DEF UntouchedInv
<1>. QED  BY <1>1, <1>2, <1>3 DEF Next

\* While nobody touches a source, every file of a copy that is in place is the one at the
\* source, and what was listed and is not in place is still to come, or the copy has failed.
THEOREM SourceCorrect == Spec => []UntouchedInv
<1>1. Init => UntouchedInv
  BY SourceInit DEF UntouchedInv
<1>. QED  BY <1>1, UntouchedStep, RelayCorrect, PTL DEF Spec

\* A file is there in full or not at all, and all that were listed are there if the row
\* says so: CommitWrite puts a temporary file in place only once all its pieces are
\* written, and the row says Succeeded only when every listed file was committed.
THEOREM WholeCorrect == Spec => []WholeOrNothing
<1>1. UntouchedInv => WholeOrNothing
  <2>. SUFFICES ASSUME changes = 0, SourceInv
                PROVE  WholeOrNothing
    BY DEF UntouchedInv, WholeOrNothing, SucceededIsWhole, NoHalfFile
  <2>1. SucceededIsWhole
    BY DEF SourceInv, SourceOf, ListedInPlace, SucceededIsWhole
  <2>2. ASSUME NEW c \in Copies, NEW f \in files, f.by = {c}
        PROVE  source[c] = <<>> \/ InPlace(c, f.name.part)
    <3>1. source[c] = <<>> \/ f.len = source[c][f.name.part]
      BY <2>2 DEF SourceInv, FilesOf
    <3>. QED  BY <2>2, <3>1 DEF InPlace
  <2>3. NoHalfFile
    BY <2>2 DEF NoHalfFile
  <2>. QED  BY <2>1, <2>3 DEF WholeOrNothing
<1>. QED  BY <1>1, SourceCorrect, PTL

\* In particular a file under its final name is never half of it: what was not committed
\* keeps the name of a temporary file.
THEOREM NoHalfCorrect == Spec => []NoHalfFile
BY WholeCorrect, PTL DEF WholeOrNothing

\* A cut deletes its source only when everything that was listed is in place, if nobody
\* changes a source meanwhile: DeleteSourceAsync comes after every file was committed.
THEOREM MoveCorrect == Spec /\ [](changes = 0) => MoveKeepsListed
<1>1. ASSUME TypeOK, UntouchedInv, changes = 0, changes' = 0, [Next]_vars,
             NEW c \in Copies, source[c] # <<>>, source'[c] = <<>>
      PROVE  ListedInPlace(c)
  <2>1. SourceOf(c)
    BY <1>1 DEF UntouchedInv, SourceInv
  <2>2. \E d \in Copies : Delete(d)
    BY <1>1, SourceKept
  <2>3. At(c, "delete")
    BY <1>1, <2>2 DEF Delete, TypeOK
  <2>. QED  BY <2>1, <2>3 DEF SourceOf, ListedInPlace
<1>2. TypeOK /\ UntouchedInv /\ changes = 0 /\ (changes = 0)' /\ [Next]_vars =>
        [\A c \in Copies : source[c] # <<>> /\ source'[c] = <<>> => ListedInPlace(c)]_vars
  BY <1>1
<1>. QED  BY <1>2, RelayCorrect, SourceCorrect, PTL DEF Spec, MoveKeepsListed
=============================================================================
