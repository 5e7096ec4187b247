# PC Manager: TLA+ models and proofs

PC Manager lets a team run commands on, move files to and from, and control a set
of PCs.  A web dashboard (React) talks to one ASP.NET Core server (REST, SignalR,
SQLite); an agent on each PC keeps one outbound SignalR connection to the server
and does the work.  This directory holds TLA+ models of the parts of that system
whose order of events is hard to get right and hard to test, the configurations
TLC checks them with, and theorems about them that TLAPS checks.  The repository
has no automated tests of this code, so the source and its comments are the
reference.

## 1. Inventory

Paths are below `src/src/`; `Server`, `Agent` stand for `PcManager.Server`,
`PcManager.Agent`; those of the dashboard are below `src/web/src/`.

| part | state it keeps | operations | talks to |
|---|---|---|---|
| Command runs: `Server/Services/RunService.cs` | `Runs` table | `CreateAsync`, `RunAndWaitAsync`, `CancelAsync`, `MarkStartedAsync`, `MarkCompletedAsync`, `FailOrphanedRunsAsync`, `AppendOutputAsync` | agents through `AgentRegistry` and the hub, job steps through `CompletionNotifier` |
| `CompletionNotifier.cs`, `AgentRegistry.cs` | waiters by id; connection by agent | `WaitAsync`, `Complete`; `Set`, `Remove`, `TryGetConnection` | run, transfer and job services |
| `Server/Hubs/AgentHub.cs` | agent id per connection | `Register`, `Report…`, `OnDisconnectedAsync` | run and transfer services; one call of a connection at a time |
| `Agent/CommandRunner.cs`, `OutboundQueue.cs` | `_running`, `_unreported`, a bounded queue of reports | `Start`, `Cancel`, `RunAsync`, `MarkReported`, `Enqueue` | processes of the PC, the outbound pump |
| `Agent/AgentWorker.cs` | current connection, `_registered` | connection loop, `Register`, handlers of the server's calls, outbound pump with retries | hub |
| Jobs: `JobService.cs` | `JobRuns`, `JobTargets` tables, cancel tokens by job | `StartAsync`, `CancelAsync`, `ExecuteAsync`, `ExecuteTargetAsync`, `RecoverInterruptedAsync` | run and transfer services |
| Transfers: `TransferService.cs`, `Api/FileEndpoints.cs` | `Transfers`, `Artifacts` tables, contents of pushes on disk, tokens of relayed copies | dispatch of collect, fetch, push, compress, extract; completion, cancellation, orphaning; relayed copies; saving of edits | agents by hub and HTTP |
| `Agent/FileTransferService.cs` | `_unreported`, `_running`, open write sessions | start, cancel and end of transfers; write sessions; listings and file operations | server by HTTP, the outbound pump |
| Remote control: `Api/RemoteEndpoints.cs`, `PcStatusStore.cs` | pending sessions, who uses which PC | start, attach of two WebSockets, release | agent's remote session |
| Thumbnails, PIN locks: `ThumbnailService.cs`, `PcLockStore.cs` | wants per dashboard, sessions, last pictures, locked PCs | `SetWants`, `AgentOnline`, `AgentOffline`, `Locked`, `PublishAsync` | agents, dashboards |
| Result jobs: `ResultScheduler.cs`, `ResultJobPoller.cs` and their stores | JSON files | start of due schedules, polling of progress | agents |
| Agent updates: `AgentAutoUpdater.cs`, `UpdateService.cs`, `Agent/AgentUpdater.cs` | agents already told | dispatch to idle agents, self-update | agents |
| JSON stores (notes, chat, organisation, favourites, groups…) | one dictionary and one file each | read and replace under one lock | dashboards |
| Media streams, video tools, remote screen, launchers, installers | streams, processes, windows | mostly I/O | |
| Live data: `useDashboard.ts`, `RunOutput.tsx`, `explorer/useTransfers.ts` | lists of PCs, runs, jobs and transfers; output of the run that is watched | history over HTTP joined with live events; restored after a reconnection | dashboard hub, REST |
| Chat, notes, notifications: `ChatPanel.tsx`, `chatRoom.ts`, `NotesPanel.tsx`, `SideHub.tsx` | drafts, what was read, versions of notes, tabs on show | send, invite, mention; save with a version, conflicts; show a tab | hub, REST, other users |
| Explorer and PC tree: `explorer/ExplorerPane.tsx`, `FileExplorer.tsx`, `PcTree.tsx`, `pcLocks.ts` | tabs, history, chosen entries; windows; folders of PCs; PCs unlocked by a PIN | navigate, list, operate, paste; edit the tree; ask a PIN | REST, agents |
| Remote window: `explorer/RemoteModal.tsx`, `remote/sinks.ts`, `remote/fileClipboard.ts` | connection, keys held, full screen, decoder queues, shared clipboard | switch PC, keys, paste, feed frames | WebSocket to the agent |
| Administration: `LoginGate.tsx`, `App.tsx`, `SettingsPage.tsx`, `FolderPermDialog.tsx`, `StatePage.tsx` | tokens of tabs and browser; rights being edited; layout shared by all users | log in and out, tick rights, move PCs, drag the layout | REST, hub |
| Test results: `results/ResultsPage.tsx`, `resultFinder.ts`, `ResultViewer.tsx`, `resultSessions.ts`, `ColumnFilter.tsx`, `resultCsv.ts` | PC, profile and run picked, sessions that load, filters, selection, video played | scan, open, save a set, filter, seek, cut clips | REST, agents |
| Video analysis: `results/VideoAnalysis.tsx`, `videoDetect.ts`, `videoExclude.ts`, `videoMemo.ts`, `videoCycle.ts`, `videoAnalysisState.ts`, `ImageSearch.tsx` | measurements of a job, settings, memos, exclusions, comparison | measure, judge, exclude, compare, search | jobs of the agents |

Behaviours that are hard here:

* The agent's connection fails and comes back at any moment.  What was on its way
  is lost, reports whose answer was lost are sent again, the server learns of the
  end of an old connection after the new one is in use, and both sides repair
  their picture in `Register`.
* The server's handlers run concurrently.  Each reads rows, awaits, and writes
  them back without a transaction over both or a concurrency token; connection
  ids are read before an await and used after it.
* Waiters (`CompletionNotifier`) live in memory and are told once.
* Either process may die: the agent forgets what it runs, the server its waiters,
  tokens and connections, and each must cope with what the other remembers.
* Several handlers can end the same run or transfer: a report, an orphaning, a
  cancellation (for transfers by a timer of eight seconds).

What makes each part correct:

* Runs: the server and the agent agree on who still holds a run; what an agent
  executes is named or has its end recorded; results reach the server; nothing that
  begins after an end was recorded changes it; a waiter wakes, and the agent lets go,
  only after an end was saved; a cancelled run ends.
* Connections: the connection that registered last is the one in use until it ends, and
  the end of another one does not take the agent offline.
* Jobs: the job's state agrees with its targets' states, also after failing
  writes and restarts; steps run in order; the parallelism limit holds; a
  cancelled job ends.
* Transfers: success means that the work ended without an error and every file it found
  is where it belongs; the content of a push exists while it can be fetched, and its
  deletion is tried after; waiters and cancellation as for runs.
* Relayed copies: no half file takes a final name and no file is overwritten; a
  move deletes its source only when all that was listed of it has arrived; the row says
  what the request answered; a copy that is pending or cancelled ends, and leaves neither
  an open session nor a temporary file behind.
* Dashboard: what is shown is what the server has, every line once and in order;
  what a user started reaches what it was started for; nothing of another user's is
  lost; a late answer is not taken for that of another question.
* Video analysis: what is shown is what judging all measurements anew at the same marks
  gives, however they arrived; a screen change within a blink is not reported; what is excluded is left out at its place in every cycle, and nothing else;
  a comparison reports differences only.

## 2. Modules

| module | models |
|---|---|
| `RunContract` | abstract specification: a ledger of runs, what was decided and is not recorded yet, the runs the agent holds and those it said it holds, and how they may change together |
| `CommandRuns` | `RunService`, `CompletionNotifier`, `AgentRegistry`, `AgentHub`, `CommandRunner`, `OutboundQueue`, the connection loop of `AgentWorker`, the SignalR connections; implements `RunContract` |
| `CommandRuns_proof` | theorems about `CommandRuns`, for any interleaving: types, the table, reports, what is tracked and accounted for, the registered connection, who is woken, the refinement of `RunContract` |
| `JobRuns` | `JobService`: one job over its targets |
| `JobRuns_proof` | theorems about `JobRuns` |
| `AgentTransfers` | `TransferService` without the relayed copies, the two HTTP routes of the agent, transfers of `FileTransferService` |
| `AgentTransfers_proof` | theorems about `AgentTransfers` |
| `RelayedCopies` | `CrossCopyAsync` and `CrossCopyFolderAsync` of `TransferService`, the write sessions of `FileTransferService` |
| `RelayedCopies_proof` | theorems about `RelayedCopies` |
| `MessageTheorems` | lemmas about sequences of messages, and the least member of a set of numbers, that these proofs share |
| `RunWatch` | `useDashboard.ts`: the output of a run on show, with the hub connection and the server's side |
| `RunWatch_proof` | theorems about `RunWatch` |
| `DashboardLists` | `useDashboard.ts`, `useTransfers.ts`: any of the lists kept in step with the server |
| `ChatRooms`, `ChatWindow` | rooms with messages and what was read of them; the window with drafts, picks and mentions |
| `NotesPanel`, `SideHub`, `StatePage` | notes of several editors; tabs and notifications; the shared board and its events |
| `NotesPanel_proof` | theorem about `NotesPanel` |
| `ExplorerPane`, `ExplorerPanes`, `PcTree` | a pane with its tabs; windows and PIN questions; the tree of PCs |
| `RemoteView`, `RemoteClipboard` | the remote window and its decoders; copy and paste between PCs |
| `Login`, `SettingsPage` | tokens and tabs; rights and moved PCs |
| `ResultsPage`, `ProfileForm`, `ResultFinder` | the page of results, its form, the search for the runs |
| `ResultSessions`, `ResultDialogs`, `ResultViewer`, `ResultTable` | loading, saving, the viewer with its video and its clips, the table |
| `VideoJobs`, `AnalysisPanel`, `AnalysisDefaults`, `ComparePlayer`, `ImageSearch` | the job that is followed, panel with chart, settings, player, image search |
| `ResultFile`, `VideoDetection`, `VideoExclusions`, `CycleComparison` | the pure algorithms: reading of result files, judgement of measurements, exclusions and memos, comparison of cycles |
| `VideoDetection_proof` | theorems about `VideoDetection` |
| `MCDashboard`, `MCResults`, `MCVideoAnalysis` | instances of the modules of the dashboard for TLC |

### CommandRuns

One agent and any set of runs: every query of the server filters by agent id.
`JobSteps` are the runs that `RunAndWaitAsync` creates, the others come from
`CreateAsync`; they differ in when they look up the connection and in the waiter.

* Server: `run` is the `State` column (`"Orphaned"` is `Failed` with the text of
  `FailOrphanedRunsAsync`), `registry` the agent's entry of `AgentRegistry`,
  `waiter` the notifier's dictionary, `request` and `cancelling` the program
  counters of `CreateAsync`/`RunAndWaitAsync` and of the offline branch of
  `CancelAsync`.  `hub[c]` is the invocation being served for connection c; a
  handler is two steps, `SELECT` and `SaveChanges`, and `Register` three.
* Network: `link` is the connection the agent uses, `alive` those whose
  `OnDisconnectedAsync` is still to come, `up[c]` and `down` the messages on their
  way.  SignalR keeps the order of a connection and loses what is on its way when
  it breaks; the server may still have received a prefix (`UpLost`).
* Agent: `executing`, `started`, `stopping` are `_running` with the state of each
  entry, `unreported`, `queue`, `pump` (the report in `SendAsync`'s hands),
  `registered`, and `registering`, the number of `Register` calls under way.

A restart of the server keeps the table only; a crash of the agent empties the
agent.  Removing a run from `_running` and queueing its result
(CommandRunner.cs:130-132) are one step: a cancel between the two finds the run
in `_unreported` and does nothing, as it does after both.

Any number of operations are under way at once: those of different connections, the
offline branch of `CancelAsync` and the requests interleave between each other's
`SELECT` and `SaveChanges`, and connections are served in any order.  No step makes one
operation wait for another but those of one connection, which SignalR invokes one after
the other.  Three constants select what may happen.  `Cancellable` are the runs a user
cancels from the dashboard.  `Overlap` allows the second `Register` call of the
Reconnected event.  `QueueCap` is the capacity of the queue.

Two history variables say what the code promises in spite of that: `ended`, the runs of
which an end has been saved (what is saved over it later does not take it back), and
`latest`, the connection whose `Register` call set the registry last.  An operation that
read the table before an end was saved writes its own state over that end.  Hence
`RunContract` separates deciding from recording: a report or a cancel is taken only for
a run that has no end, only runs that the agent did not claim are given up, and what was
decided is recorded later, whatever was recorded since; the agent lets a run go only
when an end of it was recorded.  What does not hold in that window is listed in
section 3 (`WokenRunFinished`, `RegisteredIsOnline`).

### JobRuns

`phase` is where `StartAsync` and `ExecuteAsync` are, `worker[a]` where the body
of target a is, `next` and `failed` its step index and failed steps, `cancelled`
the token, `cancellable` membership in `_running`.  `Parallel.ForEachAsync` takes
targets in order while fewer than the limit are in flight and stops taking when a
body has thrown.  `Fault` lets any database call throw: inside the `try` block the
target is to be marked failed, elsewhere the exception ends the body and the loop.
How a step ends is free, and it need not end.

### AgentTransfers

`kind` and `awaited` say what each transfer is (collect and fetch are uploads, a
push is a download, compress and extract are local work) and whether
`CollectAndWaitAsync` or `PushAndWaitAsync` awaits it; both are chosen in the
initial state, as is `found`, the number of files its work finds: any number up to
`MaxFiles` for a collect, none included, one for a fetch or a push, none for local work.
`arrived` counts those in the `Artifacts` table or in place on the PC; the agent uploads
one after the other, its upload may be cut after any of them, and `WorkEnds` may report
success only behind the last.  `worked` and `undeleted` are history: the transfers whose
work ended without an error, and the contents whose deletion failed (`DeletePushContent`
swallows the `IOException`).  `request` is the position in `DispatchAsync` and its callers.
`ops` holds the handlers that have found a transfer pending and are ending it:
`MarkCompletedAsync`, `ForceCancelAsync` and `FailOrphanedAsync` each read, save,
then delete the content and tell the waiter, and any of them may interleave with
any other.  `due` are transfers whose `ForceCancelAsync` is to come, at any time
after the cancel.  `http` is the upload or download.  The connection is that of
`CommandRuns` in a simpler form: the agent has one call to the hub outstanding and
registers once per connection.

### RelayedCopies

Several requests to paste, each of a file or of a folder, to be copied or cut, all
going to one PC and there to one folder; files of the same part number have the
same name, which is where two copies can meet.  A file is its number of pieces of
`CrossCopyChunkSize`: the loop counts pieces, and no code looks at their bytes.

* Server: `step` is where the request is, `cur` its locals (the files still to do,
  the length read when the source was opened, the offset, and the connection looked
  up for this file, and which files were listed), `token` its linked cancellation token,
  `serverRuns` the dictionary `CancelAsync` looks in, `due` the `ForceCancelAsync` to
  come.  A handler of a row of the `Transfers` table reads it in one step and saves it in
  another: `MarkCrossCopyResultAsync` (`mark`, `marking`), `ForceCancelAsync` (`failing`)
  and the orphaning of `Register` (`orphans`) interleave; the history variable `raced` has the
  copies whose row somebody else held as pending when the result was saved.  `ListFolder`
  lists any part of the folder: the agent's listing stops at 5000 entries and leaves out
  system and inaccessible ones, while the end of a cut deletes the folder.  Work of the request
  between two awaits is one step too, and so is an invocation of the source PC,
  which changes nothing there but for the last one, `Delete`.
* Receiving PC: `inbox` holds the invocations on their way to it, in order;
  `sessions` is `_writes`, `temps` the files `NAME.pcm-recv`, `files` the finished
  ones.  A cancelled or broken `InvokeAsync` gives up the answer and does not recall
  the call: the message stays in `inbox` and is handled.  When the connection is
  lost what is in `inbox` is lost, and the sessions stay open; only a crash closes
  them, and it leaves the temporary files.
* Others: `SourceChanges` lets a program write at the source, `Intrude` lets one
  make a file at the destination.  Nobody deletes or changes files at the
  destination.

The source PC's connection is not a variable of its own: `FailOpening` and
`FailCopying` let any read of it fail.  Shares as either end, the mere listing of
folders, `OpenLocalAsync` and `SaveEditAsync` are left out.

### The dashboard

A module of the dashboard holds the state of one part of the page with what it needs
of the server, of the hub connection and of other users.  A handler or an effect of
React that runs between two awaits is one step; a request is a record in a set (or a
sequence, where the connection keeps the order) that is answered, or fails, at any
later time; an announcement of the hub is delivered in order or is lost with the
connection.  State set by several `setState` calls of one handler changes in one step.
Names, texts, times and pictures are small values; where a part computes with times or
rows (the clips of `ResultViewer`, `ImageSearch`, `ResultFile`, `VideoDetection`, `VideoExclusions`,
`CycleComparison`) it does so over small integers with the code's own thresholds
as constants.

* `RunWatch`: a line is its sequence number; `logged` is the log of the run at the server, `up` and `down` the two
  directions of the hub connection, `asked` and `answers` the request for the history,
  `syncs` the restorations that are under way after a reconnection.
* `DashboardLists`: `topic` is the list in question; all are kept by the same steps,
  an announcement that is merged and a reading that replaces.
* `VideoDetection`: the detector as a record `det`, with the thresholds of `feed` taken
  anew from the window before the mark, the hysteresis of a blink's second edge, the
  candidates of screen changes that wait, and the page that feeds it: answers of any number
  of frames, the marks where sections ended, the floor that falls and the setting that
  changes, both of which have all judged again.  `FeedVideo` feeds a detector at each mark.
* `VideoExclusions`, `CycleComparison`, `ResultFile`: functions only, checked by
  `MCVideoAnalysis` against what they are for, over all inputs up to a size.

`MCDashboard` and `MCResults` check many parts in one run.  Parts share no state while
they run: a behaviour is one of a single part, which `part` names, and the variables
`s1`, `s2`, ... are those of that part.  A property of such a run is a conjunction
over the parts; the module that owns a part states and explains its conjunct.

## 3. Runs

| run | instance | states | shows |
|---|---|---|---|
| `command_runs` | a dashboard run that may be cancelled and a job step, 3 connections, all operations interleaved | 988 k | types, `OnlineIsLatest`, `ExecutingTracked`, `UnreportedHasResult`, `WokenAfterEnd`, and that `RunContract` is implemented |
| `command_runs_faults` | a job step, 3 connections, one crash of either process, overlapping registrations too | 95 k | `RunsAreAccountedFor`; `CancelEnds` under fairness |
| `job_runs` | 3 targets, 2 at a time, 2 steps (the first with ContinueOnError), 2 faults, one restart | 84 k | `RunningWithinLimit`, `NoLooseEnds`, `StepsInOrder`; `CancelEnds` under fairness |
| `agent_transfers` | a transfer of any kind and of up to 2 files, awaited or not, 2 connections, one crash | 241 k | `SucceededIsReal`, `ContentIsThere`, `WaitersAreTold`; `CancelEnds` under fairness |
| `relayed_copies` | a folder of up to 2 files of up to 2 pieces, any part of which is listed, is cut, 2 connections, one crash | 738 k | `MoveKeepsListed`, `NoHalfFile`, `RowIsAnswer`; `PendingEnds`, `CancelEnds` under fairness |
| `relayed_copies_pair` | two files of the same name are cut, 3 names, one file made by another program, one change of a source | 4.7 M | `WholeOrNothing`, `NoSessionLeft`, `NeverOverwritten` |
| `run_watch` | a run of 3 lines, 2 of them kept on show, one lost connection, one failed request | 214 k | `ShownIsLog`; `JoinsAgain` under fairness |
| `dashboard` | the 15 other parts of the dashboard, each alone: 2 PCs or folders, a room, 2 texts and 2 lists of files to copy, one other user | 3.9 M | `ShownIsSo`, `ReachesItsPlace`, `OthersAreLeft` |
| `results_pages` | the 8 parts of the page of results: 2 PCs, profiles or sessions | 849 k | `ShownIsOfTheRun`, `TableIsAsSeen`, `TableObeys` |
| `results_analysis` | the 9 parts of the video analysis: a job of two videos of two measurements, charts of up to 4 units, 3 steps in 2 videos | 909 k | `MarkedIsInPlace`, `JobsAreFollowed`, `OnlyWhatWasAsked` |
| `video_analysis` | videos of 6 frames in answers and sections of any size; small files, exclusions, memos and pairs of cycles | 229 k | `JudgedAtMarks`, `NoChangeInBlink`, `FileIsRead`, `ComparisonIsSound`, `LeftOutIsExplained` |
| `notes_reopened` | two notes, 4 versions of one | violation | `LastSaveDoesNotWin` |

Bounds.  Runs and transfers interact only through the agent's queue, the
invocation a connection is busy with, and the sets a `Register` call names, so two
of them show those interactions and one is enough for its own life.  Failures
are allowed only while a connection is left to come back on (`MayFail`).  The runs of
`CommandRuns` have three connections: one to start on, one lost while the first is
still being cleaned up, one to recover on, which is what `OnlineIsLatest` is
about.  Those of the transfers and copies have two: a transfer or a copy uses one
connection, and the second shows the re-registration that orphans it and the recovery.
The queue is larger than the reports of the instance, so no run says anything of one that
overflows; that it may is a known deviation, below.  A collect of two files may find none,
upload one and fail, or upload both; a folder of two files may be listed in part.  Three targets with a limit of two leave one waiting while two run;
two faults let the write of a target and the handler that should repair it both fail.
Two files of two pieces let a copy fail between the pieces of a file and between the
files of a folder.  Three names are one for each of two copies and one for the other
program.  `RunWatch`: three lines of which two are kept let one be dropped from the
top, and one lost connection lets live lines, history and a second joining overlap.
In the dashboard two PCs, rooms, runs or profiles are what an answer of the other one
needs, and two requests under way what a late answer needs.  The room of the chat keeps
fewer messages than are sent (`Kept`), a list that is full included.  Two texts and two
lists of files let a copy be replaced by another while it is on its way.  Two parts are
smaller: one PC can be locked, the other not (two that can be have more than 5 million
states), and one tab logs in, because `NobodyComesBack` is violated by a second tab, which
keeps what it had when the first logs out; `Bounds` in `MCDashboard`
and `MCResults` names the part by part limits on what is on its way.  Videos of six
frames hold a blink, a floor that falls, and a change next to or within the blink, with the
windows and thresholds of `VideoAnalysis.cfg`.  Times of the day pass two midnights, some
cannot be read or go back a little.

Deadlock is not checked: a system whose runs, transfers, jobs or pages are all at
rest may rest, and the bounded number of connections ends behaviours too.

Fairness.  `CommandRuns`: every program counter that is not waiting moves on, the
agent reconnects and registers (`ForeverRetryPolicy`, the 5-second poll), the pump
retries, `OnDisconnectedAsync` runs, a killed process ends, and a user presses
cancel as long as the run goes on.  Nothing makes a process end by itself.
`JobRuns`: the server's steps only; a step need not end.  `AgentTransfers`: the
server's handlers, and a user who cancels; nothing is asked of agent or network,
which is what the timer of `CancelAsync` is for.  `RelayedCopies`: a request goes on,
the receiving PC handles what reaches it, reconnects and registers.  The code has no
timeout for an invocation: that an answer of the source comes, or its connection
fails, is part of "a request goes on", since SignalR ends the invocations of a
connection it has lost.  `RunWatch`: messages and answers are delivered and the
browser reconnects (`withAutomaticReconnect` with its endless policy); nobody has to
print a line, watch or leave.  The other modules of the dashboard state no liveness.

### What does not hold

One finding is reproduced by a run, `notes_reopened`.  `NoteStore.cs:10` refuses a save
that is based on another version, so that the last save does not win.  In `NotesPanel.tsx`
the answer of a save moves the base of the editor on (line 194) also when the note was left
and opened again meanwhile, from a list that still has an older copy of it: the old text
then counts as one of the newest version, and its next save removes what another person
wrote, with no conflict.  A proof attempt of `OthersAreKept` led to it.  The history
variable `late` marks an editor with such a text, and `OthersAreKept` says that no other
save does this; section 4 proves it (`PROJECT.json`, "findings").

Modelling met other places where the code does not do what one of its comments says,
or what one would expect.  Each is a definition of its module, marked "Does not hold",
which no run lists; adding it to a configuration makes TLC show how.

| definition | code | what happens |
|---|---|---|
| `CommandRuns!NoMissedCompletion` | RunService.cs:143-153 | `RunAndWaitAsync` registers its waiter after the run is in the table; a re-registration in between ends the run and tells nobody (a job step, 3 connections) |
| `CommandRuns!UnreportedHasResult` | OutboundQueue.cs:12-17 | holds for a queue that does not overflow; `DropOldest` drops results as well as output (two dashboard runs, a queue of 2) |
| `CommandRuns!ExecutingNotOrphaned` | AgentWorker.cs:98-99, 219-223, 243 | two overlapping `Register` calls orphan a run the agent executes (Overlap) |
| `CommandRuns!WokenRunFinished` | RunService.cs:70, 108, 200 | a save decided on a state read before the end was saved overwrites it: a report of the start that was read as pending over an older connection makes an ended run Running again, and who was woken finds it so |
| `CommandRuns!RegisteredIsOnline` | AgentHub.cs:68 | the `Register` call of an older connection is served after the newer one's: commands go to the older connection, and its end takes the agent offline although it believes it is registered |
| `AgentTransfers!EndIsFinal` | TransferService.cs:783-855 | the end of a transfer is overwritten when the forced cancel and the report of the agent meet |
| `RelayedCopies!MoveKeepsData` | TransferService.cs:447, FileTransferService.cs:17, 55 | the source folder is deleted as it is at the end: what the listing left out, or what was written meanwhile, is nowhere any more |
| `RelayedCopies!FailedIsCleaned` | TransferService.cs:81 | a copy cancelled while `BeginWrite` is on its way leaves the session open and its temporary file locked |
| `RunWatch!SubscriptionsRestored` | useDashboard.ts:281 | a joining that failed is not tried again |
| `DashboardLists!TransfersTracked` | useTransfers.ts:22 | after a lost connection, or where an answer is older than an event, the list is not read again |
| `ChatRooms!OpenRoomIsRead`, `ShownInOrder` | ChatPanel.tsx:98, ChatEndpoints.cs:90 | a room on show may keep unread messages, when its list is full too; messages that are announced in another order than they were stored in stay so |
| `ChatWindow!NothingIsCovered` | ChatPanel.tsx:72 | a text that could not be sent comes back over the next one |
| `ChatWindow!MentionsAsDrawn` | ChatPanel.tsx:48 | of two names one of which begins with the other the text drawn marks the longer, and the request names both (two users) |
| `NotesPanel!LeavesSaved`, `ConflictIsOfOpen` | NotesPanel.tsx:249 | another note is opened although the save failed; a conflict may be asked about a note that is closed |
| `ExplorerPane!VisitsStay`, `ExplorerPanes!ActiveExists` | ExplorerPane.tsx:288, FileExplorer.tsx:185 | the path of a listing is written over whatever visit is the current one when it comes; the window made active may be one that was not opened after all |
| `PcTree!TargetsAreDrawn`, `DeletesOnlyEditable` | remotePcs.ts:37, PcTree.tsx:99 | the Remote view shows PCs that the tree does not draw; a delete takes folders along that the user may not edit |
| `RemoteView!KeysOnlyInFull`, `LiveIsConnected`, `UpIsUp`, `DroppedIsAsked` | RemoteModal.tsx:317, sinks.ts:190 | keys, phase and key frames lag behind full screen, connection and dropped frames |
| `RemoteClipboard!PutHereIsNewest` | fileClipboard.ts:112 | the check comes before the call that sets the clipboard: another copy made in between is overwritten |
| `RemoteClipboard!DeliveredIsThere`, `UploadedIsThere`, `IntoItsFolder` | fileClipboard.ts:15 | what was delivered may have been replaced on the PC since |
| `Login!NobodyComesBack` | App.tsx | holds of one tab; with two, the second keeps the user who logged out in the first |
| `Login!GuideBeforeLogin` | AgentInstallGate.tsx | the guide comes after an automatic login |
| `SettingsPage!TakenWereUnticked`, `EveryTickCounts`, `MovedIsAway` | FolderPermDialog.tsx:139, SettingsPage.tsx:241, 471 | saves made from an older picture undo newer ones |
| `StatePage!AllSeeTheSame`, `LockedStays`, `LastConnectionIsSo`, `EndsAreTold` | StatePage.tsx:132, 252, 273 | the echo that is left out may be older than the layout of another user; a drag goes on in a locked board; a PC that comes back is told nothing of |
| `ResultsPage!OfflineShowsNothing`, `FoundIsOfProfile`, `ShownIsSought` | ResultsPage.tsx | answers that were under way are shown although the PC has gone or its folders were changed; after a change the page does not search again |
| `ProfileForm!RefIsChosen` | ResultsPage.tsx:488 | a folder of images typed before the drives were searched is replaced by the drive's: only the Result folder is looked at |
| `ProfileForm!ClosedByItsOwn` | ResultsPage.tsx:283 | a save of the PC before closes the form that is edited |
| `ResultFinder!ImagesAreOfTheRun`, `EveryRecordingIsOfARun` | resultFinder.ts | where a run left no images the folder of another run of that day is taken; a recording that ends as the next run starts is of none |
| `ResultDialogs!OverwritesTheLast`, `ClosedByItsOwn` | ResultViewer.tsx:2170, 2199 | a late answer brings the older set back, or closes another dialog |
| `ResultSessions!FreshIsOpened` | ResultViewer.tsx:86 | a session may load unseen while the tab shows none |
| `ResultViewer!SoughtWhereMeant` | ResultViewer.tsx:640 | a place asked for in one video is sought in another |
| `ResultTable!SomeValueStays` | ColumnFilter.tsx:149 | Enter applies a filter that hides all |
| `VideoJobs!FollowsFromStart`, `SettingsComeBack` | videoAnalysisState.ts:441, 327 | measurements of another job may be among those of the job that is followed; settings changed are not always back |
| `AnalysisPanel!DragPicksMemo`, `ChosenIsInside`, `WholeStaysWhole` | videoAnalysisState.ts:249, VideoAnalysis.tsx:183, 202 | with the comparison open as well a drag is not of the memo; a drag may start beyond the end; a chart that was moved does not grow with the video |
| `AnalysisDefaults!OthersAreKept`, `OpenOnesFollow` | AnalysisDefaultsForm.tsx:94, 51 | values that could not be read are saved over; other pages do not follow |
| `ComparePlayer!AlwaysGoesOn` | VideoAnalysis.tsx:932 | linked again outside the section, or with the reference before its video, they jump |
| `VideoDetection!MarksDoNotMatter` | videoDetect.ts:427 | the thresholds are those of the window before each mark: other sections give another result |
| `VideoDetection!RejudgedIsSame` | videoAnalysisState.ts:281 | where the last section has no frames or fails, the last mark was judged before the video was known to be over; judged anew it is judged as its end |
| `MCVideoAnalysis!OwnShot`, `MidnightIsSeen` | resultCsv.ts:46, 450 | a row may show the picture of another; a first step past midnight of a run that began before it is a day early, as a time that goes back over a midnight is a day late |

## 4. Proofs

`tlapm` checks every obligation of the eight proof modules.  The theorems hold for
all values of the constants that satisfy the `ASSUME`s of the modules: any runs,
transfers, copies, targets, files, connections, crashes and queue capacities.
Nothing else is assumed except what a theorem states.  Every safety property of the
runs of `CommandRuns`, `JobRuns`, `AgentTransfers`, `RelayedCopies` and `RunWatch` is the
subject of a theorem, and so are two of the others (`JudgedAtMarks`, and `OthersAreKept` of
`NotesPanel`); the inductive invariants were checked by TLC on larger instances
than those of the runs before they were proved.

Hypotheses.  Two occur, each in the statement of the theorem.
`[](Len(queue) < QueueCap)` says that the queue of reports never fills up
(`ResultsCorrect`, `AccountedCorrect`), `[](changes = 0)` that nobody writes to the source
of a cut (`MoveCorrect`).  Without them TLC finds the properties violated, as section 3
says.  Nothing is assumed about the order in which connections are served or operations
of the server follow each other.

### Messages

`MessageTheorems` has the facts about queues of messages that the other proofs
need again and again: that no message of some kind is in a queue, or at most one, or
only messages of some set, that a queue holds a message or holds it once, and how
sending, taking the first and losing some of them keep this.  They are stated for
sequences over any set.

`LeastMember`, that a set of naturals that is not empty has a least member, follows from
a theorem of the library about finite sets without an operator parameter, and takes the
place of induction: of what might be wrong somewhere, the first place is considered.

### CommandRuns

* `TypeCorrect`: `Spec => []TypeOK`, one lemma per group of actions.
* `TableCorrect`, `SentCorrect`: what operations, messages and the agent name is in
  the table, and one report is on its way over the agent's connection: carried up,
  served or answered, it is the pump's own (`SentInv`).  A report under way on an old
  connection may be served as well; its answer reaches nobody.
* `TrackedInvariant`, `TrackedCorrect`: `Spec => []ExecutingTracked`, however
  operations, `Register` calls and crashes interleave.  The danger is
  `MarkStartedAsync`: a save that relies on the state it read before the end was
  recorded puts the run back to Running, and the agent has stopped naming it.  Why this
  does not happen while the run executes (`TrackedInv`): a command is sent once
  (`CommandOnce`); of a run whose command has not come yet nothing is reported but its
  end, after a cancel that overtook the command (`Untouched`); so an end reported of a
  run that is executing is in the queue before its start (`EndFirst`), and the pump
  sends one report at a time; when that end is answered no report of the start has left
  the agent, and there is no save that could overwrite the end (`EndStands`, `LetGo`).
* `ResultsCorrect`, `AccountedCorrect`: while the queue does not overflow, a run the
  agent goes on naming is executing or has its result in the queue or in the pump; with
  `TrackedCorrect` this is `RunsAreAccountedFor`, for interleaved operations and
  overlapping calls.

* `OnlineCorrect`: `Spec => []OnlineIsLatest`.  It needs that connections not yet opened
  are untouched, and that a connection with a call being served has not ended for the
  server (`OnlineInv`): `Register` of a connection cannot come after the
  `OnDisconnectedAsync` of the same one, which is all that SignalR orders.
* `EndedCorrect`, `WokenCorrect`: what the table shows as ended, the answer to
  `ReportCompleted` and a waiter that is gone have a run in `ended` (`EndedInv`): each
  handler saves before it tells, and a run found ended has been ended by a save before.
  That the run still is ended then does not follow, and does not hold.
* `ContractKept`: `Spec => KeepsContract`.  The `SELECT` of an operation is a `Take` or
  `GiveUp` of the contract, its `SaveChanges` a `Record` of what was decided
  (`SavedWasDecided`), a `Register` call on its way a claim (`ClaimsStep`); a `Release`
  is allowed because the answer to a report means that an end was saved
  (`EndedCorrect`).  Every other step is a stutter or loses decisions or claims.

### JobRuns

* `JobInvariant`: `Spec => []JobInv` for any number of targets and
  steps and any faults.  `JobInv` adds to the properties where the bodies are and
  what the tables hold then (`Progress`), what the decided state stands for
  (`VerdictStands`), which steps lie behind a body (`StepsBehind`), and that the
  targets in flight or left in the state Running (`Occupied`) never exceed the
  limit: a target whose last write threw counts for ever, which is why the loop
  must take no further target after an exception.  `NoLooseEndsCorrect`,
  `StepsInOrderCorrect`, `LimitCorrect` and `TypeCorrect` follow from it.

### AgentTransfers

No hypothesis: handlers interleave freely.

* `AgentCorrect`: types and `AgentInv` together.  The types need the invariant:
  `Acked` takes the first of `results`, which is there because an answer on its way is
  the answer to the report of the first result (`ReportInv`), which nobody has removed
  (`ResultsInv`).
* `TableCorrect`, from which `ContentCorrect` and `WaitersCorrect`: a handler ends only
  transfers that are in the table, and who is about to free a transfer has recorded its
  end (`EndsInv`); a push has its content from before its row until its end
  (`PushInv`); a waiter is there from before the row, and is missing only when the end
  is recorded (`WaitInv`).  The races of the handlers do no harm here because each of
  them tries to delete what it has ended after it has saved, whoever saved last; where that
  fails, `undeleted` says so.
* `SuccessCorrect`: that the work ended without an error and all files it found have
  arrived (`Real`) is passed on from the agent's result to its report, to the handler and
  to the row (`RealInv`); what has arrived stays, and no more files are moved than were
  found (`HttpInv`).
* `ForgottenCorrect`: the agent lets go of a transfer only when its end is recorded.
  The answer to a report comes from the handler that serves that very call
  (`ServeInv`), which has found the transfer in the table (`RecordedInv`) and ended it,
  or found it ended (`AckedInv`).

### RelayedCopies

* `RowCorrect`: `Spec => []RowIsAnswer`.  The invariant `RowInv` adds that there is no row
  before `AddRow` and that from `MarkSave` on, while the source is being deleted, the row
  says the result and nobody holds it as pending (`Held`), or it is one of those that were held
  when the result was saved (`raced`) and says the result or Failed.  A handler that reads
  it later finds it ended and leaves it.
* `NeverOverwrittenCorrect`: `Spec => NeverOverwritten`.
* `RelayCorrect`: types and `RelayInv`.  An invocation on its way is the one its request
  awaits, on the connection the request looked up, or the request has failed
  (`MessageInv`); a request has one on its way, and `AbortWrite` after it.  The
  temporary file of a session holds the pieces written so far (`Written`), and no two
  sessions write to one file (`SessionInv`).  The types need it too: a piece is written
  only while `offset < size`, which bounds the length of a temporary file.
* `SessionsCorrect`: a request that failed and knew of its session has closed it, or its
  `AbortWrite` is on its way (`AbortInv`).
* `SourceCorrect`, `WholeCorrect`, `NoHalfCorrect`, `MoveCorrect`: while nobody writes to
  the sources (`changes = 0`, which the properties say themselves; the last theorem has it
  as a hypothesis), every part that was listed is still to come, is the one being copied,
  or is in place with its length (`SourceInv`); `CommitWrite` is on its way only when all
  of the part was read.  A source is deleted after the last listed part, when all of them
  are in place.  Nothing is claimed of what was not listed: `MoveKeepsData`, section 3.

### RunWatch

No hypothesis: any number of lines, of lines kept on show, of lost connections and of
failing calls.

* `NoLineIsLost` (`Covered`): while a viewer is open and no call failed, every line of
  the log has come, or a request for the log or its answer is on its way that will bring
  it, or a batch on its way holds it, or the server is still to send it to the group of
  this connection.  The danger is the gap between the group and the log: a viewer that
  fetched first and joined then would miss what was logged in between.  It is closed
  because the fetch follows the answer to the joining, and a line sent to the group after
  that joining is behind the answer in the same queue.  `Joined` is what this needs of the
  connection: who watches is in the group, or a joining is on its way, or a restoration
  has not come to it yet, or the connection is still to be made.  A lost connection empties the queues; every line is then
  covered by the restoration that is due, or by the fetch of the joining that was rejected.
* `Screen`: what is shown has no line twice, and the panel shows the newest lines of
  those that have come, in order, however history and live lines were mixed.
* `WatchInvariant`, `TypeCorrect`, `ShownCorrect`: the three parts together, the types,
  and `Spec => []ShownIsLog`: when nothing is on its way, what has come is the whole log,
  and the newest of it in order are its end.

The lines of a set in order, `InOrder`, are defined by what they are (`CHOOSE`) instead of by
a sorting procedure.  `CanBeOrdered` and `IncreasingIsUnique` are by `LeastMember`: they
consider the least set that has no order and the first place where two orders differ.

### NotesPanel

* `OthersKept`: `NotesSpec => [][OthersAreKept]_notesVars`, without a hypothesis and
  for any number of versions, edits and reports, which the run bounds.  The invariant says
  of every copy of a note, in the list, in a report, in the conflict that is asked about or
  waiting to be opened, that it has the edits of others that its version has at the server
  (`Current`), and of the text in the editor and of the save on its way that the server
  takes it only if it has those edits too, the user agreed to overwrite that version, or it
  is late (`MaySave`).  What carries it over the answer of a save is that the text in the
  editor has what the save has, or is late (`FollowsInv`); over "overwrite", that a
  conflict of the note being saved is one of the note shown (`SameInv`).

### VideoDetection

* `PageCorrect`, `JudgedCorrect`: `DetectSpec => []JudgedAtMarks`, for any pictures and
  thresholds, any cuts of the measurements into answers and sections, any falls of the
  floor and changes of the setting.  What the page shows comes from a detector that was fed
  step by step, started anew now and then; the reference is one that is fed at all marks at
  once, each time with the frames before the mark, with the floor and the setting of now.
* The invariant (`PageInvariant`) says that before the end the detector is
  `FedFrom(frames, floor, static, marks, 0, 0, Fresh)`, and that marks lie among the frames
  that arrived.  Frames that come later do not change what was fed at an earlier mark
  (`PrefixStays`); feeding on from the marks fed already is feeding at all of them
  (`FedFurther`); a floor that falls makes the page begin with a new detector at the first
  mark, and only then may the floor be another (`FloorCases`, `PublishIs`).  A page that goes on
  at the next mark with the new floor falsifies the property: that is its mutant.
* `StatesExist`, `StatesMeet`: the recursive function by which a detector is fed exists, and
  two of them that agree at one mark and from there on agree at the last.  No induction
  theorem of the library can be used for it; the first place where it would fail is
  considered (`LeastMember`).

What the detector finds is the subject of `NoChangeInBlink`, which TLC checks.

### Model-checked only

* Liveness under fairness (`CancelEnds`, `PendingEnds`, `JoinsAgain`): the prover has
  no rules for `ENABLED`.
* The properties of the other pure algorithms (`MCVideoAnalysis`): these are folds and
  recursive functions over steps and rows, as the code's loops are, and what such a
  definition computes for every input needs induction over data.  Where one function is
  compared with itself, as in `VideoDetection`, the first difference could take its place;
  what these compute is compared with what it is for.
* The other modules of the dashboard (`MCDashboard`, `MCResults`): their properties are
  conjunctions over small instances of many modules.

The modules with theorems and those they extend use no recursive operator.

## 5. Plan

The most consequential behaviour first:

1. done: command runs with the connection, jobs, transfers an agent carries out,
   relayed copies between PCs; the dashboard.
2. done: proofs of every safety property of those four parts of the server and agent.
3. done: the proofs of `RunWatch!ShownIsLog` and `NotesPanel!OthersAreKept`,
   and of `VideoDetection!JudgedAtMarks` among the algorithms; next of the smaller modules of the
   dashboard `Login!NobodyComesBack`, `RemoteClipboard!WaitsIsNewest`,
   `RemoteView!LeavesNoKeys`, `SettingsPage!OnlyWhatWasClicked`.
4. left of the relayed copies: `SaveEditAsync` (the hash that is stale when the file is
   replaced), `OpenLocalAsync`, shares as source or target.
5. not begun: wants, sessions and timers of `ThumbnailService` with the locks of
   `PcLockStore`; `RemoteUsageRegistry` with the sessions of `RemoteEndpoints`; scheduler,
   poller and stores of result jobs; busy check and dispatch of agent updates;
   duplicates of output lines in the run logs.

## 6. Not modelled

Output lines and their log files at the server, progress reports, listings and file
operations of the agent, media streams, the video tools (ffmpeg pipelines and image
arithmetic), the remote screen (Windows graphics and input), installers and launchers,
and of the dashboard its forms, viewers and layout: they are I/O, numeric work or
presentation, or wait for their turn in the plan.  The Linux agent repeats the
connection loop of the Windows one.  `PROJECT.json` lists every part with the reason.
