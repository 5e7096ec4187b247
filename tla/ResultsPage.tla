---------------------------- MODULE ResultsPage ----------------------------
(***************************************************************************)
(* The page of the results of each PC (ResultsPage.tsx with the lists that *)
(* resultFinder.ts remembers): the PC picked, the list of its runs, the    *)
(* run chosen, and the videos and images found for it.  Folders are read   *)
(* by the PC, so an answer may come when another PC is picked, when the PC *)
(* is gone or when its folders are others.                                 *)
(***************************************************************************)
EXTENDS Naturals, Sequences, FiniteSets

CONSTANTS PCs, Folders, Films,       \* PCs, result folders, video folders
          MaxRuns, MaxScans,           \* bounds: runs of a folder, scans made,
          MaxAsks, MaxBuilds           \* answers waited for by runScan and by buildSource

VARIABLES profiles,  \* the folders set for each PC
          online,    \* the PCs that are connected
          page,      \* the PC picked, scanState and runPath
          build,     \* what is found for a run: [run, loading, found]
          scans,     \* the scans made, each [pc, result, out, n: the runs it found, the newest the last]
          cache,     \* the scan remembered for each PC, 0: none
          asks,      \* runScan's that wait: [latest, pc, profile, scan, cached]
          builds     \* buildSource's that wait: [latest, pc, profile, run]

resultsVars == <<profiles, online, page, build, scans, cache, asks, builds>>

None == "none"
NoProfile == [result |-> None, video |-> None]
Profiles == [result : Folders, video : Films]
\* The path of a run says nothing of the PC: two PCs may use the same folders.
NoRun == [result |-> None, n |-> 0]
NoFound == [pc |-> None, video |-> None, run |-> NoRun]
NoBuild == [run |-> NoRun, loading |-> FALSE, found |-> NoFound]
NoScan == [pc |-> None, loading |-> FALSE, failed |-> FALSE, scan |-> 0]
Waits == "waits"
Fails == "fails"
Done == "done"

Picked == page.picked
Profile == IF Picked = None THEN NoProfile ELSE profiles[Picked]
\* scan, runs and run: the run chosen, or the newest.
Scan == IF page.state.pc = Picked THEN page.state.scan ELSE 0
RunsOf(s) == IF s = 0 THEN {} ELSE {[result |-> scans[s].result, n |-> k] : k \in 1..scans[s].n}
Run == IF RunsOf(Scan) = {} THEN NoRun
       ELSE IF page.path \in RunsOf(Scan) THEN page.path
       ELSE [result |-> scans[Scan].result, n |-> scans[Scan].n]
Found == IF build.run = Run THEN build.found ELSE NoFound

ResultsInit ==
  /\ profiles \in [PCs -> {NoProfile} \cup {CHOOSE p \in Profiles : TRUE}]
  /\ online = PCs
  /\ page = [picked |-> None, state |-> NoScan, path |-> NoRun]
  /\ build = NoBuild /\ scans = <<>> /\ cache = [p \in PCs |-> 0]
  /\ asks = {} /\ builds = {}

(***************************************************************************)
(* The list of runs.                                                       *)
(***************************************************************************)
\* scanRuns: the folder is read, and the promise of its list is remembered.
NewScan(pc, profile) ==
  /\ Len(scans) < MaxScans
  /\ scans' = Append(scans, [pc |-> pc, result |-> profile.result, out |-> Waits, n |-> 0])
  /\ cache' = [cache EXCEPT ![pc] = Len(scans')]
Remembered(pc, profile) == cache[pc] # 0 /\ scans[cache[pc]].result = profile.result
Superseded(rs) == {[r EXCEPT !.latest = FALSE] : r \in rs}

\* runScan: what is remembered of the same folder first, unless asked anew.
Rescan(pc, profile, anew) ==
  \/ /\ ~anew /\ Remembered(pc, profile) /\ UNCHANGED <<scans, cache>>
     /\ asks' = Superseded(asks) \cup
          {[latest |-> TRUE, pc |-> pc, profile |-> profile, scan |-> cache[pc], cached |-> TRUE]}
  \/ /\ anew \/ ~Remembered(pc, profile)
     /\ NewScan(pc, profile)
     /\ asks' = Superseded(asks) \cup
          {[latest |-> TRUE, pc |-> pc, profile |-> profile, scan |-> Len(scans'), cached |-> FALSE]}
Scanning(state, pc) ==
  [pc |-> pc, loading |-> TRUE, failed |-> FALSE, scan |-> IF state.pc = pc THEN state.scan ELSE 0]

\* The effect of [selectedId, profileKey, online]: the run is forgotten, and
\* the list of a PC that is connected is read.  What is under way goes on.
OpenPc(pc, profile, on) ==
  \/ /\ pc = None \/ profile = NoProfile
     /\ page' = [picked |-> pc, state |-> NoScan, path |-> NoRun]
     /\ UNCHANGED <<scans, cache, asks>>
  \/ /\ pc # None /\ profile # NoProfile /\ ~on
     /\ page' = [picked |-> pc, state |-> [NoScan EXCEPT !.pc = pc, !.failed = TRUE], path |-> NoRun]
     /\ UNCHANGED <<scans, cache, asks>>
  \/ /\ pc # None /\ profile # NoProfile /\ on
     /\ page' = [picked |-> pc, state |-> Scanning(page.state, pc), path |-> NoRun]
     /\ Rescan(pc, profile, FALSE)

\* The effect of [run?.path, scan], after a step that leaves the build as left.
FindFiles(left) ==
  IF Run' = Run /\ Scan' = Scan THEN build' = left /\ UNCHANGED builds
  ELSE IF Run' = NoRun THEN build' = NoBuild /\ UNCHANGED builds
  ELSE /\ build' = [run |-> Run', loading |-> TRUE, found |-> NoFound]
       /\ builds' = Superseded(builds) \cup
            {[latest |-> TRUE, pc |-> page'.picked, profile |-> Profile', run |-> Run']}

Select(pc) ==
  /\ pc # Picked /\ UNCHANGED <<profiles, online>>
  /\ OpenPc(pc, profiles[pc], pc \in online)
  /\ FindFiles(NoBuild)

\* The folders of a PC are set or removed, here or by another user.
SetProfile(pc, profile) ==
  /\ profiles[pc] # profile
  /\ profiles' = [profiles EXCEPT ![pc] = profile] /\ UNCHANGED online
  /\ IF pc = Picked
     THEN OpenPc(pc, profile, pc \in online) /\ FindFiles(NoBuild)
     ELSE UNCHANGED <<page, build, scans, cache, asks, builds>>

\* A PC is connected or not any more.
Connection(pc) ==
  /\ online' = IF pc \in online THEN online \ {pc} ELSE online \cup {pc}
  /\ UNCHANGED profiles
  /\ IF pc = Picked
     THEN OpenPc(pc, profiles[pc], pc \notin online) /\ FindFiles(NoBuild)
     ELSE UNCHANGED <<page, build, scans, cache, asks, builds>>

Refresh ==
  /\ Picked \in online /\ Profile # NoProfile /\ ~page.state.loading
  /\ page' = [page EXCEPT !.state = Scanning(@, Picked)]
  /\ UNCHANGED <<profiles, online>>
  /\ Rescan(Picked, Profile, TRUE) /\ FindFiles(build)

\* The PC answers with the runs that are in the folder by then; a scan that fails is not remembered, unless another one is by now.
ScanEnds(i) ==
  /\ scans[i].out = Waits
  /\ \/ /\ scans[i].pc \in online
        /\ \E n \in 0..MaxRuns : scans' = [scans EXCEPT ![i].out = Done, ![i].n = n]
        /\ UNCHANGED cache
     \/ /\ scans' = [scans EXCEPT ![i].out = Fails]
        /\ cache' = [p \in PCs |-> IF cache[p] = i THEN 0 ELSE cache[p]]
  /\ UNCHANGED <<profiles, online, page, build, asks, builds>>

\* A bug: an answer is shown without asking whether it is still waited for.
AnyAnswer(r) == TRUE
Latest(r) == r.latest

\* The list is shown if this is still the one waited for.
Shows(a) ==
  /\ asks' = asks \ {a}
  /\ page' = IF ~Latest(a) THEN page
             ELSE [page EXCEPT !.state = [pc |-> a.pc, loading |-> FALSE, failed |-> scans[a.scan].out = Fails,
                                          scan |-> IF scans[a.scan].out = Fails THEN 0 ELSE a.scan],
                               !.path = IF scans[a.scan].out = Fails \/ @ \in RunsOf(a.scan) THEN @ ELSE NoRun]
  /\ UNCHANGED <<scans, cache>>
\* What was remembered has failed or is old: the folder is read after all.
ReadsAfterAll(a) ==
  /\ a.cached /\ NewScan(a.pc, a.profile)
  /\ asks' = (asks \ {a}) \cup {[a EXCEPT !.scan = Len(scans'), !.cached = FALSE]}
  /\ UNCHANGED page
ScanAnswers(a) ==
  /\ scans[a.scan].out # Waits /\ UNCHANGED <<profiles, online>>
  /\ \/ ReadsAfterAll(a)
     \/ (scans[a.scan].out = Fails => ~a.cached) /\ Shows(a)
  /\ FindFiles(build)

(***************************************************************************)
(* The run chosen.                                                         *)
(***************************************************************************)
Choose(run) ==
  /\ page' = [page EXCEPT !.path = run]
  /\ UNCHANGED <<profiles, online, scans, cache, asks>>
  /\ FindFiles(build)

BuildAnswers(b, ok) ==
  /\ builds' = builds \ {b} /\ (ok => b.pc \in online)
  /\ build' = IF ~Latest(b) THEN build
              ELSE [run |-> b.run, loading |-> FALSE,
                    found |-> IF ok THEN [pc |-> b.pc, video |-> b.profile.video, run |-> b.run]
                              ELSE NoFound]
  /\ UNCHANGED <<profiles, online, page, scans, cache, asks>>

ResultsNext ==
  \/ \E pc \in PCs : Select(pc)
  \/ \E pc \in PCs, p \in Profiles \cup {NoProfile} : SetProfile(pc, p)
  \/ \E pc \in PCs : Connection(pc)
  \/ Refresh
  \/ \E i \in DOMAIN scans : ScanEnds(i)
  \/ \E a \in asks : ScanAnswers(a)
  \/ \E r \in RunsOf(Scan) : Choose(r)
  \/ \E b \in builds, ok \in BOOLEAN : BuildAnswers(b, ok)

ResultsSpec == ResultsInit /\ [][ResultsNext]_resultsVars

(***************************************************************************)
(* Properties.                                                             *)
(***************************************************************************)
\* What the page has found, and opens in the new tab, is of the PC and the run it
\* shows: neither a late answer nor another PC with the same paths mixes them up.
FoundIsOfRun == Found # NoFound => Found.pc = Picked /\ Found.run = Run

\* A list that is on show, and not being read, is of the folder set for this PC
\* as long as the PC is connected.
ListIsOfProfile ==
  Picked \in online /\ Profile # NoProfile /\ ~page.state.loading /\ Scan # 0
    => scans[Scan].pc = Picked /\ scans[Scan].result = Profile.result

\* Not so: of a PC that is not connected nothing but that is shown
\* (ResultsPage.tsx:147-150); an answer that was under way still shows its list.
OfflineShowsNothing == Picked # None /\ Picked \notin online => Scan = 0

\* Not so: what is found is of the folders that are set now; a search that was under
\* way as they changed is shown with the old ones.
FoundIsOfProfile == Found # NoFound => Found.video = Profile.video

\* Not so: the page fills in the videos and the images of the run it shows
\* (ResultsPage.tsx:72); after another video folder was set it does not look for them.
ShownIsSought == Picked \in online /\ ~page.state.loading /\ Run # NoRun => build # NoBuild

\* A bound: how many requests wait, those that were given up among them.
FewWait == Cardinality(builds) <= MaxBuilds /\ Cardinality(asks) <= MaxAsks
=============================================================================
