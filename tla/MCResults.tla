------------------------------ MODULE MCResults ------------------------------
(***************************************************************************)
(* The parts of the page of test results, on small instances.  They share  *)
(* no state while they run, so a behaviour is one of a single part: part   *)
(* says of which, and s1..s8 are its variables.                            *)
(***************************************************************************)
EXTENDS Integers, Sequences, FiniteSets, TLC

CONSTANTS Parts,     \* the parts that are checked
          Sessions   \* the results that are loaded, for the windows of ResultDialogs

VARIABLES part, s1, s2, s3, s4, s5, s6, s7, s8
allVars == <<part, s1, s2, s3, s4, s5, s6, s7, s8>>

(***************************************************************************)
(* The instances.                                                          *)
(***************************************************************************)
Unknown == -1
Films == <<"b">>
JobFilms == 0 :> <<"x", "b">> @@ 1 :> <<"b">>
Jobs == INSTANCE VideoJobs WITH
  kind <- s1, agent <- s2, listed <- s3, seen <- s4, screen <- s5, asked <- s6, loops <- s7, bound <- s8,
  Kinds <- {"analysis", "search"}, PerFilm <- 2, Marks <- {2}, Take <- 3, MaxIncidents <- 1

FirstStep == 1 :> 0 @@ 2 :> 1
Panel == INSTANCE AnalysisPanel WITH
  panel <- s1, draft <- s2, memos <- s3, steps <- s4, excludes <- s5, clip <- s6, lastId <- s7,
  Places <- {0, 1}, Rows <- <<4, 2>>, MaxNotes <- 1,
  shown <- s1, view <- s2, grip <- s3, chart <- s4, Lengths <- {2, 4}, Lead <- 1     \* of the chart alone

Search == INSTANCE ImageSearch WITH search <- s1, hits <- s2, show <- s3, Sizes <- {1, 2}, MaxHits <- 3

\* Three steps of two videos, or with a place nobody knows; the scores of six frames.
SearchSteps == {[i \in 1..3 |-> [index |-> i, video |-> p[i][1], at |-> p[i][2]]] : p \in [1..3 -> (0..2) \X (0..3)]}
Lengths == <<3, 4>>
Around == [steps : SearchSteps, before : {0, 1}, after : 0..2]
Frames == [scores : [1..6 -> 0..2], gap : 0..2]

Player == INSTANCE ComparePlayer WITH
  pos <- s1, shown <- s2, plays <- s3, link <- s4,
  Length <- 2, CurStart <- 1, RefStart <- 1, SeekDrift <- 1, Jump <- 2, MaxNudge <- 1, MaxAt <- 5

Values == INSTANCE AnalysisDefaults WITH
  stored <- s1, got <- s2, draft <- s3, saving <- s4, saves <- s5,
  Pages <- {"a", "b"}, Keys <- {"x", "y"}, Legal <- {1, 2}, Base <- [k \in {"x", "y"} |-> 1], MaxSaves <- 2

\* Two videos one after the other, and one whose time is not known.
Videos == <<[start |-> 1, length |-> 4], [start |-> 5, length |-> 3], [start |-> Unknown, length |-> 2]>>
Row(t, l) == [time |-> t, length |-> l]
TrimRows == <<Row(0, 1), Row(2, Unknown), Row(3, 2), Row(6, 0)>>
Trim == INSTANCE ResultViewer WITH
  elapsed <- s1, trim <- s2, preview <- s3, cut <- s4, Rows <- TrimRows, Places <- {}, Margins <- {0, 1},
  absolute <- s1, ready <- s2, screen <- s3, ask <- s4, mark <- s5, panels <- s6     \* of the view alone

ViewRows == <<Row(2, 1), Row(2, Unknown), Row(3, 2), Row(6, 0)>>
ResultPlaces == {[video |-> 1, at |-> 0], [video |-> 2, at |-> 3]}
Viewer == INSTANCE ResultViewer WITH
  absolute <- s1, ready <- s2, screen <- s3, ask <- s4, mark <- s5, panels <- s6, Rows <- ViewRows, Places <- ResultPlaces,
  elapsed <- s1, trim <- s2, preview <- s3, cut <- s4, Margins <- {}                 \* of the trimming alone

Step(a, b, cycle, bad) == [cells |-> <<a, b>>, cycle |-> cycle, bad |-> bad]
TableSteps == <<Step(1, 4, 1, FALSE), Step(2, 5, 1, TRUE), Step(3, 4, 2, FALSE)>>
TableText == <<"1", "1", "3", "4", "5">>
Table == INSTANCE ResultTable WITH
  base <- s1, filters <- s2, order <- s3, menu <- s4, list <- s5, sel <- s6, grip <- s7, view <- s8,
  Steps <- TableSteps, Text <- TableText, Terms <- {{2}, {4}}, Lists <- {<<1, 2, 3>>, <<3, 1>>}, Columns <- {1, 2}, Height <- 2

Tabs == INSTANCE ResultSessions WITH
  sessions <- s1, active <- s2, setup <- s3, fetching <- s4, started <- s5,
  Films <- {"a", "b"}, Cut <- "cut", SavedSets <- {"s"}, MaxItems <- 2

Dropped == [pc : {"p"}, kind : {"result", "video", "dir"}] \cup {[pc |-> "q", kind |-> "dir"]}
Dialogs == INSTANCE ResultDialogs WITH
  setup <- s1, remembered <- s2, active <- s3, dialog <- s4, setOf <- s5, sets <- s6, asks <- s7, list <- s8,
  PCs <- {"p", "q"}, Modes <- {"ats", "rfw"}, Items <- Dropped, MaxSets <- 2, MaxAsks <- 2, MaxKept <- 1
SameSessions == Permutations(Sessions)

Page == INSTANCE ResultsPage WITH
  profiles <- s1, online <- s2, page <- s3, build <- s4, scans <- s5, cache <- s6, asks <- s7, builds <- s8,
  PCs <- {"p", "q"}, Folders <- {"f", "g"}, Films <- {"v"}, MaxRuns <- 1, MaxScans <- 2, MaxBuilds <- 2, MaxAsks <- 2

Profile == INSTANCE ProfileForm WITH
  where <- s1, set <- s2, presets <- s3, form <- s4, saves <- s5, drives <- s6, picker <- s7,
  PCs <- {"p", "q"}, Dirs <- {"e"}, Home <- [x \in {"p", "q"} |-> IF x = "p" THEN "d" ELSE "empty"], Presets <- {"s"},
  Others <- {[mode |-> "rfw", result |-> "e", ref |-> "empty"]}

\* Three Result files at most, videos with and without times, the folders of images beside them.
NoTime == -1
File(p, s, a, m, ok) == [path |-> p, stamp |-> s, above |-> a, modified |-> m, match |-> TRUE, readable |-> ok]
First == {File(1, s, a, 4, TRUE) : s \in {NoTime, 1}, a \in {<<>>, <<1>>}}
Second == {File(2, s, <<5>>, 9, ok) : s \in {NoTime, 6}, ok \in BOOLEAN}
Third == {File(3, NoTime, a, m, TRUE) : a \in {<<>>, <<NoTime, 12>>, <<12>>}, m \in {NoTime, 13}}
Recordings == [id : {1}, from : {NoTime, 1, 3, 5, 8}, to : {NoTime, 0, 3, 7, 10, 13}, trimmed : BOOLEAN]
Folder(d, images, stamp) == [dir |-> d, images |-> images, stamp |-> stamp]
Listing(own, named, beside) ==
  [own |-> <<Folder("o", own, NoTime)>>, named |-> <<Folder("n", named, NoTime)>>, searched |-> <<Folder("s", FALSE, NoTime)>>,
   fixed |-> <<>>, dated |-> <<Folder("x", TRUE, 1), Folder("y", FALSE, 6), Folder("z", TRUE, 12)>>,
   beside |-> <<Folder("b", beside, NoTime)>>]
Wants == {[path |-> 0, day |-> NoTime], [path |-> 2, day |-> NoTime], [path |-> 0, day |-> 0]}
Asked(ats, files, video, listing, want) ==
  [ats |-> ats, files |-> files, videos |-> {video}, listings |-> [i \in 1..3 |-> listing], want |-> want]
Questions ==
  {Asked(FALSE, {f, g, h}, v, Listing(TRUE, TRUE, TRUE), w) :
     f \in {x \in First : x.above = <<>>}, g \in {x \in Second : x.readable}, h \in {x \in Third : x.above = <<12>>},
     v \in Recordings, w \in Wants}
  \cup {Asked(ats, {f, g, h}, [id |-> 1, from |-> 1, to |-> 3, trimmed |-> FALSE], Listing(own, named, TRUE), w) :
          ats, own, named \in BOOLEAN, f \in First, g \in Second, h \in Third, w \in Wants}
Spans == <<[first |-> 2, last |-> 4], [first |-> 9, last |-> 10], [first |-> NoTime, last |-> NoTime]>>
Finder == INSTANCE ResultFinder WITH question <- s1, Margin <- 1, TwoHours <- 3, DayLength <- 11, Rows <- Spans

(***************************************************************************)
(* The behaviours.                                                         *)
(***************************************************************************)
Without8 == s8 = 0
Without7 == s7 = 0 /\ Without8
Without6 == s6 = 0 /\ Without7
Without5 == s5 = 0 /\ Without6
Without4 == s4 = 0 /\ Without5
Without2 == s2 = 0 /\ s3 = 0 /\ Without4
Init ==
  /\ part \in Parts
  /\ \/ part = "jobs" /\ Jobs!VideoInit
     \/ part = "panel" /\ Panel!PanelInit /\ Without8
     \/ part = "search" /\ Search!SearchInit /\ Without4
     \/ part = "windows" /\ s1 \in Around /\ Without2
     \/ part = "segments" /\ s1 \in Frames /\ Without2
     \/ part = "player" /\ Player!CompareInit /\ Without5
     \/ part = "chart" /\ Panel!ChartInit /\ Without5
     \/ part = "values" /\ Values!DefaultsInit /\ Without6
     \/ part = "trim" /\ Trim!TrimInit /\ Without5
     \/ part = "viewer" /\ Viewer!ViewerInit /\ Without7
     \/ part = "table" /\ Table!TableInit /\ Without5
     \/ part = "cells" /\ Table!StepInit /\ s1 = 0 /\ s2 = 0 /\ s3 = 0 /\ s4 = 0
     \/ part = "tabs" /\ Tabs!SessionsInit /\ Without6
     \/ part = "dialogs" /\ Dialogs!DialogsInit
     \/ part = "finder" /\ Finder!FinderInit /\ Without2
     \/ part = "page" /\ Page!ResultsInit
     \/ part = "profile" /\ Profile!FormInit /\ Without8

Of(p) == part = p /\ UNCHANGED part
JobsStep == Of("jobs") /\ Jobs!VideoNext
PanelStep == Of("panel") /\ Panel!PanelNext /\ UNCHANGED s8
SearchStep == Of("search") /\ Search!SearchNext /\ UNCHANGED <<s4, s5, s6, s7, s8>>
PureStep == part \in {"windows", "segments"} /\ UNCHANGED allVars
PlayerStep == Of("player") /\ Player!CompareNext /\ UNCHANGED <<s5, s6, s7, s8>>
ChartStep == Of("chart") /\ Panel!ChartNext /\ UNCHANGED <<s5, s6, s7, s8>>
ValuesStep == Of("values") /\ Values!Next /\ UNCHANGED <<s6, s7, s8>>
TrimStep == Of("trim") /\ Trim!TrimNext /\ UNCHANGED <<s5, s6, s7, s8>>
ViewerStep == Of("viewer") /\ Viewer!ViewerNext /\ UNCHANGED <<s7, s8>>
TableStep == Of("table") /\ Table!TableNext /\ UNCHANGED <<s5, s6, s7, s8>>
CellsStep == Of("cells") /\ Table!StepNext /\ UNCHANGED <<s1, s2, s3, s4>>
TabsStep == Of("tabs") /\ Tabs!SessionsNext /\ UNCHANGED <<s6, s7, s8>>
DialogsStep == Of("dialogs") /\ Dialogs!Next
FinderStep == Of("finder") /\ Finder!FinderNext /\ UNCHANGED <<s2, s3, s4, s5, s6, s7, s8>>
PageStep == Of("page") /\ Page!ResultsNext
ProfileStep == Of("profile") /\ Profile!FormNext /\ UNCHANGED s8
Next ==
  \/ JobsStep \/ PanelStep \/ SearchStep \/ PureStep \/ PlayerStep \/ ChartStep \/ ValuesStep \/ TrimStep
  \/ ViewerStep \/ TableStep \/ CellsStep \/ TabsStep \/ DialogsStep \/ FinderStep \/ PageStep \/ ProfileStep
Spec == Init /\ [][Next]_allVars

\* What TLC looks into, see the bounds of each module; the PC that is not shown has come and
\* has its files in one folder.
Bounds ==
  CASE part = "values" -> Values!OneForm
    [] part = "dialogs" -> Dialogs!OneAtWork
    [] part = "page" -> /\ Page!FewWait
                        /\ \A p \in {"p", "q"} \ {Page!Picked} : p \in s2 /\ s1[p].result = "f"
    [] part = "profile" -> Profile!FewSaves
    [] OTHER -> TRUE

(***************************************************************************)
(* Properties: of the analysis of a recording, then of the pages.          *)
(***************************************************************************)

\* What is marked, played and drawn is in its place: the two ends of a memo are of one video, an exclusion does not
\* end before it starts, the area that is searched fits the frame it is searched in, slides wait for the video, all
\* around the steps is searched and what is found there, in runs of frames, listed under the nearest of them, the two
\* videos of a comparison show the same moment, the clip that is cut is a clear one and inside its video
\* (VideoAnalysis.tsx, ImageSearch.tsx, imageSearchState.ts, VideoTrim.tsx).
MarkedIsInPlace ==
  /\ part = "panel" => Panel!OneSection /\ Panel!ExclusionForward /\ Panel!NotesKept
  /\ part = "search" => Search!AreaFits /\ Search!SlidesStandStill
  /\ part = "windows" => /\ Search!WindowsAreExact(s1.steps, s1.before, s1.after, Lengths)
                         /\ Search!ListedUnderTheNearest(s1.steps, s1.before, s1.after, Lengths)
  /\ part = "segments" => Search!SegmentsAreRuns(s1.scores, 1, s1.gap)
  /\ part = "player" => Player!SameMoment
  /\ part = "chart" => Panel!DrawnIsReal
  /\ part = "trim" => Trim!TrimIsClear /\ Trim!CutIsInside

\* The page shows all of the measurements of the job it follows and judges them by the settings it shows, through
\* lost answers, stops, restarts of the agent and visits of the page (videoAnalysisState.ts, videoSearchState.ts).
JobsAreFollowed == part = "jobs" => Jobs!AsksForTheRest /\ Jobs!JudgedAsShown

\* No step of the analysis does what was not asked for: linked again the two videos go on as they stand, the chart
\* follows what is played, a preview stays inside its clip, a save of the values the project judges by changes the
\* edited ones only, and no job is marked as seen before it is over.
OnlyWhatWasAsked ==
  [][/\ part = "player" => Player!GoesOnAsIs
     /\ part = "chart" => Panel!FollowKeepsUp
     /\ part = "trim" => Trim!PreviewStays
     /\ part = "values" => Values!OnlyTheEditedChange
     /\ part = "jobs" => Jobs!SeenIsOver]_allVars

\* What the pages show is of the run, the PC and the set they say: late answers of another run or profile, a second
\* drop or a second click are not taken for it (ResultsPage.tsx, resultFinder.ts, resultSessions.ts, ResultViewer.tsx).
ShownIsOfTheRun ==
  /\ part = "page" => Page!FoundIsOfRun /\ Page!ListIsOfProfile
  /\ part = "profile" => Profile!ResultIsChosen
  /\ part = "tabs" => Tabs!ReadyIsWhole
  /\ part = "dialogs" => Dialogs!OnePcOnly /\ Dialogs!OverwritesItsOwn
  /\ part = "finder" => Finder!VideosOfItsTime /\ Finder!OpensTheNewest

\* The table of steps and the video agree on what is looked at: one panel under the video, the marked step next to
\* what is played, nothing hidden that the menu shows as checked, nothing copied that is out of sight (ResultViewer.tsx,
\* ColumnFilter.tsx, StepTable.tsx).
TableIsAsSeen ==
  /\ part = "viewer" => Viewer!OnePanel /\ Viewer!MarkIsNear
  /\ part = "table" => Table!HiddenIsUnchecked
  /\ part = "cells" => Table!CopiesWhatIsShown

\* A filter applies what its menu shows, a drag of cells never selects rows, the table follows what is played but not
\* against the wheel, and a film that can be played can be until its session is closed.
TableObeys ==
  [][/\ part = "table" => Table!AppliesWhatIsChecked
     /\ part = "cells" => Table!DragKeepsKind /\ Table!PlayingIsInSight
     /\ part = "tabs" => Tabs!KeepsPlaying]_allVars
===============================================================================
