---------------------------- MODULE ResultFinder ----------------------------
(***************************************************************************)
(* How the results of a test are found in the folders of its PC            *)
(* (resultFinder.ts): the runs of the result folder, and for one of them   *)
(* the videos that were recorded while it ran and the folder of its        *)
(* images.  A question is asked once, for any contents of the folders.     *)
(***************************************************************************)
EXTENDS Integers, Sequences, FiniteSets

CONSTANTS Margin,    \* MARGIN
          TwoHours,  \* how long after a run the videos without a time in their name may end
          DayLength,
          Questions, \* what is asked: [ats, files, videos, listings, want, fixed]
          Rows       \* the first and last row of the result at a path: [first, last], or without times

VARIABLE question

None == "none"
NoTime == -1
NoRun == [path |-> 0, stamp |-> NoTime, above |-> <<>>, modified |-> NoTime, match |-> FALSE, readable |-> FALSE]
Min2(a, b) == IF a < b THEN a ELSE b
Max2(a, b) == IF a > b THEN a ELSE b
Distance(a, b) == Max2(a, b) - Min2(a, b)
Day(t) == t \div DayLength

(***************************************************************************)
(* The runs.  A file is [path, stamp: the time its name tells, above: those*)
(* of the folders it is in, the nearest first, modified, match: of the     *)
(* pattern, readable: whether its folder could be listed].                 *)
(***************************************************************************)
\* runTime: the name, then the folders, then the time of the last change.
IsTime(t) == t # NoTime
RunTime(f) ==
  LET known == SelectSeq(<<f.stamp>> \o f.above \o <<f.modified>>, IsTime)
  IN IF known = <<>> THEN NoTime ELSE known[1]

\* listResultFiles: of ATS only the folder itself and its folders named by a time.
Dated(f) == Len(f.above) = 1 /\ IsTime(f.above[1]) /\ f.readable
ResultFiles(ats, files) == {f \in files : f.match /\ (ats => f.above = <<>> \/ Dated(f))}
\* scanRuns, and which of two runs is the newer in its order.
RunsIn(ats, files) == {f \in ResultFiles(ats, files) : IsTime(RunTime(f))}
Newer(f, g) ==
  \/ RunTime(f) > RunTime(g)
  \/ RunTime(f) = RunTime(g) /\ Max2(f.modified, 0) > Max2(g.modified, 0)
Newest(runs) == IF runs = {} THEN NoRun ELSE CHOOSE f \in runs : \A g \in runs : ~Newer(g, f)

\* findRun: the file that is asked for, or the newest of a day, or the newest.
FindRun(runs, want) ==
  IF want.path # 0
  THEN IF \E f \in runs : f.path = want.path THEN CHOOSE f \in runs : f.path = want.path ELSE NoRun
  ELSE Newest({f \in runs : want.day = NoTime \/ Day(RunTime(f)) = want.day})

\* buildSource: from the first to the last row; without them from the time of the run
\* to its last change.
Start(run) == IF IsTime(Rows[run.path].first) THEN Rows[run.path].first ELSE RunTime(run)
End(run) ==
  Max2(Start(run), IF IsTime(Rows[run.path].last) THEN Rows[run.path].last
                   ELSE IF IsTime(run.modified) THEN run.modified ELSE Start(run))
Later(runs, run) == {RunTime(f) : f \in {g \in runs : RunTime(g) > RunTime(run)}}
\* Until when a video without a time may have ended: the start of the next run, if any.
Until(runs, run) ==
  LET late == End(run) + TwoHours
  IN IF Later(runs, run) = {} THEN late
     ELSE Min2(late, CHOOSE t \in Later(runs, run) : \A u \in Later(runs, run) : t <= u)

(***************************************************************************)
(* The videos: [id, from: the time in the name, to: the last change].      *)
(***************************************************************************)
Overlaps(v, run) == v.from <= End(run) + Margin /\ Max2(v.to, v.from) >= Start(run) - Margin
EndsIn(v, runs, run) == IsTime(v.to) /\ v.to >= Start(run) - Margin /\ v.to <= Until(runs, run)
\* listVideos leaves out what this program has cut.
PickVideos(videos, runs, run) ==
  {v \in videos : ~v.trimmed /\ IF IsTime(v.from) THEN Overlaps(v, run) ELSE EndsIn(v, runs, run)}

(***************************************************************************)
(* The folder of the images.  A listing is a record of the folders that    *)
(* are looked at: [own: the folders beside the result file, named: the two *)
(* that most images of the result are in, searched: those found by such a  *)
(* name, fixed: the image folder, dated: what is in it by time, beside:    *)
(* the result's folder and those in it], each a sequence of folders, a     *)
(* folder [dir, images: it could be listed and has images, stamp].         *)
(***************************************************************************)
HasImages(d) == d.images
FirstOf(dirs) == IF SelectSeq(dirs, HasImages) = <<>> THEN None ELSE SelectSeq(dirs, HasImages)[1].dir
\* imageFolderIn: the folder itself, else the first 8 in it.
FolderIn(dirs) == FirstOf(SubSeq(dirs, 1, Min2(9, Len(dirs))))
\* Of the image folder's folders the three nearest in time, of the day of the run.
OfDay(d, run) == IsTime(d.stamp) /\ d.stamp <= End(run) + Margin /\ Day(d.stamp) = Day(Start(run))
NearerOnes(dirs, i, run) ==
  {j \in DOMAIN dirs : OfDay(dirs[j], run)
     /\ \/ Distance(dirs[j].stamp, Start(run)) < Distance(dirs[i].stamp, Start(run))
        \/ Distance(dirs[j].stamp, Start(run)) = Distance(dirs[i].stamp, Start(run)) /\ j < i}
Rank(dirs, i, run) == Cardinality(NearerOnes(dirs, i, run))
NearestOf(dirs, run) ==
  LET usable == {i \in DOMAIN dirs : OfDay(dirs[i], run) /\ Rank(dirs, i, run) < 3 /\ HasImages(dirs[i])}
  IN IF usable = {} THEN None
     ELSE dirs[CHOOSE i \in usable : \A j \in usable : Rank(dirs, i, run) <= Rank(dirs, j, run)].dir

\* findImageDir: the first of these that finds one.
IsDir(d) == d # None
FindImageDir(ats, l, run) ==
  LET ways == <<IF ats THEN FirstOf(l.own) ELSE None, FirstOf(SubSeq(l.named, 1, Min2(2, Len(l.named)))),
                FirstOf(l.searched), FirstOf(l.fixed),
                NearestOf(l.dated, run), FolderIn(l.beside)>>
      found == SelectSeq(ways, IsDir)
  IN IF found = <<>> THEN None ELSE found[1]

BuildSource(q, runs, run) ==
  [run |-> run, videos |-> PickVideos(q.videos, runs, run),
   images |-> FindImageDir(q.ats, q.listings[run.path], run)]

FinderInit == question \in Questions
FinderNext == UNCHANGED question
FinderSpec == FinderInit /\ [][FinderNext]_question

Runs == RunsIn(question.ats, question.files)
Asked == FindRun(Runs, question.want)
Source == BuildSource(question, Runs, Asked)

(***************************************************************************)
(* Properties.                                                             *)
(***************************************************************************)
\* Runs that follow one another, each with rows later than its own time.
InTurn ==
  \A f, g \in Runs : RunTime(f) < RunTime(g) => End(f) + Margin < RunTime(g) /\ RunTime(g) <= Start(g)

\* The videos of a run that follows others are of its time: what was recorded as it
\* ran is among them, whether or not the names tell when; and a recording that was
\* over before it began, or began after it ended, is not.
VideosOfItsTime ==
  Asked # NoRun /\ InTurn =>
    \A v \in question.videos : ~v.trimmed =>
      /\ IsTime(v.to) /\ v.to \in Start(Asked)..End(Asked) /\ v.from <= v.to => v \in Source.videos
      /\ v \in Source.videos => v.to >= Start(Asked) - Margin \/ v.from >= Start(Asked) - Margin
      /\ v \in Source.videos /\ IsTime(v.from) => v.from <= End(Asked) + Margin

\* The newest run is opened when nothing is asked for: no other begins after it.
OpensTheNewest ==
  Runs # {} /\ question.want.path = 0 /\ question.want.day = NoTime
    => Asked \in Runs /\ \A f \in Runs : RunTime(f) <= RunTime(Asked)

\* Not so: the images are of the run; where it left none, the folder of another run
\* of that day is taken (resultFinder.ts:242-249).
ImagesAreOfTheRun ==
  \A f \in Runs : f # Asked => \A i \in DOMAIN question.listings[f.path].dated :
    LET d == question.listings[f.path].dated[i]
    IN d.stamp = RunTime(f) /\ d.stamp # RunTime(Asked) => Source.images # d.dir

\* Not so: every recording is of some run; one without a time in its name that ends
\* between the start of the next run and its first row is of none (resultFinder.ts:282).
EveryRecordingIsOfARun ==
  InTurn => \A v \in question.videos :
    (\E f \in Runs : v.to \in Start(f)..(End(f) + TwoHours)) /\ ~v.trimmed /\ ~IsTime(v.from)
      => \E f \in Runs : v \in PickVideos(question.videos, Runs, f)
=============================================================================
