------------------------------ MODULE VideoJobs ------------------------------
(***************************************************************************)
(* A video analysis or an image search as the dashboard sees it            *)
(* (videoAnalysisState.ts: useVideoAnalysis; imageSearchState.ts:          *)
(* useImageSearch): the agent measures the videos of a job one after the   *)
(* other, the page asks for what is measured and shows it, and a page that *)
(* is opened again takes up the last job of the result.                    *)
(*                                                                         *)
(* The agent, the server's list of jobs and the network are external.      *)
(***************************************************************************)
EXTENDS Integers, SequencesExt, FiniteSetsExt

CONSTANTS Kinds,       \* of jobs: "analysis", "search"
          Films,       \* the videos of a result, in the order of the page
          JobFilms,    \* [job -> Seq(video)]: what a job measures; job 0 is an earlier one, of a schedule
          PerFilm,     \* frames of a video
          Marks,       \* the frames at which a measured section ends
          Take,        \* frames of one answer
          MaxIncidents \* bound: calls that fail, restarts of the agent, changes of the settings, visits

Jobs == DOMAIN JobFilms
Nil == -1
\* Settings: 1.. are changes of the user.
Default == 0
Stored == 100
Project == 101
NoTimer == [job |-> Nil, settings |-> Nil]

VARIABLES kind,        \* analysis or search
          agent,       \* [job -> [state, n]]: frames it has measured
          listed,      \* the server's list of jobs: the settings stored with each, Nil before it is there
          seen,        \* jobs marked as seen
          screen,      \* the page, see Opened
          asked,       \* the page's calls: [what, job, ...]
          loops,       \* [job -> the loop that follows it]
          bound        \* [incidents, visits]; raced: the button came while the last job was looked for

jobVars == <<kind, agent, listed, seen, screen, asked, loops, bound>>

Idle == [at |-> "none", film |-> 1, offset |-> 0, parts |-> <<>>, skipped |-> 0, visit |-> 0]

\* A page that has just been opened: jobRef, shownJobRef, running, status, the settings and what is
\* known of them, the frames, and what was judged of them.
Opened == [open |-> TRUE, follows |-> Nil, shows |-> Nil, running |-> FALSE, status |-> "none",
           settings |-> Default, touched |-> FALSE, project |-> FALSE, timer |-> NoTimer, attached |-> FALSE,
           frames |-> [f \in DOMAIN Films |-> <<>>], marks |-> [f \in DOMAIN Films |-> {}],
           judged |-> [f \in DOMAIN Films |-> [upto |-> 0, by |-> Default]]]

Page == screen.open
All(j) == Len(JobFilms[j]) * PerFilm
Over(state) == state \in {"done", "canceled"}
ToLast(S) == Max(S \cup {0})
Slot(film) == SelectInSeq(Films, LAMBDA f : f = film)

VideoInit ==
  /\ kind \in Kinds
  /\ agent = [j \in Jobs |-> [state |-> IF j = 0 THEN "running" ELSE "none", n |-> IF j = 0 THEN All(0) - 1 ELSE 0]]
  /\ listed = [j \in Jobs |-> IF j = 0 THEN Stored ELSE Nil]
  /\ seen = {} /\ asked = {}
  /\ screen = Opened
  /\ loops = [j \in Jobs |-> Idle]
  /\ bound = [incidents |-> 0, visits |-> 1, raced |-> FALSE]


(***************************************************************************)
(* The agent.                                                              *)
(***************************************************************************)

Measure == \E j \in Jobs :
  /\ agent[j].state = "running" /\ agent[j].n < All(j)
  /\ agent' = [agent EXCEPT ![j].n = @ + 1, ![j].state = IF agent[j].n + 1 = All(j) THEN "done" ELSE @]
  /\ UNCHANGED <<kind, listed, seen, screen, asked, loops, bound>>

\* What the agent sends from a place on: of each video the frames that follow, and whether it ends.
Chunks(j, film, offset) ==
  LET from == (film - 1) * PerFilm + offset
      to == IF agent[j].n < from + Take THEN agent[j].n ELSE from + Take
      begin(f) == (f - 1) * PerFilm
      piece(f) == [film |-> f, offset |-> (IF from < begin(f) THEN begin(f) ELSE from) - begin(f),
                   count |-> (IF to < begin(f + 1) THEN to ELSE begin(f + 1)) - (IF from < begin(f) THEN begin(f) ELSE from),
                   done |-> to >= begin(f + 1)]
  IN [pieces |-> [k \in 1..Cardinality({f \in DOMAIN JobFilms[j] : begin(f) < to /\ begin(f + 1) > from}) |-> piece(film + k - 1)],
      more |-> agent[j].n > to, state |-> agent[j].state]

(***************************************************************************)
(* Judging what has come.                                                  *)
(***************************************************************************)

\* feedVideo: up to the last section that is over, to the end where nothing more will come.
Judged(s, f, close) == [upto |-> IF close THEN Len(s.frames[f]) ELSE ToLast(s.marks[f]), by |-> s.settings]

Publish(s, which, close) ==
  [s EXCEPT !.judged = [f \in DOMAIN Films |-> IF kind = "analysis" /\ s.frames[f] # <<>> /\ (f \in which \/ close)
                                               THEN Judged(s, f, close) ELSE s.judged[f]]]

\* A bug: what came before the settings changed stays judged by the old ones.
Kept(s) == s
Rejudge(s) == Publish(s, DOMAIN Films, ~s.running)

Emptied(s) ==
  [s EXCEPT !.follows = Nil, !.frames = Opened.frames, !.marks = Opened.marks, !.judged = Opened.judged, !.status = "none", !.running = TRUE]

(***************************************************************************)
(* Following a job.                                                        *)
(***************************************************************************)

Follow(s, j) == [s EXCEPT !.follows = j, !.shows = j]
Begin(j) == [Idle EXCEPT !.at = "asks", !.parts = [f \in DOMAIN JobFilms[j] |-> 0], !.visit = bound.visits]
Mine(j) == Page /\ loops[j].visit = bound.visits /\ screen.follows = j

\* append: what is already there is skipped; a video that is not on the page is left out.
Append1(acc, c, j) ==
  LET slot == Slot(JobFilms[j][c.film])
      have == IF slot = 0 THEN acc.skipped ELSE Len(acc.frames[slot])
      skip == IF have > c.offset THEN have - c.offset ELSE 0
      new == [k \in 1..(IF c.count > skip THEN c.count - skip ELSE 0) |-> <<j, c.offset + skip + k>>]
      frames == IF slot = 0 THEN acc.frames ELSE [acc.frames EXCEPT ![slot] = @ \o new]
      marks == {m \in Marks : c.offset < m /\ m <= c.offset + c.count}
      skipped == IF slot = 0 THEN c.offset + c.count ELSE acc.skipped
  IN [frames |-> frames, skipped |-> IF c.done THEN 0 ELSE skipped,
      marks |-> IF slot = 0 THEN acc.marks ELSE [acc.marks EXCEPT ![slot] = @ \cup {m \in marks : m > ToLast(@)}],
      film |-> IF c.done THEN c.film + 1 ELSE c.film,
      offset |-> IF c.done THEN 0 ELSE IF slot = 0 THEN skipped ELSE Len(frames[slot]),
      touched |-> IF slot = 0 THEN acc.touched ELSE acc.touched \cup {slot}]

\* write: at the place of the piece; the frames shown are made of the loop's own parts.
Write1(acc, c, j) ==
  LET parts == [acc.parts EXCEPT ![c.film] = IF @ > c.offset + c.count THEN @ ELSE c.offset + c.count]
  IN [parts |-> parts, film |-> IF c.done THEN c.film + 1 ELSE c.film, offset |-> IF c.done THEN 0 ELSE c.offset + c.count]
Found(j, parts) ==
  [f \in DOMAIN Films |-> LET k == SelectInSeq(JobFilms[j], LAMBDA x : x = Films[f])
                          IN IF k = 0 THEN <<>> ELSE [i \in 1..parts[k] |-> <<j, i>>]]

\* setStatus, and the end: jobRef is free again.
Told(s, answer) ==
  LET over == Over(answer.state) /\ ~answer.more
  IN [s EXCEPT !.status = answer.state, !.running = IF over THEN FALSE ELSE @, !.follows = IF over THEN Nil ELSE @]

Answer(j) ==
  LET answer == Chunks(j, loops[j].film, loops[j].offset)
      over == Over(answer.state) /\ ~answer.more
      take(acc, c) == Append1(acc, c, j)
      put(acc, c) == Write1(acc, c, j)
      got == FoldLeft(take, [frames |-> screen.frames, marks |-> screen.marks, skipped |-> loops[j].skipped, 
                             film |-> loops[j].film, offset |-> loops[j].offset, touched |-> {}], answer.pieces)
      written == FoldLeft(put, [parts |-> loops[j].parts, film |-> loops[j].film, offset |-> loops[j].offset], answer.pieces)
      shown == IF kind = "analysis"
               THEN Publish([screen EXCEPT !.frames = got.frames, !.marks = got.marks], got.touched, over)
               ELSE [screen EXCEPT !.frames = Found(j, written.parts)]
      next == IF kind = "analysis" THEN got ELSE written
  IN /\ loops[j].at = "asks" /\ agent[j].state # "gone"
     /\ IF ~Mine(j) THEN loops' = [loops EXCEPT ![j].at = "none"] /\ UNCHANGED screen
        ELSE /\ screen' = Told(shown, answer)
             /\ loops' = [loops EXCEPT ![j].at = IF over THEN "none" ELSE "asks", ![j].film = next.film, ![j].offset = next.offset,
                                       ![j].parts = IF kind = "search" THEN written.parts ELSE @,
                                       ![j].skipped = IF kind = "analysis" THEN got.skipped ELSE @]
     /\ UNCHANGED <<kind, agent, listed, seen, asked, bound>>

\* Given up: the job is gone or nobody has answered for too long (RETRY_MS, MAX_FAILURES). What has
\* come is judged. The loop does not look whether it is still the one the page follows.
GivenUp(s) == Publish([s EXCEPT !.running = FALSE, !.follows = Nil], {}, TRUE)

GivesUp(j) ==
  /\ loops' = [loops EXCEPT ![j].at = "none"]
  /\ screen' = IF Page /\ loops[j].visit = bound.visits THEN GivenUp(screen) ELSE screen
  /\ UNCHANGED <<kind, agent, listed, seen, asked>>

\* A poll that fails is asked again for a while: only the last one matters here.
Unreachable == \E j \in Jobs :
  /\ loops[j].at = "asks" /\ bound.incidents < MaxIncidents
  /\ bound' = [bound EXCEPT !.incidents = @ + 1]
  /\ GivesUp(j)
Lost == \E j \in Jobs : loops[j].at = "asks" /\ agent[j].state = "gone" /\ UNCHANGED bound /\ GivesUp(j)

\* The agent restarts: its jobs are gone.
AgentRestarts ==
  /\ bound.incidents < MaxIncidents /\ bound' = [bound EXCEPT !.incidents = @ + 1]
  /\ agent' = [j \in Jobs |-> IF agent[j].state = "none" THEN agent[j] ELSE [agent[j] EXCEPT !.state = "gone"]]
  /\ UNCHANGED <<kind, listed, seen, screen, asked, loops>>

(***************************************************************************)
(* Taking up the last job of the result.                                   *)
(***************************************************************************)

Call(what, job, with) == [what |-> what, job |-> job, with |-> with, visit |-> bound.visits]

Attach ==
  /\ Page /\ ~screen.attached
  /\ screen' = [screen EXCEPT !.attached = TRUE]
  /\ asked' = asked \cup {Call("find", Nil, Nil)}
  /\ bound' = [bound EXCEPT !.raced = @ \/ \E c \in asked : c.what = "start"]
  /\ UNCHANGED <<kind, agent, listed, seen, loops>>

LastJob == IF \E j \in Jobs : listed[j] # Nil THEN Max({j \in Jobs : listed[j] # Nil}) ELSE Nil
Current(c) == Page /\ c.visit = bound.visits

FindAnswers == \E c \in asked :
  /\ c.what = "find"
  /\ asked' = (asked \ {c}) \cup (IF Current(c) /\ LastJob # Nil /\ agent[LastJob].state # "gone" /\ screen.follows = Nil
                                  THEN {[c EXCEPT !.what = "params", !.job = LastJob]} ELSE {})
  /\ UNCHANGED <<kind, agent, listed, seen, screen, loops, bound>>

Restored(s, j) == [s EXCEPT !.settings = listed[j], !.touched = TRUE]

ParamsAnswer == \E c \in asked :
  /\ c.what = "params"
  /\ asked' = asked \ {c}
  /\ IF Current(c) /\ screen.follows = Nil
     THEN /\ screen' = [Follow(Emptied(Restored(screen, c.job)), c.job) EXCEPT
                          !.timer = IF listed[c.job] # screen.settings THEN [job |-> c.job, settings |-> listed[c.job]] ELSE @]
          /\ loops' = [loops EXCEPT ![c.job] = Begin(c.job)]
     ELSE UNCHANGED <<screen, loops>>
  /\ UNCHANGED <<kind, agent, listed, seen, bound>>

\* The settings could not be read: an analysis is shown with those of the page, a search is not shown.
ParamsFail == \E c \in asked :
  /\ c.what = "params" /\ bound.incidents < MaxIncidents
  /\ bound' = [bound EXCEPT !.incidents = @ + 1]
  /\ asked' = asked \ {c}
  /\ IF Current(c) /\ screen.follows = Nil /\ kind = "analysis"
     THEN /\ screen' = Follow(Emptied(screen), c.job)
          /\ loops' = [loops EXCEPT ![c.job] = Begin(c.job)]
     ELSE UNCHANGED <<screen, loops>>
  /\ UNCHANGED <<kind, agent, listed, seen>>

(***************************************************************************)
(* The user.                                                               *)
(***************************************************************************)

\* The button is there while nothing is running.
Run == \E j \in Jobs \ {0} :
  /\ Page /\ ~screen.running
  /\ agent[j].state = "none" /\ ~\E c \in asked : c.job = j
  /\ \A i \in Jobs \ {0} : i < j => agent[i].state # "none"
  /\ asked' = (asked \cup {Call("start", j, screen.settings)}) \cup (IF screen.follows = Nil THEN {} ELSE {Call("cancel", screen.follows, Nil)})
  /\ screen' = Emptied(screen)
  /\ bound' = [bound EXCEPT !.raced = @ \/ (\E c \in asked : c.what \in {"find", "params"})]
  /\ UNCHANGED <<kind, agent, listed, seen, loops>>

\* Started and entered into the list with the settings at the time of the button. A page that was
\* left registers the job too; its loop shows nothing.
StartAnswers == \E c \in asked :
  /\ c.what = "start"
  /\ asked' = asked \ {c}
  /\ agent' = [agent EXCEPT ![c.job].state = "running"]
  /\ listed' = [listed EXCEPT ![c.job] = c.with]
  /\ IF Current(c) THEN screen' = Follow(screen, c.job) /\ loops' = [loops EXCEPT ![c.job] = Begin(c.job)] ELSE UNCHANGED <<screen, loops>>
  /\ UNCHANGED <<kind, seen, bound>>

StartFails == \E c \in asked :
  /\ c.what = "start" /\ bound.incidents < MaxIncidents
  /\ bound' = [bound EXCEPT !.incidents = @ + 1]
  /\ asked' = asked \ {c}
  /\ screen' = IF Current(c) THEN [screen EXCEPT !.running = FALSE] ELSE screen
  /\ UNCHANGED <<kind, agent, listed, seen, loops>>

Stop ==
  /\ Page /\ screen.running /\ screen.follows # Nil
  /\ ~\E c \in asked : c.what = "cancel"
  /\ asked' = asked \cup {Call("cancel", screen.follows, Nil)}
  /\ UNCHANGED <<kind, agent, listed, seen, screen, loops, bound>>

Canceled == \E c \in asked :
  /\ c.what = "cancel"
  /\ asked' = asked \ {c}
  /\ agent' = [agent EXCEPT ![c.job].state = IF @ = "running" THEN "canceled" ELSE @]
  /\ UNCHANGED <<kind, listed, seen, screen, loops, bound>>

\* A setting is changed: what has come is judged again, and a second later it is stored with the job.
Edited(s, value) ==
  [Rejudge([s EXCEPT !.settings = value]) EXCEPT
     !.timer = IF s.shows = Nil THEN NoTimer ELSE [job |-> s.shows, settings |-> value]]

Change ==
  /\ Page /\ bound.incidents < MaxIncidents
  /\ bound' = [bound EXCEPT !.incidents = @ + 1]
  /\ screen' = Edited([screen EXCEPT !.touched = TRUE], bound.incidents + 1)
  /\ UNCHANGED <<kind, agent, listed, seen, asked, loops>>

Store ==
  /\ Page /\ screen.timer # NoTimer
  /\ listed' = [listed EXCEPT ![screen.timer.job] = IF @ = Nil THEN @ ELSE screen.timer.settings]
  /\ screen' = [screen EXCEPT !.timer = NoTimer]
  /\ UNCHANGED <<kind, agent, seen, asked, loops, bound>>

\* The project's values have been read: they count where this analysis has none of its own.
ProjectLoaded ==
  /\ Page /\ kind = "analysis" /\ ~screen.project
  /\ screen' = LET s == [screen EXCEPT !.project = TRUE] IN IF s.touched THEN Rejudge(s) ELSE Edited(s, Project)
  /\ UNCHANGED <<kind, agent, listed, seen, asked, loops, bound>>

\* What is over and shown is marked as seen once the panel is open.
Look ==
  /\ Page /\ screen.shows # Nil /\ screen.shows \notin seen /\ Over(screen.status)
  /\ seen' = seen \cup {screen.shows}
  /\ UNCHANGED <<kind, agent, listed, screen, asked, loops, bound>>

\* The page is left: its loops stop at their next look, its timer is cleared, its calls go on.
Leave ==
  /\ Page
  /\ screen' = [screen EXCEPT !.open = FALSE, !.follows = Nil, !.timer = NoTimer]
  /\ UNCHANGED <<kind, agent, listed, seen, asked, loops, bound>>

Open ==
  /\ ~Page /\ bound.incidents < MaxIncidents
  /\ \A j \in Jobs : loops[j].at = "none"
  /\ screen' = Opened
  /\ bound' = [bound EXCEPT !.visits = @ + 1, !.incidents = @ + 1, !.raced = FALSE]
  /\ UNCHANGED <<kind, agent, listed, seen, asked, loops>>

Following == \E j \in Jobs : Answer(j)
VideoNext ==
  \/ Measure \/ Following \/ Unreachable \/ Lost \/ AgentRestarts
  \/ Attach \/ FindAnswers \/ ParamsAnswer \/ ParamsFail
  \/ Run \/ StartAnswers \/ StartFails \/ Stop \/ Canceled
  \/ Change \/ Store \/ ProjectLoaded  \/ Look \/ Leave \/ Open

VideoSpec == VideoInit /\ [][VideoNext]_jobVars

(***************************************************************************)
(* What is promised.                                                       *)
(***************************************************************************)

\* What is shown of the job that is followed is all of what its loop has passed, in order, from the
\* first frame of every video on, and the loop asks for the rest: however the answers were cut, which
\* of its videos the page does not have, and whatever was shown before (follow, append, reset).
Passed(j, f) ==
  LET k == SelectInSeq(JobFilms[j], LAMBDA x : x = Films[f])
      at == loops[j]
  IN IF k = 0 \/ k > at.film THEN 0 ELSE IF k < at.film THEN PerFilm ELSE at.offset
AsksForTheRest ==
  LET j == screen.follows
  IN j # Nil /\ ~bound.raced => \A f \in DOMAIN Films : screen.frames[f] = [i \in 1..Passed(j, f) |-> <<j, i>>]

\* What is judged is judged with the settings that are shown, and up to the last section that is
\* over: a change while frames come in leaves nothing behind.
JudgedAsShown ==
  \A f \in DOMAIN Films : kind = "analysis" /\ screen.frames[f] # <<>> =>
    screen.judged[f].by = screen.settings /\ screen.judged[f].upto >= ToLast(screen.marks[f])

\* A job is marked as seen only when it is over: what the page knows of the job it has left says
\* nothing of the one it follows now (shownJobRef, status).
SeenIsOver == ~bound.raced => \A j \in seen' \ seen : agent[j].state # "running"

\* Does not hold:
\* The comment of follow (videoAnalysisState.ts:441): the results of the job are received from the
\* beginning.
FollowsFromStart == screen.follows # Nil => \A f \in DOMAIN Films, i \in 1..PerFilm :
                      i \in DOMAIN screen.frames[f] => screen.frames[f][i] = <<screen.follows, i>>

\* Does not hold:
\* The comment of the settings effect (videoAnalysisState.ts:327): what is changed is there again
\* when the result is opened again.
SettingsComeBack ==
  Page /\ screen.shows # Nil /\ screen.settings \in 1..MaxIncidents /\ screen.timer = NoTimer /\ asked = {} /\ ~screen.running => listed[screen.shows] = screen.settings
==============================================================================
