----------------------------- MODULE NotesPanel -----------------------------
(***************************************************************************)
(* The notes that several people edit (NotesPanel.tsx): one panel, its     *)
(* automatic saving, the conflicts the server answers, and the changes of  *)
(* others that are reported to it.  A text is what it contains: how many   *)
(* edits of this user and how many of the others, and the note it was      *)
(* written for.                                                            *)
(***************************************************************************)
EXTENDS Naturals, Sequences

CONSTANTS Notes, MaxVersion, MaxEdits     \* bounds: writes of a note, edits here

None == "none"

VARIABLES server,   \* the notes of the server
          list,     \* the notes as the panel last got them
          editor,   \* the editor: its note and text, what is not saved yet
          flight,   \* the save that is on its way, and what waits for its end
          conflict, \* the newer note the panel asks about
          news,     \* changes of notes, reported in order
          waived    \* history: the version of each note the user agreed to overwrite

notesVars == <<server, list, editor, flight, conflict, news, waived>>

Text(n, mine, theirs) == [of |-> n, mine |-> mine, theirs |-> theirs]
Note(n, v, by, text) == [id |-> n, v |-> v, by |-> by, text |-> text]
NoNote == Note(None, 0, None, Text(None, 0, 0))

Ids == Notes \cup {None}
Texts == [of : Ids, mine : Nat, theirs : Nat]
NoteStates == [id : Ids, v : Nat, by : {"me", "they", None}, text : Texts]

Editors == [active : Ids, id : Ids, base : Nat, text : Texts, dirty : BOOLEAN, edits : Nat,
            late : BOOLEAN]
Flights == [on : BOOLEAN, note : NoteStates, then : {"stop", "save", "open", "saveOpen"},
            to : NoteStates, late : BOOLEAN]

NotesTypeOK ==
  /\ server \in [Notes -> NoteStates] /\ list \in [Notes -> NoteStates]
  /\ editor \in Editors /\ flight \in Flights /\ conflict \in NoteStates
  /\ news \in Seq(NoteStates) /\ waived \in [Notes -> Nat]

NoFlight == [on |-> FALSE, note |-> NoNote, then |-> "stop", to |-> NoNote, late |-> FALSE]

NotesInit ==
  /\ server = [n \in Notes |-> Note(n, 1, "they", Text(n, 0, 0))]
  /\ list = server
  /\ editor = [active |-> None, id |-> None, base |-> 0, text |-> NoNote.text,
               dirty |-> FALSE, edits |-> 0, late |-> FALSE]
  /\ flight = NoFlight /\ conflict = NoNote /\ news = <<>>
  /\ waived = [n \in Notes |-> 0]

(* showNote.  A history variable says that the note is shown as it was     *)
(* before the save of it that is on its way.                               *)
IsLate(f, note) == f.on /\ f.note.id = note.id /\ note.v <= f.note.v
Shown(e, f, note) ==
  [e EXCEPT !.id = note.id, !.base = note.v, !.text = note.text, !.dirty = FALSE,
            !.late = IsLate(f, note)]
Opened(e, f, note) == [Shown(e, f, note) EXCEPT !.active = note.id]

(* The editor's text as a save sends it, against the version it is from.   *)
Sending(e) == Note(e.id, e.base, "me", e.text)

(* save(): nothing to do, or a new save, or one more after the one that is *)
(* on its way.                                                             *)
Save(e, f, force) ==
  IF e.id = None \/ (~e.dirty /\ ~force) THEN f
  ELSE IF f.on THEN [f EXCEPT !.then = IF @ \in {"open", "saveOpen"} THEN "saveOpen" ELSE "save"]
  ELSE [NoFlight EXCEPT !.on = TRUE, !.note = Sending(e), !.late = e.late]
Starts(e, f, force) == e.id # None /\ (e.dirty \/ force) /\ ~f.on
Cleaned(e, f, force) == IF Starts(e, f, force) THEN [e EXCEPT !.dirty = FALSE] ELSE e

Type ==
  /\ editor.active # None /\ editor.edits < MaxEdits
  /\ editor' = [editor EXCEPT !.dirty = TRUE, !.edits = @ + 1, !.text.mine = editor.edits + 1]
  /\ UNCHANGED <<server, list, flight, conflict, news, waived>>

(* The editor loses the focus, the time to save comes, a new tab is opened.*)
Saves ==
  /\ editor.dirty
  /\ flight' = Save(editor, flight, FALSE)
  /\ editor' = Cleaned(editor, flight, FALSE)
  /\ UNCHANGED <<server, list, conflict, news, waived>>

(* A click on a note of the list, or a new note: what is not saved is      *)
(* saved first, then the note is shown as the list had it at the click.    *)
Open(n) ==
  /\ n # editor.active /\ list[n].v > 0
  /\ flight.then \notin {"open", "saveOpen"}
  /\ IF ~editor.dirty \/ editor.id = None
     THEN /\ editor' = Opened(editor, flight, list[n]) /\ conflict' = NoNote /\ UNCHANGED flight
     ELSE /\ editor' = Cleaned(editor, flight, FALSE)
          /\ flight' = [Save(editor, flight, FALSE) EXCEPT !.to = list[n],
                          !.then = IF flight.on THEN "saveOpen" ELSE "open"]
          /\ UNCHANGED conflict
  /\ UNCHANGED <<server, list, news, waived>>

(* What runs when the save has ended: the waiting save of what was written *)
(* meanwhile, and the note that was clicked.                               *)
Ended(e, f, c) ==
  IF f.then \in {"save", "saveOpen"} /\ e.dirty /\ e.id # None
  THEN /\ flight' = [NoFlight EXCEPT !.on = TRUE, !.note = Sending(e), !.late = e.late, !.to = f.to,
                       !.then = IF f.then = "save" THEN "stop" ELSE "open"]
       /\ editor' = [e EXCEPT !.dirty = FALSE] /\ conflict' = c
  ELSE IF f.then \in {"open", "saveOpen"}
  THEN flight' = NoFlight /\ editor' = Opened(e, NoFlight, f.to) /\ conflict' = NoNote
  ELSE flight' = NoFlight /\ editor' = e /\ conflict' = c

(* The editor when the save was taken: the version it is from moves on.    *)
Rebased(e, id, v) == IF e.id = id THEN [e EXCEPT !.base = v] ELSE e

(* The server takes the text if the note is still the version it is from.  *)
Taken(n) == flight.on /\ flight.note.id = n /\ server[n].v = flight.note.v

SaveTaken(n) ==
  LET saved == Note(n, server[n].v + 1, "me", flight.note.text) IN
  /\ Taken(n) /\ server[n].v < MaxVersion
  /\ server' = [server EXCEPT ![n] = saved]
  /\ list' = [list EXCEPT ![n] = saved]
  /\ news' \in {Append(news, saved), news}     \* its report may come before the answer
  /\ Ended(Rebased(editor, n, saved.v), flight, conflict)
  /\ UNCHANGED waived

(* The editor when the save was refused: its text is not saved, and still  *)
(* one of the version it is from.                                          *)
Refused(e, note) == [e EXCEPT !.dirty = TRUE]

SaveRefused(n) ==
  /\ flight.on /\ flight.note.id = n /\ ~Taken(n) /\ server[n].v > 0
  /\ Ended(Refused(editor, server[n]), flight, server[n])
  /\ UNCHANGED <<server, list, news, waived>>

SaveFails ==
  /\ flight.on
  /\ Ended([editor EXCEPT !.dirty = TRUE], flight, conflict)
  /\ UNCHANGED <<server, list, news, waived>>

(* Another person edits the note as the server has it, or deletes it.      *)
OtherEdits(n) ==
  LET note == Note(n, server[n].v + 1, "they",
                   [server[n].text EXCEPT !.theirs = @ + 1]) IN
  /\ server[n].v \in 1..(MaxVersion - 1)
  /\ server' = [server EXCEPT ![n] = note]
  /\ news' = Append(news, note)
  /\ UNCHANGED <<list, editor, flight, conflict, waived>>

OtherDeletes(n) ==
  /\ server[n].v > 0
  /\ server' = [server EXCEPT ![n].v = 0]
  /\ news' = Append(news, [server[n] EXCEPT !.v = 0])
  /\ UNCHANGED <<list, editor, flight, conflict, waived>>

(* A report arrives (subscribeNotes).                                      *)
IsNewer(note) == editor.id = note.id /\ note.v > editor.base
Reported ==
  LET note == Head(news) IN
  /\ news # <<>> /\ news' = Tail(news)
  /\ list' = [list EXCEPT ![note.id] = note]
  /\ IF note.v = 0
     THEN IF editor.id = note.id
          THEN editor' = Opened(editor, flight, NoNote) /\ conflict' = NoNote
          ELSE UNCHANGED <<editor, conflict>>
     ELSE IF ~IsNewer(note) \/ (flight.on /\ note.by = "me") THEN UNCHANGED <<editor, conflict>>
     ELSE IF editor.dirty \/ flight.on THEN conflict' = note /\ UNCHANGED editor
     ELSE editor' = Shown(editor, flight, note) /\ conflict' = NoNote
  /\ UNCHANGED <<server, flight, waived>>

(* The connection was lost and is back: the list is loaded again.          *)
Reconnected ==
  /\ list' = server /\ news' = <<>>
  /\ UNCHANGED <<server, editor, flight, conflict, waived>>

(* The answers to a conflict.                                              *)
TakeTheirs ==
  /\ conflict # NoNote
  /\ editor' = Shown(editor, flight, conflict) /\ conflict' = NoNote
  /\ UNCHANGED <<server, list, flight, news, waived>>

KeepMine ==
  LET e == [editor EXCEPT !.id = conflict.id, !.base = conflict.v] IN
  /\ conflict # NoNote
  /\ flight' = Save(e, flight, TRUE)
  /\ editor' = Cleaned(e, flight, TRUE)
  /\ conflict' = NoNote
  /\ waived' = [waived EXCEPT ![conflict.id] = IF @ < conflict.v THEN conflict.v ELSE @]
  /\ UNCHANGED <<server, list, news>>

(* [Delete] of the note that is open, confirmed; it may fail.              *)
Delete(reached) ==
  LET n == editor.active IN
  /\ n # None /\ list[n].v > 0
  /\ IF reached /\ server[n].v > 0
     THEN /\ server' = [server EXCEPT ![n].v = 0]
          /\ list' = [list EXCEPT ![n].v = 0]
          /\ editor' = Opened(editor, flight, NoNote) /\ conflict' = NoNote
     ELSE /\ editor' = [editor EXCEPT !.dirty = FALSE]
          /\ UNCHANGED <<server, list, conflict>>
  /\ UNCHANGED <<flight, news, waived>>

NotesNext ==
  \/ Type
  \/ Saves
  \/ \E n \in Notes : Open(n)
  \/ \E n \in Notes : SaveTaken(n)
  \/ \E n \in Notes : SaveRefused(n)
  \/ SaveFails
  \/ \E n \in Notes : OtherEdits(n)
  \/ \E n \in Notes : OtherDeletes(n)
  \/ Reported
  \/ Reconnected
  \/ TakeTheirs
  \/ KeepMine
  \/ \E reached \in BOOLEAN : Delete(reached)

(* Bounds of the runs: the reports that wait, and the edits here with the  *)
(* writes and deletions of both notes together.                            *)
Writes(n) == IF server[n].v = 0 THEN 2 ELSE server[n].v
FewNews ==
  /\ Len(news) <= 1
  /\ \A n, m \in Notes : n # m => editor.edits + Writes(n) + Writes(m) <= MaxVersion + 2

NotesSpec == NotesInit /\ [][NotesNext]_notesVars

(* A save of this panel takes away an edit of another person that the user *)
(* was not told of, or did not choose to overwrite.                        *)
Overwrites(n) ==
  server'[n].v > 0 /\ server'[n].text.theirs < server[n].text.theirs /\ server[n].v > waived[n]

(* No save does: not one that waited for another, not one of a note that   *)
(* was left and opened again, not one whose conflict came while the user   *)
(* went on writing; but for a text that came into the editor as a save of  *)
(* the same note was on its way, see LastSaveDoesNotWin.                   *)
OthersAreKept == \A n \in Notes : Overwrites(n) => flight.late

(* Does not hold:                                                          *)
(* A note that was changed by another is not overwritten by the save that  *)
(* comes last (NoteStore.cs:10).  The answer of a save moves the editor on *)
(* to the version that was saved even if the note was opened again since,  *)
(* with an older text (NotesPanel.tsx:194): the next save is then taken.   *)
LastSaveDoesNotWin == [][\A n \in Notes : ~Overwrites(n)]_notesVars

(* What was written is saved when another note is opened (the comment      *)
(* "when the window closes or another note is opened, save",               *)
(* NotesPanel.tsx:249).  Does not hold: the other note is opened also when *)
(* the save has failed or has met a newer version, and the text is gone.   *)
LeavesSaved ==
  [][editor'.active # editor.active /\ editor'.active # None /\ editor.id # None
     /\ editor.edits > 0 /\ editor.text.mine = editor.edits /\ server[editor.id].v > 0
     => \/ server'[editor.id].text.mine >= editor.text.mine
        \/ flight'.on /\ flight'.note.id = editor.id /\ flight'.note.text.mine = editor.text.mine]_notesVars

(* Does not hold:                                                          *)
(* The conflict that is asked about is one of the note that is open.       *)
ConflictIsOfOpen == conflict # NoNote => conflict.id = editor.active
=============================================================================
