--------------------------- MODULE NotesPanel_proof ---------------------------
(***************************************************************************)
(* Proof of OthersAreKept of NotesPanel, for any notes, any number of      *)
(* edits and reports, saves and conflicts.  The inductive invariant says   *)
(* of every copy of a note, wherever the panel keeps it, that it is as the *)
(* server has or had it, and of every text that is sent or may be sent     *)
(* that the server takes it only if it takes away nothing that the user    *)
(* does not know of.                                                       *)
(***************************************************************************)
EXTENDS NotesPanel, TLAPS

(* A copy m of a note that the server has at the version of m is the same  *)
(* as far as the edits of others are concerned.                            *)
Current(s, m) ==
  \/ s[m.id].v = 0
  \/ m.v < s[m.id].v
  \/ m.v = s[m.id].v /\ m.text.theirs = s[m.id].text.theirs

(* A copy that may be shown.                                               *)
Shows(s, m) == m.id \in Notes /\ m.v > 0 /\ Current(s, m)

(* A text that may be saved: if the server takes it, because its version   *)
(* is the one the text is from, it loses nothing unknown to the user.      *)
MaySave(s, w, m, late) ==
  /\ m.v > 0
  /\ \/ s[m.id].v = 0
     \/ m.v < s[m.id].v
     \/ /\ m.v = s[m.id].v
        /\ s[m.id].text.theirs <= m.text.theirs \/ m.v <= w[m.id] \/ late

CopiesInv ==
  /\ \A n \in Notes : server[n].id = n /\ list[n].id = n /\ Current(server, list[n])
  /\ \A i \in 1..Len(news) : news[i].id \in Notes /\ Current(server, news[i])
AskedInv == conflict # NoNote => Shows(server, conflict)
WaitsInv == flight.then \in {"open", "saveOpen"} => Shows(server, flight.to)
SavesInv ==
  /\ editor.id # None => MaySave(server, waived, Sending(editor), editor.late)
  /\ flight.on => /\ flight.note.id # None
                  /\ MaySave(server, waived, flight.note, flight.late)

(* The text in the editor has what the save on its way has.                *)
Follows(s, e, f) ==
  f.on /\ e.id = f.note.id /\ f.note.v = s[e.id].v =>
    e.late \/ f.note.text.theirs <= e.text.theirs
FollowsInv == Follows(server, editor, flight)

(* A conflict of the note that is being saved is one of the note shown.    *)
SameInv == flight.on /\ conflict.id = flight.note.id => editor.id = conflict.id

NotesInv ==
  CopiesInv /\ AskedInv /\ WaitsInv /\ SavesInv /\ FollowsInv /\ SameInv

(* What a save sends, and what the panel shows, are records of their kind. *)
LEMMA SentTypes ==
  /\ NoFlight \in Flights /\ NoNote \in NoteStates
  /\ \A e \in Editors : Sending(e) \in NoteStates
<1>1. NoNote \in NoteStates /\ \A e \in Editors : Sending(e) \in NoteStates
  BY DEF NoNote, Sending, Note, Text, NoteStates, Texts, Editors, Ids
<1>. QED  BY <1>1 DEF NoFlight, Flights

(* A text stays a text as a count in it changes.                            *)
LEMMA TextTypes ==
  ASSUME NEW t \in Texts
  PROVE  /\ t.mine \in Nat /\ t.theirs \in Nat
         /\ \A k \in Nat : [t EXCEPT !.mine = k] \in Texts /\ [t EXCEPT !.theirs = k] \in Texts
BY DEF Texts

(* The editor that shows a note.                                           *)
LEMMA PanelTypes ==
  ASSUME NEW e \in Editors, NEW f \in Flights, NEW m \in NoteStates
  PROVE  Shown(e, f, m) \in Editors /\ Opened(e, f, m) \in Editors
<1>1. IsLate(f, m) \in BOOLEAN
  BY DEF IsLate
<1>2. Shown(e, f, m) \in Editors
  BY <1>1 DEF Shown, Editors, NoteStates
<1>3. Opened(e, f, m) \in Editors
  BY <1>2 DEF Opened, Editors, NoteStates
<1>. QED  BY <1>2, <1>3

(* save() keeps the records of the editor and of the save.                 *)
LEMMA SaveTypes ==
  ASSUME NEW e \in Editors, NEW f \in Flights, NEW force \in BOOLEAN
  PROVE  Save(e, f, force) \in Flights /\ Cleaned(e, f, force) \in Editors
<1>1. NoFlight \in Flights /\ Sending(e) \in NoteStates /\ e.late \in BOOLEAN
  BY SentTypes DEF Editors
<1>2. [NoFlight EXCEPT !.on = TRUE, !.note = Sending(e), !.late = e.late] \in Flights
  BY <1>1 DEF Flights
<1>3. [f EXCEPT !.then = IF @ \in {"open", "saveOpen"} THEN "saveOpen" ELSE "save"] \in Flights
  BY DEF Flights
<1>4. [e EXCEPT !.dirty = FALSE] \in Editors
  BY DEF Editors
<1>. QED  BY <1>2, <1>3, <1>4 DEF Save, Cleaned

(* What runs when a save has ended keeps them, too.                        *)
LEMMA EndedTypes ==
  ASSUME NEW e \in Editors, NEW f \in Flights, NEW c \in NoteStates, Ended(e, f, c)
  PROVE  editor' \in Editors /\ flight' \in Flights /\ conflict' \in NoteStates
<1>1. NoFlight \in Flights /\ NoNote \in NoteStates /\ Sending(e) \in NoteStates
      /\ f.to \in NoteStates /\ e.late \in BOOLEAN
  BY SentTypes DEF Editors, Flights
<1>2. Opened(e, NoFlight, f.to) \in Editors
  BY <1>1, PanelTypes
<1>3. [e EXCEPT !.dirty = FALSE] \in Editors
  BY DEF Editors
<1>4. [NoFlight EXCEPT !.on = TRUE, !.note = Sending(e), !.late = e.late, !.to = f.to,
         !.then = IF f.then = "save" THEN "stop" ELSE "open"] \in Flights
  BY <1>1 DEF Flights
<1>. QED  BY <1>1, <1>2, <1>3, <1>4 DEF Ended

(* Every step keeps the types.                                             *)
LEMMA NotesTypeStep == NotesTypeOK /\ [NotesNext]_notesVars => NotesTypeOK'
<1>. SUFFICES ASSUME NotesTypeOK, [NotesNext]_notesVars
              PROVE  NotesTypeOK'
  OBVIOUS
<1>. USE DEF NotesTypeOK
<1>1. CASE Type
  <2>0. editor.edits + 1 \in Nat /\ editor.text \in Texts
    BY DEF Editors
  <2>1. [editor.text EXCEPT !.mine = editor.edits + 1] \in Texts
    BY <2>0, TextTypes
  <2>2. [editor EXCEPT !.dirty = TRUE, !.edits = editor.edits + 1,
           !.text = [editor.text EXCEPT !.mine = editor.edits + 1]] \in Editors
    BY <2>0, <2>1 DEF Editors
  <2>3. editor' = [editor EXCEPT !.dirty = TRUE, !.edits = editor.edits + 1,
                     !.text = [editor.text EXCEPT !.mine = editor.edits + 1]]
    BY <1>1 DEF Type, Editors
  <2>. QED  BY <1>1, <2>2, <2>3 DEF Type
<1>2. CASE Saves
  BY <1>2, SaveTypes DEF Saves
<1>3. ASSUME NEW n \in Notes, Open(n)
      PROVE  NotesTypeOK'
  <2>1. list[n] \in NoteStates /\ NoNote \in NoteStates
    BY SentTypes
  <2>2. Opened(editor, flight, list[n]) \in Editors
    BY <2>1, PanelTypes
  <2>3. /\ Save(editor, flight, FALSE) \in Flights
        /\ Cleaned(editor, flight, FALSE) \in Editors
    BY SaveTypes
  <2>4. [Save(editor, flight, FALSE) EXCEPT !.to = list[n],
           !.then = IF flight.on THEN "saveOpen" ELSE "open"] \in Flights
    BY <2>1, <2>3 DEF Flights
  <2>. QED  BY <1>3, <2>1, <2>2, <2>3, <2>4 DEF Open
<1>4. ASSUME NEW n \in Notes, SaveTaken(n)
      PROVE  NotesTypeOK'
  <2>. DEFINE saved == Note(n, server[n].v + 1, "me", flight.note.text)
  <2>1. saved \in NoteStates
    BY DEF Note, NoteStates, Flights, Ids
  <2>2. Rebased(editor, n, saved.v) \in Editors
    BY <2>1 DEF Rebased, Editors, NoteStates
  <2>3. Ended(Rebased(editor, n, saved.v), flight, conflict)
    BY <1>4 DEF SaveTaken
  <2>4. editor' \in Editors /\ flight' \in Flights /\ conflict' \in NoteStates
    BY <2>2, <2>3, EndedTypes
  <2>5. server' \in [Notes -> NoteStates] /\ list' \in [Notes -> NoteStates]
    BY <1>4, <2>1 DEF SaveTaken
  <2>. HIDE DEF saved
  <2>6. Append(news, saved) \in Seq(NoteStates)
    BY <2>1
  <2>. QED  BY <1>4, <2>4, <2>5, <2>6 DEF SaveTaken, saved
<1>5. ASSUME NEW n \in Notes, SaveRefused(n)
      PROVE  NotesTypeOK'
  <2>1. Refused(editor, server[n]) \in Editors /\ server[n] \in NoteStates
    BY DEF Refused, Editors
  <2>2. editor' \in Editors /\ flight' \in Flights /\ conflict' \in NoteStates
    BY <1>5, <2>1, EndedTypes DEF SaveRefused
  <2>. QED  BY <1>5, <2>2 DEF SaveRefused
<1>6. CASE SaveFails
  <2>1. [editor EXCEPT !.dirty = TRUE] \in Editors
    BY DEF Editors
  <2>2. editor' \in Editors /\ flight' \in Flights /\ conflict' \in NoteStates
    BY <1>6, <2>1, EndedTypes DEF SaveFails
  <2>. QED  BY <1>6, <2>2 DEF SaveFails
<1>7. ASSUME NEW n \in Notes, OtherEdits(n)
      PROVE  NotesTypeOK'
  <2>. DEFINE note == Note(n, server[n].v + 1, "they", [server[n].text EXCEPT !.theirs = @ + 1])
  <2>1. note \in NoteStates
    <3>1. server[n].v + 1 \in Nat /\ server[n].text \in Texts
      BY DEF NoteStates
    <3>2. server[n].text.theirs + 1 \in Nat
      BY <3>1, TextTypes
    <3>3. [server[n].text EXCEPT !.theirs = @ + 1] \in Texts
      BY <3>1, <3>2, TextTypes
    <3>. QED  BY <3>1, <3>3 DEF Note, NoteStates, Ids
  <2>. HIDE DEF note
  <2>2. server' = [server EXCEPT ![n] = note] /\ news' = Append(news, note)
        /\ UNCHANGED <<list, editor, flight, conflict, waived>>
    BY <1>7 DEF OtherEdits, note
  <2>. QED  BY <2>1, <2>2
<1>8. ASSUME NEW n \in Notes, OtherDeletes(n)
      PROVE  NotesTypeOK'
  <2>1. [server[n] EXCEPT !.v = 0] \in NoteStates
    BY DEF NoteStates
  <2>2. server' = [server EXCEPT ![n] = [server[n] EXCEPT !.v = 0]]
    BY <1>8 DEF OtherDeletes
  <2>. QED  BY <1>8, <2>1, <2>2 DEF OtherDeletes
<1>9. CASE Reported
  <2>1. Head(news) \in NoteStates /\ Tail(news) \in Seq(NoteStates) /\ NoNote \in NoteStates
    BY <1>9, SentTypes DEF Reported
  <2>2. /\ Opened(editor, flight, NoNote) \in Editors
        /\ Shown(editor, flight, Head(news)) \in Editors
    BY <2>1, PanelTypes
  <2>. QED  BY <1>9, <2>1, <2>2 DEF Reported
<1>10. CASE Reconnected
  BY <1>10 DEF Reconnected
<1>11. CASE TakeTheirs
  BY <1>11, PanelTypes, SentTypes DEF TakeTheirs
<1>12. CASE KeepMine
  <2>. DEFINE e == [editor EXCEPT !.id = conflict.id, !.base = conflict.v]
  <2>1. e \in Editors
    BY DEF Editors, NoteStates
  <2>2. Save(e, flight, TRUE) \in Flights /\ Cleaned(e, flight, TRUE) \in Editors
    BY <2>1, SaveTypes
  <2>3. waived' \in [Notes -> Nat]
    BY <1>12 DEF KeepMine, NoteStates
  <2>. QED  BY <1>12, <2>2, <2>3, SentTypes DEF KeepMine
<1>13. ASSUME NEW reached \in BOOLEAN, Delete(reached)
       PROVE  NotesTypeOK'
  <2>1. editor.active \in Notes
    BY <1>13 DEF Delete, Editors, Ids
  <2>2. [server EXCEPT ![editor.active].v = 0] \in [Notes -> NoteStates]
    BY <2>1 DEF NoteStates
  <2>3. [list EXCEPT ![editor.active].v = 0] \in [Notes -> NoteStates]
    BY <2>1 DEF NoteStates
  <2>4. [editor EXCEPT !.dirty = FALSE] \in Editors
    BY DEF Editors
  <2>5. NoNote \in NoteStates /\ Opened(editor, flight, NoNote) \in Editors
    BY SentTypes, PanelTypes
  <2>. QED  BY <1>13, <2>2, <2>3, <2>4, <2>5 DEF Delete
<1>14. CASE UNCHANGED notesVars
  BY <1>14 DEF notesVars
<1>. QED
  BY <1>1, <1>2, <1>3, <1>4, <1>5, <1>6, <1>7, <1>8, <1>9, <1>10, <1>11, <1>12, <1>13, <1>14
     DEF NotesNext

-----------------------------------------------------------------------------
(* Versions only grow until a note is deleted, and so do the versions the  *)
(* user agreed to overwrite.                                               *)
Grows ==
  \A n \in Notes :
    /\ waived[n] <= waived'[n]
    /\ \/ server'[n] = server[n]
       \/ server'[n].v = 0
       \/ server[n].v > 0 /\ server'[n].v = server[n].v + 1

(* Every step lets the versions grow or deletes the note.                  *)
LEMMA GrowsStep == NotesTypeOK /\ NotesInv /\ [NotesNext]_notesVars => Grows
<1>. SUFFICES ASSUME NotesTypeOK, NotesInv, [NotesNext]_notesVars, NEW k \in Notes
              PROVE  /\ waived[k] <= waived'[k]
                     /\ \/ server'[k] = server[k]
                        \/ server'[k].v = 0
                        \/ server[k].v > 0 /\ server'[k].v = server[k].v + 1
  BY DEF Grows
<1>. USE DEF NotesTypeOK
<1>1. waived[k] \in Nat /\ server[k].v \in Nat
  BY DEF NoteStates
<1>2. ASSUME NEW n \in Notes, SaveTaken(n)
      PROVE  (server'[k] = server[k] \/ (server[k].v > 0 /\ server'[k].v = server[k].v + 1))
             /\ waived' = waived
  <2>1. server[n].v = flight.note.v /\ flight.note.v > 0
    BY <1>2 DEF SaveTaken, Taken, NotesInv, SavesInv, MaySave
  <2>. QED  BY <1>2, <2>1 DEF SaveTaken, Note
<1>3. ASSUME NEW n \in Notes, OtherEdits(n)
      PROVE  (server'[k] = server[k] \/ (server[k].v > 0 /\ server'[k].v = server[k].v + 1))
             /\ waived' = waived
  BY <1>3 DEF OtherEdits, Note
<1>4. ASSUME NEW n \in Notes, OtherDeletes(n)
      PROVE  (server'[k] = server[k] \/ server'[k].v = 0) /\ waived' = waived
  BY <1>4 DEF OtherDeletes, NoteStates
<1>5. ASSUME NEW reached \in BOOLEAN, Delete(reached)
      PROVE  (server'[k] = server[k] \/ server'[k].v = 0) /\ waived' = waived
  <2>1. server' = server \/ server' = [server EXCEPT ![editor.active].v = 0]
    BY <1>5 DEF Delete
  <2>. QED  BY <1>5, <2>1 DEF Delete, NoteStates
<1>6. CASE KeepMine
  BY <1>1, <1>6 DEF KeepMine, NoteStates
<1>7. \/ Type \/ Saves \/ \E n \in Notes : Open(n) \/ SaveRefused(n)
      \/ SaveFails \/ Reported \/ Reconnected \/ TakeTheirs \/ UNCHANGED notesVars
      => UNCHANGED <<server, waived>>
  BY DEF Type, Saves, Open, SaveRefused, SaveFails, Reported, Reconnected, TakeTheirs, notesVars
<1>. QED  BY <1>1, <1>2, <1>3, <1>4, <1>5, <1>6, <1>7 DEF NotesNext

(* What is shown and what may be saved stays so as the notes grow.         *)
LEMMA CurrentStays ==
  ASSUME NotesTypeOK, NotesTypeOK', Grows,
         NEW m \in NoteStates, m.id \in Notes, Current(server, m)
  PROVE  Current(server', m)
<1>1. m.v \in Nat /\ server[m.id].v \in Nat /\ server'[m.id].v \in Nat
  BY DEF NotesTypeOK, NoteStates
<1>. QED  BY <1>1 DEF Grows, Current

(* What may be saved may be saved of a newer note, or is refused.          *)
LEMMA MaySaveStays ==
  ASSUME NotesTypeOK, NotesTypeOK', Grows,
         NEW m \in NoteStates, NEW late, m.id \in Notes, MaySave(server, waived, m, late)
  PROVE  MaySave(server', waived', m, late)
<1>1. /\ m.v \in Nat /\ server[m.id].v \in Nat /\ server'[m.id].v \in Nat
      /\ waived[m.id] \in Nat /\ waived'[m.id] \in Nat
  BY DEF NotesTypeOK, NoteStates
<1>2. CASE server'[m.id] = server[m.id]
  BY <1>1, <1>2 DEF Grows, MaySave
<1>3. CASE server'[m.id].v = 0
  BY <1>1, <1>3 DEF MaySave
<1>4. CASE server[m.id].v > 0 /\ server'[m.id].v = server[m.id].v + 1
  BY <1>1, <1>4 DEF MaySave
<1>. QED  BY <1>2, <1>3, <1>4 DEF Grows

-----------------------------------------------------------------------------
(* The editor and the save on its way, for notes s and agreements w.       *)
Allowed(s, w, e, f) ==
  /\ e.id # None => MaySave(s, w, Sending(e), e.late)
  /\ f.on => f.note.id # None /\ MaySave(s, w, f.note, f.late)
  /\ Follows(s, e, f)

(* A copy of a note is shown.                                              *)
LEMMA ShownKeeps ==
  ASSUME NEW s \in [Notes -> NoteStates], NEW w, NEW e \in Editors, NEW f \in Flights,
         NEW m \in NoteStates, Shows(s, m),
         f.on => f.note.id # None /\ MaySave(s, w, f.note, f.late)
  PROVE  Allowed(s, w, Shown(e, f, m), f) /\ Allowed(s, w, Opened(e, f, m), f)
<1>. DEFINE Fits(x) == x.id = m.id /\ x.base = m.v /\ x.text = m.text /\ x.late = IsLate(f, m)
<1>1. Fits(Shown(e, f, m)) /\ Fits(Opened(e, f, m))
  BY DEF Shown, Opened, Editors
<1>2. m.v \in Nat /\ m.v > 0 /\ s[m.id].v \in Nat /\ m.text.theirs \in Nat
  BY DEF Shows, NoteStates, Texts
<1>3. ASSUME NEW x, Fits(x)
      PROVE  Allowed(s, w, x, f)
  <2>1. MaySave(s, w, Sending(x), x.late)
    BY <1>2, <1>3 DEF Shows, Current, MaySave, Sending, Note
  <2>2. ASSUME f.on, x.id = f.note.id, f.note.v = s[x.id].v
        PROVE  x.late
    <3>1. f.note.v > 0
      BY <2>2 DEF MaySave
    <3>2. m.v <= f.note.v
      BY <1>2, <1>3, <2>2, <3>1 DEF Shows, Current
    <3>. QED  BY <1>3, <2>2, <3>2 DEF IsLate
  <2>. QED  BY <2>1, <2>2 DEF Allowed, Follows
<1>. QED  BY <1>1, <1>3

(* Nothing is shown any more.                                              *)
LEMMA NothingShown ==
  ASSUME NEW s, NEW w, NEW e \in Editors, NEW f \in Flights,
         f.on => f.note.id # None /\ MaySave(s, w, f.note, f.late)
  PROVE  Allowed(s, w, Opened(e, f, NoNote), f)
<1>1. Opened(e, f, NoNote).id = None
  BY DEF Opened, Shown, Editors, NoNote, Note
<1>. QED  BY <1>1 DEF Allowed, Follows

(* save() keeps the note that is shown, and what it sends is of that note. *)
LEMMA SaveSame ==
  ASSUME NEW e \in Editors, NEW f \in Flights, NEW force \in BOOLEAN
  PROVE  /\ Cleaned(e, f, force).id = e.id
         /\ \/ f.on /\ Save(e, f, force).note = f.note
            \/ Save(e, f, force).on => Save(e, f, force).note.id = e.id
         /\ Save(e, f, force).then \in {"open", "saveOpen"} =>
              f.then \in {"open", "saveOpen"} /\ Save(e, f, force).to = f.to
<1>1. Cleaned(e, f, force).id = e.id
  BY DEF Cleaned, Editors
<1>2. CASE e.id = None \/ (~e.dirty /\ ~force)
  BY <1>1, <1>2 DEF Save
<1>3. CASE ~(e.id = None \/ (~e.dirty /\ ~force)) /\ f.on
  BY <1>1, <1>3 DEF Save, Flights
<1>4. CASE ~(e.id = None \/ (~e.dirty /\ ~force)) /\ ~f.on
  BY <1>1, <1>4 DEF Save, NoFlight, Sending, Note
<1>. QED  BY <1>2, <1>3, <1>4

(* save() sends what may be saved, or what waits is done later.            *)
LEMMA SaveKeeps ==
  ASSUME NEW s, NEW w, NEW e \in Editors, NEW f \in Flights, NEW force \in BOOLEAN,
         Allowed(s, w, e, f)
  PROVE  Allowed(s, w, Cleaned(e, f, force), Save(e, f, force))
<1>. DEFINE g == Save(e, f, force)
            x == Cleaned(e, f, force)
<1>1. x.id = e.id /\ x.base = e.base /\ x.text = e.text /\ x.late = e.late
  BY DEF Cleaned, Editors
<1>2. Sending(x) = Sending(e) /\ e.text.theirs \in Nat
  BY <1>1 DEF Sending, Note, Editors, Texts
<1>3. CASE e.id = None \/ (~e.dirty /\ ~force)
  BY <1>1, <1>2, <1>3 DEF Save, Allowed, Follows
<1>4. CASE ~(e.id = None \/ (~e.dirty /\ ~force)) /\ f.on
  <2>1. g.on = f.on /\ g.note = f.note /\ g.late = f.late
    BY <1>4 DEF Save, Flights
  <2>. HIDE DEF g, x
  <2>2. Allowed(s, w, x, g)
    BY <1>1, <1>2, <2>1 DEF Allowed, Follows
  <2>. QED  BY <2>2 DEF g, x
<1>5. CASE ~(e.id = None \/ (~e.dirty /\ ~force)) /\ ~f.on
  <2>1. g.on = TRUE /\ g.note = Sending(e) /\ g.late = e.late
    BY <1>5 DEF Save, NoFlight
  <2>2. Sending(e).id = e.id /\ Sending(e).text = e.text
    BY DEF Sending, Note
  <2>. HIDE DEF g, x
  <2>3. Allowed(s, w, x, g)
    BY <1>1, <1>2, <1>5, <2>1, <2>2 DEF Allowed, Follows
  <2>. QED  BY <2>3 DEF g, x
<1>. QED  BY <1>3, <1>4, <1>5

(* What is kept of the panel: the copies it may show are current, what it  *)
(* may send is allowed.                                                    *)
PanelKept(s, w, e, f, c) ==
  /\ c # NoNote => Shows(s, c)
  /\ f.then \in {"open", "saveOpen"} => Shows(s, f.to)
  /\ Allowed(s, w, e, f)
  /\ f.on /\ c.id = f.note.id => e.id = c.id

(* A save has ended, and the next one may start or another note is shown.  *)
LEMMA EndedKeeps ==
  ASSUME NEW s \in [Notes -> NoteStates], NEW w,
         NEW e \in Editors, NEW f \in Flights, NEW c \in NoteStates, Ended(e, f, c),
         c # NoNote => Shows(s, c),
         f.then \in {"open", "saveOpen"} => Shows(s, f.to),
         e.id # None => MaySave(s, w, Sending(e), e.late)
  PROVE  PanelKept(s, w, editor', flight', conflict')
<1>1. /\ ~NoFlight.on /\ NoFlight.then = "stop"
      /\ NoFlight \in Flights /\ f.to \in NoteStates /\ e.text.theirs \in Nat
  BY SentTypes DEF NoFlight, Flights, Editors, Texts
<1>2. CASE f.then \in {"save", "saveOpen"} /\ e.dirty /\ e.id # None
  <2>1. /\ flight'.on = TRUE /\ flight'.note = Sending(e) /\ flight'.late = e.late
        /\ flight'.to = f.to /\ flight'.then = (IF f.then = "save" THEN "stop" ELSE "open")
        /\ editor' = [e EXCEPT !.dirty = FALSE] /\ conflict' = c
    BY <1>2 DEF Ended, NoFlight
  <2>2. /\ editor'.id = e.id /\ editor'.base = e.base /\ editor'.text = e.text
        /\ editor'.late = e.late
    BY <2>1 DEF Editors
  <2>3. Sending(editor') = Sending(e) /\ Sending(e).id = e.id /\ Sending(e).text = e.text
    BY <2>2 DEF Sending, Note
  <2>4. Allowed(s, w, editor', flight')
    BY <1>1, <1>2, <2>1, <2>2, <2>3 DEF Allowed, Follows
  <2>. QED  BY <1>2, <2>1, <2>2, <2>3, <2>4 DEF PanelKept
<1>3. CASE /\ ~(f.then \in {"save", "saveOpen"} /\ e.dirty /\ e.id # None)
           /\ f.then \in {"open", "saveOpen"}
  <2>1. flight' = NoFlight /\ editor' = Opened(e, NoFlight, f.to) /\ conflict' = NoNote
    BY <1>3 DEF Ended
  <2>2. Allowed(s, w, editor', flight')
    BY <1>1, <1>3, <2>1, ShownKeeps
  <2>. QED  BY <1>1, <2>1, <2>2 DEF PanelKept
<1>4. CASE /\ ~(f.then \in {"save", "saveOpen"} /\ e.dirty /\ e.id # None)
           /\ ~(f.then \in {"open", "saveOpen"})
  <2>1. flight' = NoFlight /\ editor' = e /\ conflict' = c
    BY <1>4 DEF Ended
  <2>. QED  BY <1>1, <2>1 DEF PanelKept, Allowed, Follows
<1>. QED  BY <1>2, <1>3, <1>4

-----------------------------------------------------------------------------
(* The steps.                                                              *)

(* NotesInv in terms of the panel.                                         *)
LEMMA NotesInvParts ==
  NotesInv <=> CopiesInv /\ PanelKept(server, waived, editor, flight, conflict)
BY DEF NotesInv, PanelKept, AskedInv, WaitsInv, SavesInv, FollowsInv, SameInv, Allowed

(* What the panel keeps it keeps as the notes grow, if it stays as it is.  *)
LEMMA PanelStays ==
  ASSUME NotesTypeOK, NotesTypeOK', NotesInv, Grows
  PROVE  /\ \A n \in Notes : Current(server', list[n])
         /\ \A i \in 1..Len(news) : Current(server', news[i])
         /\ PanelKept(server', waived', editor, flight, conflict)
<1>. USE DEF NotesTypeOK
<1>1. \A n \in Notes : Current(server', list[n])
  <2>. TAKE n \in Notes
  <2>1. list[n] \in NoteStates /\ list[n].id \in Notes /\ Current(server, list[n])
    BY DEF NotesInv, CopiesInv
  <2>. QED  BY <2>1, CurrentStays
<1>2. \A i \in 1..Len(news) : Current(server', news[i])
  <2>. TAKE i \in 1..Len(news)
  <2>1. news[i] \in NoteStates /\ news[i].id \in Notes /\ Current(server, news[i])
    BY DEF NotesInv, CopiesInv
  <2>. QED  BY <2>1, CurrentStays
<1>3. conflict # NoNote => Shows(server', conflict)
  BY CurrentStays DEF NotesInv, AskedInv, Shows
<1>4. flight.then \in {"open", "saveOpen"} => Shows(server', flight.to)
  BY CurrentStays DEF NotesInv, WaitsInv, Shows, Flights
<1>5. editor.id # None => MaySave(server', waived', Sending(editor), editor.late)
  <2>1. Sending(editor) \in NoteStates /\ Sending(editor).id = editor.id
    BY SentTypes DEF Sending, Note
  <2>2. editor.id # None => editor.id \in Notes
    BY DEF Editors, Ids
  <2>. QED  BY <2>1, <2>2, MaySaveStays DEF NotesInv, SavesInv
<1>6. flight.on => flight.note.id # None /\ MaySave(server', waived', flight.note, flight.late)
  <2>1. flight.note \in NoteStates
    BY DEF Flights
  <2>2. flight.on => /\ flight.note.id # None /\ flight.note.id \in Notes
                     /\ MaySave(server, waived, flight.note, flight.late)
    BY <2>1 DEF NotesInv, SavesInv, NoteStates, Ids
  <2>. QED  BY <2>1, <2>2, MaySaveStays
<1>7. Follows(server', editor, flight)
  <2>. SUFFICES ASSUME flight.on, editor.id = flight.note.id,
                       flight.note.v = server'[editor.id].v
                PROVE  flight.note.v = server[editor.id].v
    BY DEF NotesInv, FollowsInv, Follows
  <2>1. editor.id \in Notes /\ MaySave(server, waived, flight.note, flight.late)
    BY DEF NotesInv, SavesInv, Editors, Ids
  <2>2. server[editor.id].v \in Nat /\ server'[editor.id].v \in Nat /\ flight.note.v \in Nat
    BY <2>1 DEF NoteStates, Flights
  <2>3. /\ flight.note.v > 0
        /\ \/ server[editor.id].v = 0
           \/ flight.note.v <= server[editor.id].v
    BY <2>1, <2>2 DEF MaySave
  <2>4. \/ server'[editor.id] = server[editor.id]
        \/ server'[editor.id].v = 0
        \/ server[editor.id].v > 0 /\ server'[editor.id].v = server[editor.id].v + 1
    BY <2>1 DEF Grows
  <2>. QED  BY <2>2, <2>3, <2>4
<1>. QED
  BY <1>1, <1>2, <1>3, <1>4, <1>5, <1>6, <1>7 DEF PanelKept, Allowed, NotesInv, SameInv

(* The text that may be saved is told by its version and by the edits of   *)
(* others in it.                                                           *)
LEMMA AllowedSame ==
  ASSUME NEW s, NEW w, NEW e \in Editors, NEW f \in Flights, NEW x, NEW g,
         x.id = e.id, x.base = e.base, x.text.theirs = e.text.theirs, x.late = e.late,
         g.on = f.on, g.note = f.note, g.late = f.late, Allowed(s, w, e, f)
  PROVE  Allowed(s, w, x, g)
<1>1. /\ Sending(x).id = Sending(e).id /\ Sending(x).v = Sending(e).v
      /\ Sending(x).text.theirs = Sending(e).text.theirs
  BY DEF Sending, Note
<1>2. e.id # None => MaySave(s, w, Sending(x), x.late)
  BY <1>1 DEF Allowed, MaySave
<1>3. f.on => f.note.id # None /\ MaySave(s, w, g.note, g.late)
  BY DEF Allowed
<1>. QED  BY <1>2, <1>3 DEF Allowed, Follows

(* The copies of the list and those that are reported are current.         *)
LEMMA CopiesStep ==
  ASSUME NotesTypeOK, NotesTypeOK', NotesInv, Grows, [NotesNext]_notesVars
  PROVE  CopiesInv'
<1>. USE DEF NotesTypeOK
<1>0. /\ \A n \in Notes : server[n].id = n /\ list[n].id = n /\ Current(server', list[n])
      /\ \A i \in 1..Len(news) : news[i].id \in Notes /\ Current(server', news[i])
  BY PanelStays DEF NotesInv, CopiesInv
<1>1. ASSUME server' = server, list' = list, news' = news
      PROVE  CopiesInv'
  BY <1>0, <1>1 DEF CopiesInv
<1>2. ASSUME NEW m \in NoteStates, m.id \in Notes, Current(server', m), news' = Append(news, m)
      PROVE  \A i \in 1..Len(news') : news'[i].id \in Notes /\ Current(server', news'[i])
  <2>. TAKE i \in 1..Len(news')
  <2>1. CASE i = Len(news) + 1
    BY <1>2, <2>1
  <2>2. CASE i # Len(news) + 1
    <3>1. i \in 1..Len(news) /\ news'[i] = news[i]
      BY <1>2, <2>2
    <3>. QED  BY <1>0, <3>1
  <2>. QED  BY <2>1, <2>2
<1>3. ASSUME NEW n \in Notes, SaveTaken(n)
      PROVE  CopiesInv'
  <2>. DEFINE saved == Note(n, server[n].v + 1, "me", flight.note.text)
  <2>1. saved \in NoteStates /\ saved.id = n
    <3>1. flight.note.text \in Texts
      BY DEF NoteStates, Flights
    <3>2. server[n].v + 1 \in Nat /\ n \in Ids
      BY DEF NoteStates, Ids
    <3>3. saved = [id |-> n, v |-> server[n].v + 1, by |-> "me", text |-> flight.note.text]
      BY DEF Note
    <3>. HIDE DEF saved
    <3>. QED  BY <3>1, <3>2, <3>3 DEF NoteStates
  <2>2. /\ server' = [server EXCEPT ![n] = saved] /\ list' = [list EXCEPT ![n] = saved]
        /\ news' = Append(news, saved) \/ news' = news
    BY <1>3 DEF SaveTaken
  <2>. HIDE DEF saved
  <2>3. Current(server', saved)
    BY <2>1, <2>2 DEF Current
  <2>4. \A k \in Notes : server'[k].id = k /\ list'[k].id = k /\ Current(server', list'[k])
    BY <1>0, <2>1, <2>2, <2>3
  <2>5. \A i \in 1..Len(news') : news'[i].id \in Notes /\ Current(server', news'[i])
    BY <1>0, <1>2, <2>1, <2>2, <2>3
  <2>. QED  BY <2>4, <2>5 DEF CopiesInv
<1>4. ASSUME NEW n \in Notes, OtherEdits(n) \/ OtherDeletes(n)
      PROVE  CopiesInv'
  <2>1. PICK m \in NoteStates : /\ m.id = n /\ server' = [server EXCEPT ![n] = m]
                                /\ news' = Append(news, m) /\ list' = list
    <3>1. server'[n] \in NoteStates
      OBVIOUS
    <3>2. /\ server'[n].id = n /\ server' = [server EXCEPT ![n] = server'[n]]
          /\ news' = Append(news, server'[n]) /\ list' = list
      <4>1. CASE OtherEdits(n)
        BY <4>1 DEF OtherEdits, Note
      <4>2. CASE OtherDeletes(n)
        <5>1. [server[n] EXCEPT !.v = 0].id = n
          BY <1>0 DEF NoteStates
        <5>. QED  BY <4>2, <5>1 DEF OtherDeletes
      <4>. QED  BY <1>4, <4>1, <4>2
    <3>. QED  BY <3>1, <3>2
  <2>2. Current(server', m)
    BY <2>1 DEF Current
  <2>3. \A i \in 1..Len(news') : news'[i].id \in Notes /\ Current(server', news'[i])
    BY <1>2, <2>1, <2>2
  <2>. QED  BY <1>0, <2>1, <2>3 DEF CopiesInv
<1>5. CASE Reported
  <2>. DEFINE note == Head(news)
  <2>1. /\ server' = server /\ news # <<>> /\ news' = Tail(news)
        /\ list' = [list EXCEPT ![note.id] = note]
    BY <1>5 DEF Reported
  <2>2. note = news[1] /\ 1 \in 1..Len(news)
    BY <2>1
  <2>3. note.id \in Notes /\ Current(server', note)
    BY <1>0, <2>2
  <2>. HIDE DEF note
  <2>4. \A k \in Notes : server'[k].id = k /\ list'[k].id = k /\ Current(server', list'[k])
    BY <1>0, <2>1, <2>3
  <2>5. ASSUME NEW i \in 1..Len(news')
        PROVE  news'[i].id \in Notes /\ Current(server', news'[i])
    <3>1. i + 1 \in 1..Len(news) /\ news'[i] = news[i + 1]
      BY <2>1
    <3>. QED  BY <1>0, <3>1
  <2>. QED  BY <2>4, <2>5 DEF CopiesInv
<1>6. CASE Reconnected
  <2>1. server' = server /\ list' = server /\ news' = <<>>
    BY <1>6 DEF Reconnected
  <2>2. \A n \in Notes : Current(server', server'[n])
    BY <1>0, <2>1 DEF Current
  <2>. QED  BY <1>0, <2>1, <2>2 DEF CopiesInv
<1>7. ASSUME NEW reached \in BOOLEAN, Delete(reached)
      PROVE  CopiesInv'
  <2>. DEFINE n == editor.active
  <2>1. n \in Notes /\ news' = news
        /\ \/ server' = server /\ list' = list
           \/ /\ server' = [server EXCEPT ![n].v = 0]
              /\ list' = [list EXCEPT ![n].v = 0]
    BY <1>7 DEF Delete, Editors, Ids
  <2>2. ASSUME server' = [server EXCEPT ![n].v = 0], list' = [list EXCEPT ![n].v = 0]
        PROVE  CopiesInv'
    <3>1. /\ server'[n].v = 0 /\ server'[n].id = n /\ list'[n].id = n
          /\ \A k \in Notes : k # n => server'[k] = server[k] /\ list'[k] = list[k]
      BY <1>0, <2>1, <2>2 DEF NoteStates
    <3>2. Current(server', list'[n])
      BY <3>1 DEF Current
    <3>. QED  BY <1>0, <2>1, <3>1, <3>2 DEF CopiesInv
  <2>. QED  BY <1>1, <2>1, <2>2
<1>8. \/ Type \/ Saves \/ \E n \in Notes : Open(n) \/ SaveRefused(n)
      \/ SaveFails \/ TakeTheirs \/ KeepMine \/ UNCHANGED notesVars
      => server' = server /\ list' = list /\ news' = news
  BY DEF Type, Saves, Open, SaveRefused, SaveFails, TakeTheirs, KeepMine, notesVars
<1>. QED  BY <1>1, <1>3, <1>4, <1>5, <1>6, <1>7, <1>8 DEF NotesNext

(* The panel keeps what it may show and what it may send.                  *)
LEMMA PanelStep ==
  ASSUME NotesTypeOK, NotesTypeOK', NotesInv, Grows, [NotesNext]_notesVars
  PROVE  PanelKept(server', waived', editor', flight', conflict')
<1>. USE DEF NotesTypeOK
<1>0. /\ PanelKept(server', waived', editor, flight, conflict)
      /\ PanelKept(server, waived, editor, flight, conflict)
  BY PanelStays, NotesInvParts
<1>1. ASSUME server' = server, waived' = waived, conflict' = conflict,
             Allowed(server, waived, editor', flight'), editor'.id = editor.id,
             \/ flight.on /\ flight'.note = flight.note
             \/ flight'.on => flight'.note.id = editor.id,
             flight'.then \in {"open", "saveOpen"} => Shows(server, flight'.to)
      PROVE  PanelKept(server', waived', editor', flight', conflict')
  BY <1>0, <1>1 DEF PanelKept
<1>2. ASSUME NEW x \in Editors, x.id = editor.id, x.base = editor.base, x.text = editor.text,
             x.late = editor.late
      PROVE  /\ Allowed(server, waived, x, flight)
             /\ x.id # None => MaySave(server, waived, Sending(x), x.late)
  BY <1>0, <1>2, AllowedSame DEF PanelKept, Allowed
<1>3. CASE Type
  <2>1. editor'.id = editor.id /\ editor'.base = editor.base /\ editor'.late = editor.late
        /\ editor'.text.theirs = editor.text.theirs
    BY <1>3 DEF Type, Editors, Texts
  <2>2. server' = server /\ waived' = waived /\ flight' = flight /\ conflict' = conflict
    BY <1>3 DEF Type
  <2>3. Allowed(server, waived, editor', flight)
    BY <1>0, <2>1, AllowedSame DEF PanelKept
  <2>. QED  BY <1>0, <2>1, <2>2, <2>3 DEF PanelKept
<1>4. CASE Saves
  <2>1. /\ flight' = Save(editor, flight, FALSE) /\ editor' = Cleaned(editor, flight, FALSE)
        /\ server' = server /\ waived' = waived /\ conflict' = conflict
    BY <1>4 DEF Saves
  <2>2. Allowed(server, waived, editor, flight)
    BY <1>0 DEF PanelKept
  <2>3. /\ Allowed(server, waived, editor', flight') /\ editor'.id = editor.id
        /\ \/ flight.on /\ flight'.note = flight.note
           \/ flight'.on => flight'.note.id = editor.id
        /\ flight'.then \in {"open", "saveOpen"} =>
             flight.then \in {"open", "saveOpen"} /\ flight'.to = flight.to
    <3>1. Allowed(server, waived, editor', flight')
      BY <2>1, <2>2, SaveKeeps
    <3>. QED  BY <2>1, <3>1, SaveSame
  <2>4. flight'.then \in {"open", "saveOpen"} => Shows(server, flight'.to)
    BY <1>0, <2>3 DEF PanelKept
  <2>. QED  BY <1>1, <2>1, <2>3, <2>4
<1>5. ASSUME NEW n \in Notes, Open(n)
      PROVE  PanelKept(server', waived', editor', flight', conflict')
  <2>1. Shows(server, list[n]) /\ list[n] \in NoteStates
    BY <1>5 DEF Open, Shows, NotesInv, CopiesInv
  <2>2. server' = server /\ waived' = waived
    BY <1>5 DEF Open
  <2>3. CASE ~editor.dirty \/ editor.id = None
    <3>1. editor' = Opened(editor, flight, list[n]) /\ conflict' = NoNote /\ flight' = flight
      BY <1>5, <2>3 DEF Open
    <3>2. Allowed(server, waived, editor', flight)
      BY <1>0, <2>1, <3>1, ShownKeeps DEF PanelKept, Allowed
    <3>3. flight.on => flight.note.id # NoNote.id
      BY <1>0 DEF PanelKept, Allowed, NoNote, Note
    <3>. QED  BY <1>0, <2>2, <3>1, <3>2, <3>3 DEF PanelKept
  <2>4. CASE ~(~editor.dirty \/ editor.id = None)
    <3>. DEFINE g == Save(editor, flight, FALSE)
    <3>1. /\ editor' = Cleaned(editor, flight, FALSE) /\ conflict' = conflict
          /\ flight' = [g EXCEPT !.to = list[n],
                          !.then = IF flight.on THEN "saveOpen" ELSE "open"]
      BY <1>5, <2>4 DEF Open
    <3>2. Allowed(server, waived, editor, flight)
      BY <1>0 DEF PanelKept
    <3>3. /\ Allowed(server, waived, editor', g) /\ editor'.id = editor.id
          /\ \/ flight.on /\ g.note = flight.note
             \/ g.on => g.note.id = editor.id
      <4>1. Allowed(server, waived, editor', g)
        BY <3>1, <3>2, SaveKeeps
      <4>. QED  BY <3>1, <4>1, SaveSame
    <3>4. g \in Flights
      BY SaveTypes
    <3>. HIDE DEF g
    <3>5. flight'.on = g.on /\ flight'.note = g.note /\ flight'.late = g.late
          /\ flight'.to = list[n]
      BY <3>1, <3>4 DEF Flights
    <3>6. Allowed(server, waived, editor', flight')
      BY <3>3, <3>4, <3>5, AllowedSame
    <3>. QED  BY <1>1, <2>1, <2>2, <3>1, <3>3, <3>5, <3>6
  <2>. QED  BY <2>3, <2>4
<1>6. ASSUME NEW n \in Notes, SaveTaken(n)
      PROVE  PanelKept(server', waived', editor', flight', conflict')
  <2>. DEFINE saved == Note(n, server[n].v + 1, "me", flight.note.text)
              x == Rebased(editor, n, saved.v)
  <2>1. /\ flight.on /\ flight.note.id = n /\ server[n].v = flight.note.v
        /\ server' = [server EXCEPT ![n] = saved] /\ Ended(x, flight, conflict)
    BY <1>6 DEF SaveTaken, Taken
  <2>2. saved.v = server[n].v + 1 /\ saved.v \in Nat /\ saved.v > 0
        /\ saved.text = flight.note.text
    BY DEF Note, NoteStates
  <2>3. x \in Editors
    BY <2>2 DEF Rebased, Editors
  <2>4. ASSUME x.id # None
        PROVE  MaySave(server', waived', Sending(x), x.late)
    <3>1. CASE editor.id = n
      <4>1. x.base = saved.v /\ x.id = n /\ x.text = editor.text /\ x.late = editor.late
        BY <3>1 DEF Rebased, Editors
      <4>2. editor.late \/ flight.note.text.theirs <= editor.text.theirs
        BY <1>0, <2>1, <3>1 DEF PanelKept, Allowed, Follows
      <4>3. Sending(x).id = n /\ Sending(x).v = saved.v /\ Sending(x).text = editor.text
        BY <4>1 DEF Sending, Note
      <4>4. server'[n] = saved
        BY <2>1
      <4>. HIDE DEF saved, x
      <4>. QED  BY <2>2, <4>1, <4>2, <4>3, <4>4 DEF MaySave
    <3>2. CASE editor.id # n
      <4>1. x = editor
        BY <3>2 DEF Rebased
      <4>. QED  BY <1>0, <2>4, <4>1 DEF PanelKept, Allowed
    <3>. QED  BY <3>1, <3>2
  <2>. HIDE DEF saved, x
  <2>. QED  BY <1>0, <2>1, <2>3, <2>4, EndedKeeps DEF PanelKept
<1>7. ASSUME NEW n \in Notes, SaveRefused(n)
      PROVE  PanelKept(server', waived', editor', flight', conflict')
  <2>. DEFINE x == Refused(editor, server[n])
  <2>1. /\ server' = server /\ waived' = waived /\ server[n].v > 0
        /\ Ended(x, flight, server[n])
    BY <1>7 DEF SaveRefused
  <2>2. /\ x \in Editors /\ x.id = editor.id /\ x.base = editor.base /\ x.text = editor.text
        /\ x.late = editor.late
    BY DEF Refused, Editors
  <2>3. server[n] \in NoteStates /\ Shows(server, server[n])
    BY <2>1 DEF Shows, Current, NotesInv, CopiesInv
  <2>. HIDE DEF x
  <2>. QED  BY <1>0, <1>2, <2>1, <2>2, <2>3, EndedKeeps DEF PanelKept
<1>8. CASE SaveFails
  <2>. DEFINE x == [editor EXCEPT !.dirty = TRUE]
  <2>1. server' = server /\ waived' = waived /\ Ended(x, flight, conflict)
    BY <1>8 DEF SaveFails
  <2>2. /\ x \in Editors /\ x.id = editor.id /\ x.base = editor.base /\ x.text = editor.text
        /\ x.late = editor.late
    BY DEF Editors
  <2>. HIDE DEF x
  <2>. QED  BY <1>0, <1>2, <2>1, <2>2, EndedKeeps DEF PanelKept
<1>9. \/ \E n \in Notes : OtherEdits(n) \/ OtherDeletes(n)
      \/ Reconnected \/ UNCHANGED notesVars
      => UNCHANGED <<editor, flight, conflict>>
  BY DEF OtherEdits, OtherDeletes, Reconnected, notesVars
<1>10. CASE Reported
  <2>. DEFINE note == Head(news)
  <2>1. /\ server' = server /\ waived' = waived /\ flight' = flight
        /\ note \in NoteStates /\ note.id \in Notes /\ Current(server, note)
    <3>1. news # <<>> /\ server' = server /\ waived' = waived /\ flight' = flight
      BY <1>10 DEF Reported
    <3>2. note = news[1] /\ 1 \in 1..Len(news) /\ note \in NoteStates
      BY <3>1
    <3>. QED  BY <3>1, <3>2 DEF NotesInv, CopiesInv
  <2>2. \/ editor' = editor /\ conflict' = conflict
        \/ editor' = Opened(editor, flight, NoNote) /\ conflict' = NoNote
        \/ editor' = editor /\ conflict' = note /\ note.v # 0 /\ editor.id = note.id
        \/ editor' = Shown(editor, flight, note) /\ conflict' = NoNote /\ note.v # 0
    BY <1>10 DEF Reported, IsNewer
  <2>3. note.v # 0 => Shows(server, note)
    BY <2>1 DEF Shows, NoteStates
  <2>. HIDE DEF note
  <2>4. flight.on => /\ flight.note.id # None /\ flight.note.id # NoNote.id
                     /\ MaySave(server, waived, flight.note, flight.late)
    BY <1>0 DEF PanelKept, Allowed, NoNote, Note
  <2>5. Allowed(server, waived, Opened(editor, flight, NoNote), flight)
    BY <2>4, NothingShown
  <2>6. note.v # 0 => Allowed(server, waived, Shown(editor, flight, note), flight)
    BY <2>1, <2>3, <2>4, ShownKeeps
  <2>. QED  BY <1>0, <2>1, <2>2, <2>3, <2>4, <2>5, <2>6 DEF PanelKept
<1>11. CASE TakeTheirs
  <2>1. /\ server' = server /\ waived' = waived /\ flight' = flight /\ conflict # NoNote
        /\ editor' = Shown(editor, flight, conflict) /\ conflict' = NoNote
    BY <1>11 DEF TakeTheirs
  <2>2. flight.on => /\ flight.note.id # None /\ flight.note.id # NoNote.id
                     /\ MaySave(server, waived, flight.note, flight.late)
    BY <1>0 DEF PanelKept, Allowed, NoNote, Note
  <2>3. Allowed(server, waived, editor', flight)
    BY <1>0, <2>1, <2>2, ShownKeeps DEF PanelKept
  <2>. QED  BY <1>0, <2>1, <2>2, <2>3 DEF PanelKept
<1>12. CASE KeepMine
  <2>. DEFINE x == [editor EXCEPT !.id = conflict.id, !.base = conflict.v]
  <2>1. /\ server' = server /\ conflict # NoNote /\ conflict' = NoNote
        /\ flight' = Save(x, flight, TRUE) /\ editor' = Cleaned(x, flight, TRUE)
        /\ waived' = [waived EXCEPT ![conflict.id] =
                        IF waived[conflict.id] < conflict.v THEN conflict.v
                        ELSE waived[conflict.id]]
    BY <1>12 DEF KeepMine
  <2>2. /\ x \in Editors /\ x.id = conflict.id /\ x.base = conflict.v /\ x.text = editor.text
        /\ x.late = editor.late
    BY DEF Editors, NoteStates
  <2>3. /\ conflict.id \in Notes /\ conflict.v > 0 /\ Current(server, conflict)
    BY <1>0, <2>1 DEF PanelKept, Shows
  <2>. HIDE DEF x
  <2>4. Sending(x).id = conflict.id /\ Sending(x).v = conflict.v
    BY <2>2 DEF Sending, Note
  <2>5. conflict.v <= waived'[conflict.id]
    BY <2>1, <2>3 DEF NoteStates
  <2>6. MaySave(server', waived', Sending(x), x.late)
    BY <2>1, <2>3, <2>4, <2>5 DEF MaySave, Current
  <2>7. Follows(server', x, flight)
    <3>1. ASSUME flight.on, x.id = flight.note.id
          PROVE  editor.id = x.id
      BY <1>0, <2>2, <3>1 DEF PanelKept
    <3>. QED  BY <1>0, <2>2, <3>1 DEF PanelKept, Allowed, Follows
  <2>8. Allowed(server', waived', x, flight)
    BY <1>0, <2>6, <2>7 DEF PanelKept, Allowed
  <2>9. /\ Allowed(server', waived', editor', flight')
        /\ flight'.then \in {"open", "saveOpen"} =>
             flight.then \in {"open", "saveOpen"} /\ flight'.to = flight.to
    <3>1. Allowed(server', waived', editor', flight')
      BY <2>1, <2>2, <2>8, SaveKeeps
    <3>. QED  BY <2>1, <2>2, <3>1, SaveSame
  <2>10. flight'.on => flight'.note.id # NoNote.id
    BY <2>9 DEF Allowed, NoNote, Note
  <2>. QED  BY <1>0, <2>1, <2>9, <2>10 DEF PanelKept
<1>13. ASSUME NEW reached \in BOOLEAN, Delete(reached)
       PROVE  PanelKept(server', waived', editor', flight', conflict')
  <2>1. /\ flight' = flight /\ waived' = waived
        /\ \/ /\ editor' = Opened(editor, flight, NoNote) /\ conflict' = NoNote
           \/ /\ editor' = [editor EXCEPT !.dirty = FALSE]
              /\ server' = server /\ conflict' = conflict
    BY <1>13 DEF Delete
  <2>2. CASE editor' = Opened(editor, flight, NoNote) /\ conflict' = NoNote
    <3>1. flight.on => /\ flight.note.id # None /\ flight.note.id # NoNote.id
                       /\ MaySave(server', waived', flight.note, flight.late)
      BY <1>0 DEF PanelKept, Allowed, NoNote, Note
    <3>2. Allowed(server', waived', editor', flight)
      BY <2>2, <3>1, NothingShown
    <3>. QED  BY <1>0, <2>1, <2>2, <3>1, <3>2 DEF PanelKept
  <2>3. CASE editor' = [editor EXCEPT !.dirty = FALSE] /\ server' = server /\ conflict' = conflict
    <3>1. /\ editor'.id = editor.id /\ editor'.base = editor.base
          /\ editor'.text = editor.text /\ editor'.late = editor.late
      BY <2>3 DEF Editors
    <3>2. Allowed(server, waived, editor', flight)
      BY <1>2, <3>1
    <3>. QED  BY <1>0, <2>1, <2>3, <3>1, <3>2 DEF PanelKept
  <2>. QED  BY <2>1, <2>2, <2>3
<1>. QED
  BY <1>0, <1>3, <1>4, <1>5, <1>6, <1>7, <1>8, <1>9, <1>10, <1>11, <1>12, <1>13 DEF NotesNext

(* What a step does to the text of a note that it takes edits from.        *)
LEMMA KeptStep ==
  ASSUME NotesTypeOK, NotesInv, [NotesNext]_notesVars
  PROVE  OthersAreKept
<1>. USE DEF NotesTypeOK
<1>. SUFFICES ASSUME NEW n \in Notes, Overwrites(n)
              PROVE  flight.late
  BY DEF OthersAreKept
<1>1. /\ server'[n].v > 0 /\ server'[n].text.theirs < server[n].text.theirs
      /\ server[n].v > waived[n]
  BY DEF Overwrites
<1>2. server[n].text.theirs \in Nat /\ server[n].v \in Nat /\ waived[n] \in Nat
  BY DEF NoteStates, Texts
<1>3. ASSUME NEW k \in Notes, SaveTaken(k)
      PROVE  flight.late
  <2>1. k = n
    BY <1>1, <1>2, <1>3 DEF SaveTaken
  <2>2. /\ flight.on /\ flight.note.id = n /\ server[n].v = flight.note.v
        /\ server'[n].text = flight.note.text
    BY <1>3, <2>1 DEF SaveTaken, Taken, Note
  <2>3. MaySave(server, waived, flight.note, flight.late)
    BY <2>2 DEF NotesInv, SavesInv
  <2>4. \/ server[n].text.theirs <= flight.note.text.theirs
        \/ flight.note.v <= waived[n]
        \/ flight.late
    BY <1>2, <2>2, <2>3 DEF MaySave
  <2>5. flight.note.text.theirs \in Nat
    BY DEF Flights, NoteStates, Texts
  <2>. QED  BY <1>1, <1>2, <2>2, <2>4, <2>5
<1>4. ASSUME NEW k \in Notes, OtherEdits(k)
      PROVE  FALSE
  <2>1. k = n
    BY <1>1, <1>2, <1>4 DEF OtherEdits
  <2>2. server[n].text \in Texts
    BY DEF NoteStates
  <2>3. server'[n].text = [server[n].text EXCEPT !.theirs = server[n].text.theirs + 1]
    BY <1>4, <2>1 DEF OtherEdits, Note
  <2>4. server'[n].text.theirs = server[n].text.theirs + 1
    BY <2>2, <2>3 DEF Texts
  <2>. QED  BY <1>1, <1>2, <2>4
<1>5. ASSUME NEW k \in Notes, OtherDeletes(k)
      PROVE  FALSE
  BY <1>1, <1>2, <1>5 DEF OtherDeletes, NoteStates
<1>6. ASSUME NEW reached \in BOOLEAN, Delete(reached)
      PROVE  FALSE
  <2>1. server' = server \/ server' = [server EXCEPT ![editor.active].v = 0]
    BY <1>6 DEF Delete
  <2>2. CASE server' = [server EXCEPT ![editor.active].v = 0]
    <3>1. server'[n] = IF n = editor.active THEN [server[n] EXCEPT !.v = 0] ELSE server[n]
      BY <2>2
    <3>2. server[n] \in NoteStates
      OBVIOUS
    <3>3. [server[n] EXCEPT !.v = 0].v = 0
      BY <3>2 DEF NoteStates
    <3>. QED  BY <1>1, <1>2, <3>1, <3>3
  <2>. QED  BY <1>1, <1>2, <2>1, <2>2
<1>7. \/ Type \/ Saves \/ \E k \in Notes : Open(k) \/ SaveRefused(k)
      \/ SaveFails \/ Reported \/ Reconnected \/ TakeTheirs \/ KeepMine \/ UNCHANGED notesVars
      => server' = server
  BY DEF Type, Saves, Open, SaveRefused, SaveFails, Reported, Reconnected, TakeTheirs, KeepMine,
     notesVars
<1>. QED  BY <1>1, <1>2, <1>3, <1>4, <1>5, <1>6, <1>7 DEF NotesNext

(* For any notes and any number of edits: a save that takes away an edit   *)
(* of another person which the user was not told of is one of a note that  *)
(* was opened again, as it was before, while a save of it was on its way   *)
(* (NotesPanel.tsx: save and open).                                        *)
THEOREM OthersKept == NotesSpec => [][OthersAreKept]_notesVars
<1>1. NotesInit => NotesTypeOK /\ NotesInv
  <2>. SUFFICES ASSUME NotesInit
                PROVE  NotesTypeOK /\ NotesInv
    OBVIOUS
  <2>1. NoFlight \in Flights /\ NoNote \in NoteStates /\ NoNote.text \in Texts
    BY SentTypes DEF NoteStates
  <2>2. \A n \in Notes : Note(n, 1, "they", Text(n, 0, 0)) \in NoteStates
    BY DEF Note, Text, NoteStates, Texts, Ids
  <2>3. editor \in Editors /\ editor.id = None
    BY <2>1 DEF NotesInit, Editors, Ids
  <2>4. NotesTypeOK
    BY <2>1, <2>2, <2>3 DEF NotesInit, NotesTypeOK
  <2>5. CopiesInv
    BY DEF NotesInit, CopiesInv, Current, Note
  <2>6. PanelKept(server, waived, editor, flight, conflict)
    BY <2>3 DEF NotesInit, PanelKept, Allowed, Follows, NoFlight
  <2>. QED  BY <2>4, <2>5, <2>6, NotesInvParts
<1>2. NotesTypeOK /\ NotesInv /\ [NotesNext]_notesVars => NotesTypeOK' /\ NotesInv'
  <2>. SUFFICES ASSUME NotesTypeOK, NotesInv, [NotesNext]_notesVars
                PROVE  NotesTypeOK' /\ NotesInv'
    OBVIOUS
  <2>1. NotesTypeOK' /\ Grows
    BY NotesTypeStep, GrowsStep
  <2>2. CopiesInv' /\ PanelKept(server', waived', editor', flight', conflict')
    BY <2>1, CopiesStep, PanelStep
  <2>3. NotesInv'
    BY <2>2 DEF NotesInv, PanelKept, AskedInv, WaitsInv, SavesInv, FollowsInv, SameInv, Allowed
  <2>. QED  BY <2>1, <2>3
<1>3. NotesTypeOK /\ NotesInv /\ [NotesNext]_notesVars => [OthersAreKept]_notesVars
  BY KeptStep
<1>. QED  BY <1>1, <1>2, <1>3, PTL DEF NotesSpec

=============================================================================
