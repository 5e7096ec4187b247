-------------------------- MODULE RemoteClipboard --------------------------
(***************************************************************************)
(* Copy and paste between this PC and the PCs driven from it: the shared   *)
(* clipboard of the page (fileClipboard.ts) and what RemoteModal.tsx does  *)
(* with Ctrl+V, with what a remote PC reports and with what it reads from  *)
(* the clipboard of this PC.  A text or a list of files is one value.      *)
(***************************************************************************)
EXTENDS Naturals, FiniteSets

CONSTANTS PCs,     \* the remote PCs
          Texts, FileLists,
          Copied   \* what is copied on each PC

Here == "here"     \* this PC
Nothing == "nothing"
Contents == Texts \cup FileLists

VARIABLES board,   \* what the clipboard of each PC holds
          conn,    \* the PC the window is connected to, and what it reported
          shared,  \* the page's clipboard
          known,   \* what the window believes of the remote PC
          job,     \* the files being brought to the remote PC
          taking,  \* the deliveries to this PC under way: what they bring, where they are, whether
                   \* the page's clipboard still holds that copy; history: the last copy when it was set
          newest   \* history: the last copy the page saw

clipVars == <<board, conn, shared, known, job, taking, newest>>

NoJob == [kind |-> "none", to |-> Here, files |-> Nothing]
NoNews == [what |-> Nothing, initial |-> FALSE]

ClipTypeOK ==
  /\ board \in [PCs \cup {Here} -> Contents \cup {Nothing}]
  /\ conn \in [pc : PCs, hello : BOOLEAN,
               news : [what : Contents \cup {Nothing}, initial : BOOLEAN]]
  /\ shared \in [files : FileLists \cup {Nothing}, delivered : SUBSET (PCs \cup {Here}),
                 text : Texts \cup {Nothing}, lastText : Texts \cup {Nothing},
                 lastFiles : FileLists \cup {Nothing},
                 up : [PCs -> FileLists \cup {Nothing}]]
  /\ known \in [text : Texts \cup {Nothing}, dir : PCs \cup {Nothing}]
  /\ job \in [kind : {"none", "up", "across"}, to : PCs \cup {Here},
              files : FileLists \cup {Nothing}]
  /\ taking \subseteq [files : FileLists, at : {"copying", "setting"}, live : BOOLEAN, last : Contents \cup {Nothing}]
  /\ newest \in Contents \cup {Nothing}

ClipInit ==
  /\ board \in [PCs \cup {Here} -> {Nothing}]
  /\ \E pc \in PCs : conn = [pc |-> pc, hello |-> FALSE, news |-> NoNews]
  /\ shared = [files |-> Nothing, delivered |-> {}, text |-> Nothing, lastText |-> Nothing,
               lastFiles |-> Nothing, up |-> [pc \in PCs |-> Nothing]]
  /\ known = [text |-> Nothing, dir |-> Nothing]
  /\ job = NoJob /\ taking = {} /\ newest = Nothing

(* clear, set, setText, noteLocalText and noteLocalFiles of the page's     *)
(* clipboard, as functions of it.                                          *)
Cleared(s) == [s EXCEPT !.files = Nothing, !.delivered = {}]
WithFiles(s, pc, files) ==
  [s EXCEPT !.files = files, !.delivered = {pc}, !.text = Nothing, !.up[pc] = Nothing]

WithText(s, pc, text) == [Cleared(s) EXCEPT !.text = text, !.up[pc] = Nothing]
IsNewText(s, text) == s.lastText # Nothing /\ text # s.lastText
TextNoted(s, text) ==
  [(IF IsNewText(s, text) THEN [Cleared(s) EXCEPT !.text = Nothing] ELSE s)
     EXCEPT !.lastText = text]

IsNewFiles(s, files) ==
  IF s.lastFiles = Nothing THEN s.files = Nothing ELSE files # s.lastFiles
FilesNoted(s, files) ==
  [(IF IsNewFiles(s, files) THEN [Cleared(s) EXCEPT !.text = Nothing] ELSE s)
     EXCEPT !.lastFiles = files]

(* The last copy, when the page reads content from the clipboard of this   *)
(* PC: what is other than it was at the last reading is a new copy; what   *)
(* is read for the first time is one if it is files and none wait.         *)
Seen(content) ==
  LET before == IF content \in Texts THEN shared.lastText ELSE shared.lastFiles
      new == IF before # Nothing THEN content # before ELSE content \in FileLists /\ shared.files = Nothing
  IN IF new THEN content ELSE newest

(* Another copy, or none, is in the page's clipboard: that of the          *)
(* deliveries under way is not.                                            *)
Overtaken == {[t EXCEPT !.live = FALSE] : t \in taking}
Staled(s) == IF s.files = Nothing THEN Overtaken ELSE taking

(* A message to the remote PC: it reaches it only while it is connected.   *)
Put(content) == IF conn.hello THEN [board EXCEPT ![conn.pc] = content] ELSE board

CopyHere(content) ==
  /\ board' = [board EXCEPT ![Here] = content]
  /\ UNCHANGED <<conn, shared, known, job, taking, newest>>

(* A copy on the remote screen, reported by its agent.                     *)
CopyThere(content) ==
  /\ conn.hello /\ conn.news = NoNews
  /\ board' = [board EXCEPT ![conn.pc] = content]
  /\ conn' = [conn EXCEPT !.news = [what |-> content, initial |-> FALSE]]
  /\ UNCHANGED <<shared, known, job, taking, newest>>

Switch(pc) ==
  /\ conn' = [pc |-> pc, hello |-> FALSE, news |-> NoNews]
  /\ UNCHANGED <<board, shared, known, job, taking, newest>>

(* The connection is made: the remote PC names its folder, then the text   *)
(* its clipboard held before.                                              *)
Hello ==
  /\ ~conn.hello
  /\ conn' = [conn EXCEPT !.hello = TRUE,
                !.news = IF board[conn.pc] \in Texts
                         THEN [what |-> board[conn.pc], initial |-> TRUE] ELSE NoNews]
  /\ known' = [text |-> Nothing, dir |-> conn.pc]
  /\ UNCHANGED <<board, shared, job, taking, newest>>

(* A text the remote PC reports: one that was there before is only         *)
(* remembered; a new copy waits for the other PCs and is written to the    *)
(* clipboard of this PC where the browser lets the page.                   *)
TextReported(writable) ==
  LET text == conn.news.what
      isCopy == ~conn.news.initial /\ text # known.text IN
  /\ text \in Texts
  /\ conn' = [conn EXCEPT !.news = NoNews]
  /\ known' = [known EXCEPT !.text = text]
  /\ IF isCopy
     THEN /\ shared' = IF writable THEN [WithText(shared, conn.pc, text) EXCEPT !.lastText = text]
                                   ELSE WithText(shared, conn.pc, text)
          /\ board' = IF writable THEN [board EXCEPT ![Here] = text] ELSE board
          /\ newest' = text
     ELSE UNCHANGED <<shared, board, newest>>
  /\ taking' = Staled(shared')
  /\ UNCHANGED job

FilesReported ==
  /\ conn.news.what \in FileLists
  /\ conn' = [conn EXCEPT !.news = NoNews]
  /\ shared' = WithFiles(shared, conn.pc, conn.news.what)
  /\ newest' = conn.news.what
  /\ taking' = Overtaken
  /\ UNCHANGED <<board, known, job>>

(* syncClipboardToRemote: the text of this PC, unless one copied on a      *)
(* remote PC waits and this one is not new.                                *)
Pick(s, text) == IF ~IsNewText(s, text) /\ s.text # Nothing THEN s.text ELSE text

Sync ==
  LET text == board[Here] IN
  /\ text \in Texts
  /\ shared' = TextNoted(shared, text)
  /\ newest' = Seen(text)
  /\ known' = [known EXCEPT !.text = Pick(shared, text)]
  /\ board' = IF Pick(shared, text) # known.text THEN Put(Pick(shared, text)) ELSE board
  /\ taking' = Staled(shared')
  /\ UNCHANGED <<conn, job>>

(* resolvePaste, the parts after the files of this PC were looked at:      *)
(* files copied on a PC that has them not yet, else the text, else what    *)
(* the remote PC has.                                                      *)
PasteWaiting(s, localNew, text) ==
  IF s.files # Nothing /\ conn.pc \notin s.delivered
  THEN /\ job' = IF known.dir = Nothing THEN NoJob
                 ELSE [kind |-> "across", to |-> conn.pc, files |-> s.files]
       /\ UNCHANGED <<board, known>>
  ELSE LET chosen == IF ~localNew /\ s.text # Nothing THEN s.text ELSE text IN
       /\ IF chosen \in Texts /\ chosen # known.text
          THEN known' = [known EXCEPT !.text = chosen] /\ board' = Put(chosen)
          ELSE UNCHANGED <<known, board>>
       /\ UNCHANGED job

(* Ctrl+V with no clipboard of this PC: it holds nothing, or the browser   *)
(* sent no paste event in time.                                            *)
PasteNothing ==
  /\ job = NoJob
  /\ PasteWaiting(shared, FALSE, Nothing)
  /\ UNCHANGED <<conn, shared, taking, newest>>

PasteText ==
  LET text == board[Here] IN
  /\ job = NoJob /\ text \in Texts
  /\ shared' = TextNoted(shared, text)
  /\ newest' = Seen(text)
  /\ PasteWaiting(TextNoted(shared, text), IsNewText(shared, text), text)
  /\ taking' = Staled(shared')
  /\ UNCHANGED conn

PasteFiles ==
  LET files == board[Here]
      s == FilesNoted(shared, files) IN
  /\ job = NoJob /\ files \in FileLists
  /\ shared' = s
  /\ newest' = Seen(files)
  /\ IF IsNewFiles(shared, files) \/ s.files = Nothing \/ conn.pc \in s.delivered
     THEN /\ job' = IF s.up[conn.pc] = files \/ known.dir = Nothing THEN NoJob
                    ELSE [kind |-> "up", to |-> conn.pc, files |-> files]
          /\ UNCHANGED <<board, known>>
     ELSE PasteWaiting(s, FALSE, Nothing)
  /\ taking' = Staled(s)
  /\ UNCHANGED conn

(* The files are there (uploadLocal, pasteFiles): they are put in the      *)
(* clipboard of the PC if the window still shows it.                       *)
Brought ==
  /\ job # NoJob /\ job' = NoJob
  /\ IF conn.pc # job.to THEN UNCHANGED <<board, shared>>
     ELSE /\ board' = Put(job.files)
          /\ shared' = IF job.kind = "up" THEN [shared EXCEPT !.up[job.to] = job.files]
                       ELSE IF shared.files = Nothing THEN shared
                       ELSE [shared EXCEPT !.delivered = @ \cup {job.to}]
  /\ UNCHANGED <<conn, known, taking, newest>>

NotBrought ==
  /\ job # NoJob /\ job' = NoJob
  /\ UNCHANGED <<board, conn, shared, known, taking, newest>>

(* The badge of the files is clicked: they wait no more.                   *)
DropFiles ==
  /\ shared.files # Nothing
  /\ shared' = Cleared(shared)
  /\ taking' = Staled(shared')
  /\ UNCHANGED <<board, conn, known, job, newest>>

(* The window loses the focus: deliverToSelf.  Another copy may be brought *)
(* while an earlier one is.                                                *)
TakeHere ==
  /\ shared.files # Nothing /\ Here \notin shared.delivered /\ \A t \in taking : ~t.live
  /\ taking' = taking \cup {[files |-> shared.files, at |-> "copying", live |-> TRUE, last |-> Nothing]}
  /\ UNCHANGED <<board, conn, shared, known, job, newest>>

(* The files are on this PC: they are put in its clipboard unless another  *)
(* copy was made since.                                                    *)
Taken(t) ==
  /\ t.at = "copying"
  /\ taking' = (taking \ {t}) \cup (IF t.live THEN {[t EXCEPT !.at = "setting", !.last = newest]} ELSE {})
  /\ UNCHANGED <<board, conn, shared, known, job, newest>>

NotTaken(t) ==
  /\ taking' = taking \ {t}
  /\ UNCHANGED <<board, conn, shared, known, job, newest>>

(* The agent of this PC has set its clipboard.  A copy that was overtaken  *)
(* while it did is set all the same.                                       *)
SetHere(t) ==
  /\ t.at = "setting" /\ taking' = taking \ {t}
  /\ board' = [board EXCEPT ![Here] = t.files]
  /\ shared' = IF t.live THEN [shared EXCEPT !.delivered = @ \cup {Here}] ELSE shared
  /\ UNCHANGED <<conn, known, job, newest>>

ClipNext ==
  \/ \E content \in Copied[Here] : CopyHere(content)
  \/ \E content \in Copied[conn.pc] : CopyThere(content)
  \/ \E pc \in PCs : pc # conn.pc /\ Switch(pc)
  \/ Hello
  \/ \E writable \in BOOLEAN : TextReported(writable)
  \/ FilesReported
  \/ Sync
  \/ PasteNothing
  \/ PasteText
  \/ PasteFiles
  \/ Brought
  \/ NotBrought
  \/ DropFiles
  \/ TakeHere
  \/ \E t \in taking : Taken(t) \/ NotTaken(t) \/ SetHere(t)

(* Bound of the runs: files are brought one way at a time, to this PC by   *)
(* two deliveries at most and before its own files are pasted.             *)
OneAtATime ==
  /\ Cardinality(taking) <= 2
  /\ taking # {} => job = NoJob /\ shared.lastFiles = Nothing /\ \A pc \in PCs : shared.up[pc] = Nothing

ClipSpec == ClipInit /\ [][ClipNext]_clipVars

(* What waits to be pasted on another PC is the last copy the page took    *)
(* for one: never files and a text at once, never a copy that a later one  *)
(* on this PC or on a remote PC replaced.                                  *)
WaitsIsNewest ==
  /\ shared.files # Nothing => newest = shared.files /\ shared.text = Nothing
  /\ shared.text # Nothing => newest = shared.text

(* A delivery that was overtaken by another copy, or by a second delivery, *)
(* does not get the clipboard of this PC: what its agent is told to set is *)
(* the last copy at that time (fileClipboard.ts:110-111).                  *)
SetsTheNewest == \A t \in taking : t.at = "setting" => t.last = t.files

(* Does not hold (fileClipboard.ts:112):                                   *)
(* it is still the last copy when it is set; another made while the agent  *)
(* sets it is overwritten.                                                 *)
PutHereIsNewest == [][\A t \in taking \ taking' : t.at = "setting" /\ board'[Here] # board[Here] => newest = t.files]_clipVars

(* Does not hold:                                                         *)
(* A PC the files were delivered to has them in its clipboard, so Ctrl+V   *)
(* is sent as it is (the comment of RemoteFileClip.delivered).             *)
DeliveredIsThere ==
  conn.pc \in shared.delivered /\ conn.news = NoNews => board[conn.pc] = shared.files

(* Does not hold:                                                         *)
(* The same of the files of this PC (the comment of localDeliveredTo).     *)
UploadedIsThere ==
  shared.up[conn.pc] # Nothing /\ conn.news = NoNews => board[conn.pc] = shared.up[conn.pc]

(* Does not hold:                                                         *)
(* Files go into the folder that the PC they go to has named.              *)
IntoItsFolder == [][job = NoJob /\ job' # NoJob => known.dir = job'.to]_clipVars
=============================================================================
