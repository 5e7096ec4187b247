----------------------------- MODULE ChatWindow -----------------------------
(***************************************************************************)
(* The chat panel (ChatPanel.tsx): the text being written in each room,    *)
(* the list of members that @ offers, the messages that are sent, and the  *)
(* windows over the conversation that start one, invite into it and show   *)
(* its members.  ChatRooms models what the rooms hold.                     *)
(*                                                                         *)
(* The panel is taken down and put up again when the sidebar is folded or  *)
(* its contents become a window; the texts are kept beside it.  What is    *)
(* under way goes on then, and its answer finds another panel, or none.    *)
(* A name is known by the users whose name it begins with.                 *)
(***************************************************************************)
EXTENDS Naturals, FiniteSets

CONSTANTS Rooms,     \* the group rooms there may be
          Users,     \* the other users
          Begins,    \* Begins[u]: the users whose name u's name begins with, u among them
          MaxTexts,  \* bound: texts typed
          MaxAsks,   \* bound: requests of the windows over the conversation
          MaxPanels  \* bound: times the panel is put up

VARIABLES
  members,  \* the members of each room beside oneself; a room not in the domain is not listed
  owner,    \* the room is one's own
  panel,    \* [nth, on, room, drafts, caret]: nth counts the panels there have been, caret: it is in a word after @
  saved,    \* savedDrafts
  sends,    \* messages on their way
  past,     \* history: [typed, stored, dropped, covered] texts
  overlay,  \* the window over the conversation, with the room it was opened in
  asks      \* [open, made]: its requests on their way and how many there have been

chatWindowVars == <<members, owner, panel, saved, sends, past, overlay, asks>>

NoRoom == "none"
NoText == [n |-> 0, of |-> NoRoom, words |-> {}]
NoOverlay == [kind |-> "none", of |-> NoRoom, picked |-> {}, query |-> {}]
Listed == DOMAIN members
Draft == IF panel.room = NoRoom THEN NoText ELSE panel.drafts[panel.room]

ChatWindowInit ==
  /\ members \in [Rooms -> SUBSET Users] /\ owner \in [Rooms -> BOOLEAN]
  /\ saved = [r \in Rooms |-> NoText]
  /\ panel = [nth |-> 1, on |-> TRUE, room |-> NoRoom, drafts |-> saved, caret |-> FALSE]
  /\ sends = {} /\ past = [typed |-> 0, stored |-> {}, dropped |-> {}, covered |-> {}]
  /\ overlay = NoOverlay /\ asks = [open |-> {}, made |-> 0]

(***************************************************************************)
(* The panel and the room shown.                                           *)
(***************************************************************************)

\* The effect of another room: the window over the old one goes.
Shown(r) ==
  /\ panel' = [panel EXCEPT !.room = r]
  /\ overlay' = IF r = panel.room THEN overlay ELSE NoOverlay

SelectRoom(r) ==
  /\ panel.on /\ r \in Listed /\ Shown(r)
  /\ UNCHANGED <<members, owner, saved, sends, past, asks>>

TakeDown ==
  /\ panel.on
  /\ panel' = [panel EXCEPT !.on = FALSE, !.caret = FALSE] /\ overlay' = NoOverlay
  /\ UNCHANGED <<members, owner, saved, sends, past, asks>>

PutUp ==
  /\ ~panel.on /\ panel.nth < MaxPanels
  /\ panel' = [panel EXCEPT !.on = TRUE, !.nth = @ + 1, !.drafts = saved]
  /\ UNCHANGED <<members, owner, saved, sends, past, overlay, asks>>

\* Removed from a room, or out of it by leaving: the room that is shown goes with it.
RoomGone(r) ==
  /\ r \in Listed
  /\ members' = [x \in Listed \ {r} |-> members[x]]
  /\ IF panel.room = r THEN Shown(NoRoom) ELSE UNCHANGED <<panel, overlay>>
  /\ UNCHANGED <<owner, saved, sends, past, asks>>

MemberMoves(r, u) ==
  /\ r \in Listed
  /\ members' = [members EXCEPT ![r] = IF u \in @ THEN @ \ {u} ELSE @ \cup {u}]
  /\ UNCHANGED <<owner, panel, saved, sends, past, overlay, asks>>

(***************************************************************************)
(* Writing.  The panel shows its own copy of the texts, taken anew at each *)
(* change it makes itself.                                                 *)
(***************************************************************************)
SetDraftOf(r, text) == saved' = [saved EXCEPT ![r] = text]
Redrawn == [panel EXCEPT !.drafts = saved']

\* What the panel does not show and a new text of the room takes the place of.
Covered(r, shown) == past.covered \cup ({saved[r].n} \ {0, shown})

Type(words) ==
  /\ panel.on /\ panel.room \in Listed /\ past.typed < MaxTexts
  /\ SetDraftOf(panel.room, [n |-> past.typed + 1, of |-> panel.room, words |-> words])
  /\ \E at \in BOOLEAN : panel' = [Redrawn EXCEPT !.caret = at]
  /\ past' = [past EXCEPT !.typed = @ + 1, !.dropped = @ \cup ({Draft.n} \ {0}), !.covered = Covered(panel.room, Draft.n)]
  /\ UNCHANGED <<members, owner, sends, overlay, asks>>

Erase ==
  /\ panel.on /\ panel.room \in Listed /\ Draft # NoText
  /\ SetDraftOf(panel.room, NoText) /\ panel' = [Redrawn EXCEPT !.caret = FALSE]
  /\ past' = [past EXCEPT !.dropped = @ \cup ({Draft.n} \ {0}), !.covered = Covered(panel.room, Draft.n)]
  /\ UNCHANGED <<members, owner, sends, overlay, asks>>

\* The members that are offered while the caret is in a word after @.
Candidates == IF panel.on /\ panel.caret /\ panel.room \in Listed /\ Draft # NoText THEN members[panel.room] ELSE {}

\* The arrows reach each of them; Enter, Tab or a click puts the name into the text.
Choose(u) ==
  /\ u \in Candidates
  /\ SetDraftOf(panel.room, [Draft EXCEPT !.words = @ \cup {u}]) /\ panel' = [Redrawn EXCEPT !.caret = FALSE]
  /\ past' = [past EXCEPT !.covered = Covered(panel.room, Draft.n)]
  /\ UNCHANGED <<members, owner, sends, overlay, asks>>

\* findMentions: the members whose name follows an @ somewhere.
FindMentions(words, users) == {u \in users : \E w \in words : u \in Begins[w]}

\* renderText: of the names a word begins with, the longest is drawn.
Longest(w, users) == {u \in users \cap Begins[w] : \A x \in users \cap Begins[w] : x \in Begins[u]}
DrawnMentions(words, users) == UNION {Longest(w, users) : w \in words}

Send ==
  /\ panel.on /\ panel.room \in Listed /\ Draft # NoText
  /\ SetDraftOf(panel.room, NoText) /\ panel' = [Redrawn EXCEPT !.caret = FALSE]
  /\ sends' = sends \cup {[room |-> panel.room, text |-> Draft, by |-> panel.nth, users |-> members[panel.room],
                           mentions |-> FindMentions(Draft.words, members[panel.room])]}
  /\ past' = [past EXCEPT !.covered = Covered(panel.room, Draft.n)]
  /\ UNCHANGED <<members, owner, overlay, asks>>

Sent(m) ==
  /\ sends' = sends \ {m} /\ past' = [past EXCEPT !.stored = @ \cup {m.text.n}]
  /\ UNCHANGED <<members, owner, panel, saved, overlay, asks>>

ComesBackIn(r, m) ==
  /\ SetDraftOf(r, m.text)
  /\ past' = [past EXCEPT !.covered = Covered(r, m.text.n)]
  /\ panel' = IF panel.on /\ panel.nth = m.by THEN Redrawn ELSE panel

\* A bug: the text comes back to the room that is shown.
ComesBackHere(m) == ComesBackIn(IF panel.room = NoRoom THEN m.room ELSE panel.room, m)

\* The text of a message that failed comes back to its room, over what has been written since;
\* the panel that sent it shows it, if it is still there.
ComesBack(m) == ComesBackIn(m.room, m)

SendFails(m) ==
  /\ sends' = sends \ {m} /\ ComesBack(m)
  /\ UNCHANGED <<members, owner, overlay, asks>>

(***************************************************************************)
(* The windows over the conversation.                                      *)
(***************************************************************************)
OpenOverlay(kind) ==
  /\ panel.on /\ (kind # "new" => panel.room \in Listed)
  /\ overlay' = [NoOverlay EXCEPT !.kind = kind, !.of = panel.room, !.query = Users]
  /\ UNCHANGED <<members, owner, panel, saved, sends, past, asks>>

CloseOverlay ==
  /\ overlay.kind # "none" /\ overlay' = NoOverlay
  /\ UNCHANGED <<members, owner, panel, saved, sends, past, asks>>

\* The query is the users it finds; who has been picked stays picked when it no longer finds them.
Search(found) ==
  /\ overlay.kind \in {"new", "invite"} /\ overlay' = [overlay EXCEPT !.query = found]
  /\ UNCHANGED <<members, owner, panel, saved, sends, past, asks>>

Offered == overlay.query \ (IF overlay.kind = "invite" THEN members[panel.room] ELSE {})
Pick(u) ==
  /\ overlay.kind \in {"new", "invite"} /\ u \in Offered
  /\ overlay' = [overlay EXCEPT !.picked = IF u \in @ THEN @ \ {u} ELSE @ \cup {u}]
  /\ UNCHANGED <<members, owner, panel, saved, sends, past, asks>>

\* run: nothing keeps the button from being pressed again before the answer.
Run(kind, r, users) ==
  /\ asks.made < MaxAsks
  /\ asks' = [open |-> asks.open \cup {[kind |-> kind, room |-> r, users |-> users, by |-> panel.nth, of |-> overlay.of]},
              made |-> asks.made + 1]
  /\ UNCHANGED <<members, owner, panel, saved, sends, past, overlay>>

Confirm ==
  \/ overlay.kind = "new" /\ Run("group", NoRoom, overlay.picked)
  \/ overlay.kind = "new" /\ \E u \in Offered : Run("direct", NoRoom, {u})
  \/ overlay.kind = "invite" /\ overlay.picked # {} /\ Run("invite", panel.room, overlay.picked)
  \/ overlay.kind = "members" /\ owner[panel.room] /\ \E u \in members[panel.room] : Run("kick", panel.room, {u})

Leave == panel.on /\ panel.room \in Listed /\ Run("leave", panel.room, {})

\* The window goes with the answer, whichever it is by then, unless the panel is another.
Closed(a) == IF panel.on /\ panel.nth = a.by THEN NoOverlay ELSE overlay

\* The room of the answer is put into the list, also when one has been removed from it meanwhile.
Upsert(r, users) == members' = [x \in Listed \cup {r} |-> IF x = r THEN users ELSE members[x]]
Held(r) == IF r \in Listed THEN members[r] ELSE {}

RoomOpened(a) ==
  /\ a.kind \in {"group", "direct"}
  /\ \E r \in IF a.kind = "group" THEN Rooms \ Listed ELSE {x \in Listed : members[x] = a.users} \cup (Rooms \ Listed) :
       /\ Upsert(r, a.users) /\ owner' = [owner EXCEPT ![r] = (a.kind = "group")]
       /\ panel' = [panel EXCEPT !.room = r]
  /\ overlay' = (IF panel'.room # panel.room THEN NoOverlay ELSE Closed(a))

Invited(a) == /\ a.kind = "invite" /\ Upsert(a.room, Held(a.room) \cup a.users) /\ overlay' = Closed(a)
              /\ UNCHANGED <<owner, panel>>
KickedOut(a) == a.kind = "kick" /\ Upsert(a.room, Held(a.room) \ a.users) /\ UNCHANGED <<owner, panel, overlay>>
HasLeft(a) ==
  /\ a.kind = "leave" /\ members' = [x \in Listed \ {a.room} |-> members[x]]
  /\ IF panel.room = a.room THEN Shown(NoRoom) ELSE UNCHANGED <<panel, overlay>>
  /\ UNCHANGED owner

Answered(a) ==
  /\ asks' = [asks EXCEPT !.open = @ \ {a}]
  /\ RoomOpened(a) \/ Invited(a) \/ KickedOut(a) \/ HasLeft(a)
  /\ UNCHANGED <<saved, sends, past>>

\* A request that fails says so and leaves the window.
AnswerFails(a) ==
  /\ asks' = [asks EXCEPT !.open = @ \ {a}]
  /\ UNCHANGED <<members, owner, panel, saved, sends, past, overlay>>

Next ==
  \/ \E r \in Rooms : SelectRoom(r) \/ RoomGone(r) \/ \E u \in Users : MemberMoves(r, u)
  \/ TakeDown \/ PutUp \/ Erase \/ Send \/ CloseOverlay \/ Confirm \/ Leave
  \/ \E w \in {{}} \cup {{u} : u \in Users} : Type(w)
  \/ \E u \in Users : Choose(u) \/ Pick(u) \/ Search({u})
  \/ \E m \in sends : Sent(m) \/ SendFails(m)
  \/ \E kind \in {"new", "invite", "members"} : OpenOverlay(kind)
  \/ \E a \in asks.open : Answered(a) \/ AnswerFails(a)

\* What TLC looks into: writing, or the windows over the conversation; they share only the room.
WritesOrAsks == past.typed = 0 \/ (asks.made = 0 /\ overlay = NoOverlay)

ChatWindowSpec == ChatWindowInit /\ [][Next]_chatWindowVars

(***************************************************************************)
(* Properties.                                                             *)
(***************************************************************************)
ChatWindowTypeOK ==
  /\ Listed \subseteq Rooms /\ \A r \in Listed : members[r] \subseteq Users
  /\ panel.room \in Listed \cup {NoRoom} /\ DOMAIN panel.drafts = Rooms /\ DOMAIN saved = Rooms
  /\ overlay.kind \in {"none", "new", "invite", "members"} /\ overlay.picked \subseteq Users
  /\ past.typed \in 0..MaxTexts /\ asks.made \in 0..MaxAsks

\* ChatPanel.tsx:72: a text that has been typed and neither sent nor changed by the user stays in its own room, while it is
\* being sent, when that fails, and when the panel is put up anew; only another text of the room may have come over it.
WrittenIsKept ==
  \A n \in 1..past.typed :
    \/ n \in past.stored \cup past.dropped \cup past.covered
    \/ \E r \in Rooms : saved[r].n = n /\ saved[r].of = r
    \/ \E m \in sends : m.text.n = n /\ m.room = m.text.of

\* People picked in one room are not invited to, or put out of, another: the window is of the room that is shown.
PicksAreOfTheRoom ==
  /\ overlay.kind # "none" => overlay.of = panel.room
  /\ \A a \in asks.open : a.kind \in {"invite", "kick"} => a.of = a.room

\* Does not hold:
\* ChatPanel.tsx:72: the text being written stays until it is sent.  A text that could not be sent comes back over it, and
\* in a panel put up meanwhile it is not seen.
NothingIsCovered == past.covered = {}

\* Does not hold:
\* ChatPanel.tsx:48: the longest name is taken, as in the text that is drawn.  A user whose name begins another's is
\* told of that one's messages.
MentionsAsDrawn == \A m \in sends : m.mentions = DrawnMentions(m.text.words, m.users)
=============================================================================
