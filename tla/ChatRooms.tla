------------------------------ MODULE ChatRooms ------------------------------
(***************************************************************************)
(* One group room of the chat as one user's dashboard shows it             *)
(* (useDashboard.ts: the Chat events, joinChat, sync, loadChatMessages,    *)
(* readChatRoom, upsertRoom, leave; ChatPanel.tsx; on the server           *)
(* ChatEndpoints and ChatRoomStore).                                       *)
(*                                                                         *)
(* A message is its id; the server stores it, then announces it to the     *)
(* members, and keeps for the user the last id read.  Two requests are    *)
(* announced in any order.  Events reach the dashboard in order, or are    *)
(* lost with the connection; HTTP answers take any time.  React runs an    *)
(* effect when what it depends on has changed: the step that changes it    *)
(* includes the effect.  The user who logs in again is the same one, and   *)
(* how far the others have read is left out.                               *)
(***************************************************************************)
EXTENDS Integers, FiniteSets, SequencesExt

CONSTANTS MaxMessages,  \* bound: messages of the room
          Kept,         \* messages that the server and the dashboard keep of a room (500)
          Take,         \* messages a load brings (200)
          MaxLoads      \* bound: times the messages or rooms are fetched

None == <<>>

VARIABLES
  author,   \* who each message the server has stored is from; "note": a notice of the server
  inRoom,   \* the user is a member
  readTo,   \* server: last id the user has read
  unsent,   \* what each request that was carried out has yet to announce
  line,     \* "down"; "away": connected, not in the group of the user; "up": in it
  joins,    \* JoinChat calls on their way
  feed,     \* events on their way
  posts,    \* requests and answers on their way
  here,     \* the user is logged in
  room,     \* the room in the list: None or its badge
  list,     \* the ids shown
  loaded,   \* the messages of the room are in chatMessages
  open,     \* the room is selected
  visible,  \* the panel is on the screen and the window has the focus
  fetched,  \* bound
  apart     \* history: [badge, shown] are not in step with the events, see the properties

chatVars == <<author, inRoom, readTo, unsent, line, joins, feed, posts, here, room, list, loaded, open, visible,
              fetched, apart>>
server == <<author, inRoom, readTo, unsent>>
net == <<line, joins>>
screen == <<here, room, list, loaded, open, visible>>

Oldest == IF Len(author) > Kept THEN Len(author) - Kept ELSE 0
Unread == {i \in DOMAIN author : i > readTo /\ author[i] = "other"}
ServerUnread == Cardinality({i \in Unread : i > Oldest})
RoomView == <<ServerUnread>>
Listed == room # None
Room == Len(author) + Cardinality({p \in posts : p.at = "asked" /\ p.kind \in {"send", "change", "leave"}}) < MaxMessages
LastOf(s, n) == IF Len(s) > n THEN SubSeq(s, Len(s) - n + 1, Len(s)) ELSE s

Init ==
  /\ author = <<>> /\ inRoom = TRUE /\ readTo = 0 /\ unsent = {}
  /\ line = "up" /\ joins = <<>> /\ feed = <<>> /\ posts = {} /\ here = TRUE
  /\ room = RoomView /\ list = <<>> /\ loaded = FALSE /\ open = FALSE /\ visible \in BOOLEAN
  /\ fetched = 0 /\ apart = [badge |-> FALSE, shown |-> FALSE]

(***************************************************************************)
(* The server: each request is carried out under the lock of the store,    *)
(* what it announces comes after it.                                       *)
(***************************************************************************)

Event(kind, id, who) == [kind |-> kind, id |-> id, who |-> who, view |-> None, sound |-> TRUE]
Announces(events) == unsent' = unsent \cup {events}
Next1 == Len(author) + 1

\* A message is read by its author.
Stored(who) ==
  /\ author' = Append(author, who) /\ UNCHANGED inRoom
  /\ IF who = "me" THEN readTo' = Next1 /\ Announces(<<Event("message", Next1, who), Event("read", Next1, who)>>)
     ELSE UNCHANGED readTo /\ Announces(<<Event("message", Next1, who)>>)

MarkRead(id) ==
  IF inRoom /\ readTo < id THEN readTo' = id /\ Announces(<<Event("read", id, "me")>>) /\ UNCHANGED <<author, inRoom>>
  ELSE UNCHANGED server

\* The room gets another name or another member: the members are sent the room and a notice.
Changed ==
  /\ author' = Append(author, "note") /\ UNCHANGED <<inRoom, readTo>>
  /\ Announces(<<Event("changed", Next1, "note"), Event("message", Next1, "note")>>)

\* The user goes: the others' notice is not for him, and how far he had read is forgotten.
Left ==
  /\ author' = Append(author, "note") /\ inRoom' = FALSE /\ readTo' = 0
  /\ Announces(<<Event("removed", Next1, "note")>>)

Elsewhere(step) == step /\ UNCHANGED <<net, feed, posts, screen, fetched, apart>>
OtherSends == Elsewhere(Room /\ Stored("other"))
OtherChanges == Elsewhere(Room /\ inRoom /\ Changed)
Kicked == Elsewhere(Room /\ inRoom /\ Left)
Invited ==
  /\ Room /\ ~inRoom /\ inRoom' = TRUE /\ author' = Append(author, "note")
  /\ Announces(<<Event("changed", Next1, "note"), Event("message", Next1, "note")>>)
  /\ UNCHANGED <<readTo, net, feed, posts, screen, fetched, apart>>
\* The user has read the room in another window.
ReadElsewhere == \E id \in DOMAIN author : Elsewhere(inRoom /\ readTo < id /\ MarkRead(id))

\* An announcement goes to the members of now; a room is sent as it is now.
Others(q) == {e \in UNION {ToSet(r) : r \in unsent \ {q}} : e.kind = "read" \/ e.who = "other"}
Announce(q) ==
  /\ q \in unsent /\ unsent' = IF Tail(q) = <<>> THEN unsent \ {q} ELSE (unsent \ {q}) \cup {Tail(q)}
  /\ LET e == IF Head(q).kind = "changed" THEN [Head(q) EXCEPT !.view = RoomView, !.sound = Others(q) = {}] ELSE Head(q)
         toMe == inRoom \/ e.kind = "removed"
     IN IF toMe /\ line # "up"
        THEN /\ feed' = [i \in DOMAIN feed |-> [feed[i] EXCEPT !.sound = FALSE]]
             /\ apart' = [badge |-> TRUE, shown |-> apart.shown \/ loaded]
        ELSE feed' = (IF toMe THEN Append(feed, e) ELSE feed) /\ UNCHANGED apart
  /\ UNCHANGED <<author, inRoom, readTo, net, posts, screen, fetched>>

\* Only members are served; the answer to a load or a change, of whatever it may be, is of this moment.
Answer(p) == (posts \ {p}) \cup {[p EXCEPT !.at = "answered", !.id = Len(author'), !.view = IF inRoom' THEN RoomView' ELSE None]}
Served(p) ==
  /\ p.at = "asked"
  /\ \/ p.kind = "read" /\ posts' = posts \ {p}
        /\ MarkRead(p.id)
     \/ p.kind = "send" /\ posts' = posts \ {p} /\ IF inRoom THEN Stored("me") ELSE UNCHANGED server
     \/ p.kind = "change" /\ IF inRoom THEN Changed /\ posts' = Answer(p) ELSE UNCHANGED server /\ posts' = posts \ {p}
     \/ p.kind = "leave" /\ IF inRoom THEN Left /\ posts' = Answer(p) ELSE UNCHANGED server /\ posts' = posts \ {p}
     \/ p.kind = "load" /\ UNCHANGED server /\ posts' = IF inRoom THEN Answer(p) ELSE posts \ {p}
     \/ p.kind = "rooms" /\ UNCHANGED server /\ posts' = Answer(p)
  /\ UNCHANGED <<net, feed, screen, fetched, apart>>

(***************************************************************************)
(* The dashboard.                                                          *)
(***************************************************************************)

Request(kind, id) == [kind |-> kind, id |-> id, view |-> None, at |-> "asked"]

\* readChatRoom: the badge goes, and the last message shown is reported as read.
ReadRoom(shown, others) ==
  room' = <<0>> /\ posts' = IF shown = <<>> THEN others ELSE others \cup {Request("read", Last(shown))}

\* ChatPanel's effect: it reads a room it shows when the room, its visibility or the number of
\* its messages has changed.
Reads(r, shown, isLoaded, isOpen, isVisible, others) ==
  IF r # None /\ isLoaded /\ isOpen /\ isVisible
     /\ (Len(shown) # Len(list) \/ isLoaded # loaded \/ isOpen # open \/ isVisible # visible)
  THEN ReadRoom(shown, others)
  ELSE room' = r /\ posts' = others

\* The messages that were stored and whose announcement has yet to come.
Coming(rest) == {e.id : e \in {e \in ToSet(rest) \cup UNION {ToSet(q) : q \in unsent} : e.kind = "message"}}
Arrived(rest) == DOMAIN author \ Coming(rest)
Both(b) == [badge |-> apart.badge \/ b, shown |-> apart.shown \/ b]

\* Only so many messages are kept: a full list does not get longer.
MessageArrives(e, rest) ==
  LET shown == IF loaded /\ e.id \notin ToSet(list) THEN LastOf(Append(list, e.id), Kept) ELSE list
      mine == e.who = "note" \/ (here /\ e.who = "me")
      r == IF ~Listed THEN None ELSE <<IF mine THEN room[1] ELSE room[1] + 1>>
  IN /\ list' = shown /\ Reads(r, shown, loaded, open, visible, posts) /\ UNCHANGED <<loaded, open>>
     /\ apart' = Both(\E i \in Coming(rest) : i < e.id)

\* A message after id has arrived and is not among those shown.
Unseen(id, rest) == \E i \in Arrived(rest) : i > id /\ i \notin ToSet(list)

\* What was read is never unread again; reading elsewhere leaves what came after it.
ReadArrives(e, rest) ==
  LET later == IF loaded THEN Cardinality({i \in ToSet(list) : i > e.id /\ author[i] = "other"}) ELSE 0
      unread == IF here /\ later < room[1] THEN later ELSE room[1]
  IN /\ room' = (IF Listed THEN <<unread>> ELSE room)
     /\ apart' = Both(Unseen(e.id, rest) \/ \E i \in Coming(rest) : i <= e.id)
     /\ UNCHANGED <<posts, list, loaded, open>>

\* A room that is gone closes the conversation.
RemovedArrives ==
  /\ room' = None /\ list' = <<>> /\ loaded' = FALSE /\ open' = FALSE /\ UNCHANGED posts
  /\ apart' = [badge |-> apart.badge \/ apart.shown, shown |-> FALSE]

\* The room is put in the list as it was when it was sent.
ChatRoomChanged(e) ==
  /\ room' = e.view /\ apart' = [apart EXCEPT !.badge = ~e.sound]
  /\ UNCHANGED <<posts, list, loaded, open>>

FeedArrives ==
  /\ feed # <<>> /\ feed' = Tail(feed)
  /\ LET e == Head(feed)
     IN \/ e.kind = "message" /\ MessageArrives(e, Tail(feed))
        \/ e.kind = "read" /\ ReadArrives(e, Tail(feed))
        \/ e.kind = "removed" /\ RemovedArrives
        \/ e.kind = "changed" /\ ChatRoomChanged(e)
  /\ UNCHANGED <<server, net, here, visible, fetched>>

\* The answer is what the server has now, and nothing that it holds already is to come.
InStep(p) == feed = <<>> /\ unsent = {} /\ p.id = Len(author) /\ p.view = IF inRoom THEN RoomView ELSE None

\* The answer to a load replaces the messages.
MessagesLoaded(p) ==
  LET kept == LastOf([i \in 1..p.id |-> i], Kept)
      shown == LastOf(kept, Take)
  IN /\ list' = shown /\ loaded' = TRUE /\ Reads(room, shown, TRUE, open, visible, posts \ {p})
     /\ apart' = [badge |-> apart.badge \/ apart.shown,
                  shown |-> line # "up" \/ Arrived(feed) # 1..p.id]
     /\ UNCHANGED open
\* setChatRooms of sync and joinChat, upsertRoom; leave takes the room out.  A room that is
\* not there any more is not selected.
RoomAnswered(p) ==
  /\ room' = IF p.kind = "leave" THEN None ELSE p.view
  /\ open' = (open /\ room' # None) /\ posts' = posts \ {p}
  /\ apart' = [apart EXCEPT !.badge = ~InStep(p)] /\ UNCHANGED <<list, loaded>>
AnswerArrives(p) ==
  /\ p.at = "answered" /\ (IF p.kind = "load" THEN MessagesLoaded(p) ELSE RoomAnswered(p))
  /\ UNCHANGED <<server, net, feed, here, visible, fetched>>

\* Selecting the room loads its messages unless they are there.
OpenRoom ==
  /\ here /\ Listed /\ ~open
  /\ open' = TRUE
  /\ IF loaded THEN Reads(room, list, TRUE, TRUE, visible, posts) /\ UNCHANGED fetched
     ELSE fetched < MaxLoads /\ fetched' = fetched + 1 /\ posts' = posts \cup {Request("load", 0)} /\ UNCHANGED room
  /\ UNCHANGED <<server, net, feed, here, list, loaded, visible, apart>>

CloseRoom ==
  /\ open /\ open' = FALSE
  /\ UNCHANGED <<server, net, feed, posts, here, room, list, loaded, visible, fetched, apart>>

Focus ==
  /\ visible' = ~visible
  /\ Reads(room, list, loaded, open, ~visible, posts)
  /\ UNCHANGED <<server, net, feed, here, list, loaded, open, fetched, apart>>

\* send; rename, invite or kick; leave.
Ask(kind) ==
  /\ open /\ Room /\ posts' = posts \cup {Request(kind, 0)}
  /\ UNCHANGED <<server, net, feed, screen, fetched, apart>>

(***************************************************************************)
(* The connection and the user.                                            *)
(***************************************************************************)

Dropped ==
  /\ line # "down" /\ fetched < MaxLoads
  /\ line' = "down" /\ joins' = <<>> /\ feed' = <<>>
  /\ apart' = [badge |-> apart.badge \/ feed # <<>>, shown |-> apart.shown \/ (loaded /\ feed # <<>>)]
  /\ UNCHANGED <<server, posts, screen, fetched>>

\* sync: JoinChat again, then the rooms; the messages of an open room are not fetched again.
\* Until it calls JoinChat the line counts as down.
Reconnected ==
  /\ line = "down" /\ fetched < MaxLoads
  /\ line' = "away" /\ joins' = (IF here THEN <<"sync">> ELSE <<>>) /\ fetched' = fetched + 1
  /\ UNCHANGED <<server, feed, posts, screen, apart>>

JoinServed ==
  /\ joins # <<>> /\ joins' = Tail(joins)
  /\ line' = IF Head(joins) = "leave" THEN "away" ELSE "up"
  /\ posts' = IF Head(joins) = "sync" /\ here THEN posts \cup {Request("rooms", 0)} ELSE posts
  /\ UNCHANGED <<server, feed, screen, fetched, apart>>

\* joinChat: the rooms and messages go, those of the user are fetched; it does not wait for the
\* group, nor for what is under way.
JoinChat(in, call) ==
  /\ here' = in /\ room' = None /\ list' = <<>> /\ loaded' = FALSE /\ open' = FALSE
  /\ joins' = IF line = "down" THEN joins ELSE Append(joins, call)
  /\ apart' = [badge |-> TRUE, shown |-> FALSE]
  /\ UNCHANGED <<server, line, feed, visible>>
LogOut == here /\ JoinChat(FALSE, "leave") /\ UNCHANGED <<posts, fetched>>
LogIn ==
  /\ ~here /\ JoinChat(TRUE, "join") /\ fetched < MaxLoads /\ fetched' = fetched + 1
  /\ posts' = posts \cup {Request("rooms", 0)}

Next ==
  \/ OtherSends \/ OtherChanges \/ ReadElsewhere \/ Kicked \/ Invited
  \/ \E q \in unsent : Announce(q)
  \/ FeedArrives \/ OpenRoom \/ CloseRoom \/ Focus \/ Dropped \/ Reconnected \/ JoinServed \/ LogOut \/ LogIn
  \/ \E kind \in {"send", "change", "leave"} : Ask(kind)
  \/ \E p \in posts : Served(p) \/ AnswerArrives(p)

ChatSpec == Init /\ [][Next]_chatVars

\* Bound: what is on its way.
FewWait == Len(feed) + Cardinality(unsent) + Cardinality(posts) + Len(joins) <= 2

(***************************************************************************)
(* Properties.                                                             *)
(***************************************************************************)

Rest == line = "up" /\ joins = <<>> /\ feed = <<>> /\ posts = {} /\ unsent = {}

\* Once nothing is on its way, the badge counts the messages the server counts as unread, or,
\* where there are more than it keeps, at most those that came since the user last read, whatever
\* the order of messages, changes of the room, reads of this and other windows, loads, removals and
\* invitations.  This is so only if the badge and the messages are in step with the events, which
\* they are not
\*   - after an event was lost, until the rooms or the room are sent anew,
\*   - after an answer or a room that is older or newer than the events that have arrived,
\*   - after messages that arrive in another order than they were stored in, or after what was
\*     read in them,
\*   - after the room was read elsewhere while messages that had come after were not shown here.
BadgeIsServer ==
  Rest /\ here /\ Listed /\ inRoom /\ ~apart.badge /\ ~apart.shown =>
    /\ ServerUnread <= room[1] /\ room[1] <= Cardinality(Unread)

\* Does not hold:
\* ChatPanel.tsx:98: a room that is shown is read, also when a new message comes; a list that is
\* full does not get longer.
OpenRoomIsRead == Rest /\ Listed /\ ~apart.badge /\ open /\ visible /\ loaded => room[1] = 0
\* Does not hold: messages are shown in the order the server has stored them in
\* (ChatEndpoints.cs:90-91, each request announces its own).
ShownInOrder == \A i, j \in DOMAIN list : i < j => list[i] < list[j]
===============================================================================
