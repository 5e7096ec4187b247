----------------------------- MODULE RemoteView -----------------------------
(***************************************************************************)
(* The window that shows and drives the screen of another PC: its          *)
(* connection, keys, full screen and list of PCs (RemoteModal.tsx), the    *)
(* tab it fills (RemoteTabHost.tsx, remoteTab.ts), the cards that open it  *)
(* (RemoteGrid.tsx) and the decoders of its picture and sound (sinks.ts).  *)
(* Keys that are held stay held on the remote PC until it is told to let   *)
(* them go.                                                                *)
(***************************************************************************)
EXTENDS Naturals, Sequences

CONSTANTS PCs, Locked    \* the PCs, and those a PIN locks

Keys == {"Ctrl", "V"}
MaxRelays == 1           \* bound: connections to the key relay being made

VARIABLES win,     \* the window: the PC it shows, its phase, its retries
          sock,    \* the WebSocket of the window
          opened,  \* the PCs the PIN was given for
          \* the PCs one may not drive now: offline, forbidden, in use
          keys,    \* what this PC holds down and what the window noted of it
          held,    \* the keys each remote PC has down, but for those that a
                   \* lost connection left down
          full     \* full screen, key lock, and the key relay of this PC

remoteVars == <<win, sock, opened, keys, held, full>>

RemoteTypeOK ==
  /\ win \in [pc : PCs, shown : BOOLEAN, unlocked : PCs \cup {"none"}, asking : BOOLEAN,
              retries : 0..2, phase : {"connecting", "live", "closed"}]
  /\ sock \in [pc : PCs, state : {"none", "connecting", "open", "closed"}]
  /\ opened \subseteq Locked
  /\ keys \in [down : SUBSET Keys, pressed : SUBSET Keys, swallowed : SUBSET Keys,
               focused : BOOLEAN, viewOnly : BOOLEAN]
  /\ held \in [PCs -> SUBSET Keys]
  /\ full \in [on : BOOLEAN, lock : {"off", "locked", "agent"}, asked : 0..MaxRelays,
               relay : BOOLEAN]

NoSocket(pc) == [pc |-> pc, state |-> "none"]

(* A window that mounts asks for the PIN first.                            *)
Fresh(pc) == [pc |-> pc, shown |-> TRUE, unlocked |-> "none", asking |-> TRUE,
              retries |-> 0, phase |-> "connecting"]
FreshKeys == [down |-> {}, pressed |-> {}, swallowed |-> {}, focused |-> TRUE,
              viewOnly |-> FALSE]

RemoteInit ==
  /\ \E pc \in PCs : win = Fresh(pc) /\ sock = NoSocket(pc)
  /\ opened = {}
  /\ keys = FreshKeys /\ held = [pc \in PCs |-> {}]
  /\ full = [on |-> FALSE, lock |-> "off", asked |-> 0, relay |-> FALSE]

(* The connection effect after the PC, the attempt or the PIN changed: the *)
(* old socket is closed, and a new one is made only for the PC whose PIN   *)
(* was given; without it the phase stays as it was.                        *)
Connects(w) == w.unlocked = w.pc
Connected(w) == /\ win' = IF Connects(w) THEN [w EXCEPT !.phase = "connecting"] ELSE w
                /\ sock' = [pc |-> w.pc, state |-> IF Connects(w) THEN "connecting" ELSE "none"]

(* A new attempt asks for the PIN again and connects again.                *)
Attempt(w) == Connected([w EXCEPT !.asking = TRUE])

(* send() reaches the remote PC only while the socket is open.             *)
Open == sock.state = "open"
Sent(hold) == IF Open THEN [held EXCEPT ![sock.pc] = hold] ELSE held

(* releaseKeys: what was noted as pressed goes up, and the modifiers.      *)
Lost == [held EXCEPT ![win.pc] = {}]
LetGo == Sent((held[sock.pc] \ keys.pressed) \ {"Ctrl"})
NoneHeld == [keys EXCEPT !.pressed = {}]

PinAnswers(ok) ==
  /\ win.shown /\ win.asking
  /\ win.pc \notin Locked => ok
  /\ opened' = IF ok THEN opened \cup ({win.pc} \cap Locked) ELSE opened
  /\ win.pc \in opened => ok
  /\ IF ~ok THEN /\ win' = [win EXCEPT !.asking = FALSE, !.phase = "closed"] /\ UNCHANGED sock
     ELSE IF win.unlocked = win.pc THEN /\ win' = [win EXCEPT !.asking = FALSE] /\ UNCHANGED sock
     ELSE Connected([win EXCEPT !.asking = FALSE, !.unlocked = win.pc])
  /\ UNCHANGED <<keys, held, full>>

SocketOpens ==
  /\ win.shown /\ sock.state = "connecting"
  /\ sock' = [sock EXCEPT !.state = "open"]
  /\ UNCHANGED <<win, opened, keys, held, full>>

(* A frame that the decoder took.                                          *)
FrameArrives ==
  /\ win.shown /\ Open
  /\ win' = [win EXCEPT !.phase = "live"]
  /\ UNCHANGED <<sock, opened, keys, held, full>>

(* The session of the remote PC changes (status 'reattaching').            *)
Reattaching ==
  /\ win.shown /\ Open
  /\ win' = [win EXCEPT !.phase = "connecting"]
  /\ UNCHANGED <<sock, opened, keys, held, full>>

SocketCloses ==
  /\ win.shown /\ sock.state \in {"connecting", "open"}
  /\ sock' = [sock EXCEPT !.state = "closed"]
  /\ win' = [win EXCEPT !.phase = "closed"]
  /\ UNCHANGED <<opened, keys, full>>
  /\ held' = Lost

(* No picture for 20 seconds: again, twice for each [connect again].       *)
AutoRetry ==
  /\ win.shown /\ win.phase = "connecting" /\ win.retries < 2
  /\ Attempt([win EXCEPT !.retries = @ + 1])
  /\ UNCHANGED <<opened, keys, full>>
  /\ held' = Lost

ConnectAgain ==
  /\ win.shown /\ win.phase = "closed" /\ ~keys.focused
  /\ Attempt([win EXCEPT !.retries = 0])
  /\ UNCHANGED <<opened, keys, full>>
  /\ held' = Lost

(* onKey: Ctrl+V is kept back for the paste, the other keys are sent.      *)
KeyDown(k) ==
  /\ win.shown /\ keys.focused
  /\ LET now == [keys EXCEPT !.down = @ \cup {k}] IN
     IF keys.viewOnly THEN keys' = now /\ UNCHANGED held
     ELSE IF k = "V" /\ "Ctrl" \in keys.down
     THEN keys' = [now EXCEPT !.swallowed = @ \cup {k}] /\ UNCHANGED held
     ELSE /\ keys' = [now EXCEPT !.pressed = @ \cup {k}]
          /\ held' = Sent(held[sock.pc] \cup {k})
  /\ UNCHANGED <<win, sock, opened, full>>

KeyUp(k) ==
  /\ win.shown /\ keys.focused /\ k \in keys.down
  /\ LET now == [keys EXCEPT !.down = @ \ {k}] IN
     IF keys.viewOnly THEN keys' = now /\ UNCHANGED held
     ELSE IF k \in keys.swallowed
     THEN keys' = [now EXCEPT !.swallowed = @ \ {k}] /\ UNCHANGED held
     ELSE /\ keys' = [now EXCEPT !.pressed = @ \ {k}]
          /\ held' = Sent(held[sock.pc] \ {k})
  /\ UNCHANGED <<win, sock, opened, full>>

(* onRelayKey: keys the agent of this PC caught; the focus does not matter.*)
RelayKey(k, isDown) ==
  /\ win.shown /\ full.relay /\ ~keys.viewOnly
  /\ keys' = [keys EXCEPT !.pressed = IF isDown THEN @ \cup {k} ELSE @ \ {k}]
  /\ held' = Sent(IF isDown THEN held[sock.pc] \cup {k} ELSE held[sock.pc] \ {k})
  /\ UNCHANGED <<win, sock, opened, full>>

(* The stage loses the focus, also to a control of the window.             *)
Blur ==
  /\ win.shown /\ keys.focused
  /\ held' = LetGo
  /\ keys' = [NoneHeld EXCEPT !.focused = FALSE, !.down = {}]
  /\ UNCHANGED <<win, sock, opened, full>>

Focus ==
  /\ win.shown /\ ~keys.focused
  /\ keys' = [keys EXCEPT !.focused = TRUE]
  /\ UNCHANGED <<win, sock, opened, held, full>>

ToggleViewOnly ==
  /\ win.shown /\ ~keys.focused /\ ~full.on
  /\ keys' = [keys EXCEPT !.viewOnly = ~@, !.focused = TRUE]
  /\ UNCHANGED <<win, sock, opened, held, full>>

(* A bug: the keys are still held when the window shows another PC.        *)
SwitchKeeping(pc) ==
  /\ held' = held
  /\ keys' = [keys EXCEPT !.focused = TRUE]
  /\ Attempt([win EXCEPT !.pc = pc])
(* applySwitch                                                             *)
Switch(pc) ==
  /\ held' = LetGo
  /\ keys' = [NoneHeld EXCEPT !.focused = TRUE]
  /\ Attempt([win EXCEPT !.pc = pc])

(* A click in the list of PCs (switchTo) on one that may be driven: it is  *)
(* online, not forbidden and nobody else drives it.                        *)
PickInList(pc) ==
  /\ win.shown /\ ~keys.focused
  /\ pc # win.pc
  /\ Switch(pc)
  /\ UNCHANGED <<opened, full>>

(* A card of the dashboard: the tab that is open changes its PC, a closed  *)
(* one shows the window again (openRemoteTab, exposeRemoteTab).            *)
PickInGrid(pc) ==
  /\ IF ~win.shown THEN win' = Fresh(pc) /\ sock' = NoSocket(pc) /\ keys' = FreshKeys /\ held' = held
     ELSE pc # win.pc /\ Switch(pc)
  /\ UNCHANGED <<opened, full>>

(* Full screen asks for the keys of this PC: the browser's lock, else the  *)
(* relay of this PC's agent; leaving it gives them back.                   *)
EnterFull(locked) ==
  /\ win.shown /\ ~full.on
  /\ IF locked THEN full' = [full EXCEPT !.on = TRUE, !.lock = "locked"]
     ELSE /\ full.asked < MaxRelays
          /\ full' = [full EXCEPT !.on = TRUE, !.asked = @ + 1]
  /\ keys' = [keys EXCEPT !.focused = TRUE]
  /\ UNCHANGED <<win, sock, opened, held>>

Left(f) == [f EXCEPT !.on = FALSE, !.lock = "off", !.relay = FALSE]

LeaveFull ==
  /\ win.shown /\ full.on
  /\ full' = Left(full)
  /\ keys' = [keys EXCEPT !.focused = TRUE]
  /\ UNCHANGED <<win, sock, opened, held>>

RelayOpens ==
  /\ full.asked > 0
  /\ full' = [full EXCEPT !.asked = @ - 1, !.relay = TRUE, !.lock = "agent"]
  /\ UNCHANGED <<win, sock, opened, keys, held>>

RelayFails ==
  /\ full.asked > 0
  /\ full' = [full EXCEPT !.asked = @ - 1]
  /\ UNCHANGED <<win, sock, opened, keys, held>>

RelayDrops ==
  /\ full.relay
  /\ full' = [full EXCEPT !.relay = FALSE, !.lock = IF @ = "agent" THEN "off" ELSE @]
  /\ UNCHANGED <<win, sock, opened, keys, held>>

(* The close button: the tab closes, or shows that the window was closed.  *)
Close ==
  /\ win.shown /\ ~keys.focused /\ ~full.on
  /\ win' = [win EXCEPT !.shown = FALSE, !.asking = FALSE]
  /\ sock' = NoSocket(win.pc)
  /\ full' = Left(full)
  /\ UNCHANGED <<opened, keys>>
  /\ held' = Lost

RemoteNext ==
  \/ \E ok \in BOOLEAN : PinAnswers(ok)
  \/ SocketOpens
  \/ FrameArrives
  \/ Reattaching
  \/ SocketCloses
  \/ AutoRetry
  \/ ConnectAgain
  \/ \E k \in Keys : KeyDown(k)
  \/ \E k \in Keys : KeyUp(k)
  \/ \E k \in Keys, isDown \in BOOLEAN : RelayKey(k, isDown)
  \/ Blur
  \/ Focus
  \/ ToggleViewOnly
  \/ \E pc \in PCs : PickInList(pc)
  \/ \E pc \in PCs : PickInGrid(pc)
  \/ \E locked \in BOOLEAN : EnterFull(locked)
  \/ LeaveFull
  \/ RelayOpens
  \/ RelayFails
  \/ RelayDrops
  \/ Close

RemoteSpec == RemoteInit /\ [][RemoteNext]_remoteVars

(* A window that leaves a PC it is connected to leaves no key held there:  *)
(* not one that was pressed before the list took the focus, not one the    *)
(* relay sent since, and not one whose release Ctrl+V kept back.           *)
LeavesNoKeys ==
  win'.pc # win.pc /\ win.shown /\ Open => held'[win.pc] = {}

(* Does not hold:                                                         *)
(* The keys of this PC are caught only in full screen (the comment of      *)
(* KEY_RELAY_URL, and of the effect that gives the keys back).             *)
KeysOnlyInFull == full.relay => full.on

(* Does not hold:                                                         *)
(* The window says that it is live only while it is connected.             *)
LiveIsConnected == win.shown /\ win.phase = "live" => sock.state = "open"

(* Does not hold:                                                         *)
(* A key that was let go here is not held there.                           *)
UpIsUp == [][\A k \in Keys : KeyUp(k) /\ Open => k \notin held'[sock.pc]]_remoteVars

(***************************************************************************)
(* How the frames of a remote screen are played (sinks.ts, and the frame   *)
(* handler of RemoteModal.tsx): by a decoder of the browser, or, where     *)
(* the page is not in a secure context, by a media source that is opened   *)
(* and filled in callbacks.  A frame other than a key frame can only be    *)
(* played after the one before it.                                         *)
(***************************************************************************)
CONSTANTS Limit     \* how many frames may wait: 30 for a decoder, 60 for a source

VARIABLES sink,     \* the sink, whether it waits for a key frame
          waiting,  \* the frames that wait, and how the decoder takes them
          stream,   \* history: what of the stream was left out, what was fed
          request   \* when a key frame was asked for

screenVars == <<sink, waiting, stream, request>>

Kinds == {"decoder", "source"}

ScreenTypeOK ==
  /\ sink \in [kind : Kinds, needKey : BOOLEAN, state : {"none", "opening", "failed", "ready"}]
  /\ waiting \in [queue : Seq({"init", "key", "delta", "gap"}), updating : BOOLEAN]
  /\ Len(waiting.queue) <= Limit + 2
  /\ stream \in [gap : BOOLEAN, fed : {"nothing", "init", "key", "delta", "gap"}, sound : BOOLEAN]
  /\ request \in {"no", "asked", "may"}

ScreenInit ==
  /\ \E kind \in Kinds : sink = [kind |-> kind, needKey |-> TRUE, state |-> "none"]
  /\ waiting = [queue |-> <<>>, updating |-> FALSE]
  /\ stream = [gap |-> FALSE, fed |-> "nothing", sound |-> TRUE]
  /\ request = "may"

Empty == [queue |-> <<>>, updating |-> FALSE]

(* Nothing of the old stream is fed any more (closeDecoder, teardown).     *)
Torn(s) == [s EXCEPT !.state = "none", !.needKey = TRUE]
TornDown == /\ sink' = Torn(sink) /\ waiting' = Empty
            /\ stream' = [stream EXCEPT !.gap = TRUE, !.fed = "nothing"]

(* requestKey, at most once a second.                                      *)
Asks == request' = IF request = "may" THEN "asked" ELSE request
NotTaken == Asks /\ stream' = [stream EXCEPT !.gap = TRUE]

(* A frame as it is fed: one that follows a frame left out is a gap.       *)
Fed(isKey) == IF isKey THEN "key" ELSE IF stream.gap THEN "gap" ELSE "delta"
Follows(before, frame) ==
  /\ frame # "gap"
  /\ frame = "delta" => before \in {"key", "delta"}
Feeds(frame) == [gap |-> FALSE, fed |-> frame,
                 sound |-> stream.sound /\ (frame = "init" \/ Follows(stream.fed, frame))]

MustWait(isKey) == sink.needKey /\ ~isKey
(* A key frame opens the decoder or the source when there is none, or when *)
(* the parameters of the stream are others.                                *)
Opens(isKey, others) == isKey /\ (sink.state = "none" \/ others)

(* push of the decoder: one that is behind is dropped with what it holds.  *)
PushDecoder(isKey, others) ==
  /\ sink.kind = "decoder"
  /\ \/ /\ MustWait(isKey)
        /\ NotTaken /\ UNCHANGED <<sink, waiting>>
     \/ /\ ~MustWait(isKey) /\ ~Opens(isKey, others) /\ sink.state = "none"
        /\ sink' = [sink EXCEPT !.needKey = TRUE]
        /\ NotTaken /\ UNCHANGED waiting
     \/ /\ ~MustWait(isKey) /\ ~Opens(isKey, others) /\ sink.state = "ready"
        /\ Len(waiting.queue) > Limit
        /\ TornDown /\ Asks
     \/ /\ ~MustWait(isKey)
        /\ Opens(isKey, others) \/ (sink.state = "ready" /\ Len(waiting.queue) <= Limit)
        /\ sink' = [sink EXCEPT !.state = "ready", !.needKey = FALSE]
        /\ waiting' = [waiting EXCEPT !.queue =
                         Append(IF Opens(isKey, others) THEN <<>> ELSE @, Fed(isKey))]
        /\ stream' = Feeds(Fed(isKey))
        /\ UNCHANGED request

(* push of the source: the frame waits for the source to open and for the  *)
(* buffer to be ready.  The queue is dropped when it is too long, and the  *)
(* frame counts as taken.                                                  *)
PushSource(isKey, others) ==
  /\ sink.kind = "source"
  /\ \/ /\ MustWait(isKey)
        /\ NotTaken /\ UNCHANGED <<sink, waiting>>
     \/ /\ ~MustWait(isKey) /\ ~Opens(isKey, others) /\ sink.state = "none"
        /\ sink' = [sink EXCEPT !.needKey = TRUE]
        /\ NotTaken /\ UNCHANGED waiting
     \/ /\ ~MustWait(isKey) /\ ~Opens(isKey, others) /\ sink.state # "none"
        /\ Len(waiting.queue) > Limit
        /\ sink' = [Torn(sink) EXCEPT !.needKey = FALSE] /\ waiting' = Empty
        /\ stream' = [stream EXCEPT !.gap = TRUE, !.fed = "nothing"]
        /\ UNCHANGED request
     \/ /\ ~MustWait(isKey) /\ Opens(isKey, others)
        /\ sink' = [sink EXCEPT !.state = "opening", !.needKey = FALSE]
        /\ waiting' = [queue |-> <<Fed(isKey)>>, updating |-> FALSE]
        /\ stream' = [stream EXCEPT !.gap = FALSE, !.fed = "nothing"]
        /\ UNCHANGED request
     \/ /\ ~MustWait(isKey) /\ ~Opens(isKey, others) /\ sink.state # "none"
        /\ Len(waiting.queue) <= Limit
        /\ sink' = [sink EXCEPT !.needKey = FALSE]
        /\ waiting' = [waiting EXCEPT !.queue = Append(@, Fed(isKey))]
        /\ stream' = [stream EXCEPT !.gap = FALSE]
        /\ UNCHANGED request

(* The decoder put out a frame.                                            *)
Drawn ==
  /\ sink.kind = "decoder" /\ waiting.queue # <<>>
  /\ waiting' = [waiting EXCEPT !.queue = Tail(@)]
  /\ UNCHANGED <<sink, stream, request>>

(* The decoder fails: the browser closes it.                               *)
DecoderFails ==
  /\ sink.kind = "decoder" /\ sink.state = "ready"
  /\ TornDown /\ UNCHANGED request

(* sourceopen: the parameters go first.                                    *)
SourceOpens ==
  /\ sink.kind = "source" /\ sink.state = "opening"
  /\ sink' = [sink EXCEPT !.state = "ready"]
  /\ waiting' = [waiting EXCEPT !.queue = <<"init">> \o @]
  /\ UNCHANGED <<stream, request>>

SourceFails ==
  /\ sink.kind = "source" /\ sink.state = "opening"
  /\ sink' = [sink EXCEPT !.state = "failed", !.needKey = TRUE]
  /\ UNCHANGED <<waiting, stream, request>>

(* flush: one segment at a time.                                           *)
Flush ==
  /\ sink.kind = "source" /\ sink.state = "ready"
  /\ ~waiting.updating /\ waiting.queue # <<>>
  /\ waiting' = [queue |-> Tail(waiting.queue), updating |-> TRUE]
  /\ stream' = [Feeds(Head(waiting.queue)) EXCEPT !.gap = stream.gap]
  /\ UNCHANGED <<sink, request>>

FlushFails ==
  /\ sink.kind = "source" /\ sink.state = "ready"
  /\ ~waiting.updating /\ waiting.queue # <<>>
  /\ TornDown /\ UNCHANGED request

UpdateEnds ==
  /\ waiting.updating
  /\ waiting' = [waiting EXCEPT !.updating = FALSE]
  /\ UNCHANGED <<sink, stream, request>>

(* The buffer reports an error, a frame is lost: a key frame must follow.  *)
BufferError ==
  /\ sink.kind = "source" /\ sink.state = "ready"
  /\ sink' = [sink EXCEPT !.needKey = TRUE]
  /\ stream' = [stream EXCEPT !.gap = TRUE]
  /\ UNCHANGED <<waiting, request>>

(* The format of the stream changes (message 'format').                    *)
Reset == TornDown /\ UNCHANGED request

(* A second passed since a key frame was asked for.                        *)
SecondPasses ==
  /\ request = "asked" /\ request' = "may"
  /\ UNCHANGED <<sink, waiting, stream>>

ScreenNext ==
  \/ \E isKey, others \in BOOLEAN : PushDecoder(isKey, others)
  \/ \E isKey, others \in BOOLEAN : PushSource(isKey, others)
  \/ Drawn
  \/ DecoderFails
  \/ SourceOpens
  \/ SourceFails
  \/ Flush
  \/ FlushFails
  \/ UpdateEnds
  \/ BufferError
  \/ Reset
  \/ SecondPasses

ScreenSpec == ScreenInit /\ [][ScreenNext]_screenVars

(* The decoder and the buffer get whole runs of frames: after the          *)
(* parameters a key frame, then each frame after the one before it,        *)
(* whatever was dropped in between.                                        *)
FedIsWhole == stream.sound

(* Does not hold:                                                         *)
(* A queue that grew too long is dropped, and the caller asks for a key    *)
(* frame (the comment in enqueue).                                         *)
DroppedIsAsked ==
  [][Len(waiting.queue) > Limit /\ waiting'.queue = <<>>
     /\ (\E isKey, others \in BOOLEAN : PushSource(isKey, others))
     => request' = "asked"]_screenVars
=============================================================================
