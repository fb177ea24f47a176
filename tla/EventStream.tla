----------------------------- MODULE EventStream -----------------------------
(***************************************************************************)
(* How one page learns what happens in its room: the requests that write   *)
(* and then publish an event, the event bus (of internal/infrastructure    *)
(* memory or redis), the handler of GET /rooms/{id}/events                 *)
(* (internal/interface/http/events.go) and the page that listens (app.js). *)
(*                                                                         *)
(* What the stores hold of the room is a version number, one per Save; an  *)
(* event has no content, because the handler reads the stores again.  A    *)
(* stream is one GET request, used once; a page that reconnects opens      *)
(* another.  Other rooms and other pages have bus entries of their own.  *)
(***************************************************************************)
EXTENDS Naturals

CONSTANTS Streams,        \* the GET requests the page may make
          NoStream,
          Buses,          \* "memory", "redis": the ones main may choose from
          BufferSize,     \* capacity of a subscriber's channel, 16 in the code
          MaxVersion,     \* bound on the number of writes
          Flushable,      \* does the ResponseWriter implement http.Flusher?
          Refreshes,      \* does the page also GET /state?
          Drops           \* may connections, requests and reads fail?

ASSUME StreamAssumption ==
  /\ NoStream \notin Streams
  /\ Buses \subseteq {"memory", "redis"}
  /\ BufferSize \in Nat \ {0} /\ MaxVersion \in Nat \ {0}
  /\ Flushable \in BOOLEAN /\ Refreshes \in BOOLEAN /\ Drops \in BOOLEAN

VARIABLES bus,            \* the event bus main has chosen
          version,        \* of the room's records in the stores
          saving,         \* requests between two of their Saves
          unpublished,    \* requests between their last Save and the event
          lost,           \* the last request that ended was not followed by an event
          stream,         \* per stream: handler, channel, forwarder
          source,         \* the page's EventSource
          view,           \* the version the page shows, 0 for none
          refresh,        \* the version in a GET /state on its way, 0 for none
          refreshed,      \* what the page shows came from a GET /state
          panicked        \* a goroutine sent on a closed channel

vars == <<bus, version, saving, unpublished, lost, stream, source, view, refresh,
          refreshed, panicked>>
room == <<bus, version, saving, unpublished, lost>>
page == <<source, view, refresh, refreshed>>

NewStream == [at |-> "new", got |-> 0,                 \* the handler
              registered |-> FALSE, open |-> TRUE, queue |-> 0,  \* its channel
              forwarder |-> "none", wire |-> 0,        \* redis: its goroutine
              heard |-> FALSE,            \* an event was published to it
              missed |-> FALSE]           \* the last read for it failed

Init == /\ bus \in Buses
        /\ version = 1 /\ saving = 0 /\ unpublished = 0 /\ lost = FALSE
        /\ stream = [s \in Streams |-> NewStream]
        /\ source = NoStream /\ view = 0 /\ refresh = 0 /\ refreshed = FALSE
        /\ panicked = FALSE

(* The process runs until a goroutine panics. *)
running == ~panicked
Go(s, t) == running /\ stream' = [stream EXCEPT ![s] = t]

-----------------------------------------------------------------------------
(* The requests of RoomService and GameService.  Most Save once and then   *)
(* publish; StartGame and AdvanceWeek Save several times before they do,   *)
(* and while StartGame is between its two, the room cannot be read.        *)
SaveOnce == /\ running /\ version + saving < MaxVersion
            /\ version' = version + 1
            /\ unpublished' = unpublished + 1
            /\ UNCHANGED <<bus, saving, lost, stream, page, panicked>>

(* A Save that is not the request's last: its first, or one in between. *)
SaveEarly == /\ running
             /\ saving' \in {saving, saving + 1} \ {0}
             /\ version + saving' < MaxVersion
             /\ version' = version + 1
             /\ UNCHANGED <<bus, unpublished, lost, stream, page, panicked>>

SaveLast == /\ running /\ saving > 0
            /\ version' = version + 1
            /\ saving' = saving - 1
            /\ unpublished' = unpublished + 1
            /\ UNCHANGED <<bus, lost, stream, page, panicked>>

(* A send that never blocks: a full channel drops the event. *)
M_growing(t) == [t EXCEPT !.queue = @ + 1]
offered(t) == [t EXCEPT !.queue = IF @ < BufferSize THEN @ + 1 ELSE @]

(* PublishRoomEvent: the memory bus offers the event to every registered   *)
(* channel, under its lock; Redis sends it to every subscribed connection. *)
delivered(t) ==
  IF ~t.registered THEN t
  ELSE IF bus = "memory" THEN [offered(t) EXCEPT !.heard = TRUE]
  ELSE [t EXCEPT !.wire = @ + 1, !.heard = TRUE]

PublishRoomEvent ==
  /\ running /\ unpublished > 0
  /\ unpublished' = unpublished - 1
  /\ lost' = FALSE
  /\ stream' = [s \in Streams |-> delivered(stream[s])]
  /\ panicked' = (bus = "memory" /\ \E s \in Streams :
                                      stream[s].registered /\ ~stream[s].open)
  /\ UNCHANGED <<bus, version, saving, page>>

(* A request's event may be lost: Redis cannot be reached, or the client   *)
(* went away and its context with it.  Nobody looks at the error.  A       *)
(* request that fails between its writes publishes nothing at all: a Save  *)
(* to Redis that returns an error, or on the memory stores the panic of a  *)
(* StartGame that runs out of roles.                                       *)
LoseEvent ==
  /\ running /\ Drops
  /\ \/ bus = "redis" /\ unpublished > 0
        /\ unpublished' = unpublished - 1 /\ UNCHANGED saving
     \/ saving > 0 /\ saving' = saving - 1 /\ UNCHANGED unpublished
  /\ lost' = TRUE
  /\ UNCHANGED <<bus, version, stream, page, panicked>>

-----------------------------------------------------------------------------
(* connectEvents of a page without an open EventSource; the handler first  *)
(* makes sure that it can stream.                                          *)
Connect(s) ==
  /\ source = NoStream /\ stream[s].at = "new"
  /\ source' = s
  /\ Go(s, [stream[s] EXCEPT !.at = IF Flushable THEN "snapshot" ELSE "closed"])
  /\ UNCHANGED <<room, view, refresh, refreshed, panicked>>

(* A read of the stores fails while StartGame is between its Saves, when   *)
(* Redis does not answer, or when an overlapping join took the player off  *)
(* the room.                                                               *)
readMayFail == saving > 0 \/ Drops

(* snapshotEvent; an error ends the request. *)
ReadSnapshot(s) ==
  /\ stream[s].at = "snapshot"
  /\ \/ Go(s, [stream[s] EXCEPT !.at = "sendSnapshot", !.got = version])
     \/ readMayFail /\ Go(s, [stream[s] EXCEPT !.at = "closed"])
  /\ UNCHANGED <<room, page, panicked>>

(* What is written and flushed reaches the page if it still listens. *)
M_shownByAnyStream(s) == view' = stream[s].got /\ refreshed' = FALSE
Shown(s) == IF source = s THEN view' = stream[s].got /\ refreshed' = FALSE
                          ELSE UNCHANGED <<view, refreshed>>

SendSnapshot(s) ==
  /\ stream[s].at = "sendSnapshot"
  /\ Shown(s)
  /\ Go(s, [stream[s] EXCEPT !.at = "subscribe", !.got = 0])
  /\ UNCHANGED <<room, source, refresh, panicked>>

(* The memory bus registers the channel at once; the redis bus leaves it   *)
(* to a goroutine.                                                         *)
Subscribe(s) ==
  /\ stream[s].at = "subscribe"
  /\ Go(s, IF bus = "memory"
             THEN [stream[s] EXCEPT !.at = "select", !.registered = TRUE]
             ELSE [stream[s] EXCEPT !.at = "select", !.forwarder = "receive"])
  /\ UNCHANGED <<room, page, panicked>>

(* The loop: an event is received and forgotten, the stores are read, the  *)
(* state is sent.  If the read fails nothing is sent and nothing is tried  *)
(* again; with a request half way another event is still to come.          *)
ReceiveEvent(s) ==
  /\ stream[s].at = "select" /\ stream[s].queue > 0
  /\ Go(s, [stream[s] EXCEPT !.at = "read", !.queue = @ - 1])
  /\ UNCHANGED <<room, page, panicked>>

M_sendWithoutRead(s) ==
  /\ stream[s].at = "read"
  /\ Go(s, [stream[s] EXCEPT !.at = "send"])
  /\ UNCHANGED <<room, page, panicked>>
ReadState(s) ==
  /\ stream[s].at = "read"
  /\ \/ Go(s, [stream[s] EXCEPT !.at = "send", !.got = version, !.missed = FALSE])
     \/ readMayFail /\ Go(s, [stream[s] EXCEPT !.at = "select", !.missed = (saving = 0)])
  /\ UNCHANGED <<room, page, panicked>>

M_noFlush(s) ==
  /\ stream[s].at = "send"
  /\ Go(s, [stream[s] EXCEPT !.at = "select"])
  /\ UNCHANGED <<room, page, panicked>>
SendEvent(s) ==
  /\ stream[s].at = "send"
  /\ Shown(s)
  /\ Go(s, [stream[s] EXCEPT !.at = "select", !.got = 0])
  /\ UNCHANGED <<room, source, refresh, panicked>>

(* cancel: the channel is taken off the bus and closed. *)
M_closeOnly(t) == [t EXCEPT !.open = FALSE]
canceled(t) == [t EXCEPT !.registered = FALSE, !.open = FALSE]

(* The handler leaves its loop when the client is gone or when the channel *)
(* was closed under it.                                                    *)
LeaveLoop(s) ==
  /\ stream[s].at = "select"
  /\ source # s \/ (~stream[s].open /\ stream[s].queue = 0)
  /\ Go(s, [canceled(stream[s]) EXCEPT !.at = "closed", !.queue = 0, !.heard = FALSE,
                                     !.missed = FALSE])
  /\ UNCHANGED <<room, page, panicked>>

-----------------------------------------------------------------------------
(* The goroutine of the redis bus: it waits until Redis has confirmed the  *)
(* subscription, and gives up on an error; then it forwards the messages   *)
(* of the connection to the channel, the ones already received also after  *)
(* the connection was closed.                                              *)
Confirmed(s) ==
  /\ stream[s].forwarder = "receive"
  /\ IF stream[s].open
       THEN \/ Go(s, [stream[s] EXCEPT !.forwarder = "loop", !.registered = TRUE])
            \/ Drops /\ Go(s, [canceled(stream[s]) EXCEPT !.forwarder = "done"])
       ELSE Go(s, [stream[s] EXCEPT !.forwarder = "done"])
  /\ UNCHANGED <<room, page, panicked>>

TakeMessage(s) ==
  /\ stream[s].forwarder = "loop" /\ stream[s].wire > 0
  /\ Go(s, [stream[s] EXCEPT !.forwarder = "send", !.wire = @ - 1])
  /\ UNCHANGED <<room, page, panicked>>

OfferMessage(s) ==
  /\ stream[s].forwarder = "send"
  /\ Go(s, IF stream[s].open THEN [offered(stream[s]) EXCEPT !.forwarder = "loop"]
                             ELSE [stream[s] EXCEPT !.forwarder = "done"])
  /\ panicked' = ~stream[s].open
  /\ UNCHANGED <<room, page>>

EndForwarder(s) ==
  /\ stream[s].forwarder = "loop" /\ stream[s].wire = 0 /\ ~stream[s].open
  /\ Go(s, [stream[s] EXCEPT !.forwarder = "done"])
  /\ UNCHANGED <<room, page, panicked>>

-----------------------------------------------------------------------------
(* The page notices that its stream has ended, or loses the connection. *)
Disconnected(s) ==
  /\ source = s
  /\ stream[s].at = "closed" \/ Drops
  /\ source' = NoStream
  /\ UNCHANGED <<room, stream, view, refresh, refreshed, panicked>>

(* refreshState, called after each of the page's own requests and on an    *)
(* error of the EventSource: the answer is shown when it arrives.          *)
AskState ==
  /\ running /\ Refreshes /\ refresh = 0 /\ saving = 0
  /\ refresh' = version
  /\ UNCHANGED <<room, stream, source, view, refreshed, panicked>>

ShowState ==
  /\ refresh # 0
  /\ view' = refresh /\ refreshed' = TRUE
  /\ refresh' = 0
  /\ UNCHANGED <<room, stream, source, panicked>>

HandlerStep(s) ==
  \/ ReadSnapshot(s) \/ SendSnapshot(s) \/ Subscribe(s)
  \/ ReceiveEvent(s) \/ ReadState(s) \/ SendEvent(s) \/ LeaveLoop(s)
ForwarderStep(s) ==
  Confirmed(s) \/ TakeMessage(s) \/ OfferMessage(s) \/ EndForwarder(s)
WriterStep == SaveOnce \/ SaveEarly \/ SaveLast \/ PublishRoomEvent \/ LoseEvent
PageStep(s) == Connect(s) \/ Disconnected(s)

Next == \/ WriterStep
        \/ AskState \/ ShowState
        \/ \E s \in Streams : HandlerStep(s) \/ ForwarderStep(s) \/ PageStep(s)

(* Goroutines run; requests that have begun to write go on to publish; a   *)
(* page with no stream asks for one.  Nobody has to start a request, and   *)
(* connections need not fail.                                              *)
Fairness ==
  /\ WF_vars(SaveLast \/ PublishRoomEvent \/ LoseEvent)
  /\ \A s \in Streams : /\ WF_vars(HandlerStep(s))
                        /\ WF_vars(ForwarderStep(s))
                        /\ WF_vars(Connect(s))

Spec == Init /\ [][Next]_vars /\ Fairness

-----------------------------------------------------------------------------
Stream == [at : {"new", "snapshot", "sendSnapshot", "subscribe", "select",
                 "read", "send", "closed"},
           got : 0..MaxVersion, registered : BOOLEAN, open : BOOLEAN,
           queue : 0..BufferSize,
           forwarder : {"none", "receive", "loop", "send", "done"},
           wire : Nat, heard : BOOLEAN, missed : BOOLEAN]

TypeOK ==
  /\ version \in 1..MaxVersion
  /\ saving \in Nat /\ unpublished \in Nat
  /\ stream \in [Streams -> Stream]
  /\ source \in Streams \cup {NoStream}
  /\ view \in 0..MaxVersion /\ refresh \in 0..MaxVersion
  /\ refreshed \in BOOLEAN /\ panicked \in BOOLEAN /\ lost \in BOOLEAN

(* No request is half way, no event is on its way to the page through s,   *)
(* no answer is on its way to it.                                          *)
Settled(s) ==
  /\ saving = 0 /\ unpublished = 0 /\ refresh = 0
  /\ source = s
  /\ stream[s].at = "select" /\ stream[s].queue = 0
  /\ stream[s].wire = 0 /\ stream[s].forwarder # "send"

(* A page that was sent one event shows, once things have settled, the     *)
(* room as it is, although a full channel drops events (the `default` of   *)
(* PublishRoomEvent) and requests publish in another order than they       *)
(* wrote: the last event leads to a read after the last write.  Excused    *)
(* are a page where a GET /state had the last word, one whose last event   *)
(* was not published (publishRoomEvent drops the error), and one for which *)
(* the read after the last event failed (the `continue` of events.go:67):  *)
(* the next event makes up for the last two, if there is one.              *)
NotifiedPageCurrent ==
  \A s \in Streams :
    Settled(s) /\ stream[s].heard /\ ~refreshed /\ ~lost /\ ~stream[s].missed
      => view = version

(* The same of a page that was not sent an event yet: what a page with an  *)
(* open, settled stream shows is the room as it is (handleEvents sends a   *)
(* snapshot, and every later change is an event).                          *)
ConnectedPageCurrent ==
  \A s \in Streams : Settled(s) /\ stream[s].registered /\ ~refreshed => view = version

(* What streams show goes forwards only: a newer state is never replaced   *)
(* by an older one, whatever stream the page reconnects to.                *)
ViewNeverOlder == [][~refreshed /\ ~refreshed' => view' >= view]_vars

(* No goroutine ever sends on a closed channel, which would end the        *)
(* process.                                                                *)
NoPanic == ~panicked

(* The memory bus never does: Publish and cancel exclude each other, and   *)
(* cancel takes the channel off the bus before it closes it.               *)
MemoryBusNeverPanics == bus = "memory" => ~panicked

(* A page that was notified catches up, unless it loses its stream or the  *)
(* last event, or the read for that event fails.                           *)
NotifiedPageCatchesUp ==
  \A s \in Streams :
    source = s /\ stream[s].heard ~>
      \/ view = version \/ refreshed \/ panicked
      \/ source # s \/ lost \/ stream[s].missed

(* A page that may connect is sent the room by the stream. *)
StreamShowsRoom == <>(view # 0)
=============================================================================
