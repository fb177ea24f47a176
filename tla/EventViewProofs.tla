--------------------------- MODULE EventViewProofs ---------------------------
(***************************************************************************)
(* What the page of EventStream shows: it never goes back, and it is the   *)
(* room as it is once a stream that was notified has settled.  For any     *)
(* number of streams, any channel capacity and any number of writes.       *)
(***************************************************************************)
EXTENDS EventStreamProofs

(* A channel is registered only while its handler is in the loop: it is    *)
(* registered after the snapshot and taken off the bus on the way out.     *)
InLoop(t) == t.at \in {"select", "read", "send"}
Registered(t) ==
  /\ t.heard => t.registered
  /\ t.registered => t.open /\ t.forwarder # "receive"
  /\ t.open /\ (t.registered \/ t.forwarder = "receive") => InLoop(t)
  /\ t.open \/ InLoop(t) \/ t.at = "closed"

(* What a handler has read and not yet sent is no older than what its page *)
(* shows, unless the page had a GET /state answered.                       *)
Holding(t) == t.at \in {"sendSnapshot", "send"}
NotOlder(s) ==
  /\ stream[s].got <= version
  /\ source = s /\ Holding(stream[s]) /\ ~refreshed => view <= stream[s].got

(* When no request is half way, a page that was notified is current, or    *)
(* something will still make it so: an event on its way, a read to come,   *)
(* or the present version read and not yet sent; or the read has failed.   *)
Coming(t) == t.queue > 0 \/ t.wire > 0 \/ t.forwarder = "send" \/ t.at = "read"
Following(t) ==
  \/ Coming(t)
  \/ t.at = "send" /\ t.got = version
  \/ t.at = "select" /\ (view = version \/ refreshed \/ t.missed)
AllWritten == saving = 0 /\ unpublished = 0 /\ ~lost
Notified(s) ==
  source = s /\ stream[s].heard /\ AllWritten => Following(stream[s])

VInv == /\ view <= version /\ refresh <= version
        /\ \A s \in Streams :
             Registered(stream[s]) /\ NotOlder(s) /\ Notified(s)

-----------------------------------------------------------------------------
(* The types a step meets. *)
LEMMA Types ==
  ASSUME Inv
  PROVE  /\ version \in Nat /\ view \in Nat /\ refresh \in Nat
         /\ saving \in Nat /\ unpublished \in Nat /\ refreshed \in BOOLEAN
         /\ lost \in BOOLEAN /\ source \in Streams \cup {NoStream}
         /\ stream \in [Streams -> Stream]
  BY Bounds DEF Inv, TypeInv, TypeOK

(* No page shows anything yet, so it shows nothing stale. *)
LEMMA InitView == Init => VInv
<1> SUFFICES ASSUME Init PROVE VInv
  OBVIOUS
<1>1. view = 0 /\ refresh = 0 /\ version = 1 /\ source = NoStream
  BY DEF Init
<1>2. ASSUME NEW s \in Streams PROVE stream[s] = NewStream
  BY <1>2 DEF Init
<1>3. Registered(NewStream) /\ NewStream.got = 0
  BY DEF Registered, InLoop, NewStream
<1>4. ASSUME NEW s \in Streams PROVE NotOlder(s) /\ Notified(s)
  BY <1>1, <1>2, <1>3, <1>4, StreamAssumption DEF NotOlder, Notified
<1> QED BY <1>1, <1>2, <1>3, <1>4 DEF VInv

(* A step of stream s that changes of the page only what s may change:     *)
(* what it shows, if it listens to s.                                      *)
LEMMA StreamStep ==
  ASSUME Inv, VInv, NEW s \in Streams, NEW t \in Stream, Go(s, t),
         UNCHANGED room, refresh' = refresh, source' = source,
         source = s \/ UNCHANGED <<view, refreshed>>,
         view' <= version, Registered(t), NotOlder(s)', Notified(s)'
  PROVE  VInv'
<1>1. /\ stream'[s] = t
      /\ \A u \in Streams \ {s} : stream'[u] = stream[u]
  BY Types DEF Go
<1>2. UNCHANGED <<version, saving, unpublished, lost>>
  BY DEF room
<1>3. ASSUME NEW u \in Streams
      PROVE  Registered(stream'[u]) /\ NotOlder(u)' /\ Notified(u)'
  <2>1. CASE u = s
    BY <1>1, <2>1
  <2>2. CASE u # s
    <3>1. stream'[u] = stream[u] /\ Registered(stream[u]) /\ NotOlder(u) /\ Notified(u)
      BY <1>1, <2>2 DEF VInv
    <3>2. source = u => UNCHANGED <<view, refreshed>>
      BY <2>2
    <3>3. NotOlder(u)'
      BY <1>2, <3>1, <3>2 DEF NotOlder
    <3>4. Notified(u)'
      BY <1>2, <3>1, <3>2 DEF Notified, AllWritten, Following
    <3> QED BY <3>1, <3>3, <3>4
  <2> QED BY <2>1, <2>2
<1>4. view' <= version' /\ refresh' <= version'
  BY <1>2 DEF VInv
<1> QED BY <1>3, <1>4 DEF VInv

(* A step that leaves the page as it is needs only what it does to s. *)
LEMMA UnseenStep ==
  ASSUME Inv, VInv, NEW s \in Streams, NEW t \in Stream, Go(s, t),
         UNCHANGED <<room, page>>, Registered(t),
         t.got <= version,
         Holding(t) => t.got = version \/ (t.at = stream[s].at /\ t.got = stream[s].got),
         t.heard => stream[s].heard,
         t.heard /\ AllWritten /\ Following(stream[s]) => Following(t)
  PROVE  VInv'
<1>1. stream'[s] = t /\ stream[s] \in Stream
  BY Types DEF Go
<1>2. UNCHANGED <<version, saving, unpublished, lost, source, view, refresh, refreshed>>
  BY DEF room, page
<1>3. NotOlder(s) /\ Notified(s) /\ view <= version
  BY DEF VInv
<1>4. NotOlder(s)'
  <2>1. CASE t.got = version
    BY <1>1, <1>2, <1>3, <2>1 DEF NotOlder
  <2>2. CASE t.at = stream[s].at /\ t.got = stream[s].got
    BY <1>1, <1>2, <1>3, <2>2 DEF NotOlder, Holding
  <2>3. CASE ~Holding(t)
    BY <1>1, <1>2, <2>3 DEF NotOlder
  <2> QED BY <2>1, <2>2, <2>3
<1>5. Notified(s)'
  BY <1>1, <1>2, <1>3 DEF Notified, AllWritten, Following
<1> QED BY <1>2, <1>3, <1>4, <1>5, StreamStep

-----------------------------------------------------------------------------
(* What is shown is what was sent, if anything, and no newer than the room. *)
LEMMA ShownFacts ==
  ASSUME Inv, VInv, NEW s \in Streams, Shown(s)
  PROVE  /\ view' <= version
         /\ source = s \/ UNCHANGED <<view, refreshed>>
  BY DEF Shown, VInv, NotOlder

(* The handler of a stream, in each of its steps. *)
LEMMA HandlerKeepsView ==
  ASSUME Inv, VInv, NEW s \in Streams, HandlerStep(s)
  PROVE  VInv'
<1> DEFINE t == stream[s]
<1>t. t \in Stream /\ Registered(t) /\ t.got <= version
  BY Types DEF VInv, NotOlder
<1>v. version \in 0..MaxVersion
  BY DEF Inv, TypeInv, TypeOK
<1>1. CASE ReadSnapshot(s)
  <2>1. PICK u : /\ u = [t EXCEPT !.at = "sendSnapshot", !.got = version]
                    \/ u = [t EXCEPT !.at = "closed"]
                 /\ Go(s, u)
    BY <1>1 DEF ReadSnapshot
  <2>2. t.at = "snapshot" /\ UNCHANGED <<room, page>>
    BY <1>1 DEF ReadSnapshot
  <2>3. u \in Stream /\ Registered(u) /\ ~u.heard
    BY <2>1, <2>2, <1>t, <1>v DEF Registered, InLoop, Stream
  <2>4. \/ u.got = version
        \/ u.got = t.got /\ u.at = "closed"
    BY <2>1, <1>t DEF Stream
  <2>5. u.got <= version /\ (Holding(u) => u.got = version)
    BY <2>4, <1>t, Types DEF Holding
  <2> QED BY <2>1, <2>2, <2>3, <2>5, UnseenStep
<1>2. CASE SendSnapshot(s)
  <2> DEFINE u == [t EXCEPT !.at = "subscribe", !.got = 0]
  <2>1. t.at = "sendSnapshot" /\ Go(s, u) /\ Shown(s)
        /\ UNCHANGED <<room, source, refresh>>
    BY <1>2 DEF SendSnapshot
  <2>2. u \in Stream /\ Registered(u) /\ ~u.heard /\ u.got = 0 /\ ~Holding(u)
    BY <2>1, <1>t, Bounds DEF Registered, InLoop, Stream, Holding
  <2>3. stream'[s] = u /\ version' = version /\ version \in Nat
    BY <2>1, Types DEF Go, room
  <2>4. NotOlder(s)' /\ Notified(s)'
    BY <2>2, <2>3 DEF NotOlder, Notified
  <2> HIDE DEF u
  <2> QED BY <2>1, <2>2, <2>4, ShownFacts, StreamStep
<1>3. CASE Subscribe(s)
  <2> DEFINE u == IF bus = "memory"
                    THEN [t EXCEPT !.at = "select", !.registered = TRUE]
                    ELSE [t EXCEPT !.at = "select", !.forwarder = "receive"]
  <2>1. t.at = "subscribe" /\ Go(s, u) /\ UNCHANGED <<room, page>>
    BY <1>3 DEF Subscribe
  <2>2. bus = "memory" => t.forwarder = "none"
    BY DEF Inv, MemoryBusInv, Guarded
  <2>3. u \in Stream /\ Registered(u) /\ ~u.heard /\ u.got = t.got /\ ~Holding(u)
    BY <2>1, <2>2, <1>t DEF Registered, InLoop, Stream, Holding
  <2> HIDE DEF u
  <2> QED BY <2>1, <2>3, <1>t, UnseenStep
<1>4. CASE ReceiveEvent(s)
  <2> DEFINE u == [t EXCEPT !.at = "read", !.queue = @ - 1]
  <2>1. t.at = "select" /\ t.queue > 0 /\ Go(s, u) /\ UNCHANGED <<room, page>>
    BY <1>4 DEF ReceiveEvent
  <2>2. t.queue - 1 \in 0..BufferSize
    BY <2>1, <1>t, Bounds DEF Stream
  <2>3. /\ u \in Stream /\ Registered(u) /\ u.heard = t.heard /\ u.got = t.got
        /\ ~Holding(u) /\ Following(u)
    BY <2>1, <2>2, <1>t DEF Registered, InLoop, Stream, Holding, Following, Coming
  <2> HIDE DEF u
  <2> QED BY <2>1, <2>3, <1>t, UnseenStep
<1>5. CASE ReadState(s)
  <2>1. PICK u : /\ \/ u = [t EXCEPT !.at = "send", !.got = version, !.missed = FALSE]
                    \/ u = [t EXCEPT !.at = "select", !.missed = (saving = 0)]
                 /\ Go(s, u)
    BY <1>5 DEF ReadState
  <2>2. t.at = "read" /\ UNCHANGED <<room, page>>
    BY <1>5 DEF ReadState
  <2>3. u \in Stream /\ Registered(u) /\ u.heard = t.heard
    BY <2>1, <2>2, <1>t, <1>v DEF Registered, InLoop, Stream
  <2>4. \/ u.at = "send" /\ u.got = version
        \/ u.at = "select" /\ u.got = t.got /\ (saving > 0 \/ u.missed)
    <3>1. saving > 0 \/ (saving = 0) = TRUE
      BY Types
    <3>2. CASE u = [t EXCEPT !.at = "send", !.got = version, !.missed = FALSE]
      BY <3>2, <1>t DEF Stream
    <3>3. CASE u = [t EXCEPT !.at = "select", !.missed = (saving = 0)]
      <4>1. u.at = "select" /\ u.got = t.got /\ u.missed = (saving = 0)
        BY <3>3, <1>t DEF Stream
      <4> QED BY <3>1, <4>1
    <3> QED BY <2>1, <3>2, <3>3
  <2>5. u.got <= version /\ (Holding(u) => u.got = version)
    BY <2>4, <1>t, Types DEF Holding
  <2>6. AllWritten => Following(u)
    BY <2>4, Types DEF AllWritten, Following
  <2> QED BY <2>1, <2>2, <2>3, <2>5, <2>6, UnseenStep
<1>6. CASE SendEvent(s)
  <2>1. PICK u : u = [t EXCEPT !.at = "select", !.got = 0] /\ Go(s, u)
    BY <1>6 DEF SendEvent
  <2>0. t.at = "send" /\ Shown(s) /\ UNCHANGED <<room, source, refresh>>
    BY <1>6 DEF SendEvent
  <2>2. /\ u \in Stream /\ Registered(u) /\ u.heard = t.heard /\ u.got = 0
        /\ u.at = "select" /\ ~Holding(u) /\ (Coming(t) => Coming(u))
    BY <2>1, <2>0, <1>t, Bounds DEF Registered, InLoop, Stream, Holding, Coming
  <2>3. stream'[s] = u /\ UNCHANGED <<version, saving, unpublished, lost, source>>
    BY <2>1, <2>0, Types DEF Go, room
  <2>4. NotOlder(s)'
    BY <2>2, <2>3, Types DEF NotOlder
  <2>5. Notified(s)'
    <3>1. SUFFICES ASSUME source = s, t.heard, AllWritten PROVE Following(u)'
      BY <2>2, <2>3 DEF Notified, AllWritten
    <3>2. Coming(u) \/ t.got = version
      BY <2>0, <2>2, <3>1 DEF VInv, Notified, Following
    <3>3. CASE Coming(u)
      BY <3>3 DEF Following, Coming
    <3>4. CASE t.got = version
      BY <2>0, <2>2, <2>3, <3>1, <3>4 DEF Shown, Following
    <3> QED BY <3>2, <3>3, <3>4
  <2> QED BY <2>1, <2>0, <2>2, <2>4, <2>5, ShownFacts, StreamStep
<1>7. CASE LeaveLoop(s)
  <2> DEFINE u == [canceled(t) EXCEPT !.at = "closed", !.queue = 0, !.heard = FALSE,
                                   !.missed = FALSE]
  <2>1. Go(s, u) /\ UNCHANGED <<room, page>>
    BY <1>7 DEF LeaveLoop
  <2>2. u \in Stream /\ Registered(u) /\ ~u.heard /\ u.got = t.got /\ ~Holding(u)
    BY <1>t, Bounds DEF canceled, Registered, InLoop, Stream, Holding
  <2> HIDE DEF u
  <2> QED BY <2>1, <2>2, <1>t, UnseenStep
<1> QED BY <1>1, <1>2, <1>3, <1>4, <1>5, <1>6, <1>7 DEF HandlerStep

(* The goroutine of the redis bus: what it has taken off the connection it *)
(* still has to offer, and a channel that is closed was never notified or  *)
(* is forgotten.                                                           *)
LEMMA ForwarderKeepsView ==
  ASSUME Inv, VInv, NEW s \in Streams, ForwarderStep(s)
  PROVE  VInv'
<1> DEFINE t == stream[s]
<1>t. t \in Stream /\ Registered(t) /\ t.got <= version
  BY Types DEF VInv, NotOlder
<1>1. CASE Confirmed(s)
  <2>1. PICK u : /\ \/ t.open /\ u = [t EXCEPT !.forwarder = "loop", !.registered = TRUE]
                    \/ t.open /\ u = [canceled(t) EXCEPT !.forwarder = "done"]
                    \/ ~t.open /\ u = [t EXCEPT !.forwarder = "done"]
                 /\ Go(s, u)
    BY <1>1 DEF Confirmed
  <2>2. t.forwarder = "receive" /\ UNCHANGED <<room, page>>
    BY <1>1 DEF Confirmed
  <2>3. u \in Stream /\ Registered(u) /\ ~u.heard /\ u.at = t.at /\ u.got = t.got
    BY <2>1, <2>2, <1>t DEF Registered, InLoop, Stream, canceled
  <2> QED BY <2>1, <2>2, <2>3, <1>t, UnseenStep
<1>2. CASE TakeMessage(s)
  <2>1. PICK u : u = [t EXCEPT !.forwarder = "send", !.wire = @ - 1] /\ Go(s, u)
    BY <1>2 DEF TakeMessage
  <2>2. t.forwarder = "loop" /\ t.wire > 0 /\ UNCHANGED <<room, page>>
    BY <1>2 DEF TakeMessage
  <2>3. t.wire - 1 \in Nat
    BY <2>2, <1>t DEF Stream
  <2>4. /\ u \in Stream /\ Registered(u) /\ u.heard = t.heard
        /\ u.at = t.at /\ u.got = t.got /\ Following(u)
    BY <2>1, <2>2, <2>3, <1>t DEF Registered, InLoop, Stream, Following, Coming
  <2> QED BY <2>1, <2>2, <2>4, <1>t, UnseenStep
<1>3. CASE OfferMessage(s)
  <2>1. PICK u : /\ u = IF t.open THEN [offered(t) EXCEPT !.forwarder = "loop"]
                                  ELSE [t EXCEPT !.forwarder = "done"]
                 /\ Go(s, u)
    BY <1>3 DEF OfferMessage
  <2>2. t.forwarder = "send" /\ UNCHANGED <<room, page>>
    BY <1>3 DEF OfferMessage
  <2>3. CASE t.open
    <3> DEFINE o == offered(t)
    <3>1. o \in Stream /\ u = [o EXCEPT !.forwarder = "loop"]
      BY <2>1, <2>3, <1>t, OfferedFacts
    <3>o. /\ o.queue > 0 /\ o.registered = t.registered /\ o.open = t.open
          /\ o.heard = t.heard /\ o.at = t.at /\ o.got = t.got
      BY <1>t, StreamAssumption DEF offered, Stream
    <3> HIDE DEF o
    <3>2. /\ u \in Stream /\ Registered(u) /\ u.heard = t.heard
          /\ u.at = t.at /\ u.got = t.got
      BY <3>1, <3>o, <2>2, <2>3, <1>t DEF Registered, InLoop, Stream
    <3>3. u.queue > 0
      BY <3>1, <3>o DEF Stream
    <3>4. Following(u)
      BY <3>3 DEF Following, Coming
    <3> QED BY <2>1, <2>2, <3>2, <3>4, <1>t, UnseenStep
  <2>4. CASE ~t.open
    <3>1. /\ u \in Stream /\ Registered(u) /\ ~u.heard
          /\ u.at = t.at /\ u.got = t.got
      BY <2>1, <2>2, <2>4, <1>t DEF Registered, InLoop, Stream
    <3> QED BY <2>1, <2>2, <3>1, <1>t, UnseenStep
  <2> QED BY <2>3, <2>4
<1>4. CASE EndForwarder(s)
  <2>1. PICK u : u = [t EXCEPT !.forwarder = "done"] /\ Go(s, u)
    BY <1>4 DEF EndForwarder
  <2>2. ~t.open /\ UNCHANGED <<room, page>>
    BY <1>4 DEF EndForwarder
  <2>3. u \in Stream /\ Registered(u) /\ ~u.heard /\ u.at = t.at /\ u.got = t.got
    BY <2>1, <2>2, <1>t DEF Registered, InLoop, Stream
  <2> QED BY <2>1, <2>2, <2>3, <1>t, UnseenStep
<1> QED BY <1>1, <1>2, <1>3, <1>4 DEF ForwarderStep

-----------------------------------------------------------------------------
(* An event that is published to a registered channel leaves something to  *)
(* receive: the channel holds at least one event.                          *)
LEMMA DeliveredView ==
  ASSUME NEW t \in Stream, Registered(t)
  PROVE  /\ Registered(delivered(t)) /\ delivered(t).at = t.at
         /\ delivered(t).got = t.got
         /\ delivered(t).heard => Coming(delivered(t))
<1>1. CASE ~t.registered
  BY <1>1 DEF delivered, Registered, Coming
<1>2. CASE t.registered /\ bus = "memory"
  <2>1. delivered(t) = [offered(t) EXCEPT !.heard = TRUE] /\ offered(t) \in Stream
    BY <1>2, OfferedFacts DEF delivered
  <2>2. /\ offered(t).queue > 0 /\ offered(t).at = t.at /\ offered(t).got = t.got
        /\ offered(t).registered /\ Registered(offered(t))
    BY <1>2, StreamAssumption DEF offered, Stream, Registered, InLoop
  <2> DEFINE o == offered(t)
  <2> HIDE DEF o
  <2>3. delivered(t) = [o EXCEPT !.heard = TRUE] /\ o \in Stream
    BY <2>1 DEF o
  <2>4. o.queue > 0 /\ o.at = t.at /\ o.got = t.got /\ o.registered /\ Registered(o)
    BY <2>2 DEF o
  <2> QED BY <2>3, <2>4 DEF Stream, Registered, InLoop, Coming
<1>3. CASE t.registered /\ bus # "memory"
  <2>1. delivered(t) = [t EXCEPT !.wire = @ + 1, !.heard = TRUE]
    BY <1>3 DEF delivered
  <2>2. t.wire + 1 > 0
    BY DEF Stream
  <2> QED BY <1>3, <2>1, <2>2 DEF Stream, Registered, InLoop, Coming
<1> QED BY <1>1, <1>2, <1>3

(* A request that has written has yet to publish; when it does, every      *)
(* page that is notified has something to receive.                         *)
LEMMA WriterKeepsView == Inv /\ VInv /\ WriterStep => VInv'
<1> SUFFICES ASSUME Inv, VInv, WriterStep PROVE VInv'
  OBVIOUS
<1>1. ASSUME UNCHANGED <<stream, page>>, version' \in Nat, version' >= version,
             ~AllWritten'
      PROVE  VInv'
  <2>1. view' <= version' /\ refresh' <= version'
    BY <1>1, Types DEF VInv, page
  <2>2. ASSUME NEW s \in Streams
        PROVE  Registered(stream'[s]) /\ NotOlder(s)' /\ Notified(s)'
    <3>1. Registered(stream[s]) /\ NotOlder(s) /\ stream[s].got \in Nat
      BY Types, Bounds DEF VInv, Stream
    <3>2. NotOlder(s)'
      BY <1>1, <3>1, Types DEF NotOlder, page
    <3>3. Notified(s)'
      BY <1>1 DEF Notified
    <3> QED BY <1>1, <3>1, <3>2, <3>3
  <2> QED BY <2>1, <2>2 DEF VInv
<1>2. CASE SaveOnce
  <2>1. ~AllWritten'
    BY <1>2, Types DEF SaveOnce, AllWritten
  <2> QED BY <1>1, <1>2, <2>1, Types DEF SaveOnce
<1>3. CASE SaveEarly
  <2>1. ~AllWritten'
    BY <1>3, Types DEF SaveEarly, AllWritten
  <2> QED BY <1>1, <1>3, <2>1, Types DEF SaveEarly
<1>4. CASE SaveLast
  <2>1. ~AllWritten'
    BY <1>4, Types DEF SaveLast, AllWritten
  <2> QED BY <1>1, <1>4, <2>1, Types DEF SaveLast
<1>5. CASE PublishRoomEvent
  <2>1. UNCHANGED <<version, source, view, refresh, refreshed>>
    BY <1>5 DEF PublishRoomEvent, page
  <2>2. ASSUME NEW s \in Streams
        PROVE  Registered(stream'[s]) /\ NotOlder(s)' /\ Notified(s)'
    <3>1. /\ stream'[s] = delivered(stream[s]) /\ stream[s] \in Stream
          /\ Registered(stream[s]) /\ NotOlder(s)
      BY <1>5, Types DEF PublishRoomEvent, VInv
    <3>2. /\ Registered(stream'[s]) /\ stream'[s].at = stream[s].at
          /\ stream'[s].got = stream[s].got
          /\ stream'[s].heard => Coming(stream'[s])
      BY <3>1, DeliveredView
    <3>3. NotOlder(s)'
      BY <2>1, <3>1, <3>2 DEF NotOlder, Holding
    <3>4. Notified(s)'
      BY <3>2 DEF Notified, Following, Coming
    <3> QED BY <3>2, <3>3, <3>4
  <2> QED BY <2>1, <2>2 DEF VInv
<1>6. CASE LoseEvent
  <2>1. ~AllWritten'
    BY <1>6 DEF LoseEvent, AllWritten
  <2> QED BY <1>1, <1>6, <2>1, Types DEF LoseEvent
<1> QED BY <1>2, <1>3, <1>4, <1>5, <1>6 DEF WriterStep

-----------------------------------------------------------------------------
(* A page that opens another stream has not been notified through it.      *)
LEMMA PageKeepsView ==
  ASSUME Inv, VInv, NEW s \in Streams, PageStep(s)
  PROVE  VInv'
<1>1. CASE Connect(s)
  <2> DEFINE t == stream[s]
  <2>1. PICK u : /\ u = [t EXCEPT !.at = IF Flushable THEN "snapshot" ELSE "closed"]
                 /\ Go(s, u)
    BY <1>1 DEF Connect
  <2>2. /\ t.at = "new" /\ source' = s
        /\ UNCHANGED <<version, saving, unpublished, lost, view, refresh, refreshed>>
    BY <1>1 DEF Connect, room
  <2>3. t \in Stream /\ Registered(t) /\ NotOlder(s)
    BY Types DEF VInv
  <2>4. Registered(u) /\ ~u.heard /\ ~Holding(u) /\ u.got = t.got
    BY <2>1, <2>2, <2>3 DEF Registered, InLoop, Holding, Stream
  <2>5. /\ stream'[s] = u
        /\ \A v \in Streams \ {s} : stream'[v] = stream[v]
    BY <2>1, Types DEF Go
  <2>6. ASSUME NEW v \in Streams
        PROVE  Registered(stream'[v]) /\ NotOlder(v)' /\ Notified(v)'
    <3>1. CASE v = s
      BY <2>2, <2>3, <2>4, <2>5, <3>1 DEF NotOlder, Notified
    <3>2. CASE v # s
      BY <2>2, <2>5, <3>2 DEF VInv, NotOlder, Notified
    <3> QED BY <3>1, <3>2
  <2> QED BY <2>2, <2>6 DEF VInv
<1>2. CASE Disconnected(s)
  <2>1. /\ source' = NoStream
        /\ UNCHANGED <<version, stream, view, refresh, refreshed>>
    BY <1>2 DEF Disconnected, room
  <2> QED BY <2>1, StreamAssumption DEF VInv, NotOlder, Notified
<1> QED BY <1>1, <1>2 DEF PageStep

(* An answer to GET /state excuses the page: it may have been overtaken.   *)
LEMMA RefreshKeepsView == Inv /\ VInv /\ (AskState \/ ShowState) => VInv'
<1> SUFFICES ASSUME Inv, VInv, AskState \/ ShowState PROVE VInv'
  OBVIOUS
<1>1. CASE AskState
  BY <1>1, Types DEF AskState, room, VInv, NotOlder, Notified, AllWritten, Following
<1>2. CASE ShowState
  <2>1. /\ view' = refresh /\ refreshed' = TRUE /\ refresh' = 0
        /\ UNCHANGED <<version, saving, unpublished, lost, stream, source>>
    BY <1>2 DEF ShowState, room
  <2> QED BY <2>1, Types DEF VInv, NotOlder, Notified, AllWritten, Following
<1> QED BY <1>1, <1>2

(* A step that changes nothing. *)
LEMMA StutterKeepsView == VInv /\ UNCHANGED vars => VInv'
  BY DEF vars, VInv, NotOlder, Notified, AllWritten, Following

(* What a page shows and what is on its way to it, in every reachable      *)
(* state.                                                                  *)
THEOREM ViewInvariant == Spec => []VInv
<1>1. Inv /\ VInv /\ [Next]_vars => VInv'
  BY WriterKeepsView, HandlerKeepsView, ForwarderKeepsView, PageKeepsView,
     RefreshKeepsView, StutterKeepsView DEF Next
<1> QED BY InitView, <1>1, InductiveInvariant, PTL DEF Spec

-----------------------------------------------------------------------------
(* A page that was notified through its stream shows the room as it is     *)
(* once the stream has settled (events.go handleEvents, the buses'         *)
(* PublishRoomEvent): whatever events the full channel dropped and in      *)
(* whatever order the requests published, unless the last event was lost   *)
(* or the read it led to failed, for any reason and at any time.           *)
THEOREM NotifiedCurrent == Spec => []NotifiedPageCurrent
<1>1. VInv => NotifiedPageCurrent
  BY DEF VInv, Notified, NotifiedPageCurrent, Settled, AllWritten, Following, Coming
<1> QED BY <1>1, ViewInvariant, PTL

(* Streams never make the page go back to an older state, whatever they    *)
(* reconnect to (events.go writes what it read after its last write).      *)
THEOREM ViewGoesForwards == Spec => ViewNeverOlder
<1>1. ASSUME Inv, VInv, [Next]_vars, ~refreshed, ~refreshed'
      PROVE  view' >= view
  <2>1. ASSUME NEW s \in Streams, SendSnapshot(s) \/ SendEvent(s)
        PROVE  view' >= view
    <3>1. Shown(s) /\ Holding(stream[s])
      BY <2>1 DEF SendSnapshot, SendEvent, Holding
    <3>2. CASE source = s
      BY <1>1, <3>1, <3>2, Types, Bounds DEF Shown, VInv, NotOlder, Stream
    <3>3. CASE source # s
      BY <1>1, <3>1, <3>3, Types DEF Shown
    <3> QED BY <3>2, <3>3
  <2>2. ~ShowState
    BY <1>1 DEF ShowState
  <2>3. WriterStep \/ AskState \/ UNCHANGED vars => view' = view
    BY DEF WriterStep, SaveOnce, SaveEarly, SaveLast, PublishRoomEvent, LoseEvent,
           AskState, vars, page
  <2>4. ASSUME NEW s \in Streams, HandlerStep(s), ~SendSnapshot(s), ~SendEvent(s)
        PROVE  view' = view
    BY <2>4 DEF HandlerStep, ReadSnapshot, Subscribe, ReceiveEvent, ReadState,
                LeaveLoop, page
  <2>5. ASSUME NEW s \in Streams, ForwarderStep(s) \/ PageStep(s)
        PROVE  view' = view
    BY <2>5 DEF ForwarderStep, Confirmed, TakeMessage, OfferMessage, EndForwarder,
                PageStep, Connect, Disconnected, page
  <2> QED BY <1>1, <2>1, <2>2, <2>3, <2>4, <2>5, Types DEF Next
<1>2. Inv /\ VInv /\ [Next]_vars => [~refreshed /\ ~refreshed' => view' >= view]_vars
  BY <1>1
<1> QED BY <1>2, InductiveInvariant, ViewInvariant, PTL DEF Spec, ViewNeverOlder

=============================================================================
