-------------------------- MODULE EventStreamProofs --------------------------
(***************************************************************************)
(* Proofs about the event stream, for any number of streams, any channel   *)
(* capacity and any number of writes.                                      *)
(***************************************************************************)
EXTENDS EventStream, TLAPS

(* Versions never exceed the bound, counting the Saves still to come. *)
TypeInv == TypeOK /\ bus \in Buses /\ version + saving <= MaxVersion

(* What the memory bus maintains: no goroutine forwards to a channel, and  *)
(* a channel is closed only when it is off the bus and its handler has     *)
(* returned.                                                               *)
Guarded(t) ==
  /\ t.forwarder = "none"
  /\ t.open \/ (~t.registered /\ t.at = "closed")

MemoryBusInv ==
  bus = "memory" => ~panicked /\ \A s \in Streams : Guarded(stream[s])

Inv == TypeInv /\ MemoryBusInv

-----------------------------------------------------------------------------
(* The bounds are natural numbers, and their ranges hold what is used.     *)
LEMMA Bounds ==
  /\ MaxVersion \in Nat /\ BufferSize \in Nat
  /\ 0 \in 0..MaxVersion /\ 1 \in 1..MaxVersion /\ 0 \in 0..BufferSize
  /\ 1 <= MaxVersion
  BY StreamAssumption

(* Init starts every stream from a record that is legal and guarded.       *)
LEMMA InitInv == Init => Inv
<1> SUFFICES ASSUME Init PROVE Inv
  OBVIOUS
<1>1. NewStream \in Stream /\ Guarded(NewStream)
  BY Bounds DEF NewStream, Stream, Guarded
<1>2. stream \in [Streams -> Stream] /\ \A s \in Streams : Guarded(stream[s])
  BY <1>1 DEF Init
<1>3. TypeInv
  <2>1. /\ version = 1 /\ saving = 0 /\ unpublished = 0 /\ bus \in Buses
        /\ source = NoStream /\ view = 0 /\ refresh = 0
        /\ refreshed = FALSE /\ panicked = FALSE /\ lost = FALSE
    BY DEF Init
  <2>2. version + saving <= MaxVersion
    BY <2>1, Bounds
  <2> QED BY <1>2, <2>1, <2>2, Bounds DEF TypeInv, TypeOK
<1>4. MemoryBusInv
  BY <1>2 DEF Init, MemoryBusInv
<1> QED BY <1>3, <1>4 DEF Inv

(* A channel that is offered an event stays legal, open and guarded.       *)
LEMMA OfferedFacts ==
  ASSUME NEW t \in Stream
  PROVE  /\ offered(t) \in Stream
         /\ Guarded(t) => Guarded(offered(t))
  BY StreamAssumption DEF Stream, offered, Guarded

(* So does one an event is published to.                                   *)
LEMMA DeliveredFacts ==
  ASSUME NEW t \in Stream
  PROVE  /\ delivered(t) \in Stream
         /\ bus = "memory" /\ Guarded(t) => Guarded(delivered(t))
<1>1. CASE ~t.registered
  BY <1>1 DEF delivered
<1>2. CASE t.registered /\ bus = "memory"
  <2> DEFINE o == offered(t)
  <2>1. delivered(t) = [o EXCEPT !.heard = TRUE]
    BY <1>2 DEF delivered
  <2>2. o \in Stream /\ (Guarded(t) => Guarded(o))
    BY OfferedFacts
  <2> HIDE DEF o
  <2> QED BY <2>1, <2>2 DEF Stream, Guarded
<1>3. CASE t.registered /\ bus # "memory"
  <2>1. delivered(t) = [t EXCEPT !.wire = @ + 1, !.heard = TRUE]
    BY <1>3 DEF delivered
  <2>2. t.wire + 1 \in Nat
    BY DEF Stream
  <2>3. delivered(t) \in Stream
    BY <2>1, <2>2 DEF Stream
  <2> QED BY <1>3, <2>3
<1> QED BY <1>1, <1>2, <1>3

(* A step of one stream keeps the invariant when it leaves that stream's   *)
(* record legal and, on the memory bus, guarded, and what it changes of    *)
(* the page in its type.                                                   *)
LEMMA OneStream ==
  ASSUME Inv, NEW s \in Streams, NEW t \in Stream, Go(s, t),
         bus = "memory" => Guarded(t) /\ ~panicked',
         panicked' \in BOOLEAN, UNCHANGED room,
         source' \in Streams \cup {NoStream}, view' \in 0..MaxVersion,
         refresh' = refresh, refreshed' \in BOOLEAN
  PROVE  Inv'
<1>1. stream' \in [Streams -> Stream]
  BY DEF Inv, TypeInv, TypeOK, Go
<1>2. TypeInv'
  BY <1>1 DEF Inv, TypeInv, TypeOK, room
<1>3. ASSUME bus = "memory", NEW u \in Streams PROVE Guarded(stream'[u])
  BY <1>3 DEF Inv, TypeInv, TypeOK, MemoryBusInv, Go
<1>4. MemoryBusInv'
  BY <1>3 DEF MemoryBusInv, room
<1> QED BY <1>2, <1>4 DEF Inv

-----------------------------------------------------------------------------
(* The requests that write and publish.                                    *)
LEMMA WriterKeepsInv == Inv /\ WriterStep => Inv'
<1> SUFFICES ASSUME Inv, WriterStep PROVE Inv'
  OBVIOUS
<1>1. CASE SaveOnce
  BY <1>1, StreamAssumption DEF Inv, TypeInv, TypeOK, MemoryBusInv, SaveOnce, page
<1>2. CASE SaveEarly
  <2>1. /\ version \in 1..MaxVersion /\ saving \in Nat
        /\ version' = version + 1 /\ version + saving' < MaxVersion
        /\ saving' = saving \/ saving' = saving + 1
    BY <1>2 DEF Inv, TypeInv, TypeOK, SaveEarly
  <2>2. /\ version' \in 1..MaxVersion /\ saving' \in Nat
        /\ version' + saving' <= MaxVersion
    BY <2>1, Bounds
  <2>3. UNCHANGED <<bus, unpublished, lost, stream, source, view, refresh, refreshed,
                  panicked>>
    BY <1>2 DEF SaveEarly, page
  <2> QED BY <2>2, <2>3 DEF Inv, TypeInv, TypeOK, MemoryBusInv
<1>3. CASE SaveLast
  BY <1>3, StreamAssumption DEF Inv, TypeInv, TypeOK, MemoryBusInv, SaveLast, page
<1>4. CASE PublishRoomEvent
  <2>1. stream' \in [Streams -> Stream]
    BY <1>4, DeliveredFacts DEF PublishRoomEvent, Inv, TypeInv, TypeOK
  <2>2. TypeInv'
    <3>1. lost' \in BOOLEAN /\ panicked' \in BOOLEAN
      BY <1>4 DEF PublishRoomEvent
    <3>2. /\ unpublished' = unpublished - 1 /\ unpublished > 0
          /\ UNCHANGED <<bus, version, saving, source, view, refresh, refreshed>>
      BY <1>4 DEF PublishRoomEvent, page
    <3> QED BY <2>1, <3>1, <3>2 DEF Inv, TypeInv, TypeOK
  <2>3. ASSUME bus = "memory"
        PROVE  ~panicked' /\ \A s \in Streams : Guarded(stream'[s])
    <3>1. \A s \in Streams : stream[s] \in Stream /\ Guarded(stream[s])
      BY <2>3 DEF Inv, TypeInv, TypeOK, MemoryBusInv
    <3>2. \A s \in Streams : Guarded(stream'[s])
      BY <1>4, <2>3, <3>1, DeliveredFacts DEF PublishRoomEvent
    <3>3. ~panicked'
      BY <1>4, <3>1 DEF PublishRoomEvent, Guarded
    <3> QED BY <3>2, <3>3
  <2>4. MemoryBusInv'
    BY <1>4, <2>3 DEF PublishRoomEvent, MemoryBusInv
  <2> QED BY <2>2, <2>4 DEF Inv
<1>5. CASE LoseEvent
  <2>1. /\ saving \in Nat /\ unpublished \in Nat /\ version \in 1..MaxVersion
        /\ version + saving <= MaxVersion
    BY DEF Inv, TypeInv, TypeOK
  <2>2. \/ unpublished > 0 /\ unpublished' = unpublished - 1 /\ saving' = saving
        \/ saving > 0 /\ saving' = saving - 1 /\ unpublished' = unpublished
    BY <1>5 DEF LoseEvent
  <2>3. lost' = TRUE /\ UNCHANGED <<bus, version, stream, source, view, refresh,
                                   refreshed, panicked>>
    BY <1>5 DEF LoseEvent, page
  <2>4. saving' \in Nat /\ unpublished' \in Nat /\ version + saving' <= MaxVersion
    BY <2>1, <2>2, Bounds
  <2> QED BY <2>3, <2>4 DEF Inv, TypeInv, TypeOK, MemoryBusInv
<1> QED BY <1>1, <1>2, <1>3, <1>4, <1>5 DEF WriterStep

(* The handler.                                                            *)
LEMMA HandlerKeepsInv ==
  ASSUME Inv, NEW s \in Streams, HandlerStep(s)
  PROVE  Inv'
<1> DEFINE t == stream[s]
<1>t. t \in Stream /\ (bus = "memory" => Guarded(t) /\ ~panicked)
  BY DEF Inv, TypeInv, TypeOK, MemoryBusInv
<1>p. /\ version \in 0..MaxVersion /\ panicked \in BOOLEAN
      /\ source \in Streams \cup {NoStream} /\ view \in 0..MaxVersion
      /\ refreshed \in BOOLEAN
  BY DEF Inv, TypeInv, TypeOK
(* What is sent is what was read. *)
<1>s. ASSUME Shown(s) PROVE view' \in 0..MaxVersion /\ refreshed' \in BOOLEAN
  BY <1>s, <1>t, <1>p DEF Shown, Stream
<1>1. CASE ReadSnapshot(s)
  <2>1. PICK u : /\ u = [t EXCEPT !.at = "sendSnapshot", !.got = version]
                    \/ u = [t EXCEPT !.at = "closed"]
                 /\ Go(s, u)
    BY <1>1 DEF ReadSnapshot
  <2>2. u \in Stream /\ (Guarded(t) => Guarded(u))
    BY <1>1, <2>1, <1>t, <1>p DEF ReadSnapshot, Stream, Guarded
  <2>3. UNCHANGED <<room, page, panicked>>
    BY <1>1 DEF ReadSnapshot
  <2> QED BY <2>1, <2>2, <2>3, <1>t, <1>p, OneStream DEF page
<1>2. CASE SendSnapshot(s)
  <2> DEFINE u == [t EXCEPT !.at = "subscribe", !.got = 0]
  <2>1. u \in Stream /\ (Guarded(t) => Guarded(u))
    BY <1>2, <1>t, Bounds DEF SendSnapshot, Stream, Guarded
  <2>2. Go(s, u) /\ Shown(s) /\ UNCHANGED <<room, source, refresh, panicked>>
    BY <1>2 DEF SendSnapshot
  <2> QED BY <2>1, <2>2, <1>s, <1>t, <1>p, OneStream
<1>3. CASE Subscribe(s)
  <2> DEFINE u == IF bus = "memory"
                    THEN [t EXCEPT !.at = "select", !.registered = TRUE]
                    ELSE [t EXCEPT !.at = "select", !.forwarder = "receive"]
  <2>1. u \in Stream /\ (bus = "memory" => Guarded(u))
    BY <1>3, <1>t DEF Subscribe, Stream, Guarded
  <2>2. Go(s, u) /\ UNCHANGED <<room, page, panicked>>
    BY <1>3 DEF Subscribe
  <2> QED BY <2>1, <2>2, <1>t, <1>p, OneStream DEF page
<1>4. CASE ReceiveEvent(s)
  <2> DEFINE u == [t EXCEPT !.at = "read", !.queue = @ - 1]
  <2>1. u \in Stream /\ (Guarded(t) => Guarded(u))
    <3>1. t.queue - 1 \in 0..BufferSize
      BY <1>4, <1>t, Bounds DEF ReceiveEvent, Stream
    <3> QED BY <1>4, <1>t, <3>1 DEF ReceiveEvent, Stream, Guarded
  <2>2. Go(s, u) /\ UNCHANGED <<room, page, panicked>>
    BY <1>4 DEF ReceiveEvent
  <2> QED BY <2>1, <2>2, <1>t, <1>p, OneStream DEF page
<1>5. CASE ReadState(s)
  <2>1. PICK u : /\ u = [t EXCEPT !.at = "send", !.got = version, !.missed = FALSE]
                    \/ u = [t EXCEPT !.at = "select", !.missed = (saving = 0)]
                 /\ Go(s, u)
    BY <1>5 DEF ReadState
  <2>2. u \in Stream /\ (Guarded(t) => Guarded(u))
    BY <1>5, <2>1, <1>t, <1>p DEF ReadState, Stream, Guarded
  <2>3. UNCHANGED <<room, page, panicked>>
    BY <1>5 DEF ReadState
  <2> QED BY <2>1, <2>2, <2>3, <1>t, <1>p, OneStream DEF page
<1>6. CASE SendEvent(s)
  <2> DEFINE u == [t EXCEPT !.at = "select", !.got = 0]
  <2>1. u \in Stream /\ (Guarded(t) => Guarded(u))
    BY <1>6, <1>t, Bounds DEF SendEvent, Stream, Guarded
  <2>2. Go(s, u) /\ Shown(s) /\ UNCHANGED <<room, source, refresh, panicked>>
    BY <1>6 DEF SendEvent
  <2> QED BY <2>1, <2>2, <1>s, <1>t, <1>p, OneStream
<1>7. CASE LeaveLoop(s)
  <2> DEFINE u == [canceled(t) EXCEPT !.at = "closed", !.queue = 0, !.heard = FALSE,
                                   !.missed = FALSE]
  <2>1. u \in Stream /\ (Guarded(t) => Guarded(u))
    BY <1>t, Bounds DEF canceled, Stream, Guarded
  <2>2. Go(s, u) /\ UNCHANGED <<room, page, panicked>>
    BY <1>7 DEF LeaveLoop
  <2> QED BY <2>1, <2>2, <1>t, <1>p, OneStream DEF page
<1> QED BY <1>1, <1>2, <1>3, <1>4, <1>5, <1>6, <1>7 DEF HandlerStep

(* The forwarding goroutine: there is none on the memory bus.              *)
LEMMA ForwarderKeepsInv ==
  ASSUME Inv, NEW s \in Streams, ForwarderStep(s)
  PROVE  Inv'
<1> DEFINE t == stream[s]
<1>t. t \in Stream /\ (bus = "memory" => t.forwarder = "none")
  BY DEF Inv, TypeInv, TypeOK, MemoryBusInv, Guarded
<1>p. /\ panicked \in BOOLEAN /\ source \in Streams \cup {NoStream}
      /\ view \in 0..MaxVersion /\ refreshed \in BOOLEAN
  BY DEF Inv, TypeInv, TypeOK
<1>1. bus # "memory"
  BY <1>t DEF ForwarderStep, Confirmed, TakeMessage, OfferMessage, EndForwarder
<1>2. CASE Confirmed(s)
  <2>1. PICK u : /\ \/ u = [t EXCEPT !.forwarder = "loop", !.registered = TRUE]
                    \/ u = [canceled(t) EXCEPT !.forwarder = "done"]
                    \/ u = [t EXCEPT !.forwarder = "done"]
                 /\ Go(s, u)
    BY <1>2 DEF Confirmed
  <2>2. u \in Stream
    BY <2>1, <1>t DEF Stream, canceled
  <2>3. UNCHANGED <<room, page, panicked>>
    BY <1>2 DEF Confirmed
  <2> QED BY <1>1, <2>1, <2>2, <2>3, <1>p, OneStream DEF page
<1>3. CASE TakeMessage(s)
  <2> DEFINE u == [t EXCEPT !.forwarder = "send", !.wire = @ - 1]
  <2>1. u \in Stream
    <3>1. t.wire - 1 \in Nat
      BY <1>3, <1>t DEF TakeMessage, Stream
    <3> QED BY <1>3, <1>t, <3>1 DEF TakeMessage, Stream
  <2>2. Go(s, u) /\ UNCHANGED <<room, page, panicked>>
    BY <1>3 DEF TakeMessage
  <2> QED BY <1>1, <2>1, <2>2, <1>p, OneStream DEF page
<1>4. CASE OfferMessage(s)
  <2> DEFINE u == IF t.open THEN [offered(t) EXCEPT !.forwarder = "loop"]
                            ELSE [t EXCEPT !.forwarder = "done"]
  <2>1. u \in Stream
    BY <1>t, OfferedFacts DEF Stream
  <2>2. Go(s, u) /\ panicked' \in BOOLEAN /\ UNCHANGED <<room, page>>
    BY <1>4, <1>t DEF OfferMessage, Stream
  <2> QED BY <1>1, <2>1, <2>2, <1>p, OneStream DEF page
<1>5. CASE EndForwarder(s)
  <2> DEFINE u == [t EXCEPT !.forwarder = "done"]
  <2>1. u \in Stream
    BY <1>t DEF Stream
  <2>2. Go(s, u) /\ UNCHANGED <<room, page, panicked>>
    BY <1>5 DEF EndForwarder
  <2> QED BY <1>1, <2>1, <2>2, <1>p, OneStream DEF page
<1> QED BY <1>2, <1>3, <1>4, <1>5 DEF ForwarderStep

(* The page.                                                               *)
LEMMA PageKeepsInv ==
  ASSUME Inv, NEW s \in Streams, PageStep(s)
  PROVE  Inv'
<1>1. CASE Connect(s)
  <2> DEFINE t == stream[s]
             u == [t EXCEPT !.at = IF Flushable THEN "snapshot" ELSE "closed"]
  <2>1. t \in Stream /\ (bus = "memory" => Guarded(t) /\ ~panicked)
    BY DEF Inv, TypeInv, TypeOK, MemoryBusInv
  <2>2. u \in Stream /\ (Guarded(t) => Guarded(u))
    BY <1>1, <2>1 DEF Connect, Stream, Guarded
  <2>3. /\ Go(s, u) /\ source' = s
        /\ UNCHANGED <<room, view, refresh, refreshed, panicked>>
    BY <1>1 DEF Connect
  <2>4. panicked \in BOOLEAN /\ view \in 0..MaxVersion /\ refreshed \in BOOLEAN
    BY DEF Inv, TypeInv, TypeOK
  <2> QED BY <2>1, <2>2, <2>3, <2>4, OneStream
<1>2. CASE Disconnected(s)
  BY <1>2 DEF Disconnected, Inv, TypeInv, TypeOK, MemoryBusInv, room
<1> QED BY <1>1, <1>2 DEF PageStep

(* What the page asks for and shows disturbs no stream. *)
LEMMA RefreshKeepsInv == Inv /\ (AskState \/ ShowState) => Inv'
<1> SUFFICES ASSUME Inv, AskState \/ ShowState PROVE Inv'
  OBVIOUS
<1>1. CASE AskState
  BY <1>1, StreamAssumption DEF AskState, Inv, TypeInv, TypeOK, MemoryBusInv, room
<1>2. CASE ShowState
  BY <1>2, StreamAssumption DEF ShowState, Inv, TypeInv, TypeOK, MemoryBusInv, room
<1> QED BY <1>1, <1>2

(* Nor does a step that changes nothing. *)
LEMMA StutterKeepsInv == Inv /\ UNCHANGED vars => Inv'
  BY DEF Inv, TypeInv, TypeOK, MemoryBusInv, vars

-----------------------------------------------------------------------------
(* The invariant holds for any number of streams and any channel capacity. *)
THEOREM InductiveInvariant == Spec => []Inv
<1>1. Inv /\ [Next]_vars => Inv'
  BY WriterKeepsInv, HandlerKeepsInv, ForwarderKeepsInv, PageKeepsInv,
     RefreshKeepsInv, StutterKeepsInv DEF Next
<1> QED BY InitInv, <1>1, PTL DEF Spec

(* Every variable of the event stream has its type: a full channel stays   *)
(* at its capacity (PublishRoomEvent's default branch).                    *)
THEOREM TypeCorrect == Spec => []TypeOK
<1>1. Inv => TypeOK
  BY DEF Inv, TypeInv
<1> QED BY <1>1, InductiveInvariant, PTL

(* On the memory bus no request ever sends on a closed channel, however    *)
(* many clients come and go while events are published                     *)
(* (memory/room_event_bus.go PublishRoomEvent and the cancel function).    *)
THEOREM MemoryBusSafe == Spec => []MemoryBusNeverPanics
<1>1. Inv => MemoryBusNeverPanics
  BY DEF Inv, MemoryBusInv, MemoryBusNeverPanics
<1> QED BY <1>1, InductiveInvariant, PTL
=============================================================================
