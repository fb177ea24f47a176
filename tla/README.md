# SupplyChainGame in TLA+

A verification project for SupplyChainGame, a web server (Go) for the *beer
game*: four players, each one node of a supply chain (factory, distributor,
wholesaler, retailer), order goods from one another week by week. Players join
a room, choose roles, start a game, submit an order per week, and one of them
ends the week. The project models the rules of the game, the services that keep
a game in a store, what they answer and what the page offers, the event stream
that tells the pages about changes, and the lock that keeps a player in one tab;
TLC checks the models on small instances and TLAPS proves theorems about them
for every instance.

All paths below are relative to `src/`.

## 1. The system

| Component | State | Operations | Talks to |
| --- | --- | --- | --- |
| scenario (`internal/domain/scenario.go`) | immutable parameters | `Validate`, `DemandForWeek`, `MaterializeDemand` (`extendDemand`, `generateRandomBlockDemand`) | used by the session |
| game session (`domain/game_session.go`, `state.go`) | status, week, a node record per role, order/goods/production queues, history | `NewGameSession`, `AdvanceWeek` | used by the game service |
| room (`domain/room.go`) | status, week, players with roles | `NewRoom`, `AddPlayer`, `AssignRole`, `EnsureRolesAssigned`, `Start`, `RoleOfPlayer` | used by both services |
| room service (`usecase/room_service.go`) | none of its own | `CreateRoom`, `JoinRoom`, `AssignRole` | room store, event bus |
| game service (`usecase/game_service.go`) | none of its own | `StartGame`, `SubmitOrder`, `AdvanceWeek`; reads `GetPlayerState`, `GetPendingDecisions`, `GetAnalytics` | room, session and decision stores, event bus |
| stores (`infrastructure/redis`, `infrastructure/memory`) | `room:<id>`, `session:<id>`, `room-session:<id>`, `decisions:<id>:<week>`, or maps of the same | `Get`, `Save`, `Delete`, `GetByRoomID` | - |
| room event bus (`redis/room_event_bus.go`, `memory/room_event_bus.go`) | subscribers' channels (capacity 16); a goroutine per Redis subscription | `PublishRoomEvent`, `SubscribeRoomEvents`, cancel | services, stream handler |
| event stream handler (`interface/http/events.go`) | per GET request: the loop's position, its channel | snapshot, subscribe, receive, read, send | services (reads), bus, page |
| web page (`interface/http/static/app.js`) | what it shows, its EventSource, its player in sessionStorage, a lock in localStorage | `connectEvents`, `disconnectEvents`, `refreshState`, `updateControls`; `restoreSession`, `ensurePlayerLock`, the heartbeat, `releasePlayerLock` | HTTP |
| HTTP transport (`interface/http/server.go`, middleware) | none | routing, decoding, `writeDomainError` | services |
| analytics (`domain/analytics.go`), export (`infrastructure/export`) | none | `CalculateSessionAnalytics`, `ExportSession` | read a session's history |
| configuration, identifiers, clock, scenario repository | none | start-up, constants | - |

Requests run in goroutines of their own. A service handler reads whole records,
changes its copies and writes whole records back; there is no lock, no
transaction and no version check around any of it. After its last write a
handler publishes an event without content; every stream of that room then
reads the stores again and sends the state to its page.

Redis records are copied in and out. The memory stores (used when no Redis is
configured) hand out Go values instead: the players of a room and the history
and queues of a session stay the stored ones, so that a handler that works on
its "copy" changes everybody's.

### What is hard here, and what would make it correct

- *The arithmetic of a week* (`AdvanceWeek`): queues shifted in one place and
  appended in another, each under another role's name. Right if goods and
  orders are neither created nor lost, nothing is negative, every queue is an
  exact delay line, and the clock agrees with the history.
- *Requests that overlap.* Read-modify-write on shared records. Right if the
  stores behave like an atomic game; where the code cannot give that, right if
  every record stays legal and a week is only played with orders given for it.
- *Requests that stop half way*: an error, a client that leaves (every store
  call gets the request's context), a restart on the same Redis. Right if the
  game can go on and no order is applied twice or to another week.
- *Events*: bounded channels that drop, reads that fail, a snapshot before the
  subscription, connections that come and go, a goroutine that sends on a
  channel another one closes. Right if a page ends up showing the room as it
  is, never goes back in time, and nothing panics.
- *Shared memory*: a change made to a copy before, or without, its Save. Right if
  requests one at a time cannot tell the memory stores from Redis, and if
  overlapping ones at least leave a game that goes on.
- *Two languages, one rule*: the page repeats the server's conditions in
  JavaScript, the server maps errors to answers by a list. Right if an
  up-to-date page never offers what the server refuses, and no legal history
  ends in "internal server error" or in a game nobody can bring further.
- *One player, many tabs*: a lock in localStorage kept alive by a timer that
  browsers slow down. Right if tabs that are on time never play one player
  twice, and the tabs never all give him up.
- *Large numbers*: 64-bit arithmetic on orders bounded only from below. Right for
  all orders small enough; how small has to be known.
- *Demand generation*: loops that must end, cover every week, and not change
  what players meet.

`PROJECT.json` lists every hazard with its line and the properties aimed at it.

## 2. The modules

| Module | Models | Correspondence |
| --- | --- | --- |
| `Scenario` | `scenario.go` | operators of the same names; demand over all random seeds as a set |
| `DemandGenerator` | `MaterializeDemand` as it runs | `pc`, `demand`, `start`; one step per loop iteration |
| `GameSession` | `NewGameSession`, `AdvanceWeek` | one variable per field; one action, whose guards are the error returns |
| `BeerGame` | *abstract*: the rules of the game | only demand and history; what arrives is looked up in the week it was sent; stock is one signed number |
| `Room` | `room.go` | per method a `May...` operator (its checks) and one for the record it leaves |
| `Stores` | the Redis and the memory adapters, for one room | one variable per key; one operator per store call; `kind` says which stores; `roomSeen` and `sessionSeen` are what a copy sees of a change to another; `unannounced` says whether the stored records were changed since the last event, by a handler that goes on (`"change"`) or one that panicked (`"torn"`) |
| `RoomService`, `GameService` | the handlers | one action per store call; `local[w]` is the request's local variables |
| `Server` | the two services on one set of stores, with failures | `Next`: any step of any request, or `Abort` |
| `Answers` | the errors of every request, `writeDomainError`, `updateControls` and `renderRoleAvailability` | `errorOf` follows the early returns of the handlers in their order; `offered` is what the page enables; `errorsAhead` is what a request under way may still be refused with |
| `Turns` | *abstract*: what the server promises the players of a room | orders that stand until their week is played, weeks played with exactly the standing orders |
| `PlacedOrders` | `Server` with a history variable | `placed`: every order SubmitOrder ever saved, with its week |
| `PlayerReads` | `GetPlayerState`, `GetPendingDecisions` beside `Server` | `reading`: the records read so far; one action per store read |
| `Analytics` | `analytics.go` | operators on the history of a `GameSession`; means and variances as exact whole numbers |
| `Export` | `xlsx_exporter.go` | operators of the same names; a sheet is a function from row numbers to rows, and rows have the columns of the code |
| `PlayerLock` | the lock between tabs in `app.js` | one record per tab; one action per event handler up to its next `await`; `Tick` is time |
| `EventStream` | the writers' events, both buses, the handler's loop, the page | stores abstracted to a version number; one action per blocking point; `lost` remembers that the last event was not published, `missed` that the read after the last event failed |
| `GameSessionProofs`, `EventStreamProofs`, `PlayerLockProofs` | - | theorems about the modules they are named after |
| `ConservationProofs` | - | theorems about the sums over a session, its analytics and its exported sheets, on top of `GameSessionProofs` |
| `DemandProofs` | - | theorems about the loops of `DemandGenerator` |
| `ServerProofs` | - | theorems about `Server`, `Answers` and `PlacedOrders` under any overlap and any failures |
| `SerialProofs` | - | theorems about `Server`, `Answers` and `PlayerReads` with one writing request at a time, on top of `ServerProofs` |
| `EventViewProofs` | - | theorems about what the page of `EventStream` shows, on top of `EventStreamProofs` |
| `MC...` | - | instances for TLC |

`Answers` extends `Server` extends `GameService` extends `RoomService` extends
`Stores` extends `Room`; `Export` extends `Analytics` extends `GameSession`. The
two halves of the model meet in small interfaces: `Stores` keeps of a session its
status, week, played orders and how often its queues were moved, because that is
all the services look at or share (`GameSession` models the rest), and
`EventStream` keeps of a handler only when it writes, when it publishes, and when
the room is unreadable; that a handler publishes after all its writes, which
`EventStream` builds on, is `Announced` of `Server`.

### Abstractions

- Identifiers, timestamps, log lines, JSON, the `Connected` flag: no effect on
  what a method does. Redis keys' ttl: with the default a game has to pause for
  days.
- One room. Every key, lock and channel belongs to one room; session
  identifiers are new each time (`issued`).
- On Redis a handler's computation between two store calls touches only its
  copies, so it is part of the step of the preceding read. On the memory stores
  others see it: reading, every write of a slot of the players (`WriteRole`, one
  role; `WriteRoles`, one role after the other), and playing the week
  (`PlayWeek`) are steps of their own. What happens inside one of these steps is
  taken to be indivisible; the data races that Go leaves undefined beyond that
  (torn strings, the fatal error of a map written twice at once) are not
  modelled. A slice's array is made with room for all its elements, so an append
  writes the slot after the copy's last one, whoever else has written it.
- A store call is atomic, except `GetByRoomID` of the Redis store, which reads two
  keys and is two steps. `SessionStore.Save` writes its two keys in one
  transaction, one step.
- The error returns of a handler before its first write change nothing and are
  guards. A request that fails later is `Abort`, which may happen before any
  store call; it also stands for a process that dies and comes back on the same
  data, since a handler has no state outside `local`. Only with Redis: the calls
  of the memory stores cannot fail and look at no context, and a process that
  dies takes them with it.
- Four roles are fixed in the code; `Room` takes `AllRoles` as a parameter so
  that rooms of two can be checked. `GameSession` has the four real ones.
- Integers are unbounded; `QuantitiesBounded` says how large they become.
- `Answers` has one request for every body that cannot be decoded and one for
  every path that names nothing; of the others it keeps what a handler checks.
- `PlayerReads` is modelled on Redis, where `GetByRoomID` is two reads; readers
  of the memory stores are not.
- `PlayerLock`: time is counted in units of five seconds, the interval of the
  heartbeat; a lock that has expired counts as none. Tabs belong to one browser,
  the player to one room. Identifiers of pages that are gone are all `Former`.
- `Export` leaves out identifiers, the status and the file format.
- `EventStream` lets a read fail while another request is between its Saves, and
  at any time when `Drops` is TRUE, as in the run `stream`: Redis may not
  answer, and on the memory stores an overlapping join may have taken the player
  off the room.
- `EventStream` follows one page and its streams. A page that reconnects uses
  another stream; a stream is used once.

## 3. What is checked

Bounds are constants of the `.cfg` files. `CHECK_DEADLOCK FALSE` everywhere: a
finished call, a finished game and an idle stream at the bound stop for good.

| Run | Instance | Shows |
| --- | --- | --- |
| `demand` | series of 0 to 3 entries, blocks of 0 to 3 weeks, games of 0 to 4 weeks, invalid scenarios among them | the loops return what the closed forms of `Scenario` say (`ResultCorrect`); writing a series out changes no week's demand (`DemandKept`); every call returns (`Terminates`) |
| `game_session` | 4 weeks, delays 2/1/2, scarce stock, callers that pass incomplete and negative orders | `TypeOK` (nothing negative), `ClockConsistent`, `DelayLines`, `GoodsConserved`, `OrdersAccounted`, `QuantitiesBounded`, `AnalyticsAgree`, `SheetsAgree`, and refinement of `BeerGame` |
| `server_serial` | one request at a time, on Redis (where each may stop anywhere) and on memory stores; three players for two seats, two names and the empty one, orders -1, 1, 2, two weeks | `TypeOK`, `RoomNotAheadOfSession`, `QueuesInStep`, `OffersAccepted`, `JoinedPlayersStay`, `StartedRoomFrozen`, and refinement of `Turns` at every store call |
| `server_overlap` | two requests side by side, none cut short, on both kinds of stores; two seats and two weeks; two players and two sessions on Redis, three players and one session on memory stores | `RoomWellFormed`, `Announced`, `GameGoesOn`, `NeverInternalError`, `RolesSuffice`, `OnlyPlacedOrdersPlayed` |
| `player_reads` | one writing request and one `GetPlayerState` side by side on Redis, each may stop anywhere; a full room, two weeks | the state put together from six reads never claims an order or a ready week that is not there (`ShownOrdersStand`), never goes back (`ShownWeekNeverBack`), never shows a finished game short of weeks (`FinishedShownWhole`) |
| `player_lock` | three tabs, one of them in the background; ttl three intervals of the heartbeat; reloads, duplicated tabs, closing, crashes, failed requests | `TypeOK`, `OneTabPlays`, `PlayerKept`, and the liveness property `ConflictEnds` |
| `stream` | both buses, two streams, three writes, a channel of one event, lost connections, lost publications, reads that fail at any time, GET /state | `TypeOK`, `NotifiedPageCurrent`, `ViewNeverOlder`, `MemoryBusNeverPanics`, and the liveness property `NotifiedPageCatchesUp` |
| `lost_order`, `unrecoverable_game`, `stream_gap`, `stream_redis_close`, `stream_production` | the smallest that show it | the disagreements of section 5 |

Why the bounds are enough to meet the cases:

- Four weeks with delays of two: an order placed in week 1 is shipped against in
  week 2 or later and comes back as goods before the end; the demand series is
  one week too short so that its last entry is repeated; stock runs out at every
  node in some behaviours and piles up in others.
- Two weeks have a first week, a last week and one `AdvanceWeek` that is not the
  last; stale copies of the first week meet the second. Two roles are enough for
  an incomplete set of orders, a conflict of roles, and a stranger who finds the
  room full.
- Two workers give every pair of overlapping requests, in any order of their
  store calls, any number of times. `server_overlap` has one legal order value
  because its properties tell orders apart by week and role; values and refused
  orders are in `server_serial`. Its players, names, sessions and workers are
  interchangeable (`SYMMETRY`); all its properties are invariants. It starts with one
  identifier given away to another room (`SmallInit`): on the memory stores a
  session's, so that there is a player more than seats, who can overwrite another's
  slot just before `StartGame` gives out roles; on Redis a player's, so that two
  overlapping `StartGame`s can make two sessions for one room. All four combinations
  together take TLC too long; the other two, two sessions on the memory stores and
  three players on Redis, pass by themselves (swap the sets in `SmallInit`), and for
  all but `RolesSuffice` the theorems of section 4 cover every number of both.
- A channel of one event overflows at the second event as one of sixteen does
  at the seventeenth; three versions leave a write before, during and after
  anything the stream does; the second stream exists for reconnecting.
- Three tabs: two that are on time and compete, and one whose timer is held back
  as long as it likes. The ttl of 15 seconds is three intervals of the heartbeat
  as in the code, so a lock survives two missed beats and not three.
- `QuantitiesBounded` asks for every order choice `d`; with 3 the condition
  `AtMost` holds, so the bound is met with orders, demand and stock as large as
  it allows.

Every property of a passing run has a mutant in `PROJECT.json`: an operator
`M_...` next to the definition it replaces, a plausible slip in that code, under
which TLC finds the property violated.

### What the serial and the overlapping run say together

`Turns` is implemented only when requests do not overlap: `SubmitOrder`'s
read-modify-write loses orders (section 5). As long as they do not, the memory
stores keep the same promise although records are shared: a request that is
refused has changed nothing by then, and queues are moved exactly once per week
(`QueuesInStep`).

What survives any overlap, and what the code therefore really offers, is weaker:
rooms stay legal, every week a session remembers was played only with orders
submitted for that week of that room, one for every role (though not only once:
section 5), a change is always announced, no request meets an "internal server
error" but for a panic of `StartGame` (`NeverInternalError`, `RolesSuffice`), and
some request that brings the game further always succeeds (`GameGoesOn`): a role
nobody has is taken, an order that is missing is placed, a complete week is ended.

`NeverInternalError` looks at requests that come when no other is under way
(`errorOf`) and at those under way, whose next step finds stores others have
written since (`errorsAhead`). The panic is the exception it makes: on the memory stores
`StartGame` finds out which roles are left and then gives them out, and a join
that read the room before it was full may by then have put a player without a
role over one with a role. `RolesSuffice` says that this takes a player who lost
his slot; what the panicking handler had written in place stays and is never
announced (`unannounced = "torn"`, which `Announced` excepts).

That every player of a
started room has a role does *not* survive: an `AdvanceWeek` that read the room
before `StartGame` saved it writes it back active, or finished, with the old roles
or with no players at all, and that game is stuck. `RoomWellFormed` does not claim
it and `GameGoesOn` excepts it. On the memory stores two overlapping requests may also
give two players one role or one name; `RoomWellFormed` claims distinct ones for
Redis only.

`OffersAccepted` compares the page with the server: whatever an up-to-date page
enables (roles, start, order, end of the week, export) is answered with success.
Its exception is the game whose last week was saved but not its room (section 5).

`GetPlayerState` does mix moments: it can show the week it read first with the
number of orders of the week after it. `ShownOrdersStand` says how far that can
go: while the shown week is the one being played, what is shown of its orders is
true. It needs writers one at a time, for the same reason as `Turns`.

### Fairness

- `DemandGenerator`: weak fairness of `Next`; a call runs in one goroutine and
  nothing in it blocks.
- `EventStream`: weak fairness of a handler's steps, of a forwarding goroutine's
  steps (the Go scheduler runs every runnable goroutine; channel operations in
  both are non-blocking or in a `select`), of a request that has begun to write
  finishing and publishing (or losing its event), and of a page without a stream
  opening one (the browser's EventSource reconnects by itself). None for the start of a request,
  for `refreshState`, for lost connections or for failing reads: those are
  users and networks.
- `PlayerLock`: weak fairness of `Tick` (time passes) and of each tab's
  heartbeat (a timer fires some time, in the background any time later). None for
  users and for answers of the server. `ConflictEnds` needs one of the two tabs
  to be on time: two tabs that are both held back can take the expired lock from
  each other for ever.
- `Server` and `GameSession` state safety only and assume no fairness: nothing
  forces a player to order.

## 4. What is proved

`GameSessionProofs`, for every scenario that `Validate` accepts, every length of
game and every set of orders a caller may try (the named assumptions of
`GameSession`):

- `TypeCorrect`, `ClockCorrect`, `DelayLinesCorrect`: `Spec => []TypeOK`,
  `Spec => []ClockConsistent`, `Spec => []DelayLines`.
- `QuantitiesStayBounded`: `Spec => []QuantitiesBounded`. If no order, no demand
  and no initial number exceeds `d`, then after `n` weeks no backlog and no slot
  exceeds `(n + 1) d`, no stock `(n + 1)^2 d`, and no weekly cost that times the
  sum of the two unit costs. With the built-in scenario and the default of 30
  weeks, orders up to a million million stay far from the ends of 64 bits, sums
  of costs included; the code does not refuse larger ones.
- `SessionImplementsBeerGame`: `Spec => ImplementsBeerGame`, the queues and
  counters implement the abstract rules.

The argument. None of the three invariants is inductive alone: that a shipment
is a natural number needs what the queue delivers to be one, that the queue
delivers what is due needs its length and the history's length, and the slots
of a queue are described by the history. `Inv == TypeOK /\ ClockConsistent /\
DelayLines` is inductive (`InductiveInvariant`). `ScenarioFacts` extracts from
`Validate` the numbers' signs and the queues' lengths; `DemandFacts` gives the
demand series; `IncomingFacts` and `NodeFacts` describe one iteration of the loop
over the roles; `StepTypeOK`, `StepClockConsistent` and `StepDelayLines` carry
one conjunct each over `AdvanceWeek`, the last by `ShiftAppend`: what shifting
and appending does to every slot. The refinement then follows because under
`DelayLines` the head of a queue is what `BeerGame` looks up in the history, and
`StockArithmetic` and `CostArithmetic` turn stock and backlog into one signed
number. `QuantitiesBounded` is inductive relative to `Inv`: what a node owes grows
by one week's incoming order, which is at most `d`, and what it holds by a
shipment of a node, which is at most what that node owed; the products are
handled by `Distributes`, `ProductMonotone` and `BoundsGrow`, because a
multiplication of two variables is beyond the SMT solver.

`EventStreamProofs`, for any number of streams, any capacity of the channels and
any bound on the writes (`StreamAssumption`):

- `TypeCorrect`: `Spec => []TypeOK`. The number of writes already begun has to
  be added to the version for its bound to be inductive.
- `MemoryBusSafe`: `Spec => []MemoryBusNeverPanics`. That nobody sends on a
  closed channel is not inductive; what the bus maintains is that a channel is
  closed only when it is off the bus *and* its handler has returned, so that no
  handler registers it again, and that no goroutine of the Redis kind holds a
  message for it (`Guarded`). One lemma (`OneStream`) serves all steps that
  change one stream; publishing changes all of them and has its own.

`EventViewProofs`, under the same assumptions and on both buses, with lost
connections, lost publications, failing reads and GET /state requests:

- `NotifiedCurrent`: `Spec => []NotifiedPageCurrent`. What is inductive is that a
  page that was notified *will* be current: as long as no request is half way,
  something is queued, on the connection, in the forwarder's hands or about to be
  read, or the handler holds the present version, or it is shown (`Following`).
  A full channel may drop an event because it then holds another, which leads to
  a read after the same writes (`DeliveredView`); a request between its Save and
  its event excuses the page until it has published (`AllWritten`), and a read that
  fails when no such request is under way excuses it until the next one (`missed`).
- `ViewGoesForwards`: `Spec => ViewNeverOlder`. What a handler has read and not yet
  sent is never older than what its page shows (`NotOlder`): only the page's own
  stream changes it, and a stream reads again only after it has sent.

Both need `Registered`: a channel that has been sent an event is on the bus and
its handler is in its loop, so that a new stream of a page starts without a past.

`PlayerLockProofs`, for any number of tabs, any of them in the background, and
any ttl longer than the heartbeat's interval (`TabsAssumption`,
`TimeAssumption`):

- `TypeCorrect`: `Spec => []TypeOK`.
- `OneTabOnly`: `Spec => []OneTabPlays`. What makes it inductive is `LockKept`: the
  page of a tab that is on time and whose heartbeat runs holds the lock, and what
  is left of the lock plus the time since the last beat is at least the ttl;
  since a beat is due before the ttl is over, the lock is never free while its
  holder is on time, and a page writes the lock only when it is free or its own
  (`OthersUndisturbed`).
- `PlayerNeverLost`: `Spec => []PlayerKept`. Added to the invariant: as long as
  nobody is excused and the lock is held, the page that holds it plays the player
  (`HolderPlays`), so that a page that gives him up because the lock is taken
  leaves him with another.
- `ConflictRunsOut`: `Spec => [][NearerToItsEnd]_vars`, the safety half of
  `ConflictEnds`: a tab that plays beside one that is on time always sees the other's
  lock (`ConflictSeen`), nothing sets its timer back (`TimerKept`), every `Tick`
  brings its heartbeat nearer, and with the heartbeat it gives up.

`ConservationProofs`, under the assumptions of `GameSession`:

- `GoodsStayConserved`: `Spec => []GoodsConserved`; `OrdersStayAccounted`:
  `Spec => []OrdersAccounted`.
- `AnalyticsStayAgreed`: `Spec => []AnalyticsAgree`, by way of `WeeksStayAddedUp`:
  `Spec => []WeeksAddUp`, what each recorded week says of its own costs.

All of it is about sums, which `Total` adds up in an order nobody knows. The
library's induction theorems take an operator as a parameter; `SetInduction`
states induction for a *set* of natural numbers instead, from the library's
`WFMin`, and that the provers can instantiate. With it `SumAgrees` shows that the
function behind `MapThenSumSet` is there for every finite domain and
`SumAnyOrder` that it does not matter which element is taken first; what the
model does to its sequences then has one lemma each (`TotalGrows`, `TotalShrinks`,
`TotalShiftAppend`, `TotalOverRoles`, `HistoryGrows`). Both conservation laws are
inductive given `Inv` of `GameSessionProofs`: `NodeBalance` is the balance of one
node over a week, `QueuesBalance` that of the queues, and their sum is the claim.
That the variance is a whole number, and the same in both of its forms, is
`VarianceFormula`, from `TotalLinear`.

- `SheetsStayAgreed`: `Spec => []SheetsAgree`, by way of `BooksStayBalanced`:
  `Spec => []BooksBalance`, what the book of each week and the one before say of
  stock and backlog.

The sheets are built by loops that carry the number of the next row, one inside
the other. `RowsFolded` and `WeeksFolded` say what one iteration of each adds;
by induction on the weeks (`FourFill`, `WeeksFill`) the rows are `1..(4 * n + 1)`,
and row `i` holds the week `WeekOf(i - 1)` and the role `PlaceOf(i - 1)`, which is
division by four (`RowOfWeek`, `WeekOfRow`). `WeeksColumns` and
`AnalyticsColumns` then read off what stands under each heading; four rows up
stands the same role a week before (`RowsBalance`), and sums over rows are sums
over weeks under other names for the arguments (`TotalRenamed`), or in groups of
four (`TotalByFours`).

`DemandProofs`, for every scenario and every number of weeks (`InputAssumption`):

- `LoopsBuildTheSeries`: `Spec => []ResultCorrect`, and `SeriesKept`:
  `Spec => []DemandKept`. The invariant of the loops (`DemandInv`) says what
  `Validate` has let through (`Accepted`), that the weeks written so far are those
  of the closed form (`Extending`), and that the blocks below `start` hold one
  value each (`Filling`); that a block is filled whole and no other is touched is
  integer division (`BlockUnique`, `BlockMonotone`).
- `LoopsAdvance`: `Spec => [][GetsNearer]_vars`: a natural number, `StepsLeft`, goes
  down with every step. With the fairness of the run this is why `Terminates` holds.

`ServerProofs`, for any number of requests at once, each of which may stop half
way, on both kinds of stores, and for any roles, weeks, players and sessions
(`RolesAssumption`, `MaxWeeksAssumption`, `StoreKindsAssumption`,
`OrderAssumption`, `NullAssumption`, `FailuresAssumption`):

- `InductiveInvariant`: `Spec => []Inv`; `TypeCorrect`: `Spec => []TypeOK`;
  `RoomsStayWellFormed`: `Spec => []RoomWellFormed`.
- `OnlyPlaced`: `PlacedSpec => []OnlyPlacedOrdersPlayed`: what a session's history
  consists of, not that a week is played only once.
- `NoInternalError`: `Spec => []NeverInternalError`, for requests that come and
  requests under way, the panic of `StartGame` excepted.
- `ChangesAnnounced`: `~Failures` implies `Spec => []Announced`, changes made in
  place on the memory stores included. With failures it is false: a request that
  stops after its Save announces nothing.
- `NobodyStuck`: `~Failures` implies `Spec => []GameGoesOn`, if there is a role, a
  legal order, and a name for every seat (`EnoughNames`: players type what they
  like, `Names` is what a run lets them type). With failures it is false: section
  5, `unrecoverable_game`.

That every room is legal is not inductive. A request may save a room it read long
ago, so every *copy* must be legal (`RoomInv`), its players' identifiers issued
before, since a new one must differ from all of them; on the memory stores a
request writes into the players all copies share, so any two copies must agree
on the places both have (`Agree`). What a
handler does next depends on what it checked before: `Handler` says for every
position what its local variables are then, and `SessionInv` that every stored
session is in order. There is one lemma per handler (`NextInv` collects them).
`OnlyPlaced` adds what a request remembers of orders (`Remembers`): those it
holds were placed, except the one it is about to save. `NoInternalError` goes
through the error returns of every request, those that lie ahead of one under way
included (`ErrorAheadKnown`): each error is one the transport has a status for
(`KnownErrors`), since `AdvanceWeek` of the session is only called with an order of
every role. `NobodyStuck` adds that a started room has a
session or is about to get one (`BegunInv`), and that a full room in which the
players' roles are not distinct leaves a role to take (`RoleLeft`, by counting).

`SerialProofs`, when there is one request at a time (`OneAtATime`), refused or
cut short anywhere, on both kinds of stores:

- `StoresImplementTurns`: `Spec => ImplementsTurns`.
- `RoomFollowsSession`: `Spec => []RoomNotAheadOfSession`; `QueuesMoveWithWeeks`:
  `Spec => []QueuesInStep`.
- `RoomFrozen`: `Spec => StartedRoomFrozen`; `PlayersStay`:
  `Spec => JoinedPlayersStay`.
- `ButtonsWork`: `Spec => []OffersAccepted`.
- `RolesForAll`: `Spec => []RolesSuffice`, and no `StartGame` panics at all: the
  exception of `NeverInternalError` needs requests that overlap.
- Beside a reader, `FinishedWhole`: `ReadSpec => []FinishedShownWhole`;
  `OrdersShownStand`: `ReadSpec => []ShownOrdersStand` (if there is a role);
  `WeekNeverBack`: `ReadSpec => ShownWeekNeverBack`.

Without that hypothesis most of these do not hold (section 5). To `Inv` the invariant adds what the
stores agree on at every step (`StoresInStep`: no session and no orders before
the start, orders for the weeks played and the next one only, the room behind its
session), that the queues moved once per week but for the step before a memory
session is saved (`Moved`), and what the one request still knows of the stores
from its reads (`Knows`). The refinement then is by cases: the Save of `StartGame`
that makes the session is `Start`, the Save of the orders is `TakeOrder`, the Save
of the session by `AdvanceWeek` is `PlayWeek`, and every other step, `Abort`
included, changes nothing that `Turns` shows.

That every enabled button works (`ButtonsWork`) needs more than the stores: who
sits where. `SeatsInv`, on top of the two invariants above (`SeatsStayTaken`), says
that with one request at a time no role is taken twice on the memory stores
either, although checking a role and writing it are two steps there, and that
everybody in a started room has a role; by counting, every role of it is then
somebody's. `NothingRefused` goes through the early returns of what a page offers
and finds each impossible.

The reader of `PlayerReads` is not alone: between any two of its reads the writer
may do anything. `GameStep` says what no step of the writer takes back (the end of
the game, its session, the weeks played, the orders of the week being played);
`ReadInv` what a reader therefore still knows of the stores from its earlier reads
(`ReadKnown`), and what an answer, once given, still tells (`ShownKnown`). The kind
of stores does not matter to the proof; on the memory stores the two reads of
`GetByRoomID` are one, which is one of the interleavings.

Only model-checked: liveness, that is `Terminates`, `NotifiedPageCatchesUp` and
`ConflictEnds`. Fairness and ENABLED are out of the prover's reach. The safety half
of each is proved: `LoopsAdvance`, `NotifiedCurrent` and `ConflictRunsOut` say where
the steps lead that fairness makes happen.

## 5. Disagreements between the code and what it says

Each is a run that TLC ends with a counterexample.

- `lost_order`: two overlapping `SubmitOrder`s (`game_service.go:128`) read the
  same record; the second write drops the first player's order, and both were
  answered with success.
- `unrecoverable_game`: `StartGame` (`game_service.go:92`) saves the active room
  before the session. Cut short in between, the room can be neither played nor
  started again, although the README promises recovery after a restart.
- `stream_gap`: the snapshot is read before the subscription (`events.go:49`); a
  change in between reaches the page only with the next event.
- `stream_redis_close`: `cancel` of the Redis bus closes a channel its goroutine
  may be about to send on (`redis/room_event_bus.go:37`), which panics outside
  `WithRecovery`.
- `stream_production`: the logging wrapper of the ResponseWriter hides
  `http.Flusher`, so the server as built answers every event stream with 500
  (`events.go:28`); the handler's tests run without the wrapper.

The passing `stream` run takes `Flushable` to be TRUE, the handler as its tests
run it.

Met on the way, each a behaviour of a model, without a run of its own:

- `JoinRoom` and `AssignRole` (`room_service.go:101`) write the room they read;
  overtaken by `StartGame` they turn the started room back into a waiting one,
  although the page says that roles are final after the start (`app.js:399`).
- An `AdvanceWeek` that read the room before `StartGame` saved it and finds the
  session writes that room back as active, with the roles, or the players, it had
  before: a role that is nobody's can never order, and the game is stuck.
- An `AdvanceWeek` that stops between saving the session of the last week and
  saving the room leaves a room that is active for ever: the page asks for orders
  or offers to end the week (`app.js:523`), the server refuses both with 409.
- On the memory stores, overlapping requests can give two players one role or one
  name, and an `AdvanceWeek` that overlaps another moves the session's queues
  twice for one week.
- An `AdvanceWeek` saves the session it read at its beginning
  (`game_service.go:195`). Two that overlap play one week twice. One that is held
  up until others have played later weeks takes the session back to the week
  after the one it played, out of its end even, and those weeks are played again
  with new orders; every week of the history was still played with orders
  submitted for it (`OnlyPlacedOrdersPlayed`).
- On the memory stores, `StartGame` counts the roles that are left
  (`room.go:154`) and gives them out in another loop (`room.go:161`). A
  `JoinRoom` that read the room before it was full can put its player over one
  who has a role in between: `StartGame` indexes past the end of the roles
  (`room.go:166`), panics, and is answered with 500 by `WithRecovery`; the roles
  it has written in place stay, without an event.
- An event whose read of the stores fails is used up (`events.go:64`): after the
  last event the page stays stale although nothing was lost on the way. This is
  why `NotifiedPageCurrent` and `NotifiedPageCatchesUp` excuse a page that
  `missed` it.
- A page that comes back within 15 seconds after a crash finds the lock it held
  itself under an identifier that is gone, says that the player is open in another
  tab (`app.js:753`) and forgets him, although `index.html:62` offers to return to
  the last room. This is why `PlayerKept` excuses crashes.
- The answer to a `refreshState` that was overtaken by an event replaces the newer
  state until the next event; `applySession` leaves the EventSource of the former
  room open until `connectEvents`.
- An unknown scenario is answered as "room not found"
  (`memory/scenario_repository.go:47`).

## 6. Not modelled

- Configuration and start-up, identifiers and clock: constants of a run of the
  server. The syntax of paths and bodies, static files, CORS and the log: pure
  functions or output; of the middleware only what it does to the
  ResponseWriter matters (`Flushable`).
- Expiry of Redis keys. All keys have the same ttl (72 hours unless configured),
  each renewed by its own writes only; a game would have to pause for days.
- The file format of the export and the page's rendering beyond what it enables.
- Undefined behaviour of data races on the memory stores (section 2).

## 7. Plan

Done: every module of section 2 with its runs, and the proofs of section 4: every
invariant, every action property and every refinement the passing runs check is a
theorem, for every value of the constants and under the hypotheses stated there.
Liveness stays with TLC.

Left, should the code come to need it: expiry of the Redis keys (section 6), which
matters once the ttl is configured shorter than a game may pause.
