-------------------------- MODULE PlayerLockProofs --------------------------
(***************************************************************************)
(* The lock of PlayerLock works for any number of tabs and any ttl longer  *)
(* than the heartbeat's interval.                                          *)
(***************************************************************************)
EXTENDS PlayerLock, TLAPS

(* A page remembers its player exactly as long as it plays him, and before *)
(* anybody has joined there is nothing to remember.                        *)
Remembered ==
  /\ \A t \in Tabs : IF tab[t].open THEN tab[t].saved = tab[t].joined
                                    ELSE ~tab[t].joined
  /\ ~created => \A t \in Tabs : ~tab[t].saved

(* The page of a tab that is on time and whose heartbeat runs holds a lock *)
(* that was renewed when the heartbeat last fired, or since.               *)
Keeps(l, t, p) == p.joined /\ p.beating => l.tabId = t /\ l.left + p.since >= TTL
LockKept == \A t \in Tabs \ Background : Keeps(lock, t, tab[t])

IInv == TypeOK /\ Remembered /\ LockKept

-----------------------------------------------------------------------------
(* What a step of one page does to the tabs.                               *)
LEMMA PageStep ==
  ASSUME TypeOK, NEW t \in Tabs, NEW p \in Pages, Page(t, p)
  PROVE  /\ tab' \in [Tabs -> Pages]
         /\ tab'[t] = p
         /\ \A u \in Tabs \ {t} : tab'[u] = tab[u]
  BY DEF TypeOK, Page

(* A page cannot disturb the lock another page keeps: it writes the lock   *)
(* only when it is free or its own.                                        *)
LEMMA OthersUndisturbed ==
  ASSUME IInv, NEW t \in Tabs, NEW p \in Pages, Page(t, p),
         lock' = lock \/ ~taken(t),
         t \notin Background => Keeps(lock', t, p)
  PROVE  LockKept'
  <1> SUFFICES ASSUME NEW u \in Tabs \ Background
               PROVE  Keeps(lock', u, tab'[u])
    BY DEF LockKept, Keeps
  <1>1. CASE u = t
    BY <1>1, PageStep DEF IInv
  <1>2. CASE u # t
    <2>1. tab'[u] = tab[u] /\ Keeps(lock, u, tab[u])
      BY <1>2, PageStep DEF IInv, LockKept
    <2>2. CASE lock' = lock
      BY <2>1, <2>2
    <2>3. CASE ~taken(t)
      <3>1. tab[u] \in Pages /\ lock \in Locks
        BY DEF IInv, TypeOK
      <3>2. ~(lock.tabId = u /\ lock.left + tab[u].since >= TTL)
        BY <1>2, <2>3, <3>1, TabsAssumption, TimeAssumption
        DEF taken, Pages, Locks
      <3> QED BY <2>1, <3>2 DEF Keeps
    <2> QED BY <2>2, <2>3
  <1> QED BY <1>1, <1>2

(* What is left to show of a step of one page. *)
LEMMA PageInv ==
  ASSUME IInv, NEW t \in Tabs, NEW p \in Pages, Page(t, p),
         created' = created, excused' \in BOOLEAN, lock' \in Locks,
         lock' = lock \/ ~taken(t),
         IF p.open THEN p.saved = p.joined ELSE ~p.joined,
         ~created => ~p.saved,
         t \notin Background => Keeps(lock', t, p)
  PROVE  IInv'
  <1>1. TypeOK'
    BY PageStep DEF IInv, TypeOK
  <1>2. Remembered'
    BY PageStep DEF IInv, Remembered
  <1> QED BY <1>1, <1>2, OthersUndisturbed DEF IInv

(* The parts of TimeAssumption the types need. *)
LEMMA Times ==
  /\ RefreshInterval \in Nat /\ TTL \in Nat /\ RefreshInterval < TTL
  /\ 0 \in 0..RefreshInterval
  BY TimeAssumption

(* The values the lock is given. *)
LEMMA LockValues ==
  ASSUME TypeOK, NEW t \in Tabs
  PROVE  /\ NoLock \in Locks /\ heldBy(t) \in Locks
         /\ released(t) \in Locks /\ orphaned(t, released(t)) \in Locks
         /\ orphaned(t, lock) \in Locks
         /\ released(t) = lock \/ ~taken(t)
         /\ orphaned(t, released(t)) = lock \/ ~taken(t)
         /\ orphaned(t, lock) = lock \/ ~taken(t)
  <1>1. lock \in Locks
    BY DEF TypeOK
  <1>2. NoLock \in Locks /\ heldBy(t) \in Locks /\ released(t) \in Locks
    BY <1>1, Times DEF NoLock, heldBy, released, Locks
  <1>3. \A l \in Locks : orphaned(t, l) \in Locks
    BY DEF orphaned, Locks
  <1>4. released(t) = lock \/ ~taken(t)
    BY DEF released, taken
  <1>5. \A l : orphaned(t, l) = l \/ l.tabId = t
    BY DEF orphaned
  <1>6. orphaned(t, lock) = lock \/ ~taken(t)
    BY <1>5 DEF taken
  <1>7. orphaned(t, released(t)) = lock \/ ~taken(t)
    BY <1>1, <1>4, <1>5, TabsAssumption DEF taken, released, NoLock
  <1> QED BY <1>1, <1>2, <1>3, <1>4, <1>6, <1>7

(* A page that has just taken or renewed the lock keeps it. *)
LEMMA JustHeld ==
  ASSUME NEW t \in Tabs, NEW p \in Pages
  PROVE  Keeps(heldBy(t), t, p)
  BY Times DEF Keeps, heldBy, Pages

(* A page that is not played by anybody has nothing to keep. *)
LEMMA NothingToKeep ==
  ASSUME NEW t, NEW l, NEW p, ~p.joined \/ ~p.beating
  PROVE  Keeps(l, t, p)
  BY DEF Keeps

-----------------------------------------------------------------------------
(* The invariant holds before any tab has a page. *)
LEMMA InitInv == Init => IInv
  <1> SUFFICES ASSUME Init PROVE IInv
    OBVIOUS
  <1>1. NoPage \in Pages /\ NoLock \in Locks
    BY Times DEF NoPage, Pages, NoLock, Locks
  <1>2. TypeOK
    BY <1>1 DEF Init, TypeOK
  <1>3. \A t \in Tabs : tab[t] = NoPage
    BY DEF Init
  <1>4. Remembered /\ LockKept
    BY <1>3 DEF Remembered, LockKept, Keeps, NoPage
  <1> QED BY <1>2, <1>4 DEF IInv

(* The steps that begin or end a page. *)
LEMMA PageLoads ==
  ASSUME IInv, NEW t \in Tabs,
         OpenTab(t) \/ Reload(t) \/ \E u \in Tabs : DuplicateTab(u, t)
  PROVE  IInv'
  <1>1. PICK saved \in BOOLEAN :
          /\ Page(t, Boot(saved)) /\ UNCHANGED <<created, lock, excused>>
          /\ saved => created
    BY DEF OpenTab, Reload, DuplicateTab, IInv, Remembered
  <1>2. Boot(saved) \in Pages
    BY Times DEF Boot, NoPage, Pages
  <1>3. LET p == Boot(saved)
        IN  p.saved = saved /\ p.joined = saved /\ ~p.beating /\ p.open
    BY DEF Boot, NoPage
  <1> QED BY <1>1, <1>2, <1>3, PageInv, NothingToKeep DEF IInv, TypeOK

(* A page that dies or unloads. *)
LEMMA PageEnds ==
  ASSUME IInv, NEW t \in Tabs, Die(t) \/ \E keeps \in BOOLEAN : Unload(t, keeps)
  PROVE  IInv'
  <1>1. PICK saved \in BOOLEAN :
          /\ Page(t, [NoPage EXCEPT !.saved = saved])
          /\ lock' = orphaned(t, released(t)) \/ lock' = orphaned(t, lock)
          /\ created' = created /\ excused' \in BOOLEAN
          /\ saved => created
    BY DEF Die, Unload, Excuse, IInv, TypeOK, Pages, Remembered
  <1>2. [NoPage EXCEPT !.saved = saved] \in Pages
    BY Times DEF NoPage, Pages
  <1>3. LET p == [NoPage EXCEPT !.saved = saved]
        IN  p.saved = saved /\ ~p.joined /\ ~p.beating /\ ~p.open
    BY DEF NoPage
  <1> QED BY <1>1, <1>2, <1>3, PageInv, NothingToKeep, LockValues DEF IInv

(* The first tab to join writes the lock without a look at it, but nobody  *)
(* can hold it yet.                                                        *)
LEMMA Joins ==
  ASSUME IInv, NEW t \in Tabs, JoinRoom(t)
  PROVE  IInv'
  <1> DEFINE p == beatingFromNow([tab[t] EXCEPT !.saved = TRUE, !.joined = TRUE,
                                                !.awaits = @ \cup {"join"}])
  <1>1. p \in Pages /\ p.open /\ p.saved = TRUE /\ p.joined = TRUE
    BY Times DEF JoinRoom, beatingFromNow, IInv, TypeOK, Pages
  <1>2. Page(t, p) /\ lock' = heldBy(t) /\ created' /\ ~created
    BY DEF JoinRoom
  <1> HIDE DEF p
  <1>3. TypeOK'
    BY <1>1, <1>2, PageStep, LockValues DEF JoinRoom, IInv, TypeOK
  <1>4. Remembered'
    BY <1>1, <1>2, PageStep DEF IInv, Remembered
  <1>5. \A u \in Tabs \ {t} : ~tab[u].joined
    BY <1>2 DEF IInv, Remembered
  <1>6. LockKept'
    BY <1>1, <1>2, <1>5, PageStep, JustHeld DEF IInv, LockKept, Keeps
  <1> QED BY <1>3, <1>4, <1>6 DEF IInv

(* The steps that change the page's fields. *)
LEMMA Clicks ==
  ASSUME IInv, NEW t \in Tabs,
         Resume(t) \/ Leave(t) \/ JoinAsAnother(t) \/ ConnectAsAnother(t)
  PROVE  IInv'
  <1> DEFINE page == tab[t]
  <1>1. page \in Pages /\ (page.open => page.saved = page.joined)
        /\ (~page.open => ~page.joined) /\ (page.saved => created)
        /\ (t \notin Background => Keeps(lock, t, page))
    BY DEF IInv, TypeOK, Remembered, LockKept
  <1>2. CASE Resume(t)
    <2> DEFINE p == [page EXCEPT !.joined = TRUE, !.awaits = @ \cup {"resume"}]
    <2>1. /\ p \in Pages /\ p.open /\ p.saved = p.joined /\ page.joined
          /\ p.beating = page.beating /\ p.since = page.since
      BY <1>1, <1>2 DEF Resume, Pages
    <2>2. Page(t, p) /\ UNCHANGED <<created, lock, excused>> /\ created
      BY <1>1, <1>2 DEF Resume
    <2>3. t \notin Background => Keeps(lock', t, p)
      BY <1>1, <2>1, <2>2 DEF Keeps
    <2> HIDE DEF p
    <2> QED BY <2>1, <2>2, <2>3, PageInv DEF IInv, TypeOK
  <1>3. CASE Leave(t) \/ JoinAsAnother(t)
    <2>1. PICK p \in Pages :
            /\ Page(t, p) /\ lock' = released(t)
            /\ created' = created /\ excused' \in BOOLEAN
            /\ p.saved = FALSE /\ p.joined = FALSE
      <3> DEFINE left == beatingNoMore(givenUp(page))
                 other == beatingNoMore(cleared(page))
      <3>1. left \in Pages /\ left.saved = FALSE /\ left.joined = FALSE
        BY <1>1, Times DEF beatingNoMore, givenUp, cleared, Pages
      <3>2. other \in Pages /\ other.saved = FALSE /\ other.joined = FALSE
        BY <1>1, Times DEF beatingNoMore, cleared, Pages
      <3>3. Page(t, left) \/ Page(t, other)
        BY <1>3 DEF Leave, JoinAsAnother
      <3>4. lock' = released(t) /\ created' = created /\ excused' \in BOOLEAN
        BY <1>3 DEF Leave, JoinAsAnother, Excuse, IInv, TypeOK
      <3> QED BY <3>1, <3>2, <3>3, <3>4
    <2> QED BY <2>1, PageInv, NothingToKeep, LockValues DEF IInv
  <1>4. CASE ConnectAsAnother(t)
    <2> DEFINE p == [page EXCEPT !.events = FALSE]
    <2>1. /\ p \in Pages /\ p.open = page.open /\ p.saved = page.saved
          /\ ~page.joined /\ p.joined = page.joined
      BY <1>1, <1>4 DEF ConnectAsAnother, Pages
    <2>2. Page(t, p) /\ UNCHANGED <<created, lock, excused>>
      BY <1>4 DEF ConnectAsAnother
    <2> HIDE DEF p
    <2> QED BY <1>1, <2>1, <2>2, PageInv, NothingToKeep DEF IInv, TypeOK
  <1> QED BY <1>2, <1>3, <1>4

(* Answers to the page's requests: every branch either leaves the page's   *)
(* player and heartbeat alone, or gives the player up, or holds the lock.  *)
LEMMA Answers ==
  ASSUME IInv, NEW t \in Tabs, Answered(t)
  PROVE  IInv'
  <1> DEFINE page == tab[t]
             after(op) == [page EXCEPT !.awaits = @ \ {op}]
  <1>1. page \in Pages /\ (page.open => page.saved = page.joined)
        /\ (~page.open => ~page.joined) /\ (page.saved => created)
        /\ (t \notin Background => Keeps(lock, t, page))
    BY DEF IInv, TypeOK, Remembered, LockKept
  <1>2. ASSUME NEW op PROVE /\ after(op) \in Pages /\ after(op).open = page.open
                            /\ after(op).saved = page.saved
                            /\ after(op).joined = page.joined
                            /\ after(op).beating = page.beating
                            /\ after(op).since = page.since
    BY <1>1 DEF Pages
  <1>3. created' = created /\ excused' \in BOOLEAN
    BY DEF Answered, RestoreSession, RestoreFails, ConnectEvents, RefreshFails,
           Excuse, IInv, TypeOK
  <1>4. PICK op :
          \/ /\ Page(t, after(op))
             /\ lock' = lock
          \/ /\ Page(t, [after(op) EXCEPT !.events = TRUE])
             /\ lock' = heldBy(t) /\ ~taken(t)
          \/ /\ Page(t, beatingNoMore(after(op)))
             /\ lock' = lock /\ ~after(op).joined
          \/ /\ Page(t, givenUp(after(op)))
             /\ lock' = lock
          \/ /\ Page(t, beatingFromNow([after(op) EXCEPT !.events = TRUE]))
             /\ lock' = heldBy(t) /\ ~taken(t)
    <2>1. CASE RestoreSession(t) \/ RestoreFails(t)
      <3> WITNESS "restore"
      <3> QED BY <2>1 DEF RestoreSession, RestoreFails
    <2>2. CASE \E op \in {"join", "resume"} : ConnectEvents(t, op) \/ RefreshFails(t, op)
      <3>1. PICK op \in {"join", "resume"} : ConnectEvents(t, op) \/ RefreshFails(t, op)
        BY <2>2
      <3> WITNESS op
      <3> QED BY <3>1 DEF ConnectEvents, RefreshFails
    <2> QED BY <2>1, <2>2 DEF Answered
  <1> DEFINE q == after(op)
  <1>5. /\ q \in Pages /\ q.open = page.open /\ q.saved = page.saved
        /\ q.joined = page.joined /\ q.beating = page.beating
        /\ q.since = page.since
    BY <1>2
  <1> HIDE DEF after, page
  <1>6. CASE Page(t, q) /\ lock' = lock
    BY <1>1, <1>3, <1>5, <1>6, PageInv DEF IInv, TypeOK, Keeps
  <1>7. CASE Page(t, [q EXCEPT !.events = TRUE]) /\ lock' = heldBy(t) /\ ~taken(t)
    <2> DEFINE p == [q EXCEPT !.events = TRUE]
    <2>1. p \in Pages /\ p.open = q.open /\ p.saved = q.saved /\ p.joined = q.joined
      BY <1>5 DEF Pages
    <2> HIDE DEF p
    <2> QED BY <1>1, <1>3, <1>5, <1>7, <2>1, PageInv, JustHeld, LockValues DEF IInv, p
  <1>8. CASE Page(t, beatingNoMore(q)) /\ lock' = lock /\ ~q.joined
    <2> DEFINE p == beatingNoMore(q)
    <2>1. p \in Pages /\ p.open = q.open /\ p.saved = q.saved /\ p.joined = q.joined
      BY <1>5, Times DEF beatingNoMore, Pages
    <2> HIDE DEF p
    <2> QED BY <1>1, <1>3, <1>5, <1>8, <2>1, PageInv, NothingToKeep DEF IInv, TypeOK, p
  <1>9. CASE Page(t, givenUp(q)) /\ lock' = lock
    <2> DEFINE p == givenUp(q)
    <2>1. p \in Pages /\ p.saved = FALSE /\ p.joined = FALSE
      BY <1>5, Times DEF givenUp, cleared, Pages
    <2> HIDE DEF p
    <2> QED BY <1>1, <1>3, <1>9, <2>1, PageInv, NothingToKeep DEF IInv, TypeOK, p
  <1>10. CASE /\ Page(t, beatingFromNow([q EXCEPT !.events = TRUE]))
              /\ lock' = heldBy(t) /\ ~taken(t)
    <2> DEFINE p == beatingFromNow([q EXCEPT !.events = TRUE])
    <2>1. p \in Pages /\ p.open = q.open /\ p.saved = q.saved /\ p.joined = q.joined
      BY <1>5, Times DEF beatingFromNow, Pages
    <2> HIDE DEF p
    <2> QED BY <1>1, <1>3, <1>5, <1>10, <2>1, PageInv, JustHeld, LockValues DEF IInv, p
  <1> QED BY <1>4, <1>6, <1>7, <1>8, <1>9, <1>10

(* The heartbeat of a page renews its lock, or finds that it is taken. *)
LEMMA Beats ==
  ASSUME IInv, NEW t \in Tabs, Heartbeat(t)
  PROVE  IInv'
  <1> DEFINE page == tab[t]
  <1>1. page \in Pages /\ (page.open => page.saved = page.joined)
        /\ (~page.open => ~page.joined) /\ (page.saved => created)
    BY DEF IInv, TypeOK, Remembered
  <1>2. created' = created /\ excused' = excused
    BY DEF Heartbeat
  <1>3. CASE page.joined /\ taken(t)
    <2> DEFINE p == beatingNoMore(givenUp(page))
    <2>1. p \in Pages /\ p.saved = FALSE /\ p.joined = FALSE
      BY <1>1, Times DEF beatingNoMore, givenUp, cleared, Pages
    <2>2. Page(t, p) /\ lock' = lock
      BY <1>3 DEF Heartbeat
    <2> HIDE DEF p
    <2> QED BY <1>2, <2>1, <2>2, PageInv, NothingToKeep DEF IInv, TypeOK
  <1>4. CASE ~(page.joined /\ taken(t))
    <2> DEFINE p == [page EXCEPT !.since = 0]
    <2>1. p \in Pages /\ p.open = page.open /\ p.saved = page.saved
          /\ p.joined = page.joined
      BY <1>1, Times DEF Pages
    <2>2. Page(t, p) /\ lock' = IF page.joined THEN heldBy(t) ELSE lock
      BY <1>4 DEF Heartbeat
    <2>3. Keeps(lock', t, p)
      BY <2>1, <2>2, JustHeld, NothingToKeep
    <2> HIDE DEF p
    <2> QED BY <1>1, <1>2, <1>4, <2>1, <2>2, <2>3, PageInv, LockValues
            DEF IInv, TypeOK
  <1> QED BY <1>3, <1>4

(* Time takes one unit from the lock and adds one to the time since the    *)
(* heartbeat; a tab that is on time is not due yet.                        *)
LEMMA Ticks == IInv /\ Tick => IInv'
  <1> SUFFICES ASSUME IInv, Tick PROVE IInv'
    OBVIOUS
  <1>1. \A t \in Tabs : tab[t] \in Pages
    BY DEF IInv, TypeOK
  <1>2. ASSUME NEW t \in Tabs
        PROVE  /\ tab'[t] \in Pages /\ tab'[t].open = tab[t].open
               /\ tab'[t].saved = tab[t].saved /\ tab'[t].joined = tab[t].joined
               /\ tab'[t].beating = tab[t].beating
               /\ ~due(t) /\ tab[t].beating => tab'[t].since = tab[t].since + 1
    <2>1. tab'[t] = IF tab[t].beating /\ ~due(t)
                      THEN [tab[t] EXCEPT !.since = @ + 1] ELSE tab[t]
      BY DEF Tick
    <2> QED BY <1>1, <2>1, Times DEF due, Pages
  <1>3. lock' \in Locks /\ (lock.left > 1 => lock'.tabId = lock.tabId
                                             /\ lock'.left = lock.left - 1)
    BY Times DEF Tick, NoLock, Locks, IInv, TypeOK
  <1>4. TypeOK'
    BY <1>2, <1>3 DEF Tick, IInv, TypeOK
  <1>5. Remembered'
    BY <1>2 DEF Tick, IInv, Remembered
  <1>6. LockKept'
    <2> SUFFICES ASSUME NEW t \in Tabs \ Background,
                        tab[t].joined, tab[t].beating
                 PROVE  lock'.tabId = t /\ lock'.left + tab'[t].since >= TTL
      BY <1>2 DEF LockKept, Keeps
    <2>1. lock.tabId = t /\ lock.left + tab[t].since >= TTL
      BY DEF IInv, LockKept, Keeps
    <2>2. ~due(t)
      BY DEF Tick
    <2>3. tab[t].since \in 0..RefreshInterval /\ tab[t].since # RefreshInterval
          /\ lock.left \in 0..TTL
      BY <1>1, <2>2 DEF due, Pages, Locks, IInv, TypeOK
    <2> QED BY <1>2, <1>3, <2>1, <2>2, <2>3, Times
  <1> QED BY <1>4, <1>5, <1>6 DEF IInv

(* The invariant is inductive. *)
LEMMA NextInv == IInv /\ [Next]_vars => IInv'
  <1> SUFFICES ASSUME IInv, [Next]_vars PROVE IInv'
    OBVIOUS
  <1>1. CASE Tick
    BY <1>1, Ticks
  <1>2. ASSUME NEW t \in Tabs, TabStep(t)
        PROVE  IInv'
    BY <1>2, PageLoads, PageEnds, Joins, Clicks, Answers, Beats
    DEF TabStep, UserStep
  <1>3. CASE UNCHANGED vars
    BY <1>3 DEF vars, IInv, TypeOK, Remembered, LockKept
  <1> QED BY <1>1, <1>2, <1>3 DEF Next

-----------------------------------------------------------------------------
(* The lock and the pages have their types for any number of tabs, and no  *)
(* lock outlives its ttl.                                                  *)
THEOREM TypeCorrect == Spec => []TypeOK
  <1>1. Spec => []IInv
    BY InitInv, NextInv, PTL DEF Spec
  <1> QED BY <1>1, PTL DEF IInv

(* However many tabs there are, and whatever users, browsers and the       *)
(* network do: as long as timers fire on time and the ttl is longer than   *)
(* their interval, the look and the write of ensurePlayerLock keep two     *)
(* tabs from playing one player.                                           *)
THEOREM OneTabOnly == Spec => []OneTabPlays
  <1>1. IInv => OneTabPlays
    BY DEF IInv, LockKept, Keeps, OneTabPlays, Playing
  <1>2. Spec => []IInv
    BY InitInv, NextInv, PTL DEF Spec
  <1> QED BY <1>1, <1>2, PTL

-----------------------------------------------------------------------------
(* Why no player is given up by all: whoever gives him up saw another      *)
(* page's lock, and that page has him.                                     *)
HolderPlays ==
  lock.tabId # NoTab => lock.tabId \in Tabs /\ tab[lock.tabId].joined

KInv == IInv /\ PlayerKept /\ (~excused => HolderPlays)

(* What has to be shown of a step of one page that excuses nobody. *)
LEMMA PageKept ==
  ASSUME KInv, NEW t \in Tabs, NEW p \in Pages, Page(t, p), ~excused,
         created' = created \/ p.saved,
         lock' \in {lock, NoLock, heldBy(t)}, lock'.tabId = t => p.joined,
         tab[t].saved => p.saved \/ taken(t)
  PROVE  PlayerKept' /\ HolderPlays'
  <1>1. tab' \in [Tabs -> Pages] /\ tab'[t] = p
        /\ \A u \in Tabs \ {t} : tab'[u] = tab[u]
    BY PageStep DEF KInv, IInv
  <1>2. HolderPlays /\ (created => \E u \in Tabs : tab[u].saved)
    BY DEF KInv, PlayerKept
  <1>3. \A u \in Tabs : tab[u].joined => tab[u].saved
    BY DEF KInv, IInv, TypeOK, Pages, Remembered
  <1>4. HolderPlays'
    BY <1>1, <1>2 DEF HolderPlays, heldBy, NoLock, taken
  <1>5. created' => \E u \in Tabs : tab'[u].saved
    <2> SUFFICES ASSUME created', ~p.saved PROVE \E u \in Tabs : tab'[u].saved
      BY <1>1
    <2>1. CASE taken(t)
      <3>1. lock.tabId \in Tabs \ {t} /\ tab[lock.tabId].joined
        BY <1>2, <2>1 DEF HolderPlays, taken
      <3> QED BY <1>1, <1>3, <3>1
    <2>2. CASE ~taken(t)
      BY <1>1, <1>2, <2>2
    <2> QED BY <2>1, <2>2
  <1> QED BY <1>4, <1>5 DEF PlayerKept

(* So is what it says of the player who is kept. *)
LEMMA NextKept == KInv /\ [Next]_vars => KInv'
  <1> SUFFICES ASSUME KInv, [Next]_vars, ~excused'
               PROVE  PlayerKept' /\ HolderPlays'
    BY NextInv DEF KInv, PlayerKept
  <1> USE DEF KInv
  <1>0. ~excused /\ HolderPlays
    <2>1. CASE Tick \/ UNCHANGED vars
      BY <2>1 DEF Tick, vars
    <2>2. ASSUME NEW t \in Tabs, UserStep(t) \/ Die(t)
          PROVE  ~excused
      BY <2>2 DEF UserStep, OpenTab, Reload, DuplicateTab, Unload, Die, JoinRoom,
                  Resume, Leave, JoinAsAnother, Excuse
    <2>3. ASSUME NEW t \in Tabs, Answered(t) \/ ConnectAsAnother(t) \/ Heartbeat(t)
          PROVE  ~excused
      BY <2>3 DEF Answered, RestoreSession, RestoreFails, ConnectEvents,
                  RefreshFails, ConnectAsAnother, Heartbeat, Excuse
    <2> QED BY <2>1, <2>2, <2>3 DEF Next, TabStep
  <1>1. CASE Tick
    <2>1. /\ lock'.tabId \in {NoTab, lock.tabId}
          /\ created' = created /\ excused' = excused
      BY <1>1 DEF Tick, NoLock
    <2>2. \A t \in Tabs : tab'[t].saved = tab[t].saved /\ tab'[t].joined = tab[t].joined
      BY <1>1 DEF Tick, due, IInv, TypeOK, Pages
    <2> QED BY <1>0, <2>1, <2>2 DEF PlayerKept, HolderPlays
  <1>2. ASSUME NEW t \in Tabs, TabStep(t)
        PROVE  PlayerKept' /\ HolderPlays'
    <2>1. tab[t] \in Pages /\ lock \in Locks
          /\ (tab[t].joined => tab[t].saved /\ tab[t].open)
          /\ (lock.tabId = t => tab[t].joined)
      BY TabsAssumption, <1>0 DEF IInv, TypeOK, Pages, Remembered, HolderPlays
    <2>2. CASE OpenTab(t) \/ Reload(t) \/ \E u \in Tabs : DuplicateTab(u, t)
      <3>1. PICK saved \in BOOLEAN : /\ Page(t, Boot(saved)) /\ ~tab[t].open
                                     /\ tab[t].saved => saved
                                     /\ UNCHANGED <<created, lock>>
        BY <2>2 DEF OpenTab, Reload, DuplicateTab
      <3>2. /\ Boot(saved) \in Pages
            /\ Boot(saved).saved = saved /\ Boot(saved).joined = saved
        BY Times DEF Boot, NoPage, Pages
      <3>3. lock.tabId # t
        BY <2>1, <3>1 DEF IInv, Remembered
      <3> QED BY <1>0, <3>1, <3>2, <3>3, PageKept
    <2>3. CASE Die(t) \/ \E keeps \in BOOLEAN : Unload(t, keeps)
      <3> DEFINE p == [NoPage EXCEPT !.saved = tab[t].saved]
      <3>1. p \in Pages /\ p.saved = tab[t].saved /\ p.joined = FALSE
        BY <2>1, Times DEF NoPage, Pages
      <3>2. Page(t, p) /\ lock' = orphaned(t, released(t)) /\ created' = created
        BY <2>1, <2>3 DEF Die, Unload, Excuse, Pages
      <3>3. lock' \in {lock, NoLock} /\ lock'.tabId # t
        BY <2>1, <3>2, TabsAssumption DEF orphaned, released, NoLock
      <3> HIDE DEF p
      <3> QED BY <1>0, <3>1, <3>2, <3>3, PageKept
    <2>4. CASE JoinRoom(t)
      <3> DEFINE p == beatingFromNow([tab[t] EXCEPT !.saved = TRUE, !.joined = TRUE,
                                                    !.awaits = @ \cup {"join"}])
      <3>1. p \in Pages /\ p.saved = TRUE /\ p.joined = TRUE
        BY <2>1, Times DEF beatingFromNow, Pages
      <3>2. Page(t, p) /\ lock' = heldBy(t)
        BY <2>4 DEF JoinRoom
      <3> HIDE DEF p
      <3> QED BY <1>0, <3>1, <3>2, PageKept
    <2>5. CASE Resume(t) \/ ConnectAsAnother(t)
      <3> DEFINE resumed == [tab[t] EXCEPT !.joined = TRUE, !.awaits = @ \cup {"resume"}]
                 quiet == [tab[t] EXCEPT !.events = FALSE]
      <3>1. /\ resumed \in Pages /\ resumed.saved = tab[t].saved
            /\ resumed.joined = TRUE
            /\ quiet \in Pages /\ quiet.saved = tab[t].saved
            /\ quiet.joined = tab[t].joined
        BY <2>1 DEF Pages
      <3>2. (Page(t, resumed) \/ Page(t, quiet)) /\ UNCHANGED <<created, lock>>
        BY <2>5 DEF Resume, ConnectAsAnother
      <3> HIDE DEF resumed, quiet
      <3> QED BY <1>0, <2>1, <3>1, <3>2, PageKept
    <2>6. CASE Leave(t) \/ JoinAsAnother(t) \/ RestoreFails(t)
      BY <2>6 DEF Leave, JoinAsAnother, RestoreFails, Excuse
    <2>7. CASE RestoreSession(t)
      <3> DEFINE p == [tab[t] EXCEPT !.awaits = @ \ {"restore"}]
      <3>1. p \in Pages /\ p.saved = tab[t].saved /\ p.joined = tab[t].joined
        BY <2>1 DEF Pages
      <3>2. /\ beatingNoMore(p) \in Pages /\ beatingNoMore(p).saved = p.saved
            /\ beatingNoMore(p).joined = p.joined
            /\ givenUp(p) \in Pages
        BY <3>1, Times DEF beatingNoMore, givenUp, cleared, Pages
      <3>3. LET q == beatingFromNow([p EXCEPT !.events = TRUE])
            IN  q \in Pages /\ q.saved = p.saved /\ q.joined = p.joined
        BY <3>1, Times DEF beatingFromNow, Pages
      <3>4. /\ UNCHANGED created
            /\ \/ Page(t, beatingNoMore(p)) /\ lock' = lock /\ ~p.joined
               \/ Page(t, givenUp(p)) /\ lock' = lock /\ taken(t)
               \/ /\ Page(t, beatingFromNow([p EXCEPT !.events = TRUE]))
                  /\ lock' = heldBy(t) /\ p.joined
        BY <2>7 DEF RestoreSession
      <3> HIDE DEF p
      <3>5. taken(t) => lock.tabId # t
        BY DEF taken
      <3> QED BY <1>0, <2>1, <3>1, <3>2, <3>3, <3>4, <3>5, PageKept
    <2>8. CASE \E op \in {"join", "resume"} : ConnectEvents(t, op) \/ RefreshFails(t, op)
      <3>1. PICK op \in {"join", "resume"} : ConnectEvents(t, op) \/ RefreshFails(t, op)
        BY <2>8
      <3> DEFINE p == [tab[t] EXCEPT !.awaits = @ \ {op}]
                 q == [p EXCEPT !.events = TRUE]
      <3>2. /\ p \in Pages /\ p.saved = tab[t].saved /\ p.joined = tab[t].joined
            /\ q \in Pages /\ q.saved = tab[t].saved /\ q.joined = tab[t].joined
        BY <2>1 DEF Pages
      <3>3. \/ Page(t, p) /\ UNCHANGED <<created, lock>>
            \/ Page(t, q) /\ p.joined /\ lock' = heldBy(t) /\ UNCHANGED created
        BY <3>1 DEF ConnectEvents, RefreshFails
      <3> HIDE DEF p, q
      <3> QED BY <1>0, <2>1, <3>2, <3>3, PageKept
    <2>9. CASE Heartbeat(t)
      <3> DEFINE p == beatingNoMore(givenUp(tab[t]))
                 q == [tab[t] EXCEPT !.since = 0]
      <3>1. /\ p \in Pages
            /\ q \in Pages /\ q.saved = tab[t].saved /\ q.joined = tab[t].joined
        BY <2>1, Times DEF beatingNoMore, givenUp, cleared, Pages
      <3>2. \/ Page(t, p) /\ taken(t) /\ UNCHANGED <<created, lock>>
            \/ Page(t, q) /\ lock' = lock /\ UNCHANGED created
            \/ Page(t, q) /\ lock' = heldBy(t) /\ q.joined /\ UNCHANGED created
        BY <2>9, <3>1 DEF Heartbeat
      <3> HIDE DEF p, q
      <3>3. taken(t) => lock.tabId # t
        BY DEF taken
      <3> QED BY <1>0, <2>1, <3>1, <3>2, <3>3, PageKept
    <2> QED BY <1>2, <2>2, <2>3, <2>4, <2>5, <2>6, <2>7, <2>8, <2>9
            DEF TabStep, UserStep, Answered
  <1>3. CASE UNCHANGED vars
    BY <1>0, <1>3 DEF vars, PlayerKept, HolderPlays
  <1> QED BY <1>1, <1>2, <1>3 DEF Next

(* Unless somebody leaves, closes a tab, or has a mishap, some tab always  *)
(* remembers the player: pages never refuse him to each other in a circle. *)
THEOREM PlayerNeverLost == Spec => []PlayerKept
  <1>1. Init => PlayerKept /\ HolderPlays
    BY DEF Init, PlayerKept, HolderPlays, NoLock
  <1>2. Init => KInv
    BY <1>1, InitInv DEF KInv
  <1>3. KInv => PlayerKept
    BY DEF KInv
  <1> QED BY <1>2, <1>3, NextKept, PTL DEF Spec

-----------------------------------------------------------------------------
(* Why a conflict does not last: while a tab plays beside one that is on   *)
(* time, nothing puts the timer of the first back, time brings its beat    *)
(* nearer, and with that beat the conflict is over.                        *)
Conflict(t, u) == t # u /\ Playing(t) /\ Playing(u)
NearerToItsEnd ==
  \A t \in Tabs, u \in Tabs \ Background :
    Conflict(t, u) => /\ Heartbeat(t) => ~Conflict(t, u)'
                      /\ Conflict(t, u)' => tab'[t].since >= tab[t].since
                      /\ Tick /\ ~due(t) => tab'[t].since = tab[t].since + 1

(* A tab in a conflict finds the lock taken.                               *)
LEMMA ConflictSeen ==
  ASSUME IInv, NEW t \in Tabs, NEW u \in Tabs \ Background, Conflict(t, u)
  PROVE  taken(t)
  <1>1. lock.tabId = u /\ lock.left + tab[u].since >= TTL
    BY DEF IInv, LockKept, Keeps, Conflict, Playing
  <1>2. tab[u].since \in 0..RefreshInterval /\ lock.left \in 0..TTL
    BY DEF IInv, TypeOK, Pages, Locks
  <1> QED BY <1>1, <1>2, Times, TabsAssumption DEF taken, Conflict

(* A tab that plays and goes on to play after a step of its page that is   *)
(* no heartbeat has its timer where it was, unless it took the lock.       *)
LEMMA TimerKept ==
  ASSUME IInv, NEW t \in Tabs, TabStep(t), ~Heartbeat(t), Playing(t), Playing(t)', taken(t)
  PROVE  tab'[t].since = tab[t].since
  <1>1. /\ tab \in [Tabs -> Pages] /\ tab[t] \in Pages
        /\ tab[t].open /\ tab[t].joined /\ tab[t].saved /\ created
    BY DEF IInv, TypeOK, Remembered, Pages, Playing
  <1>2. ASSUME NEW p, Page(t, p)  PROVE tab'[t] = p
    BY <1>1, <1>2 DEF Page
  <1>3. ~OpenTab(t) /\ ~Reload(t) /\ ~JoinRoom(t) /\ ~\E u \in Tabs : DuplicateTab(u, t)
    BY <1>1 DEF OpenTab, Reload, JoinRoom, DuplicateTab
  <1>4. ~Die(t) /\ ~\E keeps \in BOOLEAN : Unload(t, keeps)
    BY <1>1, <1>2 DEF Die, Unload, Playing, NoPage
  <1>5. ~Leave(t) /\ ~JoinAsAnother(t) /\ ~ConnectAsAnother(t)
    BY <1>1, <1>2 DEF Leave, JoinAsAnother, ConnectAsAnother, Playing, beatingNoMore,
                      givenUp, cleared, Pages
  <1>6. CASE Resume(t)
    BY <1>1, <1>2, <1>6 DEF Resume, Pages
  <1>7. ~RestoreSession(t) /\ ~RestoreFails(t)
    <2> DEFINE p == [tab[t] EXCEPT !.awaits = @ \ {"restore"}]
    <2>1. p \in Pages /\ p.joined
      BY <1>1 DEF Pages
    <2>2. RestoreSession(t) \/ RestoreFails(t) => Page(t, givenUp(p))
      BY <2>1 DEF RestoreSession, RestoreFails
    <2>3. givenUp(p).joined = FALSE
      BY <2>1 DEF givenUp, cleared, Pages
    <2> HIDE DEF p
    <2> QED BY <1>2, <2>2, <2>3 DEF Playing
  <1>8. CASE \E op \in {"join", "resume"} : ConnectEvents(t, op) \/ RefreshFails(t, op)
    <2>1. PICK op \in {"join", "resume"} : ConnectEvents(t, op) \/ RefreshFails(t, op)
      BY <1>8
    <2> DEFINE p == [tab[t] EXCEPT !.awaits = @ \ {op}]
    <2>2. Page(t, p)
      BY <2>1 DEF ConnectEvents, RefreshFails
    <2>3. p.since = tab[t].since
      BY <1>1 DEF Pages
    <2> QED BY <1>2, <2>2, <2>3
  <1> QED BY <1>3, <1>4, <1>5, <1>6, <1>7, <1>8 DEF TabStep, UserStep, Answered

(* Whatever users, browsers and the network do, a conflict is nearer to    *)
(* its end after every step: for any number of tabs, any of them in the    *)
(* background, and any ttl longer than the interval of the heartbeat.      *)
THEOREM ConflictRunsOut == Spec => [][NearerToItsEnd]_vars
  <1>1. IInv /\ [Next]_vars => [NearerToItsEnd]_vars
    <2> SUFFICES ASSUME IInv, Next, NEW t \in Tabs, NEW u \in Tabs \ Background,
                        Conflict(t, u)
                 PROVE  /\ Heartbeat(t) => ~Conflict(t, u)'
                        /\ Conflict(t, u)' => tab'[t].since >= tab[t].since
                        /\ Tick /\ ~due(t) => tab'[t].since = tab[t].since + 1
      BY DEF NearerToItsEnd
    <2>1. taken(t) /\ Playing(t) /\ tab[t] \in Pages /\ tab \in [Tabs -> Pages]
          /\ tab[t].since \in Nat
      BY ConflictSeen, Times DEF Conflict, IInv, TypeOK, Pages
    <2>2. Heartbeat(t) => ~Conflict(t, u)'
      <3>1. SUFFICES ASSUME Heartbeat(t)  PROVE ~Playing(t)'
        BY DEF Conflict
      <3> DEFINE p == beatingNoMore(givenUp(tab[t]))
      <3>2. Page(t, p)
        BY <2>1, <3>1 DEF Heartbeat, Playing
      <3>3. p.joined = FALSE
        BY <2>1 DEF beatingNoMore, givenUp, cleared, Pages
      <3> HIDE DEF p
      <3> QED BY <2>1, <3>2, <3>3 DEF Page, Playing
    <2>3. Tick => tab'[t].since = IF due(t) THEN tab[t].since ELSE tab[t].since + 1
      BY <2>1 DEF Tick, Playing, Pages
    <2>4. ASSUME Conflict(t, u)', NEW w \in Tabs, TabStep(w)
          PROVE  tab'[t].since = tab[t].since
      <3>1. CASE w = t
        BY <2>1, <2>2, <2>4, <3>1, TimerKept DEF Conflict
      <3>2. CASE w # t
        <4>1. \E p : Page(w, p)
          BY <2>4 DEF TabStep, UserStep, Answered, OpenTab, Reload, DuplicateTab, Unload,
                      JoinRoom, Resume, Leave, JoinAsAnother, RestoreSession,
                      RestoreFails, ConnectEvents, RefreshFails, ConnectAsAnother,
                      Heartbeat, Die
        <4> QED BY <2>1, <3>2, <4>1 DEF Page
      <3> QED BY <3>1, <3>2
    <2> QED BY <2>1, <2>2, <2>3, <2>4 DEF Next
  <1>2. Spec => []IInv
    BY InitInv, NextInv, PTL DEF Spec
  <1> QED BY <1>1, <1>2, PTL DEF Spec
=============================================================================
