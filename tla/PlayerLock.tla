----------------------------- MODULE PlayerLock -----------------------------
(***************************************************************************)
(* One player in several tabs of one browser: the lock of                  *)
(* internal/interface/http/static/app.js.  The page keeps its player in    *)
(* sessionStorage, which a duplicated or reloaded tab inherits, and a lock *)
(* in localStorage, which all tabs share: the identifier of the page that  *)
(* holds it and the time it expires, renewed by a timer.  A page that      *)
(* finds the lock taken gives its player up.                               *)
(*                                                                         *)
(* Time is counted in units the lock's ttl and the timer's interval are    *)
(* multiples of.  What one event handler does up to its next await, its    *)
(* reads and writes of localStorage included, is one step.  Every page     *)
(* load makes a new identifier; those of pages that are gone are all       *)
(* Former.                                                                 *)
(***************************************************************************)
EXTENDS Naturals

CONSTANTS Tabs,
          Background,       \* the tabs whose timers the browser may delay
          NoTab, Former,
          TTL,              \* playerLockTTL, in units of time
          RefreshInterval,  \* playerLockRefreshInterval
          Mishaps           \* may tabs die and requests fail?

ASSUME TabsAssumption ==
  /\ NoTab \notin Tabs /\ Former \notin Tabs /\ NoTab # Former
  /\ Background \subseteq Tabs
ASSUME TimeAssumption ==
  /\ RefreshInterval \in Nat \ {0}
  /\ TTL \in Nat /\ TTL > RefreshInterval
ASSUME MishapsAssumption == Mishaps \in BOOLEAN

VARIABLES created,        \* the player has joined the room
          lock,           \* the player's entry in localStorage
          tab,            \* per tab: its page and its sessionStorage
          excused         \* somebody left, closed a tab, or had a mishap

vars == <<created, lock, tab, excused>>

(* An entry that has expired counts as little as none at all. *)
NoLock == [tabId |-> NoTab, left |-> 0]

NoPage == [open |-> FALSE,
           saved |-> FALSE,       \* sessionStorage holds the player
           joined |-> FALSE,      \* state.roomId and state.playerId are his
           beating |-> FALSE,     \* state.lockHeartbeat is set
           since |-> 0,           \* time since it last fired
           events |-> FALSE,      \* state.eventSource is open
           awaits |-> {}]         \* the functions that wait for GET /state

(* boot: a page whose sessionStorage holds the player takes it over and    *)
(* asks for its state (restoreSession).                                    *)
Boot(saved) ==
  [NoPage EXCEPT !.open = TRUE, !.saved = saved, !.joined = saved,
                 !.awaits = IF saved THEN {"restore"} ELSE {}]

Init ==
  /\ created = FALSE /\ lock = NoLock /\ excused = FALSE
  /\ tab = [t \in Tabs |-> NoPage]

-----------------------------------------------------------------------------
(* ensurePlayerLock: refuses when another page's lock has not expired, and *)
(* otherwise takes or renews it.                                           *)
taken(t) == lock.tabId \notin {NoTab, t} /\ lock.left > 0
M_expiresBeforeRenewal(t) == [tabId |-> t, left |-> RefreshInterval]
M_extended(t) == [tabId |-> t, left |-> lock.left + TTL]
heldBy(t) == [tabId |-> t, left |-> TTL]

(* releasePlayerLock; a page without a player has no key. *)
M_keptAtUnload(t) == lock
released(t) == IF tab[t].joined /\ lock.tabId = t THEN NoLock ELSE lock

(* A lock that outlives the page that set it is nobody's. *)
orphaned(t, l) == IF l.tabId = t THEN [l EXCEPT !.tabId = Former] ELSE l

(* clearSession. *)
cleared(p) == [p EXCEPT !.saved = FALSE, !.joined = FALSE]
(* startLockHeartbeat, stopLockHeartbeat. *)
beatingFromNow(p) == [p EXCEPT !.beating = TRUE, !.since = 0]
beatingNoMore(p) == [p EXCEPT !.beating = FALSE, !.since = 0]

Page(t, p) == tab' = [tab EXCEPT ![t] = p]
Excuse(reason) == excused' = (excused \/ reason)

-----------------------------------------------------------------------------
(* A new tab, without a player; a duplicate of a tab, which inherits its   *)
(* sessionStorage.                                                         *)
OpenTab(t) ==
  /\ ~tab[t].open /\ ~tab[t].saved
  /\ Page(t, Boot(FALSE))
  /\ UNCHANGED <<created, lock, excused>>

DuplicateTab(t, u) ==
  /\ tab[t].open /\ tab[t].saved
  /\ ~tab[u].open /\ ~tab[u].saved
  /\ Page(u, Boot(TRUE))
  /\ UNCHANGED <<created, lock, excused>>

(* The handler of beforeunload, before a reload or when the user closes    *)
(* the tab, which ends its sessionStorage.                                 *)
Unload(t, keeps) ==
  /\ tab[t].open
  /\ Page(t, [NoPage EXCEPT !.saved = keeps /\ tab[t].saved])
  /\ lock' = orphaned(t, released(t))
  /\ Excuse(~keeps)
  /\ UNCHANGED created

Reload(t) ==
  /\ ~tab[t].open /\ tab[t].saved
  /\ Page(t, Boot(TRUE))
  /\ UNCHANGED <<created, lock, excused>>

(* The browser or the machine dies, or the browser discards the tab: no    *)
(* handler runs, and what sessionStorage holds is restored later.          *)
Die(t) ==
  /\ Mishaps /\ tab[t].open
  /\ Page(t, [NoPage EXCEPT !.saved = tab[t].saved])
  /\ lock' = orphaned(t, lock)
  /\ Excuse(TRUE)
  /\ UNCHANGED created

-----------------------------------------------------------------------------
(* joinRoom, once the server has answered with the new player, up to its   *)
(* await of refreshState.                                                  *)
JoinRoom(t) ==
  /\ ~created /\ tab[t].open
  /\ created' = TRUE
  /\ Page(t, beatingFromNow([tab[t] EXCEPT !.saved = TRUE, !.joined = TRUE,
                                           !.awaits = @ \cup {"join"}]))
  /\ lock' = heldBy(t)
  /\ UNCHANGED excused

(* The resume button, up to its await. *)
Resume(t) ==
  /\ tab[t].open /\ tab[t].saved
  /\ Page(t, [tab[t] EXCEPT !.joined = TRUE, !.awaits = @ \cup {"resume"}])
  /\ UNCHANGED <<created, lock, excused>>

(* joinRoom and the resume button after refreshState: connectEvents, which *)
(* does nothing without a player and fails when the lock is taken.         *)
ConnectEvents(t, op) ==
  /\ op \in {"join", "resume"} /\ op \in tab[t].awaits
  /\ LET p == [tab[t] EXCEPT !.awaits = @ \ {op}]
     IN  IF ~p.joined \/ taken(t)
           THEN Page(t, p) /\ UNCHANGED lock
           ELSE Page(t, [p EXCEPT !.events = TRUE]) /\ lock' = heldBy(t)
  /\ UNCHANGED <<created, excused>>

(* refreshState failed: an error is shown, nothing else happens. *)
RefreshFails(t, op) ==
  /\ Mishaps /\ op \in {"join", "resume"} /\ op \in tab[t].awaits
  /\ Page(t, [tab[t] EXCEPT !.awaits = @ \ {op}])
  /\ UNCHANGED <<created, lock, excused>>

(* restoreSession after refreshState: it takes the lock, starts the        *)
(* heartbeat and connects; when the lock is taken the page gives up.       *)
givenUp(p) == [cleared(p) EXCEPT !.events = FALSE]

RestoreSession(t) ==
  /\ "restore" \in tab[t].awaits
  /\ LET p == [tab[t] EXCEPT !.awaits = @ \ {"restore"}]
     IN  IF ~p.joined
           THEN Page(t, beatingNoMore(p)) /\ UNCHANGED lock
         ELSE IF taken(t)
           THEN Page(t, givenUp(p)) /\ UNCHANGED lock
         ELSE /\ Page(t, beatingFromNow([p EXCEPT !.events = TRUE]))
              /\ lock' = heldBy(t)
  /\ UNCHANGED <<created, excused>>

(* Its catch also runs when the state could not be read. *)
RestoreFails(t) ==
  /\ Mishaps /\ "restore" \in tab[t].awaits
  /\ Page(t, givenUp([tab[t] EXCEPT !.awaits = @ \ {"restore"}]))
  /\ Excuse(TRUE)
  /\ UNCHANGED <<created, lock>>

(* The leave button. *)
Leave(t) ==
  /\ tab[t].open
  /\ Page(t, beatingNoMore(givenUp(tab[t])))
  /\ lock' = released(t)
  /\ Excuse(TRUE)
  /\ UNCHANGED created

(* joinRoom for another player in this tab: applySession gives the lock    *)
(* back; the old stream stays open until the new one is connected.         *)
JoinAsAnother(t) ==
  /\ tab[t].joined
  /\ Page(t, beatingNoMore(cleared(tab[t])))
  /\ lock' = released(t)
  /\ Excuse(TRUE)
  /\ UNCHANGED created

ConnectAsAnother(t) ==
  /\ ~tab[t].joined /\ tab[t].events
  /\ Page(t, [tab[t] EXCEPT !.events = FALSE])
  /\ UNCHANGED <<created, lock, excused>>

-----------------------------------------------------------------------------
(* The heartbeat renews the lock; a page that finds it taken gives up.     *)
M_beatIgnoresOthers(t) ==
  /\ tab[t].beating /\ tab[t].since = RefreshInterval
  /\ Page(t, [tab[t] EXCEPT !.since = 0])
  /\ lock' = IF tab[t].joined THEN heldBy(t) ELSE lock
  /\ UNCHANGED <<created, excused>>
Heartbeat(t) ==
  /\ tab[t].beating /\ tab[t].since = RefreshInterval
  /\ IF tab[t].joined /\ taken(t)
       THEN Page(t, beatingNoMore(givenUp(tab[t]))) /\ UNCHANGED lock
       ELSE /\ Page(t, [tab[t] EXCEPT !.since = 0])
            /\ lock' = IF tab[t].joined THEN heldBy(t) ELSE lock
  /\ UNCHANGED <<created, excused>>

(* Time passes.  The timers of a tab in the foreground fire when they are  *)
(* due; a background tab's may fire any time later.                        *)
due(t) == tab[t].beating /\ tab[t].since = RefreshInterval

Tick ==
  /\ \A t \in Tabs \ Background : ~due(t)
  /\ lock' = IF lock.left > 1 THEN [lock EXCEPT !.left = @ - 1] ELSE NoLock
  /\ tab' = [t \in Tabs |-> IF tab[t].beating /\ ~due(t)
                              THEN [tab[t] EXCEPT !.since = @ + 1] ELSE tab[t]]
  /\ UNCHANGED <<created, excused>>

-----------------------------------------------------------------------------
UserStep(t) ==
  \/ OpenTab(t) \/ Reload(t)
  \/ \E u \in Tabs : DuplicateTab(u, t)
  \/ \E keeps \in BOOLEAN : Unload(t, keeps)
  \/ JoinRoom(t) \/ Resume(t) \/ Leave(t) \/ JoinAsAnother(t)

Answered(t) ==
  \/ RestoreSession(t) \/ RestoreFails(t)
  \/ \E op \in {"join", "resume"} : ConnectEvents(t, op) \/ RefreshFails(t, op)

TabStep(t) ==
  UserStep(t) \/ Answered(t) \/ ConnectAsAnother(t) \/ Heartbeat(t) \/ Die(t)

Next == Tick \/ \E t \in Tabs : TabStep(t)

(* Time passes and timers fire.  Users do as they please, and requests may *)
(* stay unanswered.                                                        *)
Fairness == WF_vars(Tick) /\ \A t \in Tabs : WF_vars(Heartbeat(t))

Spec == Init /\ [][Next]_vars /\ Fairness

-----------------------------------------------------------------------------
Locks == [tabId : Tabs \cup {NoTab, Former}, left : 0..TTL]
Pages == [open : BOOLEAN, saved : BOOLEAN, joined : BOOLEAN,
          beating : BOOLEAN, since : 0..RefreshInterval, events : BOOLEAN,
          awaits : SUBSET {"restore", "join", "resume"}]

TypeOK == /\ created \in BOOLEAN /\ excused \in BOOLEAN
          /\ lock \in Locks /\ tab \in [Tabs -> Pages]

(* A page that plays: it listens as the player and keeps the lock alive.   *)
(* (One that was connected by the resume button before restoreSession had  *)
(* its answer has no heartbeat yet.)                                       *)
Playing(t) == tab[t].joined /\ tab[t].events /\ tab[t].beating

(* No two tabs whose timers are on time ever play the same player,         *)
(* whatever is duplicated, reloaded, closed or killed in whatever order    *)
(* (ensurePlayerLock and its heartbeat).                                   *)
OneTabPlays ==
  \A t, u \in Tabs \ Background : Playing(t) /\ Playing(u) => t = u

(* A tab whose timer was held back may lose the lock without noticing, and *)
(* two tabs play.  That does not last: one of them finds the lock taken at *)
(* its next heartbeat (app.js, the catch in startLockHeartbeat).  Needs    *)
(* one of the two to be on time: two tabs that are both held back can take *)
(* the expired lock from each other for ever.                              *)
ConflictEnds ==
  \A t \in Tabs, u \in Tabs \ Background :
    t # u => (Playing(t) /\ Playing(u) ~> ~(Playing(t) /\ Playing(u)))

(* Pages give the player up one after the other, but never all of them:    *)
(* unless somebody left, closed a tab, or a tab died or a request failed,  *)
(* the player is kept by some tab's sessionStorage.  Nothing else knows    *)
(* who he was, and his name cannot join again (clearSession).              *)
PlayerKept == created /\ ~excused => \E t \in Tabs : tab[t].saved
=============================================================================
