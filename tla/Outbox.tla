-------------------------------- MODULE Outbox --------------------------------
(***************************************************************************)
(* A member's messages on their way to the room when the network is bad    *)
(* (frontend/src/lib/outbox.ts, and send and the drain of                  *)
(* frontend/src/hooks/use-room.ts).                                        *)
(*                                                                         *)
(* A view is one mounting of the room page: its effect, its drain and its  *)
(* timer.  Leaving the room unmounts a view, whose drain goes on; closing  *)
(* the tab ends everything of it.  Views of one browser share the store.   *)
(* A request reaches the server or not, and so does its answer; every      *)
(* error of the network is counted, so that it works again in the end.     *)
(* The store itself is taken to work.                                      *)
(***************************************************************************)
EXTENDS Integers, Sequences, FiniteSets

CONSTANTS
    Views,                              \* mountings of the page there can be at a time
    MaxWritten, MaxBreaks, MaxLeaves    \* bounds on the messages, the errors and the departures

ASSUME ViewsAssumption == IsFiniteSet(Views) /\ Views # {}
ASSUME WrittenAssumption == MaxWritten \in Nat

VARIABLES
    written,    \* messages the member has sent: 1..written
    box,        \* the records of the store
    direct,     \* posts of send that are under way: [id, view, landed]
    views,      \* [mounted, timer, todo: what its drain has left, landed: whether the first of it is there]
    log,        \* the room's messages: [id, from]
    refused,    \* messages the server answered with an error
    queued,     \* history: every record ever added, in order
    unheard,    \* history: unheard[id], answers to id nobody received
    cut,        \* history: posts of send that ended with their tab
    breaks, leaves

outboxVars == <<written, box, direct, views, log, refused, queued, unheard, cut, breaks, leaves>>

Messages == 1..MaxWritten
Unmounted == [mounted |-> FALSE, timer |-> FALSE, todo |-> {}, landed |-> FALSE]

OutboxInit ==
    /\ written = 0 /\ box = {} /\ direct = {} /\ log = <<>> /\ refused = {}
    /\ views = [v \in Views |-> Unmounted]
    /\ queued = <<>> /\ unheard = [m \in Messages |-> 0] /\ cut = {} /\ breaks = 0 /\ leaves = 0
-----------------------------------------------------------------------------

\* A drain has listed the records of the room and posts them in the order they were queued.
Draining(v) == views[v].todo # {}
Listed == box

\* Where a record stands in that order, and which of some records is the first.
Place(q, m) == CHOOSE k \in DOMAIN q : q[k] = m
FirstOf(q, ms) == CHOOSE m \in ms : \A n \in ms : Place(q, m) <= Place(q, n)
First(v) == FirstOf(queued, views[v].todo)

\* Mutant of Drained: without the single flight.
DrainedAnyway(v) == [views[v] EXCEPT !.timer = FALSE, !.todo = Listed, !.landed = FALSE]

\* drain, which does nothing while the view's own drain is under way: the timer is spent.
Drained(v) == IF Draining(v) THEN [views[v] EXCEPT !.timer = FALSE]
              ELSE [views[v] EXCEPT !.timer = FALSE, !.todo = Listed, !.landed = FALSE]

Mount(v) ==
    /\ ~views[v].mounted /\ ~Draining(v)
    /\ views' = [views EXCEPT ![v] = [Drained(v) EXCEPT !.mounted = TRUE]]
    /\ UNCHANGED <<written, box, direct, log, refused, queued, unheard, cut, breaks, leaves>>

TimerFires(v) ==
    /\ views[v].timer
    /\ views' = [views EXCEPT ![v] = Drained(v)]
    /\ UNCHANGED <<written, box, direct, log, refused, queued, unheard, cut, breaks, leaves>>

\* The browser says it is online: drain, and the timer stays.
Online(v) ==
    /\ views[v].mounted /\ ~Draining(v) /\ box # {}
    /\ views' = [views EXCEPT ![v] = [Drained(v) EXCEPT !.timer = views[v].timer]]
    /\ UNCHANGED <<written, box, direct, log, refused, queued, unheard, cut, breaks, leaves>>

\* Unmounting clears the timer and nothing else; closing the tab takes what was under way.
Leave(v) ==
    /\ views[v].mounted /\ leaves < MaxLeaves
    /\ views' = [views EXCEPT ![v].mounted = FALSE, ![v].timer = FALSE]
    /\ leaves' = leaves + 1
    /\ UNCHANGED <<written, box, direct, log, refused, queued, unheard, cut, breaks>>

Unheard(m, landed) == [unheard EXCEPT ![m] = @ + IF landed THEN 1 ELSE 0]

Close(v) ==
    /\ leaves < MaxLeaves
    /\ views[v] # Unmounted \/ \E d \in direct : d.view = v
    /\ views' = [views EXCEPT ![v] = Unmounted]
    /\ direct' = {d \in direct : d.view # v}
    /\ cut' = cut \cup {d.id : d \in direct \ direct'}
    /\ unheard' = IF Draining(v) THEN Unheard(First(v), views[v].landed) ELSE unheard
    /\ leaves' = leaves + 1
    /\ UNCHANGED <<written, box, log, refused, queued, breaks>>
-----------------------------------------------------------------------------

(* send. *)

Queue(m) == box' = box \cup {m} /\ queued' = Append(queued, m)
\* The kick of the retry loop, which only a mounted view has.
Armed(v) == [views[v] EXCEPT !.timer = views[v].mounted]

SendOffline(v) ==
    /\ views[v].mounted /\ written < MaxWritten
    /\ written' = written + 1
    /\ Queue(written')
    /\ views' = [views EXCEPT ![v] = Armed(v)]
    /\ UNCHANGED <<direct, log, refused, unheard, cut, breaks, leaves>>

SendOnline(v) ==
    /\ views[v].mounted /\ written < MaxWritten
    /\ written' = written + 1
    /\ direct' = direct \cup {[id |-> written', view |-> v, landed |-> FALSE]}
    /\ UNCHANGED <<box, views, log, refused, queued, unheard, cut, breaks, leaves>>

DirectLands(d) ==
    /\ ~d.landed
    /\ log' = Append(log, [id |-> d.id, from |-> "send"])
    /\ direct' = (direct \ {d}) \cup {[d EXCEPT !.landed = TRUE]}
    /\ UNCHANGED <<written, box, views, refused, queued, unheard, cut, breaks, leaves>>

DirectAnswered(d) ==
    /\ direct' = direct \ {d}
    /\ \/ d.landed /\ UNCHANGED refused
       \/ ~d.landed /\ refused' = refused \cup {d.id}
    /\ UNCHANGED <<written, box, views, log, queued, unheard, cut, breaks, leaves>>

\* The fetch rejects: the message is queued, whether or not it is there already.
DirectBreaks(d) ==
    /\ breaks < MaxBreaks /\ breaks' = breaks + 1
    /\ direct' = direct \ {d}
    /\ Queue(d.id)
    /\ views' = [views EXCEPT ![d.view] = Armed(d.view)]
    /\ unheard' = Unheard(d.id, d.landed)
    /\ UNCHANGED <<written, log, refused, cut, leaves>>
-----------------------------------------------------------------------------

(* flushOutbox. *)

DrainLands(v) ==
    /\ Draining(v) /\ ~views[v].landed
    /\ log' = Append(log, [id |-> First(v), from |-> "drain"])
    /\ views' = [views EXCEPT ![v].landed = TRUE]
    /\ UNCHANGED <<written, box, direct, refused, queued, unheard, cut, breaks, leaves>>

\* postRecord returns, for an error of the server too: the record goes and the next one is posted.
DrainAnswered(v) ==
    /\ Draining(v)
    /\ box' = box \ {First(v)}
    /\ views' = [views EXCEPT ![v].todo = @ \ {First(v)}, ![v].landed = FALSE]
    /\ \/ views[v].landed /\ UNCHANGED refused
       \/ ~views[v].landed /\ refused' = refused \cup {First(v)}
    /\ UNCHANGED <<written, direct, log, queued, unheard, cut, breaks, leaves>>

\* Mutants of LeftOf: the drain goes on past the failure; it takes the record off before it posts it.
LeftOfGoingOn(todo) == todo \ {FirstOf(queued, todo)}
BoxAfterTakenOff(m) == box \ {m}

\* What a drain whose post rejects goes on with, and what stays in the store.
LeftOf(todo) == {}
BoxAfter(m) == box

\* Mutant of Rearmed: only the browser's own event tries again.
RearmedByNobody(v) == FALSE

\* Records remain, so the timer is armed again.
Rearmed(v) == views[v].mounted

DrainBreaks(v) ==
    /\ Draining(v)
    /\ breaks < MaxBreaks /\ breaks' = breaks + 1
    /\ views' = [views EXCEPT ![v] = [mounted |-> @.mounted, timer |-> @.timer \/ Rearmed(v),
                                      todo |-> LeftOf(@.todo), landed |-> FALSE]]
    /\ box' = BoxAfter(First(v))
    /\ unheard' = Unheard(First(v), views[v].landed)
    /\ UNCHANGED <<written, direct, log, refused, queued, cut, leaves>>
-----------------------------------------------------------------------------

Posts(v) == DrainLands(v) \/ DrainAnswered(v)

OutboxNext ==
    \/ \E v \in Views :
         \/ Mount(v) \/ TimerFires(v) \/ Online(v) \/ Leave(v) \/ Close(v)
         \/ SendOffline(v) \/ SendOnline(v)
         \/ DrainLands(v) \/ DrainAnswered(v) \/ DrainBreaks(v)
    \/ \E d \in direct : DirectLands(d) \/ DirectAnswered(d) \/ DirectBreaks(d)

OutboxSpec == OutboxInit /\ [][OutboxNext]_outboxVars

\* Timers fire, a request ends, and the member opens the room again.  Nobody promises the
\* browser's online event: "fetch can reject without navigator.onLine flipping".
OutboxFairSpec ==
    /\ OutboxSpec
    /\ \A v \in Views : WF_outboxVars(TimerFires(v)) /\ WF_outboxVars(Posts(v))
-----------------------------------------------------------------------------

Times(m) == Cardinality({k \in DOMAIN log : log[k].id = m})
UnderWay == {d.id : d \in direct} \cup {First(v) : v \in {w \in Views : Draining(w)}}

\* A message the member sent is in the room, in the store, on its way, or was refused to
\* their face -- whatever broke, and in whatever order they left and came back.  The one
\* exception is a post of send that was under way when the tab was closed.
NothingWrittenIsLost ==
    \A m \in 1..written : Times(m) > 0 \/ m \in box \cup UnderWay \cup refused \cup cut

\* Retries add a copy of a message to the room only for an answer that was lost; and views
\* that drain the one store at a time, each with a guard of its own, one copy each at most.
TwiceOnlyIfUnheard == \A m \in Messages : Times(m) <= Cardinality(Views) + unheard[m]

\* Queued messages reach the room in the order they were queued.
QueueKeepsItsOrder ==
    \A i, k \in DOMAIN queued :
       i < k /\ (\E j \in DOMAIN log : log[j] = [id |-> queued[k], from |-> "drain"])
         => \/ queued[i] \in refused
            \/ \E j \in DOMAIN log :
                 /\ log[j] = [id |-> queued[i], from |-> "drain"]
                 /\ \A l \in 1..(j - 1) : log[l] # [id |-> queued[k], from |-> "drain"]

\* A message is there, or waits, or was refused; it is there twice only if an answer was
\* lost or two views posted it; and what was queued arrives in its order.
OutboxKeepsItsWord == NothingWrittenIsLost /\ TwiceOnlyIfUnheard /\ QueueKeepsItsOrder

\* A record the view's drain once had is not left in the store while the view stays.
RetriedUntilAnswered ==
    \A v \in Views, m \in Messages :
       m \in views[v].todo ~> (m \notin box \/ ~views[v].mounted)

\* "retry on a capped backoff while the outbox still has records" (use-room.ts).
QueueIsEmptied ==
    \A v \in Views, m \in Messages : (m \in box /\ views[v].mounted) ~> (m \notin box \/ ~views[v].mounted)
=============================================================================
