------------------------------ MODULE LinesProofs -----------------------------
(***************************************************************************)
(* Proofs about the two lines to the outside: the bridge to the engine     *)
(* (module Engine) and the outbox of the client (module Outbox).           *)
(***************************************************************************)
EXTENDS Engine, Outbox, Lemmas
-----------------------------------------------------------------------------
(***************************************************************************)
(* Proofs about the sidecar bridge (module Engine), for any number of      *)
(* requests, calls and deaths: no request is told of the death of a child  *)
(* it was not sent to, and no session is given the result of another's     *)
(* call.                                                                   *)
(*                                                                         *)
(* What makes it inductive: a registered queue belongs to a request that   *)
(* was sent to the present child, and no queue is registered while a child *)
(* is being started.                                                       *)
(***************************************************************************)

Shape ==
    /\ process \in [n : Nat, state : {"none", "up", "dead"}, seen : BOOLEAN]
    /\ process.state # "none" => process.n > 0
    /\ queues \subseteq Reqs
    /\ pc \in [Reqs -> {"idle", "starting", "waiting", "tool", "replying", "done"}]
    /\ sentTo \in [Reqs -> Nat] /\ blame \in [Reqs -> SUBSET Nat]
    /\ lock \in [who : Reqs \cup {"nobody"}, attempt : Nat]

\* A queue is that of a request sent to the child there is.
QueuesArePresent ==
    \A r \in queues : sentTo[r] = process.n /\ process.state # "none" /\ pc[r] \in {"waiting", "tool", "replying"}

\* Nobody has heard of a death before being sent.
UnsentIsUntold == \A r \in Reqs : pc[r] \in {"idle", "starting"} => blame[r] = {}

StartingAlone == lock # NoOne => queues = {} /\ lock.who \in Reqs /\ AtSend(lock.who)

PendingIsTheirs == \A k \in DOMAIN pending : pending[k] = k[1]

Inv ==
    /\ Shape /\ QueuesArePresent /\ UnsentIsUntold /\ StartingAlone /\ PendingIsTheirs
    /\ RepliesFindTheirRequest
-----------------------------------------------------------------------------

LEMMA InitHolds == Init => Inv
  BY DEF Init, Inv, Shape, QueuesArePresent, UnsentIsUntold, StartingAlone, PendingIsTheirs,
         RepliesFindTheirRequest, NobodyInheritsADeath, ResultsReachTheirCall, NoOne

\* What the bridge says of the requests does not look at the rest.
LEMMA Untouched ==
  ASSUME Inv, UNCHANGED <<process, queues, pc, sentTo, blame, lock>>, PendingIsTheirs', crossed' = {}
  PROVE  Inv'
  BY DEF Inv, Shape, QueuesArePresent, UnsentIsUntold, StartingAlone, AtSend,
         RepliesFindTheirRequest, NobodyInheritsADeath, ResultsReachTheirCall

\* What may become of the child meanwhile: it stays, or a new one comes when no queue is there.
Succession ==
    /\ process' \in [n : Nat, state : {"none", "up", "dead"}, seen : BOOLEAN]
    /\ process'.state # "none" => process'.n > 0
    /\ process'.n = process.n \/ queues = {}
    /\ process'.state = "none" => process.state = "none" \/ queues' = {}

\* A request goes on, or ends; one that is at its send leaves it with the lock in its hands.
LEMMA Advancing ==
  ASSUME Inv, NEW r \in Reqs, NEW to \in {"starting", "waiting", "tool", "replying", "done"},
         pc' = [pc EXCEPT ![r] = to],
         to = "starting" => pc[r] = "idle",
         pc[r] \in {"idle", "starting"} => to \in {"starting", "done"},
         to \in {"starting", "done"} => r \notin queues',
         AtSend(r) => lock' = NoOne,
         lock' = lock \/ lock' = NoOne, queues' \subseteq queues, Succession,
         UNCHANGED <<sentTo, blame>>, crossed' = {}, PendingIsTheirs'
  PROVE  Inv'
<1> USE DEF Inv
<1>1. pc' \in [Reqs -> {"idle", "starting", "waiting", "tool", "replying", "done"}]
      /\ pc'[r] = to /\ \A s \in Reqs : s # r => pc'[s] = pc[s]
  BY DEF Shape
<1>2. Shape'
  BY <1>1 DEF Shape, NoOne, Succession
<1>3. QueuesArePresent'
  BY <1>1 DEF Shape, QueuesArePresent, Succession
<1>4. UnsentIsUntold'
  <2> SUFFICES ASSUME NEW s \in Reqs, pc'[s] \in {"idle", "starting"}  PROVE blame[s] = {}
    BY DEF UnsentIsUntold
  <2>1. pc[s] \in {"idle", "starting"}
    BY <1>1
  <2> QED
    BY <2>1 DEF UnsentIsUntold
<1>5. StartingAlone'
  BY <1>1 DEF StartingAlone, AtSend
<1>6. RepliesFindTheirRequest'
  BY DEF RepliesFindTheirRequest, NobodyInheritsADeath, ResultsReachTheirCall
<1> QED
  BY <1>2, <1>3, <1>4, <1>5, <1>6

\* A request is sent, to the child there is now.
LEMMA Sending ==
  ASSUME Inv, NEW r \in Reqs, pc[r] = "starting", lock' = NoOne, Succession, process'.state # "none",
         pc' = [pc EXCEPT ![r] = "waiting"], queues' = queues \cup {r},
         sentTo' = [sentTo EXCEPT ![r] = process'.n],
         UNCHANGED <<blame, pending, crossed>>
  PROVE  Inv'
<1> USE DEF Inv
<1>1. /\ pc' \in [Reqs -> {"idle", "starting", "waiting", "tool", "replying", "done"}]
      /\ pc'[r] = "waiting" /\ \A s \in Reqs : s # r => pc'[s] = pc[s]
      /\ sentTo' \in [Reqs -> Nat]
      /\ sentTo'[r] = process'.n /\ \A s \in Reqs : s # r => sentTo'[s] = sentTo[s]
  BY DEF Shape, Succession
<1>2. Shape'
  BY <1>1 DEF Shape, NoOne, Succession
<1>3. QueuesArePresent'
  BY <1>1 DEF Shape, QueuesArePresent, Succession
<1>4. UnsentIsUntold' /\ StartingAlone' /\ PendingIsTheirs'
  BY <1>1 DEF UnsentIsUntold, StartingAlone, PendingIsTheirs
<1>5. blame[r] = {}
  BY DEF UnsentIsUntold
<1>6. RepliesFindTheirRequest'
  BY <1>1, <1>5 DEF RepliesFindTheirRequest, NobodyInheritsADeath, ResultsReachTheirCall
<1> QED
  BY <1>2, <1>3, <1>4, <1>6

\* A result settles the call of its own session.
LEMMA Resolving ==
  ASSUME Inv, NEW r \in Reqs, Resolve(r)
  PROVE  PendingIsTheirs' /\ crossed' = {}
<1> DEFINE key == Key(r, calls[r])
<1>1. key[1] = r
  BY DEF Key
<1>2. crossed = {}
  BY DEF Inv, RepliesFindTheirRequest, ResultsReachTheirCall
<1>3. CASE key \in DOMAIN pending
  <2>1. /\ pending' = [k \in DOMAIN pending \ {key} |-> pending[k]]
        /\ crossed' = IF pending[key] = r THEN crossed ELSE crossed \cup {pending[key]}
    BY <1>3 DEF Resolve
  <2>2. pending[key] = r
    BY <1>1, <1>3 DEF Inv, PendingIsTheirs
  <2> QED
    BY <1>2, <2>1, <2>2 DEF Inv, PendingIsTheirs
<1>4. CASE key \notin DOMAIN pending
  BY <1>2, <1>4 DEF Resolve, Inv, PendingIsTheirs
<1> QED
  BY <1>3, <1>4

\* A death is told to those who were sent to the child that died.
LEMMA Telling ==
  ASSUME Inv, Wake(process.n) \/ UNCHANGED blame, queues' \subseteq queues, Succession, process'.n = process.n,
         lock' \in [who : Reqs \cup {"nobody"}, attempt : Nat], StartingAlone',
         UNCHANGED <<pc, sentTo, crossed>>, PendingIsTheirs'
  PROVE  Inv'
<1> USE DEF Inv
<1>1. blame' \in [Reqs -> SUBSET Nat]
      /\ \A r \in Reqs : blame'[r] = blame[r] \/ (r \in queues /\ blame'[r] = blame[r] \cup {process.n})
  <2>1. blame \in [Reqs -> SUBSET Nat] /\ process.n \in Nat
    BY DEF Shape
  <2>2. CASE UNCHANGED blame
    BY <2>1, <2>2
  <2>3. CASE Wake(process.n)
    <3>1. blame' = [r \in Reqs |-> IF r \in queues THEN blame[r] \cup {process.n} ELSE blame[r]]
      BY <2>3 DEF Wake
    <3>2. \A r \in Reqs : (IF r \in queues THEN blame[r] \cup {process.n} ELSE blame[r]) \in SUBSET Nat
      BY <2>1
    <3> QED
      BY <3>1, <3>2
  <2> QED
    BY <2>2, <2>3
<1>2. Shape'
  BY <1>1 DEF Shape, Succession
<1>3. QueuesArePresent' /\ UnsentIsUntold'
  BY <1>1 DEF Shape, QueuesArePresent, UnsentIsUntold, Succession
<1>4. RepliesFindTheirRequest'
  BY <1>1 DEF RepliesFindTheirRequest, NobodyInheritsADeath, ResultsReachTheirCall, QueuesArePresent, Shape
<1> QED
  BY <1>2, <1>3, <1>4
-----------------------------------------------------------------------------

LEMMA RequestKeeps ==
  ASSUME Inv, NEW r \in Reqs, Request(r)
  PROVE  Inv'
<1>1. /\ pc[r] = "idle" /\ pc' = [pc EXCEPT ![r] = "starting"]
      /\ queues' = queues \cup (Registered(pc') \cap {r})
      /\ UNCHANGED <<process, lock, sentTo, blame, crossed, pending>>
  BY DEF Request, child
<1>2. pc'[r] = "starting"
  BY <1>1 DEF Inv, Shape
<1>3. queues' = queues /\ r \notin queues
  BY <1>1, <1>2 DEF Registered, Inv, QueuesArePresent
<1>4. Succession /\ PendingIsTheirs' /\ crossed' = {} /\ ~AtSend(r)
  BY <1>1 DEF Succession, PendingIsTheirs, Inv, Shape, RepliesFindTheirRequest, ResultsReachTheirCall, AtSend
<1> QED
  BY <1>1, <1>3, <1>4, Advancing

\* What a request writes once it has its child.
LEMMA ProceedKeeps ==
  ASSUME Inv, NEW r \in Reqs, AtSend(r), NEW alive \in BOOLEAN, Proceed(r, process'.n, alive), lock' = NoOne,
         Succession, alive => process'.state # "none", UNCHANGED blame
  PROVE  Inv'
<1>1. crossed = {} /\ PendingIsTheirs /\ (r \in queues => pc[r] # "starting") /\ queues \subseteq Reqs
  BY DEF Inv, RepliesFindTheirRequest, ResultsReachTheirCall, QueuesArePresent, Shape
<1>2. CASE ~alive
  <2>1. pc' = [pc EXCEPT ![r] = "done"] /\ queues' = queues \ {r}
        /\ UNCHANGED <<sentTo, pending, crossed>>
    BY <1>2 DEF Proceed, WriteRun, WriteResult, Ends, child
  <2>2. PendingIsTheirs' /\ crossed' = {}
    BY <1>1, <2>1 DEF PendingIsTheirs
  <2> QED
    BY <2>1, <2>2, Advancing
<1>3. CASE alive /\ pc[r] = "starting"
  <2>1. /\ pc' = [pc EXCEPT ![r] = "waiting"] /\ queues' = queues \cup {r}
        /\ sentTo' = [sentTo EXCEPT ![r] = process'.n] /\ UNCHANGED <<pending, crossed>>
    BY <1>3 DEF Proceed, WriteRun
  <2> QED
    BY <1>3, <2>1, Sending
<1>4. CASE alive /\ pc[r] = "replying"
  <2>1. pc' = [pc EXCEPT ![r] = "waiting"] /\ Resolve(r) /\ UNCHANGED <<queues, sentTo>>
    BY <1>4 DEF Proceed, WriteResult
  <2>2. PendingIsTheirs' /\ crossed' = {}
    BY <2>1, Resolving
  <2> QED
    BY <1>4, <2>1, <2>2, Advancing
<1> QED
  BY <1>2, <1>3, <1>4 DEF AtSend

LEMMA SendKeeps ==
  ASSUME Inv, NEW r \in Reqs, Send(r)
  PROVE  Inv'
<1>1. /\ AtSend(r) /\ lock' = NoOne /\ process' = process /\ process.state # "none" /\ UNCHANGED blame
      /\ Proceed(r, process'.n, process.state = "up")
  BY DEF Send, Usable
<1>2. Succession /\ process'.state # "none"
  BY <1>1 DEF Succession, Inv, Shape
<1> QED
  BY <1>1, <1>2, ProceedKeeps

LEMMA LaunchKeeps ==
  ASSUME Inv, NEW r \in Reqs, Launch(r)
  PROVE  Inv'
<1>1. /\ AtSend(r) /\ lock' = [who |-> r, attempt |-> 1]
      /\ \/ process.state = "none" /\ UNCHANGED <<blame, queues>>
         \/ Wake(process.n) /\ queues' = {}
      /\ process' = [process EXCEPT !.state = "none", !.seen = FALSE]
      /\ UNCHANGED <<pc, sentTo, crossed, pending>>
  BY DEF Launch
<1>2. process' \in [n : Nat, state : {"none", "up", "dead"}, seen : BOOLEAN]
      /\ process'.state = "none" /\ process'.n = process.n
  BY <1>1 DEF Inv, Shape
<1>3. PendingIsTheirs' /\ AtSend(r)' /\ lock'.who = r
      /\ lock' \in [who : Reqs \cup {"nobody"}, attempt : Nat]
  BY <1>1 DEF Inv, PendingIsTheirs, AtSend
<1>4. queues' = {} /\ queues' \subseteq queues
  BY <1>1 DEF Inv, QueuesArePresent
<1>5. StartingAlone' /\ Succession
  BY <1>2, <1>3, <1>4 DEF StartingAlone, Succession, Inv, Shape
<1> QED
  BY <1>1, <1>2, <1>3, <1>4, <1>5, Telling

LEMMA LaunchSucceedsKeeps ==
  ASSUME Inv, NEW r \in Reqs, LaunchSucceeds(r)
  PROVE  Inv'
<1>1. /\ AtSend(r) /\ queues = {} /\ lock' = NoOne /\ UNCHANGED blame
      /\ process' = [n |-> process.n + 1, state |-> "up", seen |-> FALSE]
      /\ Proceed(r, process.n + 1, TRUE)
  BY DEF LaunchSucceeds, Inv, StartingAlone
<1>2. Succession /\ process'.state # "none" /\ process'.n = process.n + 1
  BY <1>1 DEF Succession, Inv, Shape
<1> QED
  BY <1>1, <1>2, ProceedKeeps

LEMMA LaunchFailsKeeps ==
  ASSUME Inv, NEW r \in Reqs, LaunchFails(r)
  PROVE  Inv'
<1>1. /\ lock # NoOne /\ lock.who = r /\ AtSend(r) /\ queues = {}
      /\ UNCHANGED <<process, sentTo, blame, pending, crossed>>
      /\ \/ lock' = [lock EXCEPT !.attempt = @ + 1] /\ UNCHANGED <<pc, queues>>
         \/ lock' = NoOne /\ pc' = [pc EXCEPT ![r] = "done"] /\ queues' = queues \ {r}
  BY DEF LaunchFails, Ends, child, Inv, StartingAlone
<1>2. Succession /\ PendingIsTheirs' /\ crossed' = {}
  BY <1>1 DEF Succession, Inv, Shape, PendingIsTheirs, RepliesFindTheirRequest, ResultsReachTheirCall
<1>3. CASE lock' = [lock EXCEPT !.attempt = @ + 1] /\ UNCHANGED <<pc, queues>>
  <2>1. lock' \in [who : Reqs \cup {"nobody"}, attempt : Nat] /\ lock'.who = r
    BY <1>1, <1>3 DEF Inv, Shape
  <2>2. StartingAlone'
    BY <1>1, <1>3, <2>1 DEF StartingAlone, AtSend
  <2> QED
    BY <1>1, <1>2, <1>3, <2>1, <2>2, Telling
<1>4. CASE lock' = NoOne /\ pc' = [pc EXCEPT ![r] = "done"] /\ queues' = queues \ {r}
  <2>1. queues' = {} /\ r \notin queues'
    BY <1>1, <1>4
  <2> QED
    BY <1>1, <1>2, <1>4, <2>1, Advancing
<1> QED
  BY <1>1, <1>3, <1>4

LEMMA TakeKeeps ==
  ASSUME Inv, NEW r \in Reqs, Take(r) \/ ToolReturns(r)
  PROVE  Inv'
<1>1. /\ pc[r] \in {"waiting", "tool"} /\ UNCHANGED <<process, lock, sentTo, blame, crossed, pending>>
      /\ \/ pc' = [pc EXCEPT ![r] = "tool"] /\ UNCHANGED queues
         \/ pc' = [pc EXCEPT ![r] = "replying"] /\ UNCHANGED queues
         \/ pc' = [pc EXCEPT ![r] = "done"] /\ queues' = queues \ {r}
  BY DEF Take, ToolReturns, Ends, child
<1>2. Succession /\ PendingIsTheirs' /\ crossed' = {} /\ ~AtSend(r)
  BY <1>1 DEF Succession, Inv, Shape, PendingIsTheirs, RepliesFindTheirRequest, ResultsReachTheirCall, AtSend
<1>3. PICK to \in {"tool", "replying", "done"} :
        pc' = [pc EXCEPT ![r] = to] /\ queues' = IF to = "done" THEN queues \ {r} ELSE queues
  BY <1>1
<1> QED
  BY <1>1, <1>2, <1>3, Advancing

\* Who learns of a death, and the child's own steps.
LEMMA OthersKeep ==
  ASSUME Inv, \/ ReadLine \/ ReadLoopEnds \/ BadLine \/ ExitSeen \/ Dies
              \/ \E r \in Reqs : CallTool(r) \/ TurnDone(r) \/ CapEnds(r)
              \/ UNCHANGED vars
  PROVE  Inv'
<1>1. /\ UNCHANGED <<queues, pc, sentTo, lock, crossed>>
      /\ Wake(process.n) \/ UNCHANGED blame
      /\ \/ process' = process
         \/ process.state = "dead" /\ process' = [process EXCEPT !.seen = TRUE]
         \/ process.state = "up" /\ process' = [process EXCEPT !.state = "dead"]
  BY DEF ReadLine, ReadLoopEnds, BadLine, ExitSeen, Dies, CallTool, TurnDone, CapEnds, vars, WakeAll, child, Over
<1>2. Succession /\ process'.n = process.n
  BY <1>1 DEF Succession, Inv, Shape
<1>3. PendingIsTheirs'
  <2>1. CASE UNCHANGED pending \/ pending' = <<>>
    BY <2>1 DEF Inv, PendingIsTheirs
  <2>2. CASE \E r \in Reqs : CallTool(r)
    <3>1. PICK r \in Reqs : CallTool(r)
      BY <2>2
    <3> DEFINE key == Key(r, calls[r] + 1)
    <3>2. key[1] = r
      BY DEF Key
    <3>3. pending' = [k \in DOMAIN pending \cup {key} |-> IF k = key THEN r ELSE pending[k]]
      BY <3>1 DEF CallTool
    <3> HIDE DEF key
    <3> QED
      BY <3>2, <3>3 DEF Inv, PendingIsTheirs
  <2> QED
    BY <2>1, <2>2 DEF ReadLine, ReadLoopEnds, BadLine, ExitSeen, Dies, TurnDone, CapEnds, vars, child
<1>4. StartingAlone' /\ lock' \in [who : Reqs \cup {"nobody"}, attempt : Nat]
  BY <1>1 DEF Inv, Shape, StartingAlone, AtSend
<1> QED
  BY <1>1, <1>2, <1>3, <1>4, Telling
-----------------------------------------------------------------------------

\* Every step keeps the invariant (the whole of Engine's Next).
LEMMA StepKeeps == Inv /\ [Next]_vars => Inv'
  BY RequestKeeps, SendKeeps, LaunchKeeps, LaunchSucceedsKeeps, LaunchFailsKeeps, TakeKeeps, OthersKeep
     DEF Next

\* For any number of requests, however often the child dies and whoever restarts it: a
\* request hears only of the death of the child it was sent to, and a tool's result reaches
\* the session that called it (PiBridge.request and _read_loop, pendingKey).
THEOREM RepliesAreForTheirRequest == Spec => []RepliesFindTheirRequest
<1>1. Init /\ [][Next]_vars => []Inv
  BY InitHolds, StepKeeps, PTL
<1>2. Inv => RepliesFindTheirRequest
  BY DEF Inv
<1> QED
  BY <1>1, <1>2, PTL DEF Spec
-----------------------------------------------------------------------------
(***************************************************************************)
(* Proofs about the outbox of the client (module Outbox), for any number   *)
(* of views, messages, errors and departures.                              *)
(***************************************************************************)

InQueue == {queued[k] : k \in DOMAIN queued}
View == [mounted : BOOLEAN, timer : BOOLEAN, todo : SUBSET Nat, landed : BOOLEAN]
Post == [id : Nat, view : Views, landed : BOOLEAN]
Message == [id : Nat, from : {"send", "drain"}]

OutboxShape ==
    /\ written \in Nat /\ written <= MaxWritten
    /\ direct \subseteq Post /\ views \in [Views -> View] /\ log \in Seq(Message)
    /\ queued \in Seq(Nat) /\ unheard \in [Messages -> Nat]
    /\ \A d \in direct : d.id \in 1..written
    /\ \A j \in DOMAIN log : log[j].id \in 1..written

\* A message is under way in one post of send, or queued once; the store and the drains
\* know queued messages only.
QueuedOnce ==
    /\ \A k \in DOMAIN queued : queued[k] \in 1..written
    /\ \A i, k \in DOMAIN queued : queued[i] = queued[k] => i = k
    /\ \A d \in direct : d.id \notin InQueue
    /\ \A d, e \in direct : d.id = e.id => d = e
    /\ box \subseteq InQueue
    /\ \A v \in Views : views[v].todo \subseteq InQueue
-----------------------------------------------------------------------------

\* The first of some queued records is one of them, and the only one that none precedes.
LEMMA FirstIsFirst ==
  ASSUME NEW q \in Seq(Nat), NEW ms, ms # {},
         \A m \in ms : \E k \in DOMAIN q : q[k] = m
  PROVE  /\ FirstOf(q, ms) \in ms
         /\ \A n \in ms : Place(q, FirstOf(q, ms)) <= Place(q, n)
<1> DEFINE T == {Place(q, m) : m \in ms}
<1>1. \A m \in ms : Place(q, m) \in DOMAIN q /\ q[Place(q, m)] = m
  BY DEF Place
<1>2. T \subseteq Nat /\ T # {}
  BY <1>1
<1>3. PICK x \in T : \A y \in T : ~(<<y, x>> \in OpToRel(<, Nat))
  <2> HIDE DEF T
  <2> QED
    BY <1>2, WFMin, NatLessThanWellFounded
<1>4. \A y \in T : x <= y
  <2>1. \A y \in T : ~(y < x)
    BY <1>2, <1>3 DEF OpToRel
  <2> HIDE DEF T
  <2> QED
    BY <1>2, <2>1
<1>5. PICK m \in ms : x = Place(q, m)
  OBVIOUS
<1>6. \A n \in ms : Place(q, m) <= Place(q, n)
  BY <1>4, <1>5
<1> QED
  BY <1>6 DEF FirstOf

\* Where the records of a queue stand.
LEMMA Places ==
  ASSUME NEW q \in Seq(Nat), \A i, k \in DOMAIN q : q[i] = q[k] => i = k, NEW k \in DOMAIN q
  PROVE  Place(q, q[k]) = k
<1>1. Place(q, q[k]) \in DOMAIN q /\ q[Place(q, q[k])] = q[k]
  BY DEF Place
<1> QED
  BY <1>1

\* A record that comes last changes neither.
LEMMA FirstStays ==
  ASSUME NEW q \in Seq(Nat), \A i, k \in DOMAIN q : q[i] = q[k] => i = k,
         NEW x \in Nat, \A k \in DOMAIN q : q[k] # x,
         NEW ms, ms # {}, \A m \in ms : \E k \in DOMAIN q : q[k] = m
  PROVE  FirstOf(Append(q, x), ms) = FirstOf(q, ms)
<1> DEFINE r == Append(q, x)  f == FirstOf(q, ms)  g == FirstOf(r, ms)
<1>1. /\ r \in Seq(Nat) /\ DOMAIN r = 1..(Len(q) + 1) /\ DOMAIN q = 1..Len(q) /\ Len(q) \in Nat
      /\ \A k \in DOMAIN q : r[k] = q[k]
      /\ r[Len(q) + 1] = x
  BY AppendProperties
<1>2. \A i, k \in DOMAIN r : r[i] = r[k] => i = k
  BY <1>1
<1>3. \A m \in ms : \E k \in DOMAIN r : r[k] = m
  BY <1>1
<1>4. \A m \in ms : Place(r, m) = Place(q, m) /\ Place(q, m) \in DOMAIN q /\ q[Place(q, m)] = m
  <2> TAKE m \in ms
  <2>1. PICK k \in DOMAIN q : q[k] = m
    OBVIOUS
  <2>2. Place(q, m) = k
    BY <2>1, Places
  <2>3. Place(r, r[k]) = k
    <3>1. k \in DOMAIN r
      BY <1>1
    <3> HIDE DEF r
    <3> QED
      BY <1>1, <1>2, <3>1, Places
  <2> QED
    BY <1>1, <2>1, <2>2, <2>3
<1>5. f \in ms /\ \A n \in ms : Place(q, f) <= Place(q, n)
  BY FirstIsFirst
<1>6. g \in ms /\ \A n \in ms : Place(r, g) <= Place(r, n)
  <2> HIDE DEF r
  <2> QED
    BY <1>1, <1>3, FirstIsFirst
<1> HIDE DEF f, g
<1>7. Place(q, f) <= Place(q, g) /\ Place(q, g) <= Place(q, f)
  BY <1>4, <1>5, <1>6
<1>8. Place(q, f) = Place(q, g)
  BY <1>1, <1>4, <1>5, <1>6, <1>7
<1>9. f = g
  BY <1>4, <1>5, <1>6, <1>8
<1> QED
  BY <1>9 DEF f, g
-----------------------------------------------------------------------------

(* What the steps do to the drains. *)

\* A drain goes on as it was, or the view had none and lists the store.
Keeps(v) == views'[v].todo = views[v].todo /\ views'[v].landed = views[v].landed
Lists(v) == ~Draining(v) /\ views'[v].todo = box /\ ~views'[v].landed
Stops(v) == views'[v].todo = {} /\ ~views'[v].landed

\* The views come and go, fire and list; the messages stay where they are.
Relists ==
    /\ views' \in [Views -> View] /\ \A w \in Views : Keeps(w) \/ Lists(w)
    /\ UNCHANGED <<written, box, direct, log, refused, queued, unheard, cut>>

LEMMA Relisting ==
  ASSUME OutboxShape, box \subseteq Nat, NEW v \in Views,
         Mount(v) \/ TimerFires(v) \/ Online(v) \/ Leave(v)
  PROVE  Relists
<1>1. views \in [Views -> View] /\ views[v] \in View
  BY DEF OutboxShape
<1>2. Drained(v) \in View /\ (Draining(v) => Drained(v).todo = views[v].todo /\ Drained(v).landed = views[v].landed)
      /\ (~Draining(v) => Drained(v).todo = box /\ ~Drained(v).landed)
  BY <1>1 DEF Drained, View, Listed
<1>3. CASE Mount(v)
  <2> DEFINE new == [Drained(v) EXCEPT !.mounted = TRUE]
  <2>1. new \in View /\ new.todo = Drained(v).todo /\ new.landed = Drained(v).landed
    BY <1>2 DEF View
  <2>2. views' = [views EXCEPT ![v] = new] /\ UNCHANGED <<written, box, direct, log, refused, queued, unheard, cut>>
    BY <1>3 DEF Mount
  <2> HIDE DEF new
  <2> QED
    BY <1>1, <1>2, <2>1, <2>2 DEF Relists, Keeps, Lists
<1>4. CASE TimerFires(v)
  <2>1. views' = [views EXCEPT ![v] = Drained(v)]
        /\ UNCHANGED <<written, box, direct, log, refused, queued, unheard, cut>>
    BY <1>4 DEF TimerFires
  <2> QED
    BY <1>1, <1>2, <2>1 DEF Relists, Keeps, Lists
<1>5. CASE Online(v)
  <2> DEFINE new == [Drained(v) EXCEPT !.timer = views[v].timer]
  <2>1. new \in View /\ new.todo = Drained(v).todo /\ new.landed = Drained(v).landed
    BY <1>1, <1>2 DEF View
  <2>2. views' = [views EXCEPT ![v] = new] /\ UNCHANGED <<written, box, direct, log, refused, queued, unheard, cut>>
    BY <1>5 DEF Online
  <2> HIDE DEF new
  <2> QED
    BY <1>1, <1>2, <2>1, <2>2 DEF Relists, Keeps, Lists
<1>6. CASE Leave(v)
  BY <1>1, <1>6 DEF Leave, Relists, Keeps, View
<1> QED
  BY <1>3, <1>4, <1>5, <1>6

\* Only the one view changes.
Others(v) == views' \in [Views -> View] /\ \A w \in Views \ {v} : Keeps(w)
All == views' \in [Views -> View] /\ \A w \in Views : Keeps(w)

LEMMA Moving ==
  ASSUME OutboxShape, NEW v \in Views
  PROVE  /\ SendOffline(v) \/ SendOnline(v) => All
         /\ Close(v) => Others(v) /\ Stops(v)
         /\ DrainBreaks(v) => Others(v) /\ Stops(v)
         /\ DrainLands(v) => Others(v) /\ views'[v].todo = views[v].todo /\ views'[v].landed
         /\ DrainAnswered(v) => /\ Others(v) /\ ~views'[v].landed
                                /\ views'[v].todo = views[v].todo \ {First(v)}
<1>1. views \in [Views -> View] /\ views[v] \in View
  BY DEF OutboxShape
<1>2. SendOffline(v) => All
  <2> DEFINE new == Armed(v)
  <2>1. new \in View /\ new.todo = views[v].todo /\ new.landed = views[v].landed
    BY <1>1 DEF View, Armed
  <2> HIDE DEF new
  <2>2. SendOffline(v) => views' = [views EXCEPT ![v] = new]
    BY DEF SendOffline, new
  <2> QED
    BY <1>1, <2>1, <2>2 DEF All, Keeps
<1>3. SendOnline(v) => All
  BY <1>1 DEF SendOnline, All, Keeps
<1>4. Close(v) => Others(v) /\ Stops(v)
  BY <1>1 DEF Close, Others, Keeps, Stops, Unmounted, View
<1>5. DrainBreaks(v) => Others(v) /\ Stops(v)
  <2> SUFFICES ASSUME DrainBreaks(v)  PROVE Others(v) /\ Stops(v)
    OBVIOUS
  <2> DEFINE new == [mounted |-> views[v].mounted, timer |-> views[v].timer \/ Rearmed(v), todo |-> {}, landed |-> FALSE]
  <2>1. new \in View /\ new.todo = {} /\ ~new.landed
    BY <1>1 DEF View, Rearmed
  <2>2. views' = [views EXCEPT ![v] = new]
    BY <1>1 DEF DrainBreaks, LeftOf
  <2> HIDE DEF new
  <2> QED
    BY <1>1, <2>1, <2>2 DEF Others, Keeps, Stops
<1>6. DrainLands(v) => Others(v) /\ views'[v].todo = views[v].todo /\ views'[v].landed
  BY <1>1 DEF DrainLands, Others, Keeps, View
<1>7. DrainAnswered(v) => Others(v) /\ ~views'[v].landed /\ views'[v].todo = views[v].todo \ {First(v)}
  <2> SUFFICES ASSUME DrainAnswered(v)
               PROVE Others(v) /\ ~views'[v].landed /\ views'[v].todo = views[v].todo \ {First(v)}
    OBVIOUS
  <2>1. views' = [views EXCEPT ![v].todo = @ \ {First(v)}, ![v].landed = FALSE]
    BY DEF DrainAnswered
  <2> QED
    BY <1>1, <2>1 DEF Others, Keeps, View
<1> QED
  BY <1>2, <1>3, <1>4, <1>5, <1>6, <1>7

LEMMA MovingOn ==
  ASSUME OutboxShape, NEW d \in direct
  PROVE  DirectLands(d) \/ DirectAnswered(d) \/ DirectBreaks(d) => All
<1>1. views \in [Views -> View] /\ d.view \in Views /\ views[d.view] \in View
  BY DEF OutboxShape, Post
<1>2. DirectLands(d) \/ DirectAnswered(d) => All
  BY <1>1 DEF DirectLands, DirectAnswered, All, Keeps
<1>3. DirectBreaks(d) => All
  <2> DEFINE new == Armed(d.view)
  <2>1. new \in View /\ new.todo = views[d.view].todo /\ new.landed = views[d.view].landed
    BY <1>1 DEF View, Armed
  <2> HIDE DEF new
  <2>2. DirectBreaks(d) => views' = [views EXCEPT ![d.view] = new]
    BY DEF DirectBreaks, new
  <2> QED
    BY <1>1, <2>1, <2>2 DEF All, Keeps
<1> QED
  BY <1>2, <1>3
-----------------------------------------------------------------------------

(* Where a message may be. *)

\* A record is queued once, behind the others.
LEMMA Queueing ==
  ASSUME OutboxShape, QueuedOnce, NEW x \in Nat, x \notin InQueue, queued' = Append(queued, x)
  PROVE  /\ queued' \in Seq(Nat) /\ InQueue' = InQueue \cup {x}
         /\ DOMAIN queued' = 1..(Len(queued) + 1) /\ DOMAIN queued = 1..Len(queued) /\ Len(queued) \in Nat
         /\ queued'[Len(queued) + 1] = x
         /\ \A k \in DOMAIN queued : queued'[k] = queued[k]
         /\ \A i, k \in DOMAIN queued' : queued'[i] = queued'[k] => i = k
         /\ \A ms \in SUBSET InQueue : ms # {} => FirstOf(queued', ms) = FirstOf(queued, ms)
<1>1. /\ queued' \in Seq(Nat) /\ DOMAIN queued' = 1..(Len(queued) + 1) /\ DOMAIN queued = 1..Len(queued)
      /\ Len(queued) \in Nat /\ queued'[Len(queued) + 1] = x
      /\ \A k \in DOMAIN queued : queued'[k] = queued[k]
  BY AppendProperties DEF OutboxShape
<1>2. \A k \in DOMAIN queued : queued[k] # x
  BY DEF InQueue
<1>3. \A i, k \in DOMAIN queued' : queued'[i] = queued'[k] => i = k
  BY <1>1, <1>2 DEF QueuedOnce
<1>4. InQueue' = InQueue \cup {x}
  BY <1>1 DEF InQueue
<1>5. \A ms \in SUBSET InQueue : ms # {} => FirstOf(queued', ms) = FirstOf(queued, ms)
  <2> SUFFICES ASSUME NEW ms \in SUBSET InQueue, ms # {}  PROVE FirstOf(Append(queued, x), ms) = FirstOf(queued, ms)
    OBVIOUS
  <2>1. \A m \in ms : \E k \in DOMAIN queued : queued[k] = m
    BY DEF InQueue
  <2>2. queued \in Seq(Nat) /\ \A i, k \in DOMAIN queued : queued[i] = queued[k] => i = k
    BY DEF OutboxShape, QueuedOnce
  <2> QED
    BY <1>2, <2>1, <2>2, FirstStays
<1> QED
  BY <1>1, <1>3, <1>4, <1>5

\* The record a drain posts is one of those it has left, and was queued before the others.
LEMMA PostsItsFirst ==
  ASSUME OutboxShape, QueuedOnce, NEW v \in Views, Draining(v)
  PROVE  /\ First(v) \in views[v].todo /\ First(v) \in InQueue /\ First(v) \in 1..written
         /\ \A i, k \in DOMAIN queued : i < k /\ queued[k] = First(v) => queued[i] \notin views[v].todo
<1> DEFINE ms == views[v].todo  f == First(v)
<1>1. ms # {} /\ ms \subseteq InQueue
  BY DEF Draining, QueuedOnce
<1>2. queued \in Seq(Nat) /\ \A i, k \in DOMAIN queued : queued[i] = queued[k] => i = k
  BY DEF OutboxShape, QueuedOnce
<1>3. f \in ms /\ \A n \in ms : Place(queued, f) <= Place(queued, n)
  <2>1. \A m \in ms : \E k \in DOMAIN queued : queued[k] = m
    BY <1>1 DEF InQueue
  <2> QED
    BY <1>1, <1>2, <2>1, FirstIsFirst DEF First
<1>4. f \in InQueue /\ f \in 1..written
  BY <1>1, <1>3 DEF InQueue, QueuedOnce
<1> HIDE DEF ms, f
<1>5. ASSUME NEW i \in DOMAIN queued, NEW k \in DOMAIN queued, i < k, queued[k] = f, queued[i] \in ms
      PROVE  FALSE
  <2>1. Place(queued, queued[k]) = k /\ Place(queued, queued[i]) = i
    BY <1>2, Places
  <2> QED
    BY <1>2, <1>3, <1>5, <2>1
<1> QED
  BY <1>3, <1>4, <1>5 DEF ms, f

\* A member sends: the message is new.
LEMMA SendingKeepsTheQueue ==
  ASSUME OutboxShape, QueuedOnce, NEW v \in Views, SendOffline(v) \/ SendOnline(v)
  PROVE  OutboxShape' /\ QueuedOnce'
<1>1. All
  BY Moving
<1>2. /\ written' = written + 1 /\ written < MaxWritten /\ written \in Nat /\ written' \in Nat /\ written' <= MaxWritten
      /\ UNCHANGED <<log, unheard>>
  BY WrittenAssumption DEF SendOffline, SendOnline, OutboxShape
<1>3. written' \notin InQueue /\ \A d \in direct : d.id # written'
  BY <1>2 DEF OutboxShape, QueuedOnce, InQueue
<1>4. CASE SendOffline(v)
  <2>1. queued' = Append(queued, written') /\ box' = box \cup {written'} /\ direct' = direct
    BY <1>4 DEF SendOffline, Queue
  <2>2. /\ queued' \in Seq(Nat) /\ InQueue' = InQueue \cup {written'}
        /\ \A i, k \in DOMAIN queued' : queued'[i] = queued'[k] => i = k
    BY <1>2, <1>3, <2>1, Queueing
  <2>3. OutboxShape'
    BY <1>1, <1>2, <2>1, <2>2 DEF OutboxShape, All
  <2>4. \A k \in DOMAIN queued' : queued'[k] \in 1..written'
    <3>1. \A m \in InQueue : m \in 1..written
      BY DEF QueuedOnce, InQueue
    <3>2. \A m \in InQueue' : m \in 1..written'
      BY <1>2, <2>2, <3>1 DEF OutboxShape
    <3> QED
      BY <3>2 DEF InQueue
  <2>5. \A w \in Views : views'[w].todo = views[w].todo
    BY <1>1 DEF All, Keeps
  <2>6. /\ \A d \in direct' : d.id \notin InQueue' /\ \A e \in direct' : d.id = e.id => d = e
        /\ box' \subseteq InQueue' /\ \A w \in Views : views'[w].todo \subseteq InQueue'
    BY <1>3, <2>1, <2>2, <2>5 DEF QueuedOnce
  <2> QED
    BY <2>2, <2>3, <2>4, <2>6 DEF QueuedOnce
<1>5. CASE SendOnline(v)
  <2> DEFINE d == [id |-> written', view |-> v, landed |-> FALSE]
  <2>1. direct' = direct \cup {d} /\ UNCHANGED <<queued, box, views>>
    BY <1>5 DEF SendOnline
  <2>2. d \in Post /\ d.id = written'
    BY <1>2 DEF Post
  <2>3. InQueue' = InQueue
    BY <2>1 DEF InQueue
  <2> HIDE DEF d
  <2>4. OutboxShape'
    BY <1>2, <2>1, <2>2 DEF OutboxShape
  <2>5. \A e \in direct' : e.id \notin InQueue' /\ \A f \in direct' : e.id = f.id => e = f
    BY <1>3, <2>1, <2>2, <2>3 DEF QueuedOnce
  <2> QED
    BY <1>2, <2>1, <2>3, <2>4, <2>5 DEF QueuedOnce
<1> QED
  BY <1>4, <1>5

\* A post of send lands, is answered, or breaks and is queued.
LEMMA PostingKeepsTheQueue ==
  ASSUME OutboxShape, QueuedOnce, NEW d \in direct,
         DirectLands(d) \/ DirectAnswered(d) \/ DirectBreaks(d)
  PROVE  OutboxShape' /\ QueuedOnce'
<1>1. All /\ written' = written /\ \A w \in Views : views'[w].todo = views[w].todo
  BY MovingOn DEF All, Keeps, DirectLands, DirectAnswered, DirectBreaks
<1>2. d \in Post /\ d.id \in 1..written /\ d.id \notin InQueue /\ d.id \in Nat
  BY DEF OutboxShape, QueuedOnce, Post
<1>3. CASE DirectLands(d)
  <2> DEFINE e == [d EXCEPT !.landed = TRUE]  x == [id |-> d.id, from |-> "send"]
  <2>1. e \in Post /\ e.id = d.id /\ x \in Message /\ x.id \in 1..written
    BY <1>2 DEF Post, Message
  <2>2. direct' = (direct \ {d}) \cup {e} /\ log' = Append(log, x) /\ UNCHANGED <<queued, box, unheard>>
    BY <1>3 DEF DirectLands
  <2> HIDE DEF e, x
  <2>3. log' \in Seq(Message) /\ \A j \in DOMAIN log' : log'[j].id \in 1..written
    BY <2>1, <2>2, AppendProperties DEF OutboxShape
  <2>4. OutboxShape'
    BY <1>1, <1>2, <2>1, <2>2, <2>3 DEF OutboxShape, All
  <2>5. InQueue' = InQueue
    BY <2>2 DEF InQueue
  <2> QED
    BY <1>1, <1>2, <2>1, <2>2, <2>4, <2>5 DEF QueuedOnce
<1>4. CASE DirectAnswered(d)
  <2>1. direct' = direct \ {d} /\ UNCHANGED <<log, queued, box, unheard>>
    BY <1>4 DEF DirectAnswered
  <2>2. OutboxShape'
    BY <1>1, <2>1 DEF OutboxShape, All
  <2>3. InQueue' = InQueue
    BY <2>1 DEF InQueue
  <2> QED
    BY <1>1, <2>1, <2>2, <2>3 DEF QueuedOnce
<1>5. CASE DirectBreaks(d)
  <2>1. direct' = direct \ {d} /\ box' = box \cup {d.id} /\ queued' = Append(queued, d.id) /\ log' = log
    BY <1>5 DEF DirectBreaks, Queue
  <2>2. /\ queued' \in Seq(Nat) /\ InQueue' = InQueue \cup {d.id}
        /\ \A i, k \in DOMAIN queued' : queued'[i] = queued'[k] => i = k
    BY <1>2, <2>1, Queueing
  <2>3. unheard' \in [Messages -> Nat]
    <3>1. unheard' = [unheard EXCEPT ![d.id] = unheard[d.id] + (IF d.landed THEN 1 ELSE 0)]
      BY <1>5 DEF DirectBreaks, Unheard
    <3>2. d.id \in Messages
      BY <1>2, WrittenAssumption DEF Messages, OutboxShape
    <3> QED
      BY <3>1, <3>2 DEF OutboxShape
  <2>4. OutboxShape'
    BY <1>1, <2>1, <2>2, <2>3 DEF OutboxShape, All
  <2>5. \A k \in DOMAIN queued' : queued'[k] \in 1..written'
    <3>1. \A m \in InQueue : m \in 1..written
      BY DEF QueuedOnce, InQueue
    <3>2. \A m \in InQueue' : m \in 1..written'
      BY <1>1, <1>2, <2>2, <3>1 DEF OutboxShape
    <3> QED
      BY <3>2 DEF InQueue
  <2>6. \A e \in direct' : e.id \notin InQueue'
    BY <2>1, <2>2 DEF QueuedOnce
  <2> QED
    BY <1>1, <2>1, <2>2, <2>4, <2>5, <2>6 DEF QueuedOnce
<1> QED
  BY <1>3, <1>4, <1>5

\* The views list, post and forget.
LEMMA DrainingKeepsTheQueue ==
  ASSUME OutboxShape, QueuedOnce, NEW v \in Views,
         Relists \/ Close(v) \/ DrainLands(v) \/ DrainAnswered(v) \/ DrainBreaks(v)
  PROVE  OutboxShape' /\ QueuedOnce'
<1>1. /\ views' \in [Views -> View] /\ UNCHANGED <<written, queued>> /\ box' \subseteq box
      /\ \A w \in Views : views'[w].todo \subseteq views[w].todo \cup box
      /\ direct' \subseteq direct
  <2>1. ASSUME Relists
        PROVE  /\ views' \in [Views -> View] /\ UNCHANGED <<written, queued>> /\ box' \subseteq box
               /\ \A w \in Views : views'[w].todo \subseteq views[w].todo \cup box
               /\ direct' \subseteq direct
    BY <2>1 DEF Relists, Keeps, Lists
  <2>2. ASSUME Close(v) \/ DrainLands(v) \/ DrainAnswered(v) \/ DrainBreaks(v)
        PROVE  views' \in [Views -> View] /\ \A w \in Views : views'[w].todo \subseteq views[w].todo
    BY <2>2, Moving DEF Others, Keeps, Stops
  <2>3. ASSUME Close(v) \/ DrainLands(v) \/ DrainAnswered(v) \/ DrainBreaks(v)
        PROVE  UNCHANGED <<written, queued>> /\ box' \subseteq box /\ direct' \subseteq direct
    BY <2>3 DEF Close, DrainLands, DrainAnswered, DrainBreaks, BoxAfter
  <2> QED
    BY <2>1, <2>2, <2>3
<1>2. QueuedOnce'
  <2>1. InQueue' = InQueue
    BY <1>1 DEF InQueue
  <2> QED
    BY <1>1, <2>1 DEF QueuedOnce
<1>3. Draining(v) => First(v) \in 1..written /\ First(v) \in Messages /\ First(v) \in Nat
  <2> SUFFICES ASSUME Draining(v)  PROVE First(v) \in 1..written /\ First(v) \in Messages /\ First(v) \in Nat
    OBVIOUS
  <2>1. First(v) \in 1..written
    BY PostsItsFirst
  <2> QED
    BY <2>1, WrittenAssumption DEF Messages, OutboxShape
<1>4. unheard' \in [Messages -> Nat]
  <2>1. CASE unheard' = unheard
    BY <2>1 DEF OutboxShape
  <2>2. CASE Draining(v) /\ unheard' = Unheard(First(v), views[v].landed)
    BY <1>3, <2>2 DEF OutboxShape, Unheard
  <2> QED
    BY <2>1, <2>2 DEF Relists, Close, DrainLands, DrainAnswered, DrainBreaks
<1>5. log' \in Seq(Message) /\ \A j \in DOMAIN log' : log'[j].id \in 1..written'
  <2>1. CASE log' = log
    BY <1>1, <2>1 DEF OutboxShape
  <2>2. CASE DrainLands(v)
    <3> DEFINE x == [id |-> First(v), from |-> "drain"]
    <3>1. log' = Append(log, x) /\ x \in Message /\ x.id \in 1..written
      BY <1>3, <2>2 DEF DrainLands, Message
    <3> HIDE DEF x
    <3> QED
      BY <1>1, <3>1, AppendProperties DEF OutboxShape
  <2> QED
    BY <2>1, <2>2 DEF Relists, Close, DrainAnswered, DrainBreaks
<1> QED
  BY <1>1, <1>2, <1>4, <1>5 DEF OutboxShape
-----------------------------------------------------------------------------

(* Nothing is lost, and the order of the queue. *)

Record(m) == [id |-> m, from |-> "drain"]
InRoom(m) == \E j \in DOMAIN log : log[j].id = m
Delivered(m) == \E j \in DOMAIN log : log[j] = Record(m)
Settled(m) == m \in refused \/ Delivered(m)

\* What a request has brought to the room is there, also before it is answered.
LandedIsThere ==
    /\ \A v \in Views : views[v].landed => Draining(v) /\ Delivered(First(v))
    /\ \A d \in direct : d.landed => InRoom(d.id)

\* A message is there, or in the store, or in a post of send, or was refused or cut off.
Whereabouts ==
    \A m \in 1..written :
       InRoom(m) \/ m \in box \/ (\E d \in direct : d.id = m) \/ m \in refused \/ m \in cut

\* A record has left the store when it is settled; before a record a drain has left come
\* others it has left, or settled ones; and a drain posts what was queued.
QueueIsWorkedOff ==
    /\ \A m \in InQueue : m \in box \/ Settled(m)
    /\ \A v \in Views : \A i, k \in DOMAIN queued :
         i < k /\ queued[k] \in views[v].todo => queued[i] \in views[v].todo \/ Settled(queued[i])
    /\ \A j \in DOMAIN log : log[j].from = "drain" => log[j].id \in InQueue

OutboxInv == OutboxShape /\ QueuedOnce /\ LandedIsThere /\ Whereabouts /\ QueueIsWorkedOff /\ QueueKeepsItsOrder

\* The room forgets nothing.
Grows == refused \subseteq refused' /\ (log' = log \/ \E x \in Message : log' = Append(log, x))

LEMMA Growing ==
  ASSUME OutboxShape, Grows
  PROVE  /\ \A m : (InRoom(m) => InRoom(m)') /\ (Delivered(m) => Delivered(m)') /\ (Settled(m) => Settled(m)')
         /\ \A j \in DOMAIN log : j \in DOMAIN log' /\ log'[j] = log[j]
<1>1. \A j \in DOMAIN log : j \in DOMAIN log' /\ log'[j] = log[j]
  <2>1. log \in Seq(Message)
    BY DEF OutboxShape
  <2>2. ASSUME NEW x \in Message, log' = Append(log, x)
        PROVE  \A j \in DOMAIN log : j \in DOMAIN log' /\ log'[j] = log[j]
    BY <2>1, <2>2, AppendProperties
  <2> QED
    BY <2>2 DEF Grows
<1>2. \A m : (InRoom(m) => InRoom(m)') /\ (Delivered(m) => Delivered(m)')
  BY <1>1 DEF InRoom, Delivered
<1> QED
  BY <1>1, <1>2 DEF Settled, Grows

\* The order is a matter of the queue, the room and the refusals.
LEMMA OrderStays ==
  ASSUME OutboxInv, refused \subseteq refused', UNCHANGED <<queued, log>>
  PROVE  QueueKeepsItsOrder'
  BY DEF OutboxInv, QueueKeepsItsOrder

LEMMA OrderOfTheQueue ==
  ASSUME OutboxInv, NEW x \in Nat, x \notin InQueue, queued' = Append(queued, x), UNCHANGED <<log, refused>>
  PROVE  QueueKeepsItsOrder'
<1> USE DEF OutboxInv
<1>1. /\ DOMAIN queued' = 1..(Len(queued) + 1) /\ DOMAIN queued = 1..Len(queued) /\ Len(queued) \in Nat
      /\ queued'[Len(queued) + 1] = x /\ \A k \in DOMAIN queued : queued'[k] = queued[k]
  BY Queueing
<1>2. \A j \in DOMAIN log : log[j] # [id |-> x, from |-> "drain"]
  BY DEF QueueIsWorkedOff
<1>3. ASSUME NEW i \in DOMAIN queued', NEW k \in DOMAIN queued', i < k,
             \E j \in DOMAIN log : log[j] = [id |-> queued'[k], from |-> "drain"]
      PROVE  i \in DOMAIN queued /\ k \in DOMAIN queued /\ queued'[i] = queued[i] /\ queued'[k] = queued[k]
  <2>1. k # Len(queued) + 1
    BY <1>1, <1>2, <1>3
  <2> QED
    BY <1>1, <1>3, <2>1
<1> QED
  BY <1>3 DEF QueueKeepsItsOrder

LEMMA OrderOfTheRoom ==
  ASSUME OutboxInv, NEW x \in Message, log' = Append(log, x), UNCHANGED <<queued, refused>>,
         x.from = "send" \/ \E v \in Views : Draining(v) /\ x = Record(First(v))
  PROVE  QueueKeepsItsOrder'
<1> USE DEF OutboxInv
<1>1. /\ DOMAIN log' = 1..(Len(log) + 1) /\ DOMAIN log = 1..Len(log) /\ Len(log) \in Nat
      /\ log'[Len(log) + 1] = x /\ \A j \in DOMAIN log : log'[j] = log[j]
  BY AppendProperties DEF OutboxShape
<1> SUFFICES ASSUME NEW i \in DOMAIN queued, NEW k \in DOMAIN queued, i < k, queued[i] \notin refused,
                    \E j \in DOMAIN log' : log'[j] = Record(queued[k])
             PROVE  \E j \in DOMAIN log' : /\ log'[j] = Record(queued[i])
                                           /\ \A l \in 1..(j - 1) : log'[l] # Record(queued[k])
  BY DEF QueueKeepsItsOrder, Record
<1>2. CASE Delivered(queued[k])
  <2>1. PICK j \in DOMAIN log : /\ log[j] = Record(queued[i])
                                /\ \A l \in 1..(j - 1) : log[l] # Record(queued[k])
    BY <1>2 DEF QueueKeepsItsOrder, Delivered, Record
  <2>2. j \in DOMAIN log' /\ \A l \in 1..(j - 1) : l \in DOMAIN log
    BY <1>1, <2>1
  <2> QED
    BY <1>1, <2>1, <2>2
<1>3. CASE ~Delivered(queued[k])
  <2>1. x = Record(queued[k])
    BY <1>1, <1>3 DEF Delivered
  <2>2. PICK v \in Views : Draining(v) /\ x = Record(First(v))
    BY <2>1 DEF Record
  <2>3. queued[k] = First(v)
    BY <2>1, <2>2 DEF Record
  <2>4. queued[k] \in views[v].todo /\ queued[i] \notin views[v].todo
    BY <2>2, <2>3, PostsItsFirst
  <2>5. Delivered(queued[i])
    BY <2>4 DEF QueueIsWorkedOff, Settled
  <2>6. PICK j \in DOMAIN log : log[j] = Record(queued[i])
    BY <2>5 DEF Delivered
  <2>7. \A l \in 1..(j - 1) : l \in DOMAIN log
    BY <1>1, <2>6
  <2>8. \A l \in 1..(j - 1) : log'[l] # Record(queued[k])
    BY <1>1, <1>3, <2>7 DEF Delivered
  <2> QED
    BY <1>1, <2>6, <2>8
<1> QED
  BY <1>2, <1>3

\* The views list the store, or a tab is closed.
LEMMA ListingKeepsOrder ==
  ASSUME OutboxInv, NEW v \in Views, Relists
  PROVE  OutboxInv'
<1> USE DEF OutboxInv
<1>1. OutboxShape' /\ QueuedOnce' /\ UNCHANGED <<written, box, direct, log, refused, queued, unheard, cut>>
  BY DrainingKeepsTheQueue DEF Relists
<1>2. /\ InQueue' = InQueue /\ \A m : Settled(m)' <=> Settled(m)
      /\ \A m : Delivered(m)' <=> Delivered(m)
  BY <1>1 DEF InQueue, Settled, Delivered
<1>3. LandedIsThere'
  <2>1. \A w \in Views : views'[w].landed => Draining(w)' /\ Delivered(First(w))'
    <3> SUFFICES ASSUME NEW w \in Views, views'[w].landed  PROVE Draining(w)' /\ Delivered(First(w))'
      OBVIOUS
    <3>1. views'[w].todo = views[w].todo /\ views[w].landed
      BY DEF Relists, Keeps, Lists
    <3>2. First(w)' = First(w)
      BY <1>1, <3>1 DEF First
    <3> QED
      BY <1>2, <3>1, <3>2 DEF LandedIsThere, Draining
  <2> QED
    BY <1>1, <2>1 DEF LandedIsThere, InRoom
<1>4. Whereabouts'
  BY <1>1 DEF Whereabouts, InRoom
<1>5. \A w \in Views : views'[w].todo = views[w].todo \/ views'[w].todo = box
  BY DEF Relists, Keeps, Lists
<1>6. QueueIsWorkedOff'
  <2>1. ASSUME NEW w \in Views, NEW i \in DOMAIN queued, NEW k \in DOMAIN queued, i < k,
               queued[k] \in views'[w].todo
        PROVE  queued[i] \in views'[w].todo \/ Settled(queued[i])
    <3>1. queued[i] \in InQueue
      BY DEF InQueue
    <3> QED
      BY <1>5, <2>1, <3>1 DEF QueueIsWorkedOff
  <2> QED
    BY <1>1, <1>2, <2>1 DEF QueueIsWorkedOff
<1>7. QueueKeepsItsOrder'
  BY <1>1, OrderStays
<1> QED
  BY <1>1, <1>3, <1>4, <1>6, <1>7

LEMMA ClosingKeepsOrder ==
  ASSUME OutboxInv, NEW v \in Views, Close(v)
  PROVE  OutboxInv'
<1> USE DEF OutboxInv
<1>1. /\ OutboxShape' /\ QueuedOnce' /\ Others(v) /\ Stops(v)
      /\ UNCHANGED <<written, box, log, refused, queued>>
      /\ direct' \subseteq direct /\ cut' = cut \cup {d.id : d \in direct \ direct'}
  <2>1. OutboxShape' /\ QueuedOnce'
    BY DrainingKeepsTheQueue
  <2>2. Others(v) /\ Stops(v)
    BY Moving
  <2> QED
    BY <2>1, <2>2 DEF Close
<1>2. /\ InQueue' = InQueue /\ \A m : Settled(m)' <=> Settled(m)
      /\ \A m : Delivered(m)' <=> Delivered(m)
  BY <1>1 DEF InQueue, Settled, Delivered
<1>3. LandedIsThere'
  <2>1. \A w \in Views : views'[w].landed => Draining(w)' /\ Delivered(First(w))'
    <3> SUFFICES ASSUME NEW w \in Views, views'[w].landed  PROVE Draining(w)' /\ Delivered(First(w))'
      OBVIOUS
    <3>1. views'[w].todo = views[w].todo /\ views[w].landed
      BY <1>1 DEF Others, Keeps, Stops
    <3>2. First(w)' = First(w)
      BY <1>1, <3>1 DEF First
    <3> QED
      BY <1>2, <3>1, <3>2 DEF LandedIsThere, Draining
  <2> QED
    BY <1>1, <2>1 DEF LandedIsThere, InRoom
<1>4. Whereabouts'
  BY <1>1 DEF Whereabouts, InRoom
<1>5. \A w \in Views : views'[w].todo = views[w].todo \/ views'[w].todo = {}
  BY <1>1 DEF Others, Keeps, Stops
<1>6. QueueIsWorkedOff'
  BY <1>1, <1>2, <1>5 DEF QueueIsWorkedOff
<1>7. QueueKeepsItsOrder'
  BY <1>1, OrderStays
<1> QED
  BY <1>1, <1>3, <1>4, <1>6, <1>7

\* A member sends a message.
LEMMA SendingKeepsOrder ==
  ASSUME OutboxInv, NEW v \in Views, SendOffline(v) \/ SendOnline(v)
  PROVE  OutboxInv'
<1> USE DEF OutboxInv
<1>1. /\ OutboxShape' /\ QueuedOnce' /\ All /\ UNCHANGED <<log, refused, cut>>
      /\ written \in Nat /\ written' = written + 1
  BY SendingKeepsTheQueue, Moving DEF SendOffline, SendOnline, OutboxShape
<1>2. /\ \A m : Settled(m)' <=> Settled(m)
      /\ \A m : Delivered(m)' <=> Delivered(m)
      /\ \A m : InRoom(m)' <=> InRoom(m)
  BY <1>1 DEF Settled, Delivered, InRoom
<1>3. /\ written' \in Nat /\ written' \notin InQueue
  BY <1>1 DEF QueuedOnce, InQueue
<1>4. CASE SendOffline(v)
  <2>1. queued' = Append(queued, written') /\ box' = box \cup {written'} /\ UNCHANGED direct
    BY <1>4 DEF SendOffline, Queue
  <2>2. /\ InQueue' = InQueue \cup {written'}
        /\ DOMAIN queued' = 1..(Len(queued) + 1) /\ DOMAIN queued = 1..Len(queued) /\ Len(queued) \in Nat
        /\ queued'[Len(queued) + 1] = written' /\ \A k \in DOMAIN queued : queued'[k] = queued[k]
        /\ \A ms \in SUBSET InQueue : ms # {} => FirstOf(queued', ms) = FirstOf(queued, ms)
    BY <1>3, <2>1, Queueing
  <2>3. \A w \in Views : /\ views'[w].todo = views[w].todo /\ views'[w].landed = views[w].landed
                         /\ Draining(w) => First(w)' = First(w)
    BY <1>1, <2>2 DEF All, Keeps, First, Draining, QueuedOnce
  <2>4. LandedIsThere'
    BY <1>2, <2>1, <2>3 DEF LandedIsThere, Draining
  <2>5. Whereabouts'
    BY <1>1, <1>2, <2>1 DEF Whereabouts
  <2>6. \A m \in InQueue' : m \in box' \/ Settled(m)'
    BY <1>2, <2>1, <2>2 DEF QueueIsWorkedOff
  <2>7. ASSUME NEW w \in Views, NEW i \in DOMAIN queued', NEW k \in DOMAIN queued', i < k,
               queued'[k] \in views'[w].todo
        PROVE  queued'[i] \in views'[w].todo \/ Settled(queued[i])'
    <3>1. queued'[k] \in InQueue
      BY <2>3, <2>7 DEF QueuedOnce
    <3>2. k # Len(queued) + 1
      BY <1>3, <2>2, <3>1
    <3>3. i \in DOMAIN queued /\ k \in DOMAIN queued /\ queued'[i] = queued[i] /\ queued'[k] = queued[k]
      BY <2>2, <2>7, <3>2
    <3>4. queued[i] \in views[w].todo \/ Settled(queued[i])
      BY <2>3, <2>7, <3>3 DEF QueueIsWorkedOff
    <3>5. Settled(queued[i]) => Settled(queued[i])'
      BY <1>1, <3>3 DEF Settled, Delivered
    <3> QED
      BY <2>3, <3>3, <3>4, <3>5
  <2>8. QueueIsWorkedOff'
    <3>1. \A j \in DOMAIN log' : log'[j].from = "drain" => log'[j].id \in InQueue'
      BY <1>1, <2>2 DEF QueueIsWorkedOff
    <3> QED
      BY <2>6, <2>7, <3>1 DEF QueueIsWorkedOff
  <2>9. QueueKeepsItsOrder'
    BY <1>1, <1>3, <2>1, OrderOfTheQueue
  <2> QED
    BY <1>1, <2>4, <2>5, <2>8, <2>9
<1>5. CASE SendOnline(v)
  <2> DEFINE d == [id |-> written', view |-> v, landed |-> FALSE]
  <2>1. direct' = direct \cup {d} /\ UNCHANGED <<queued, box, views>> /\ d.id = written' /\ ~d.landed
    BY <1>5 DEF SendOnline
  <2> HIDE DEF d
  <2>2. LandedIsThere'
    BY <1>2, <2>1 DEF LandedIsThere, Draining, First
  <2>3. Whereabouts'
    BY <1>1, <1>2, <2>1 DEF Whereabouts
  <2>4. QueueIsWorkedOff'
    BY <1>1, <1>2, <2>1 DEF QueueIsWorkedOff, InQueue
  <2>5. QueueKeepsItsOrder'
    BY <1>1, <2>1, OrderStays
  <2> QED
    BY <1>1, <2>2, <2>3, <2>4, <2>5
<1> QED
  BY <1>4, <1>5

\* A post of send lands, is answered, or breaks and is queued.
LEMMA PostingKeepsOrder ==
  ASSUME OutboxInv, NEW d \in direct, DirectLands(d) \/ DirectAnswered(d) \/ DirectBreaks(d)
  PROVE  OutboxInv'
<1> USE DEF OutboxInv
<1>1. OutboxShape' /\ QueuedOnce' /\ All /\ UNCHANGED <<written, cut>>
  BY PostingKeepsTheQueue, MovingOn DEF DirectLands, DirectAnswered, DirectBreaks
<1>2. d.id \in 1..written /\ d.id \notin InQueue /\ d.id \in Nat
  BY DEF OutboxShape, QueuedOnce
<1>3. \A w \in Views : views'[w].todo = views[w].todo /\ views'[w].landed = views[w].landed
  BY <1>1 DEF All, Keeps
<1>4. CASE DirectLands(d)
  <2> DEFINE e == [d EXCEPT !.landed = TRUE]  x == [id |-> d.id, from |-> "send"]
  <2>1. /\ e.id = d.id /\ e.landed /\ x \in Message /\ x.id = d.id /\ x.from = "send"
        /\ direct' = (direct \ {d}) \cup {e} /\ log' = Append(log, x)
        /\ UNCHANGED <<queued, box, refused, views>>
    BY <1>2, <1>4 DEF DirectLands, Message, OutboxShape, Post
  <2> HIDE DEF e, x
  <2>2. Grows
    BY <2>1 DEF Grows
  <2>3. /\ \A m : (InRoom(m) => InRoom(m)') /\ (Delivered(m) => Delivered(m)') /\ (Settled(m) => Settled(m)')
        /\ \A j \in DOMAIN log : log'[j] = log[j]
        /\ DOMAIN log' = 1..(Len(log) + 1) /\ DOMAIN log = 1..Len(log) /\ Len(log) \in Nat /\ log'[Len(log) + 1] = x
    BY <2>1, <2>2, Growing, AppendProperties DEF OutboxShape
  <2>4. InRoom(d.id)'
    BY <2>1, <2>3 DEF InRoom
  <2>5. LandedIsThere'
    <3>1. \A w \in Views : views'[w].landed => Draining(w)' /\ Delivered(First(w))'
      BY <2>1, <2>3 DEF LandedIsThere, Draining, First
    <3>2. \A f \in direct' : f.landed => InRoom(f.id)'
      BY <2>1, <2>3, <2>4 DEF LandedIsThere
    <3> QED
      BY <3>1, <3>2 DEF LandedIsThere
  <2>6. Whereabouts'
    BY <1>1, <2>1, <2>3 DEF Whereabouts
  <2>7. QueueIsWorkedOff'
    <3>1. InQueue' = InQueue
      BY <2>1 DEF InQueue
    <3>2. \A j \in DOMAIN log' : log'[j].from = "drain" => log'[j].id \in InQueue'
      BY <2>1, <2>3, <3>1 DEF QueueIsWorkedOff
    <3> QED
      BY <2>1, <2>3, <3>1, <3>2 DEF QueueIsWorkedOff
  <2>8. QueueKeepsItsOrder'
    BY <2>1, OrderOfTheRoom
  <2> QED
    BY <1>1, <2>5, <2>6, <2>7, <2>8
<1>5. CASE DirectAnswered(d)
  <2>1. /\ direct' = direct \ {d} /\ UNCHANGED <<queued, box, log, views>>
        /\ refused \subseteq refused' /\ (d.landed \/ d.id \in refused')
    BY <1>5 DEF DirectAnswered
  <2>2. \A m : (InRoom(m)' <=> InRoom(m)) /\ (Delivered(m)' <=> Delivered(m)) /\ (Settled(m) => Settled(m)')
    BY <2>1 DEF InRoom, Delivered, Settled
  <2>3. LandedIsThere'
    BY <2>1, <2>2 DEF LandedIsThere, Draining, First
  <2>4. Whereabouts'
    BY <1>1, <2>1, <2>2 DEF Whereabouts, LandedIsThere
  <2>5. QueueIsWorkedOff'
    <3>1. InQueue' = InQueue
      BY <2>1 DEF InQueue
    <3> QED
      BY <2>1, <2>2, <3>1 DEF QueueIsWorkedOff
  <2>6. QueueKeepsItsOrder'
    BY <2>1, OrderStays
  <2> QED
    BY <1>1, <2>3, <2>4, <2>5, <2>6
<1>6. CASE DirectBreaks(d)
  <2>1. direct' = direct \ {d} /\ box' = box \cup {d.id} /\ queued' = Append(queued, d.id) /\ UNCHANGED <<log, refused>>
    BY <1>6 DEF DirectBreaks, Queue
  <2>2. /\ InQueue' = InQueue \cup {d.id}
        /\ DOMAIN queued' = 1..(Len(queued) + 1) /\ DOMAIN queued = 1..Len(queued) /\ Len(queued) \in Nat
        /\ queued'[Len(queued) + 1] = d.id /\ \A k \in DOMAIN queued : queued'[k] = queued[k]
        /\ \A ms \in SUBSET InQueue : ms # {} => FirstOf(queued', ms) = FirstOf(queued, ms)
    BY <1>2, <2>1, Queueing
  <2>3. \A m : (InRoom(m)' <=> InRoom(m)) /\ (Delivered(m)' <=> Delivered(m)) /\ (Settled(m)' <=> Settled(m))
    BY <2>1 DEF InRoom, Delivered, Settled
  <2>4. \A w \in Views : Draining(w) => First(w)' = First(w)
    BY <1>3, <2>2 DEF First, Draining, QueuedOnce
  <2>5. LandedIsThere'
    BY <1>3, <2>1, <2>3, <2>4 DEF LandedIsThere, Draining
  <2>6. Whereabouts'
    BY <1>1, <2>1, <2>3 DEF Whereabouts
  <2>7. \A m \in InQueue' : m \in box' \/ Settled(m)'
    BY <2>1, <2>2, <2>3 DEF QueueIsWorkedOff
  <2>8. ASSUME NEW w \in Views, NEW i \in DOMAIN queued', NEW k \in DOMAIN queued', i < k,
               queued'[k] \in views'[w].todo
        PROVE  queued'[i] \in views'[w].todo \/ Settled(queued[i])'
    <3>1. queued'[k] \in InQueue
      BY <1>3, <2>8 DEF QueuedOnce
    <3>2. k # Len(queued) + 1
      BY <1>2, <2>2, <3>1
    <3>3. i \in DOMAIN queued /\ k \in DOMAIN queued /\ queued'[i] = queued[i] /\ queued'[k] = queued[k]
      BY <2>2, <2>8, <3>2
    <3>4. queued[i] \in views[w].todo \/ Settled(queued[i])
      BY <1>3, <2>8, <3>3 DEF QueueIsWorkedOff
    <3>5. Settled(queued[i]) => Settled(queued[i])'
      BY <2>1, <3>3 DEF Settled, Delivered
    <3> QED
      BY <1>3, <3>3, <3>4, <3>5
  <2>9. QueueIsWorkedOff'
    <3>1. \A j \in DOMAIN log' : log'[j].from = "drain" => log'[j].id \in InQueue'
      BY <2>1, <2>2 DEF QueueIsWorkedOff
    <3> QED
      BY <2>7, <2>8, <3>1 DEF QueueIsWorkedOff
  <2>10. QueueKeepsItsOrder'
    BY <1>2, <2>1, OrderOfTheQueue
  <2> QED
    BY <1>1, <2>5, <2>6, <2>9, <2>10
<1> QED
  BY <1>4, <1>5, <1>6

\* A drain posts its first record: it lands, is answered, or breaks and ends the drain.
LEMMA DrainingKeepsOrder ==
  ASSUME OutboxInv, NEW v \in Views, DrainLands(v) \/ DrainAnswered(v) \/ DrainBreaks(v)
  PROVE  OutboxInv'
<1> USE DEF OutboxInv
<1> DEFINE f == First(v)
<1>1. OutboxShape' /\ QueuedOnce' /\ Others(v) /\ UNCHANGED <<written, cut, direct, queued>>
  BY DrainingKeepsTheQueue, Moving DEF DrainLands, DrainAnswered, DrainBreaks
<1>2. /\ Draining(v) /\ f \in views[v].todo /\ f \in InQueue /\ f \in Nat
      /\ \A i, k \in DOMAIN queued : i < k /\ queued[k] = f => queued[i] \notin views[v].todo
  BY PostsItsFirst DEF DrainLands, DrainAnswered, DrainBreaks
<1>3. InQueue' = InQueue /\ \A w \in Views \ {v} : views'[w].todo = views[w].todo /\ views'[w].landed = views[w].landed
  BY <1>1 DEF InQueue, Others, Keeps
<1>4. CASE DrainLands(v)
  <2> DEFINE x == Record(f)
  <2>1. /\ log' = Append(log, x) /\ x \in Message /\ x.id = f /\ x.from = "drain" /\ UNCHANGED <<box, refused>>
        /\ views'[v].todo = views[v].todo
    BY <1>2, <1>4, Moving DEF DrainLands, Record, Message
  <2>2. \A w \in Views : views'[w].todo = views[w].todo /\ First(w)' = First(w)
    BY <1>1, <1>3, <2>1 DEF First
  <2> HIDE DEF f, x
  <2>3. Grows
    BY <2>1 DEF Grows
  <2>4. /\ \A m : (InRoom(m) => InRoom(m)') /\ (Delivered(m) => Delivered(m)') /\ (Settled(m) => Settled(m)')
        /\ \A j \in DOMAIN log : log'[j] = log[j]
        /\ DOMAIN log' = 1..(Len(log) + 1) /\ DOMAIN log = 1..Len(log) /\ Len(log) \in Nat /\ log'[Len(log) + 1] = x
    BY <2>1, <2>3, Growing, AppendProperties DEF OutboxShape
  <2>5. \E j \in DOMAIN log' : log'[j] = Record(f)
    BY <2>1, <2>4 DEF x
  <2>6. LandedIsThere'
    <3>1. ASSUME NEW w \in Views, views'[w].landed  PROVE Draining(w)' /\ Delivered(First(w))'
      <4>1. CASE w = v
        <5>1. Draining(w)' /\ First(w)' = f
          BY <1>2, <2>2, <4>1 DEF Draining, f
        <5> QED
          BY <2>5, <5>1 DEF Delivered, Record
      <4>2. CASE w # v
        <5>1. Draining(w) /\ Delivered(First(w))
          BY <1>3, <3>1, <4>2 DEF LandedIsThere
        <5>2. Delivered(First(w))'
          BY <2>2, <2>4, <5>1 DEF Delivered
        <5> QED
          BY <2>2, <5>1, <5>2 DEF Draining
      <4> QED
        BY <4>1, <4>2
    <3> QED
      BY <1>1, <2>4, <3>1 DEF LandedIsThere
  <2>7. Whereabouts'
    BY <1>1, <2>1, <2>4 DEF Whereabouts
  <2>8. QueueIsWorkedOff'
    <3>1. \A j \in DOMAIN log' : log'[j].from = "drain" => log'[j].id \in InQueue'
      BY <1>2, <1>3, <2>1, <2>4 DEF QueueIsWorkedOff
    <3> QED
      BY <1>1, <1>3, <2>1, <2>2, <2>4, <3>1 DEF QueueIsWorkedOff
  <2>9. QueueKeepsItsOrder'
    BY <1>1, <1>2, <2>1, OrderOfTheRoom DEF f, x
  <2> QED
    BY <1>1, <2>6, <2>7, <2>8, <2>9
<1>5. CASE DrainAnswered(v)
  <2>1. /\ box' = box \ {f} /\ views'[v].todo = views[v].todo \ {f} /\ ~views'[v].landed /\ log' = log
        /\ refused \subseteq refused' /\ (views[v].landed \/ f \in refused')
    BY <1>5, Moving DEF DrainAnswered
  <2>2. \A m : (InRoom(m)' <=> InRoom(m)) /\ (Delivered(m)' <=> Delivered(m)) /\ (Settled(m) => Settled(m)')
    BY <2>1 DEF InRoom, Delivered, Settled
  <2>3. Settled(f) \/ f \in refused'
    BY <1>2, <2>1 DEF LandedIsThere, Settled
  <2>4. InRoom(f) \/ f \in refused'
    BY <1>2, <2>1 DEF LandedIsThere, Delivered, InRoom, Record
  <2>5. \A m : m = f => m \in refused' \/ Delivered(m)
    BY <2>1, <2>3 DEF Settled
  <2> HIDE DEF f
  <2>6. LandedIsThere'
    <3>1. ASSUME NEW w \in Views, views'[w].landed  PROVE Draining(w)' /\ Delivered(First(w))'
      <4>1. w # v
        BY <2>1, <3>1
      <4>2. views'[w].todo = views[w].todo /\ First(w)' = First(w) /\ views[w].landed
        BY <1>1, <1>3, <3>1, <4>1 DEF First
      <4> QED
        BY <2>2, <4>2 DEF LandedIsThere, Draining
    <3> QED
      BY <1>1, <2>2, <3>1 DEF LandedIsThere
  <2>7. Whereabouts'
    BY <1>1, <2>1, <2>2, <2>4 DEF Whereabouts
  <2>8. \A m \in InQueue : m \in box' \/ Settled(m)'
    BY <2>1, <2>2, <2>5 DEF QueueIsWorkedOff, Settled
  <2>9. ASSUME NEW w \in Views, NEW i \in DOMAIN queued, NEW k \in DOMAIN queued, i < k,
               queued[k] \in views'[w].todo
        PROVE  queued[i] \in views'[w].todo \/ Settled(queued[i])'
    <3>1. queued[k] \in views[w].todo
      BY <1>3, <2>1, <2>9
    <3>2. queued[i] \in views[w].todo \/ Settled(queued[i])
      BY <2>9, <3>1 DEF QueueIsWorkedOff
    <3>3. queued[i] = f => queued[i] \in refused' \/ Delivered(queued[i])
      BY <2>5
    <3>4. queued'[i] = queued[i]
      BY <1>1
    <3>5. Settled(queued[i]) \/ queued[i] = f => Settled(queued[i])'
      BY <1>1, <2>1, <3>3, <3>4 DEF Settled, Delivered
    <3> QED
      BY <1>3, <2>1, <3>2, <3>5
  <2>10. QueueIsWorkedOff'
    BY <1>1, <1>3, <2>1, <2>8, <2>9 DEF QueueIsWorkedOff
  <2>11. QueueKeepsItsOrder'
    BY <1>1, <2>1, OrderStays
  <2> QED
    BY <1>1, <2>6, <2>7, <2>10, <2>11
<1>6. CASE DrainBreaks(v)
  <2>1. box' = box /\ Stops(v) /\ UNCHANGED <<log, refused>>
    BY <1>6, Moving DEF DrainBreaks, BoxAfter
  <2>2. \A m : (InRoom(m)' <=> InRoom(m)) /\ (Delivered(m)' <=> Delivered(m)) /\ (Settled(m)' <=> Settled(m))
    BY <2>1 DEF InRoom, Delivered, Settled
  <2>3. LandedIsThere'
    <3>1. ASSUME NEW w \in Views, views'[w].landed  PROVE Draining(w)' /\ Delivered(First(w))'
      <4>1. w # v
        BY <2>1, <3>1 DEF Stops
      <4>2. views'[w].todo = views[w].todo /\ First(w)' = First(w) /\ views[w].landed
        BY <1>1, <1>3, <3>1, <4>1 DEF First
      <4> QED
        BY <2>2, <4>2 DEF LandedIsThere, Draining
    <3> QED
      BY <1>1, <2>2, <3>1 DEF LandedIsThere
  <2>4. Whereabouts'
    BY <1>1, <2>1, <2>2 DEF Whereabouts
  <2>5. \A w \in Views : views'[w].todo = views[w].todo \/ views'[w].todo = {}
    BY <1>3, <2>1 DEF Stops
  <2>6. QueueIsWorkedOff'
    BY <1>1, <1>3, <2>1, <2>2, <2>5 DEF QueueIsWorkedOff
  <2>7. QueueKeepsItsOrder'
    BY <1>1, <2>1, OrderStays
  <2> QED
    BY <1>1, <2>3, <2>4, <2>6, <2>7
<1> QED
  BY <1>4, <1>5, <1>6
-----------------------------------------------------------------------------

(* How many copies there are. *)

\* The views that know of a copy they brought, and the views that may bring another.
At(m) == {v \in Views : views[v].landed /\ First(v) = m}
Waiting(m) == {v \in Views : m \in views[v].todo /\ ~(views[v].landed /\ First(v) = m)}

\* Of a record in the store, every copy is unheard of or belongs to a view; once it has
\* left the store, the views that still have it left may add one copy each.
CopiesAreCounted ==
    /\ \A m \in Messages : m \notin InQueue => unheard[m] = 0 /\ Times(m) <= 1
    /\ \A d \in direct : ~d.landed => Times(d.id) = 0
    /\ \A m \in box : Times(m) <= unheard[m] + Cardinality(At(m))
    /\ \A m \in InQueue : m \in box \/ Times(m) + Cardinality(Waiting(m)) <= unheard[m] + Cardinality(Views)

\* Counting the copies and the views.
LEMMA CopiesInALog ==
  ASSUME NEW l \in Seq(Message), NEW m
  PROVE  /\ Cardinality({k \in DOMAIN l : l[k].id = m}) \in Nat
         /\ (\A k \in DOMAIN l : l[k].id # m) => Cardinality({k \in DOMAIN l : l[k].id = m}) = 0
         /\ \A x \in Message : Cardinality({k \in DOMAIN Append(l, x) : Append(l, x)[k].id = m})
                               = Cardinality({k \in DOMAIN l : l[k].id = m}) + IF x.id = m THEN 1 ELSE 0
<1> DEFINE S == {k \in DOMAIN l : l[k].id = m}
<1>1. IsFiniteSet(S) /\ Cardinality(S) \in Nat
  <2>1. DOMAIN l = 1..Len(l) /\ Len(l) \in Nat
    OBVIOUS
  <2>2. IsFiniteSet(1..Len(l))
    BY <2>1, FS_Interval
  <2>3. S \in SUBSET (1..Len(l))
    BY <2>1
  <2> HIDE DEF S
  <2> QED
    BY <2>2, <2>3, FS_Subset, FS_CardinalityType
<1>2. (\A k \in DOMAIN l : l[k].id # m) => Cardinality(S) = 0
  <2> SUFFICES ASSUME \A k \in DOMAIN l : l[k].id # m  PROVE Cardinality(S) = 0
    OBVIOUS
  <2>1. S = {}
    OBVIOUS
  <2> QED
    BY <2>1, FS_EmptySet
<1>3. ASSUME NEW x \in Message
      PROVE  Cardinality({k \in DOMAIN Append(l, x) : Append(l, x)[k].id = m})
               = Cardinality(S) + IF x.id = m THEN 1 ELSE 0
  <2> DEFINE R == {k \in DOMAIN Append(l, x) : Append(l, x)[k].id = m}  n == Len(l) + 1
  <2>1. /\ DOMAIN Append(l, x) = 1..n /\ DOMAIN l = 1..Len(l) /\ Len(l) \in Nat
        /\ Append(l, x)[n] = x /\ \A k \in DOMAIN l : Append(l, x)[k] = l[k]
    BY AppendProperties
  <2>2. n \notin S
    BY <2>1
  <2>3. CASE x.id = m
    <3>1. R = S \cup {n}
      BY <2>1, <2>3
    <3>2. Cardinality(R) = Cardinality(S) + 1
      <4> HIDE DEF R, S, n
      <4> QED
        BY <1>1, <2>2, <3>1, FS_AddElement
    <3> QED
      BY <2>3, <3>2
  <2>4. CASE x.id # m
    <3>1. R = S
      BY <2>1, <2>4
    <3>2. Cardinality(R) = Cardinality(S) + 0
      <4> HIDE DEF R, S
      <4> QED
        BY <1>1, <3>1
    <3> QED
      BY <2>4, <3>2
  <2> QED
    BY <2>3, <2>4
<1> QED
  BY <1>1, <1>2, <1>3

LEMMA CopiesGrow ==
  ASSUME OutboxShape, NEW x \in Message, log' = Append(log, x)
  PROVE  \A m : Times(m)' = Times(m) + IF x.id = m THEN 1 ELSE 0
<1> SUFFICES ASSUME NEW m  PROVE Times(m)' = Times(m) + IF x.id = m THEN 1 ELSE 0
  OBVIOUS
<1>1. log \in Seq(Message)
  BY DEF OutboxShape
<1>2. Cardinality({k \in DOMAIN Append(log, x) : Append(log, x)[k].id = m})
        = Cardinality({k \in DOMAIN log : log[k].id = m}) + IF x.id = m THEN 1 ELSE 0
  BY ZenonT(40), <1>1, CopiesInALog
<1> QED
  BY <1>2 DEF Times

LEMMA ViewsAreCounted ==
  /\ Cardinality(Views) \in Nat
  /\ \A S \in SUBSET Views : IsFiniteSet(S) /\ Cardinality(S) \in Nat /\ Cardinality(S) <= Cardinality(Views)
  /\ \A S, T \in SUBSET Views : S \subseteq T => Cardinality(S) <= Cardinality(T)
  /\ \A S, T \in SUBSET Views : S \cap T = {} => Cardinality(S) + Cardinality(T) <= Cardinality(Views)
  /\ \A S \in SUBSET Views, v \in Views : /\ v \in S => Cardinality(S \ {v}) = Cardinality(S) - 1
                                          /\ v \notin S => Cardinality(S \cup {v}) = Cardinality(S) + 1
<1>1. IsFiniteSet(Views) /\ Cardinality(Views) \in Nat
  BY ViewsAssumption, FS_CardinalityType
<1>2. \A S \in SUBSET Views : IsFiniteSet(S) /\ Cardinality(S) \in Nat /\ Cardinality(S) <= Cardinality(Views)
  BY <1>1, FS_Subset, FS_CardinalityType
<1>3. \A S, T \in SUBSET Views : S \subseteq T => Cardinality(S) <= Cardinality(T)
  BY <1>2, FS_Subset
<1>4. ASSUME NEW S \in SUBSET Views, NEW T \in SUBSET Views, S \cap T = {}
      PROVE  Cardinality(S) + Cardinality(T) <= Cardinality(Views)
  <2>1. Cardinality(S \cup T) = Cardinality(S) + Cardinality(T) - Cardinality(S \cap T)
    BY <1>2, FS_Union
  <2>2. Cardinality(S \cap T) = 0
    BY <1>4, FS_EmptySet
  <2>3. Cardinality(S \cup T) <= Cardinality(Views)
    BY <1>2
  <2> QED
    BY <1>2, <2>1, <2>2, <2>3
<1>5. ASSUME NEW S \in SUBSET Views, NEW v \in Views
      PROVE  /\ v \in S => Cardinality(S \ {v}) = Cardinality(S) - 1
             /\ v \notin S => Cardinality(S \cup {v}) = Cardinality(S) + 1
  BY <1>2, FS_RemoveElement, FS_AddElement
<1> QED
  BY <1>1, <1>2, <1>3, <1>4, <1>5

\* What the numbers are, in every state.
LEMMA Numbers ==
  ASSUME OutboxShape, QueuedOnce, NEW m \in Messages
  PROVE  Times(m) \in Nat /\ unheard[m] \in Nat /\ At(m) \in SUBSET Views /\ Waiting(m) \in SUBSET Views
         /\ At(m) \cap Waiting(m) = {} /\ Cardinality(At(m)) \in Nat /\ Cardinality(Waiting(m)) \in Nat
<1>1. At(m) \in SUBSET Views /\ Waiting(m) \in SUBSET Views /\ At(m) \cap Waiting(m) = {}
  BY DEF At, Waiting
<1>2. Times(m) \in Nat /\ unheard[m] \in Nat
  BY CopiesInALog DEF Times, OutboxShape
<1> QED
  BY <1>1, <1>2, ViewsAreCounted

\* While the log and the drains of the other views stay.
LEMMA SameCopies ==
  ASSUME log' = log
  PROVE  \A m : Times(m)' = Times(m)
  BY DEF Times

\* A message that is written has a number.
LEMMA WrittenAreMessages ==
  ASSUME OutboxShape, QueuedOnce
  PROVE  /\ \A m \in 1..written : m \in Messages
         /\ \A m \in InQueue : m \in Messages /\ m \in Nat
         /\ \A m \in box : m \in Messages
         /\ \A d \in direct : d.id \in Messages
         /\ \A m \in Messages : m > written => Times(m) = 0 /\ m \notin InQueue
<1>1. \A m \in 1..written : m \in Messages
  BY WrittenAssumption DEF OutboxShape, Messages
<1>2. \A m \in Messages : m > written => Times(m) = 0
  <2> SUFFICES ASSUME NEW m \in Messages, m > written  PROVE Times(m) = 0
    OBVIOUS
  <2>1. log \in Seq(Message) /\ \A k \in DOMAIN log : log[k].id # m
    BY DEF OutboxShape
  <2>2. Cardinality({k \in DOMAIN log : log[k].id = m}) = 0
    BY <2>1, CopiesInALog
  <2> QED
    BY <2>2 DEF Times
<1> QED
  BY <1>1, <1>2 DEF QueuedOnce, OutboxShape, InQueue

LEMMA ListingKeepsCount ==
  ASSUME OutboxInv, CopiesAreCounted, NEW v \in Views, Relists
  PROVE  CopiesAreCounted'
<1> USE DEF OutboxInv
<1>1. UNCHANGED <<written, box, direct, log, queued, unheard>> /\ \A w \in Views : Keeps(w) \/ Lists(w)
  BY DEF Relists
<1>2. InQueue' = InQueue /\ \A m : Times(m)' = Times(m)
  BY <1>1 DEF InQueue, Times
<1>3. \A w \in Views : /\ views'[w].landed <=> views[w].landed
                       /\ views[w].landed => First(w)' = First(w)
  BY <1>1 DEF Keeps, Lists, LandedIsThere, First
<1>4. \A m : At(m)' = At(m)
  BY <1>3 DEF At
<1>5. ASSUME NEW m \in InQueue, m \notin box  PROVE Waiting(m)' = Waiting(m)
  <2>1. \A w \in Views : m \in views'[w].todo <=> m \in views[w].todo
    BY <1>1, <1>5 DEF Keeps, Lists, Draining
  <2> QED
    BY <1>3, <2>1 DEF Waiting
<1> QED
  BY <1>1, <1>2, <1>4, <1>5 DEF CopiesAreCounted

\* A view forgets what it had left; of a copy it knew of, nobody hears any more.
LEMMA StoppingKeepsCount ==
  ASSUME OutboxInv, CopiesAreCounted, NEW v \in Views, Others(v), Stops(v),
         UNCHANGED <<written, box, log, queued>>, direct' \subseteq direct,
         unheard' = IF Draining(v) THEN Unheard(First(v), views[v].landed) ELSE unheard
  PROVE  CopiesAreCounted'
<1> USE DEF OutboxInv
<1> DEFINE f == First(v)
<1>1. InQueue' = InQueue /\ \A m : Times(m)' = Times(m)
  BY DEF InQueue, Times
<1>2. /\ ~views'[v].landed /\ views'[v].todo = {}
      /\ \A w \in Views \ {v} : views'[w].todo = views[w].todo /\ views'[w].landed = views[w].landed
                                /\ First(w)' = First(w)
  BY DEF Others, Keeps, Stops, First
<1>3. \A m : At(m)' = At(m) \ {v} /\ Waiting(m)' = Waiting(m) \ {v}
  BY <1>2 DEF At, Waiting
<1>4. Draining(v) => f \in InQueue /\ f \in Messages
  BY PostsItsFirst, WrittenAreMessages
<1>5. ASSUME NEW m \in Messages
      PROVE  /\ unheard'[m] \in Nat /\ unheard'[m] >= unheard[m]
             /\ v \in At(m) => m = f /\ m \in InQueue /\ unheard'[m] = unheard[m] + 1
             /\ m \notin InQueue => unheard'[m] = unheard[m]
  <2>1. unheard \in [Messages -> Nat]
    BY DEF OutboxShape
  <2>2. v \in At(m) => Draining(v) /\ m = f /\ views[v].landed
    BY DEF At, LandedIsThere
  <2> HIDE DEF f
  <2>3. CASE Draining(v)
    <3>1. unheard' = [unheard EXCEPT ![f] = unheard[f] + (IF views[v].landed THEN 1 ELSE 0)]
      BY <2>3 DEF Unheard, f
    <3> QED
      BY <1>4, <2>1, <2>2, <2>3, <3>1
  <2>4. CASE ~Draining(v)
    BY <2>1, <2>2, <2>4
  <2> QED
    BY <2>3, <2>4
<1>6. ASSUME NEW m \in box  PROVE Times(m) <= unheard'[m] + Cardinality(At(m) \ {v})
  <2>1. m \in Messages /\ Times(m) <= unheard[m] + Cardinality(At(m))
    BY WrittenAreMessages DEF CopiesAreCounted
  <2>2. At(m) \in SUBSET Views /\ Cardinality(At(m)) \in Nat /\ Times(m) \in Nat /\ unheard[m] \in Nat
    BY <2>1, Numbers
  <2>3. CASE v \in At(m)
    <3>1. Cardinality(At(m) \ {v}) = Cardinality(At(m)) - 1
      BY <2>2, <2>3, ViewsAreCounted
    <3>2. unheard'[m] = unheard[m] + 1
      BY <1>5, <2>1, <2>3
    <3> QED
      BY <2>1, <2>2, <3>1, <3>2
  <2>4. CASE v \notin At(m)
    <3>1. At(m) \ {v} = At(m)
      BY <2>4
    <3>2. unheard'[m] \in Nat /\ unheard'[m] >= unheard[m]
      BY <1>5, <2>1
    <3> HIDE DEF f
    <3>3. Times(m) <= unheard'[m] + Cardinality(At(m))
      BY <2>1, <2>2, <3>2
    <3> QED
      BY <3>1, <3>3
  <2> QED
    BY <2>3, <2>4
<1>7. ASSUME NEW m \in InQueue, m \notin box
      PROVE  Times(m) + Cardinality(Waiting(m) \ {v}) <= unheard'[m] + Cardinality(Views)
  <2>1. m \in Messages /\ Times(m) + Cardinality(Waiting(m)) <= unheard[m] + Cardinality(Views)
    BY <1>7, WrittenAreMessages DEF CopiesAreCounted
  <2>2. /\ Waiting(m) \in SUBSET Views /\ Cardinality(Waiting(m)) \in Nat /\ Times(m) \in Nat /\ unheard[m] \in Nat
        /\ Cardinality(Views) \in Nat
    BY <2>1, Numbers, ViewsAreCounted
  <2>3. Cardinality(Waiting(m) \ {v}) <= Cardinality(Waiting(m)) /\ Cardinality(Waiting(m) \ {v}) \in Nat
    BY <2>2, ViewsAreCounted
  <2>4. unheard'[m] \in Nat /\ unheard'[m] >= unheard[m]
    BY <1>5, <2>1
  <2> QED
    BY <2>1, <2>2, <2>3, <2>4
<1>8. \A m \in Messages : m \notin InQueue => unheard'[m] = 0 /\ Times(m) <= 1
  BY <1>5 DEF CopiesAreCounted
<1>9. \A d \in direct' : ~d.landed => Times(d.id)' = 0
  BY <1>1 DEF CopiesAreCounted
<1> QED
  BY <1>1, <1>3, <1>6, <1>7, <1>8, <1>9 DEF CopiesAreCounted

\* The drains do not change, and nothing is in the queue that was not, but x.
LEMMA CountOfTheDrains ==
  ASSUME OutboxInv, All, NEW x \in Nat, x \notin InQueue, queued' = queued \/ queued' = Append(queued, x)
  PROVE  \A m : At(m)' = At(m) /\ Waiting(m)' = Waiting(m)
<1> USE DEF OutboxInv
<1>1. \A w \in Views : /\ views'[w].todo = views[w].todo /\ views'[w].landed = views[w].landed
  BY DEF All, Keeps
<1>2. \A w \in Views : Draining(w) => First(w)' = First(w)
  <2>1. CASE queued' = queued
    BY <1>1, <2>1 DEF First
  <2>2. CASE queued' = Append(queued, x)
    <3>1. \A ms \in SUBSET InQueue : ms # {} => FirstOf(queued', ms) = FirstOf(queued, ms)
      BY <2>2, Queueing
    <3> QED
      BY <1>1, <3>1 DEF First, Draining, QueuedOnce
  <2> QED
    BY <2>1, <2>2
<1>3. \A w \in Views : views[w].landed => Draining(w)
  BY DEF LandedIsThere
<1> QED
  BY <1>1, <1>2, <1>3 DEF At, Waiting

LEMMA SendingKeepsCount ==
  ASSUME OutboxInv, CopiesAreCounted, NEW v \in Views, SendOffline(v) \/ SendOnline(v)
  PROVE  CopiesAreCounted'
<1> USE DEF OutboxInv
<1>1. All /\ UNCHANGED <<log, unheard>> /\ written \in Nat /\ written' = written + 1 /\ written < MaxWritten
  BY Moving DEF SendOffline, SendOnline, OutboxShape
<1>2. /\ written' \in Nat /\ written' \in Messages /\ Times(written') = 0 /\ written' \notin InQueue
      /\ unheard[written'] = 0
  BY <1>1, WrittenAreMessages, WrittenAssumption DEF Messages, CopiesAreCounted
<1>3. \A m : Times(m)' = Times(m)
  BY <1>1 DEF Times
<1>4. CASE SendOffline(v)
  <2>1. queued' = Append(queued, written') /\ box' = box \cup {written'} /\ UNCHANGED direct
    BY <1>4 DEF SendOffline, Queue
  <2>2. InQueue' = InQueue \cup {written'}
    BY <1>2, <2>1, Queueing
  <2>3. \A m : At(m)' = At(m) /\ Waiting(m)' = Waiting(m)
    BY <1>1, <1>2, <2>1, CountOfTheDrains
  <2>4. Times(written') <= unheard[written'] + Cardinality(At(written'))
    <3>1. Cardinality(At(written')) \in Nat
      BY <1>2, Numbers
    <3> QED
      BY <1>2, <3>1
  <2>5. \A m \in box' : Times(m) <= unheard[m] + Cardinality(At(m))
    BY <2>1, <2>4 DEF CopiesAreCounted
  <2>6. \A m \in InQueue' : m \in box' \/ Times(m) + Cardinality(Waiting(m)) <= unheard[m] + Cardinality(Views)
    BY <2>1, <2>2 DEF CopiesAreCounted
  <2>7. \A m \in Messages : m \notin InQueue' => unheard[m] = 0 /\ Times(m) <= 1
    BY <2>2 DEF CopiesAreCounted
  <2>8. \A d \in direct : ~d.landed => Times(d.id) = 0
    BY DEF CopiesAreCounted
  <2> QED
    BY <1>1, <1>3, <2>1, <2>3, <2>5, <2>6, <2>7, <2>8 DEF CopiesAreCounted
<1>5. CASE SendOnline(v)
  <2> DEFINE d == [id |-> written', view |-> v, landed |-> FALSE]
  <2>1. direct' = direct \cup {d} /\ UNCHANGED <<queued, box>> /\ d.id = written'
    BY <1>5 DEF SendOnline
  <2> HIDE DEF d
  <2>2. InQueue' = InQueue
    BY <2>1 DEF InQueue
  <2>3. \A m : At(m)' = At(m) /\ Waiting(m)' = Waiting(m)
    BY <1>1, <1>2, <2>1, CountOfTheDrains
  <2>4. \A e \in direct' : ~e.landed => Times(e.id) = 0
    BY <1>2, <2>1 DEF CopiesAreCounted
  <2> QED
    BY <1>1, <1>3, <2>1, <2>2, <2>3, <2>4 DEF CopiesAreCounted
<1> QED
  BY <1>4, <1>5

LEMMA PostingKeepsCount ==
  ASSUME OutboxInv, CopiesAreCounted, NEW d \in direct,
         DirectLands(d) \/ DirectAnswered(d) \/ DirectBreaks(d)
  PROVE  CopiesAreCounted'
<1> USE DEF OutboxInv
<1>1. All /\ UNCHANGED written
  BY MovingOn DEF DirectLands, DirectAnswered, DirectBreaks
<1>2. d.id \in Messages /\ d.id \notin InQueue /\ d.id \in Nat /\ unheard[d.id] = 0 /\ Times(d.id) <= 1
      /\ Times(d.id) \in Nat
  <2>1. d.id \in Messages /\ d.id \notin InQueue /\ d.id \in Nat
    BY WrittenAreMessages DEF QueuedOnce, OutboxShape
  <2> QED
    BY <2>1, Numbers DEF CopiesAreCounted
<1>3. \A e \in direct : e # d => e.id # d.id
  BY DEF QueuedOnce
<1>4. CASE DirectLands(d)
  <2> DEFINE e == [d EXCEPT !.landed = TRUE]  x == [id |-> d.id, from |-> "send"]
  <2>1. /\ e.landed /\ x \in Message /\ x.id = d.id
        /\ direct' = (direct \ {d}) \cup {e} /\ log' = Append(log, x) /\ UNCHANGED <<queued, box, unheard>>
        /\ ~d.landed
    BY <1>2, <1>4 DEF DirectLands, Message, OutboxShape, Post
  <2> HIDE DEF e, x
  <2>2. \A m : Times(m)' = Times(m) + IF d.id = m THEN 1 ELSE 0
    BY <2>1, CopiesGrow
  <2>3. \A m \in Messages : m # d.id => Times(m)' = Times(m)
    <3>1. \A m \in Messages : Times(m) \in Nat
      BY Numbers
    <3> QED
      BY <2>2, <3>1
  <2>4. Times(d.id)' = 1
    BY <1>2, <2>1, <2>2 DEF CopiesAreCounted
  <2>5. InQueue' = InQueue /\ \A m : At(m)' = At(m) /\ Waiting(m)' = Waiting(m)
    BY <1>1, <1>2, <2>1, CountOfTheDrains DEF InQueue
  <2>6. \A m \in InQueue : m \in Messages /\ m # d.id
    BY <1>2, WrittenAreMessages
  <2>7. \A f \in direct' : ~f.landed => Times(f.id)' = 0
    <3>1. \A f \in direct : f # d => f.id \in Messages /\ f.id # d.id
      BY <1>3, WrittenAreMessages
    <3>2. \A f \in direct : f # d /\ ~f.landed => Times(f.id) = 0
      BY DEF CopiesAreCounted
    <3> QED
      BY <2>1, <2>3, <3>1, <3>2
  <2>8. \A m \in Messages : m \notin InQueue => unheard[m] = 0 /\ Times(m)' <= 1
    BY <2>3, <2>4 DEF CopiesAreCounted
  <2>9. \A m \in box : m \in InQueue
    BY DEF QueuedOnce
  <2>10. /\ \A m \in box : Times(m)' <= unheard[m] + Cardinality(At(m))
         /\ \A m \in InQueue : m \in box \/ Times(m)' + Cardinality(Waiting(m)) <= unheard[m] + Cardinality(Views)
    BY <2>3, <2>6, <2>9 DEF CopiesAreCounted
  <2> QED
    BY <1>1, <2>1, <2>5, <2>7, <2>8, <2>10 DEF CopiesAreCounted
<1>5. CASE DirectAnswered(d)
  <2>1. direct' = direct \ {d} /\ UNCHANGED <<queued, box, log, unheard>>
    BY <1>5 DEF DirectAnswered
  <2>2. InQueue' = InQueue /\ \A m : At(m)' = At(m) /\ Waiting(m)' = Waiting(m) /\ Times(m)' = Times(m)
    BY <1>1, <1>2, <2>1, CountOfTheDrains DEF InQueue, Times
  <2> QED
    BY <1>1, <2>1, <2>2 DEF CopiesAreCounted
<1>6. CASE DirectBreaks(d)
  <2>1. /\ direct' = direct \ {d} /\ box' = box \cup {d.id} /\ queued' = Append(queued, d.id) /\ UNCHANGED log
        /\ unheard' = [unheard EXCEPT ![d.id] = unheard[d.id] + (IF d.landed THEN 1 ELSE 0)]
    BY <1>6 DEF DirectBreaks, Queue, Unheard
  <2>2. /\ InQueue' = InQueue \cup {d.id}
    BY <1>2, <2>1, Queueing
  <2>3. \A m : At(m)' = At(m) /\ Waiting(m)' = Waiting(m) /\ Times(m)' = Times(m)
    BY <1>1, <1>2, <2>1, CountOfTheDrains DEF Times
  <2>4. \A m \in Messages : m # d.id => unheard'[m] = unheard[m]
    BY <2>1 DEF OutboxShape
  <2>5. unheard'[d.id] = IF d.landed THEN 1 ELSE 0
    BY <1>2, <2>1 DEF OutboxShape
  <2>6. Times(d.id) <= unheard'[d.id]
    BY <1>2, <2>5 DEF CopiesAreCounted
  <2>7. Times(d.id) <= unheard'[d.id] + Cardinality(At(d.id))
    <3>1. Cardinality(At(d.id)) \in Nat
      BY <1>2, Numbers
    <3> QED
      BY <1>2, <2>5, <2>6, <3>1
  <2>8. \A m \in box : m \in Messages /\ m # d.id
    BY <1>2, WrittenAreMessages DEF QueuedOnce
  <2>9. \A m \in InQueue : m \in Messages /\ m # d.id
    BY <1>2, WrittenAreMessages
  <2>10. \A m \in box' : Times(m) <= unheard'[m] + Cardinality(At(m))
    BY <2>1, <2>4, <2>7, <2>8 DEF CopiesAreCounted
  <2>11. \A m \in InQueue' : m \in box' \/ Times(m) + Cardinality(Waiting(m)) <= unheard'[m] + Cardinality(Views)
    BY <2>1, <2>2, <2>4, <2>9 DEF CopiesAreCounted
  <2>12. \A m \in Messages : m \notin InQueue' => unheard'[m] = 0 /\ Times(m) <= 1
    BY <2>2, <2>4 DEF CopiesAreCounted
  <2> QED
    BY <1>1, <2>1, <2>3, <2>10, <2>11, <2>12 DEF CopiesAreCounted
<1> QED
  BY <1>4, <1>5, <1>6

LEMMA DrainingKeepsCount ==
  ASSUME OutboxInv, CopiesAreCounted, NEW v \in Views, DrainLands(v) \/ DrainAnswered(v)
  PROVE  CopiesAreCounted'
<1> USE DEF OutboxInv
<1>0. PICK f : f = First(v)
  OBVIOUS
<1>1. Others(v) /\ UNCHANGED <<written, direct, queued, unheard>>
  BY Moving DEF DrainLands, DrainAnswered
<1>2. Draining(v) /\ f \in views[v].todo /\ f \in InQueue /\ f \in Messages /\ f \in Nat
  BY <1>0, PostsItsFirst, WrittenAreMessages DEF DrainLands, DrainAnswered
<1>3. /\ InQueue' = InQueue
      /\ \A w \in Views \ {v} : views'[w].todo = views[w].todo /\ views'[w].landed = views[w].landed
                                /\ First(w)' = First(w)
  BY <1>1 DEF InQueue, Others, Keeps, First
<1>4. /\ \A m \in InQueue : m \in Messages
      /\ \A m \in Messages : /\ Times(m) \in Nat /\ unheard[m] \in Nat /\ At(m) \in SUBSET Views /\ Waiting(m) \in SUBSET Views
                             /\ Cardinality(At(m)) \in Nat /\ Cardinality(Waiting(m)) \in Nat
      /\ Cardinality(Views) \in Nat
  BY WrittenAreMessages, Numbers, ViewsAreCounted
<1>5. CASE DrainLands(v)
  <2> DEFINE x == [id |-> f, from |-> "drain"]
  <2>1. /\ log' = Append(log, x) /\ x \in Message /\ x.id = f /\ UNCHANGED box
        /\ views'[v].todo = views[v].todo /\ views'[v].landed /\ ~views[v].landed
    BY <1>0, <1>2, <1>5, Moving DEF DrainLands, Message
  <2> HIDE DEF x
  <2>2. \A m : Times(m)' = Times(m) + IF f = m THEN 1 ELSE 0
    BY <2>1, CopiesGrow
  <2>3. First(v)' = f
    BY <1>0, <1>1, <2>1 DEF First
  <2>4. \A m : m # f => At(m)' = At(m) /\ Waiting(m)' = Waiting(m)
    BY <1>0, <1>3, <2>1, <2>3 DEF At, Waiting
  <2>5. /\ At(f)' = At(f) \cup {v} /\ v \notin At(f)
        /\ Waiting(f)' = Waiting(f) \ {v} /\ v \in Waiting(f)
    BY <1>0, <1>2, <1>3, <2>1, <2>3 DEF At, Waiting
  <2>6. Cardinality(At(f) \cup {v}) = Cardinality(At(f)) + 1 /\ Cardinality(Waiting(f) \ {v}) = Cardinality(Waiting(f)) - 1
    BY <1>2, <1>4, <2>5, ViewsAreCounted
  <2>7. Times(f)' = Times(f) + 1 /\ \A m \in Messages : m # f => Times(m)' = Times(m)
    <3>1. \A m \in Messages : Times(m)' = Times(m) + IF f = m THEN 1 ELSE 0
      BY <2>1, <2>2
    <3> QED
      BY <1>2, <1>4, <3>1
  <2>8. \A m \in box : Times(m)' <= unheard[m] + Cardinality(At(m)')
    <3> TAKE m \in box
    <3>1. m \in InQueue /\ Times(m) <= unheard[m] + Cardinality(At(m))
      BY DEF CopiesAreCounted, QueuedOnce
    <3> QED
      BY <1>2, <1>4, <2>4, <2>5, <2>6, <2>7, <3>1
  <2>9. \A m \in InQueue : m \in box \/ Times(m)' + Cardinality(Waiting(m)') <= unheard[m] + Cardinality(Views)
    <3> TAKE m \in InQueue
    <3>1. m \in box \/ Times(m) + Cardinality(Waiting(m)) <= unheard[m] + Cardinality(Views)
      BY DEF CopiesAreCounted
    <3>2. CASE m = f
      <4>1. Times(m)' = Times(m) + 1 /\ Cardinality(Waiting(m)') = Cardinality(Waiting(m)) - 1
        BY <2>5, <2>6, <2>7, <3>2
      <4>2. /\ Times(m) \in Nat /\ Cardinality(Waiting(m)) \in Nat
            /\ unheard[m] \in Nat /\ Cardinality(Views) \in Nat
        BY <1>4
      <4> QED
        BY <3>1, <4>1, <4>2
    <3>3. CASE m # f
      BY <1>4, <2>4, <2>7, <3>1, <3>3
    <3> QED
      BY <3>2, <3>3
  <2>10. \A m \in Messages : m \notin InQueue => unheard[m] = 0 /\ Times(m)' <= 1
    BY <1>2, <2>7 DEF CopiesAreCounted
  <2>11. \A d \in direct : ~d.landed => Times(d.id)' = 0
    <3>1. \A d \in direct : d.id \notin InQueue /\ d.id \in Messages
      BY WrittenAreMessages DEF QueuedOnce
    <3> QED
      BY <1>2, <2>7, <3>1 DEF CopiesAreCounted
  <2>12. \A m \in Messages : (unheard[m])' = unheard[m]
    BY <1>1
  <2> QED
    BY <1>1, <1>3, <2>1, <2>8, <2>9, <2>10, <2>11 DEF CopiesAreCounted
<1>6. CASE DrainAnswered(v)
  <2>1. /\ box' = box \ {f} /\ views'[v].todo = views[v].todo \ {f} /\ ~views'[v].landed /\ log' = log
    BY <1>0, <1>6, Moving DEF DrainAnswered
  <2>2. \A m : Times(m)' = Times(m)
    BY <2>1 DEF Times
  <2>3. \A m : m # f => At(m)' = At(m) /\ Waiting(m)' = Waiting(m)
    BY <1>0, <1>3, <2>1 DEF At, Waiting
  <2>4. Waiting(f)' \subseteq Waiting(f) /\ Waiting(f)' \in SUBSET Views /\ Waiting(f)' \cap At(f) = {}
    BY <1>0, <1>3, <2>1 DEF At, Waiting
  <2>5. Times(f) + Cardinality(Waiting(f)') <= unheard[f] + Cardinality(Views)
    <3>1. /\ Cardinality(Waiting(f)') <= Cardinality(Waiting(f)) /\ Cardinality(Waiting(f)') \in Nat
          /\ Cardinality(Waiting(f)') + Cardinality(At(f)) <= Cardinality(Views)
      BY <1>2, <1>4, <2>4, ViewsAreCounted
    <3>2. CASE f \in box
      <4>1. Times(f) <= unheard[f] + Cardinality(At(f))
        BY <3>2 DEF CopiesAreCounted
      <4> QED
        BY <1>2, <1>4, <3>1, <4>1
    <3>3. CASE f \notin box
      <4>1. Times(f) + Cardinality(Waiting(f)) <= unheard[f] + Cardinality(Views)
        BY <1>2, <3>3 DEF CopiesAreCounted
      <4> QED
        BY <1>2, <1>4, <3>1, <4>1
    <3> QED
      BY <3>2, <3>3
  <2>6. \A m \in InQueue : m \in box' \/ Times(m) + Cardinality(Waiting(m)') <= unheard[m] + Cardinality(Views)
    <3> TAKE m \in InQueue
    <3>1. m \in box \/ Times(m) + Cardinality(Waiting(m)) <= unheard[m] + Cardinality(Views)
      BY DEF CopiesAreCounted
    <3> QED
      BY <2>1, <2>3, <2>5, <3>1
  <2>7. \A m \in box' : Times(m) <= unheard[m] + Cardinality(At(m)')
    BY <2>1, <2>3 DEF CopiesAreCounted
  <2> QED
    BY <1>1, <1>3, <2>1, <2>2, <2>6, <2>7 DEF CopiesAreCounted
<1> QED
  BY <1>5, <1>6
-----------------------------------------------------------------------------

LEMMA OutboxStarts == OutboxInit => OutboxInv /\ CopiesAreCounted
<1> SUFFICES ASSUME OutboxInit  PROVE OutboxInv /\ CopiesAreCounted
  OBVIOUS
<1>1. /\ written = 0 /\ box = {} /\ direct = {} /\ log = <<>> /\ queued = <<>>
      /\ unheard = [m \in Messages |-> 0]
      /\ \A v \in Views : views[v] = Unmounted
  BY DEF OutboxInit
<1>2. OutboxShape
  BY <1>1, WrittenAssumption DEF OutboxInit, OutboxShape, View, Unmounted
<1>3. QueuedOnce /\ LandedIsThere /\ Whereabouts /\ QueueIsWorkedOff /\ QueueKeepsItsOrder
  BY <1>1 DEF QueuedOnce, InQueue, Unmounted, LandedIsThere, Whereabouts, QueueIsWorkedOff, QueueKeepsItsOrder
<1>4. \A m \in Messages : Times(m) = 0
  BY <1>2, <1>3, <1>1, WrittenAreMessages DEF Messages
<1>5. CopiesAreCounted
  BY <1>1, <1>4 DEF CopiesAreCounted, InQueue
<1> QED
  BY <1>2, <1>3, <1>5 DEF OutboxInv

LEMMA OutboxStepKeeps ==
  ASSUME OutboxInv, CopiesAreCounted, [OutboxNext]_outboxVars
  PROVE  OutboxInv' /\ CopiesAreCounted'
<1>1. CASE UNCHANGED outboxVars
  <2> USE <1>1 DEF outboxVars, OutboxInv
  <2>1. OutboxShape' /\ QueuedOnce'
    BY DEF OutboxShape, QueuedOnce, InQueue
  <2>2. LandedIsThere' /\ Whereabouts'
    BY DEF LandedIsThere, Whereabouts, Draining, First, Delivered, InRoom
  <2>3. QueueIsWorkedOff' /\ QueueKeepsItsOrder'
    BY DEF QueueIsWorkedOff, QueueKeepsItsOrder, InQueue, Settled, Delivered
  <2>4. InQueue' = InQueue /\ \A m : Times(m)' = Times(m) /\ At(m)' = At(m) /\ Waiting(m)' = Waiting(m)
    BY DEF InQueue, Times, At, Waiting, First
  <2>5. CopiesAreCounted'
    BY <2>4 DEF CopiesAreCounted
  <2> QED
    BY <2>1, <2>2, <2>3, <2>5
<1>2. ASSUME NEW v \in Views, Mount(v) \/ TimerFires(v) \/ Online(v) \/ Leave(v)
      PROVE  OutboxInv' /\ CopiesAreCounted'
  <2>1. box \subseteq Nat
    BY WrittenAreMessages DEF OutboxInv, QueuedOnce
  <2>2. Relists
    BY <1>2, <2>1, Relisting DEF OutboxInv
  <2> QED
    BY <2>2, ListingKeepsOrder, ListingKeepsCount
<1>3. ASSUME NEW v \in Views, SendOffline(v) \/ SendOnline(v)
      PROVE  OutboxInv' /\ CopiesAreCounted'
  BY <1>3, SendingKeepsOrder, SendingKeepsCount
<1>4. ASSUME NEW v \in Views, Close(v)
      PROVE  OutboxInv' /\ CopiesAreCounted'
  <2>1. Others(v) /\ Stops(v)
    BY <1>4, Moving DEF OutboxInv
  <2>2. /\ UNCHANGED <<written, box, log, queued>> /\ direct' \subseteq direct
        /\ unheard' = IF Draining(v) THEN Unheard(First(v), views[v].landed) ELSE unheard
    BY <1>4 DEF Close
  <2> QED
    BY <1>4, <2>1, <2>2, ClosingKeepsOrder, StoppingKeepsCount
<1>5. ASSUME NEW v \in Views, DrainBreaks(v)
      PROVE  OutboxInv' /\ CopiesAreCounted'
  <2>1. Others(v) /\ Stops(v)
    BY <1>5, Moving DEF OutboxInv
  <2>2. /\ UNCHANGED <<written, box, log, queued>> /\ direct' \subseteq direct
        /\ unheard' = IF Draining(v) THEN Unheard(First(v), views[v].landed) ELSE unheard
    BY <1>5 DEF DrainBreaks, BoxAfter
  <2> QED
    BY <1>5, <2>1, <2>2, DrainingKeepsOrder, StoppingKeepsCount
<1>6. ASSUME NEW v \in Views, DrainLands(v) \/ DrainAnswered(v)
      PROVE  OutboxInv' /\ CopiesAreCounted'
  BY <1>6, DrainingKeepsOrder, DrainingKeepsCount
<1>7. ASSUME NEW d \in direct, DirectLands(d) \/ DirectAnswered(d) \/ DirectBreaks(d)
      PROVE  OutboxInv' /\ CopiesAreCounted'
  BY <1>7, PostingKeepsOrder, PostingKeepsCount
<1> QED
  BY <1>1, <1>2, <1>3, <1>4, <1>5, <1>6, <1>7 DEF OutboxNext

LEMMA OutboxInvSuffices ==
  ASSUME OutboxInv, CopiesAreCounted
  PROVE  OutboxKeepsItsWord
<1> USE DEF OutboxInv
<1>1. NothingWrittenIsLost
  <2>1. ASSUME NEW m \in 1..written, InRoom(m)  PROVE Times(m) > 0
    <3> DEFINE S == {k \in DOMAIN log : log[k].id = m}
    <3>1. log \in Seq(Message) /\ S # {}
      BY <2>1 DEF InRoom, OutboxShape
    <3>2. IsFiniteSet(S)
      <4>1. DOMAIN log = 1..Len(log) /\ Len(log) \in Nat
        BY <3>1
      <4>2. IsFiniteSet(1..Len(log)) /\ S \in SUBSET (1..Len(log))
        BY <4>1, FS_Interval
      <4> HIDE DEF S
      <4> QED
        BY <4>2, FS_Subset
    <3>3. Cardinality(S) \in Nat
      BY <3>1, CopiesInALog
    <3>4. Cardinality(S) # 0
      <4> HIDE DEF S
      <4> QED
        BY <3>1, <3>2, FS_EmptySet
    <3>5. Cardinality(S) > 0
      <4> HIDE DEF S
      <4> QED
        BY <3>3, <3>4
    <3> QED
      BY <3>5 DEF Times
  <2> QED
    BY <2>1 DEF NothingWrittenIsLost, Whereabouts, UnderWay
<1>2. TwiceOnlyIfUnheard
  <2> SUFFICES ASSUME NEW m \in Messages  PROVE Times(m) <= Cardinality(Views) + unheard[m]
    BY DEF TwiceOnlyIfUnheard
  <2>1. /\ Times(m) \in Nat /\ unheard[m] \in Nat /\ Cardinality(At(m)) \in Nat /\ Cardinality(Waiting(m)) \in Nat
        /\ Cardinality(At(m)) <= Cardinality(Views) /\ Cardinality(Views) \in Nat /\ Cardinality(Views) # 0
    <3>1. Cardinality(Views) # 0
      BY ViewsAssumption, FS_EmptySet
    <3> QED
      BY <3>1, Numbers, ViewsAreCounted
  <2>2. CASE m \notin InQueue
    BY <2>1, <2>2 DEF CopiesAreCounted
  <2>3. CASE m \in box
    BY <2>1, <2>3 DEF CopiesAreCounted
  <2>4. CASE m \in InQueue /\ m \notin box
    BY <2>1, <2>4 DEF CopiesAreCounted
  <2> QED
    BY <2>2, <2>3, <2>4
<1> QED
  BY <1>1, <1>2 DEF OutboxKeepsItsWord

\* A message a member has written is in the room, in the store, under way, or refused; it is
\* in the room more often than there are views only if that many answers were lost; and what
\* was queued arrives in its order -- whatever breaks, and however views come and go
\* (use-room.ts, outbox.ts).
THEOREM OutboxAlwaysKeepsItsWord == OutboxSpec => []OutboxKeepsItsWord
<1>1. OutboxInit => OutboxInv /\ CopiesAreCounted
  BY OutboxStarts
<1>2. OutboxInv /\ CopiesAreCounted /\ [OutboxNext]_outboxVars => (OutboxInv /\ CopiesAreCounted)'
  BY OutboxStepKeeps
<1>3. OutboxInv /\ CopiesAreCounted => OutboxKeepsItsWord
  BY OutboxInvSuffices
<1> QED
  BY <1>1, <1>2, <1>3, PTL DEF OutboxSpec
=============================================================================
