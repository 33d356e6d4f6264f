------------------------------- MODULE RoomProofs -------------------------------
(***************************************************************************)
(* However messages, turns, catch-ups, overflows and restarts interleave,  *)
(* a client skips nothing but the losses the history records, and shows no *)
(* card with buttons that was answered.                                    *)
(*                                                                         *)
(* What makes it inductive: while a client is subscribed every message is  *)
(* shown, lost or on its way to it, and of those on their way the last     *)
(* thing said is how the message stands, unless a turn still holds it back *)
(* or the history has the loss.  An overflow takes the oldest of the queue *)
(* and what comes after it; the rest keeps its order.                      *)
(***************************************************************************)
EXTENDS Room, Lemmas

(* A card may be answered, once and for good; nothing else changes. *)
Upto(old, new) == old = new \/ (old = "pending" /\ new = "answered")

Connections == [mode : Modes, subscribed : BOOLEAN, page : Seq(Events), queue : Seq(Events)]
Views == [cursor : Nat, shown : [Ids -> States \cup {Unseen}], working : BOOLEAN]

Tells(q, id) == \E i \in DOMAIN q : q[i].type = "message" /\ q[i].id = id
Has(q, news) == \E i \in DOMAIN q : q[i] = news

(* What is on its way is about messages of the log, and what is said of one of them *)
(* later is later; the order to close comes last.                                   *)
QueueInOrder(log, q, subscribed) ==
    /\ \A i \in DOMAIN q : q[i].type = "message" => q[i].id \in DOMAIN log /\ Upto(q[i].state, log[q[i].id])
    /\ \A i \in DOMAIN q : \A j \in DOMAIN q :
         i < j /\ q[i].type = "message" /\ q[j].type = "message" /\ q[i].id = q[j].id
           => Upto(q[i].state, q[j].state)
    /\ \A i \in DOMAIN q : q[i] = Close => i = Len(q) /\ ~subscribed

PageInOrder(log, q) ==
    /\ \A i \in DOMAIN q : q[i].type = "message" /\ q[i].id \in DOMAIN log /\ Upto(q[i].state, log[q[i].id])
    /\ \A i \in DOMAIN q : \A j \in DOMAIN q : i # j => q[i].id # q[j].id

ViewInOrder(log, v) ==
    /\ v \in Views /\ v.cursor <= Len(log)
    /\ \A id \in Ids : v.shown[id] # Unseen => id <= v.cursor /\ Upto(v.shown[id], log[id])

Stages(k) ==
    /\ k \in Connections
    /\ k.mode = "away" => k = NoConn
    /\ k.mode \in {"opening", "live"} => k.page = <<>>

(* What is said last of a message is how it stands, unless more is to be said. *)
SaysTheLatest(log, h, k, m) ==
    /\ \A i \in DOMAIN k.queue : k.queue[i].type = "message" =>
         LET id == k.queue[i].id IN Has(k.queue, News(id, log[id])) \/ id \in h \/ id \in m
    /\ \A i \in DOMAIN k.page :
         LET id == k.page[i].id IN
           \/ k.page[i].state = log[id] \/ Has(k.queue, News(id, log[id])) \/ id \in h \/ id \in m

OnTheWay(h, k, id) == Tells(k.page, id) \/ Tells(k.queue, id) \/ id \in h

ShowsTheLatest(log, h, v, k, m) ==
    \A id \in Ids : v.shown[id] # Unseen => v.shown[id] = log[id] \/ id \in m \/ OnTheWay(h, k, id)

Accounted(h, v, k, m, id) == v.shown[id] # Unseen \/ id \in m \/ OnTheWay(h, k, id)

(* Which messages a client will not ask for again: those before its cursor, and once it *)
(* has caught up, those before what is on its way, or all while it is subscribed.       *)
Past(log, v, k) ==
    {id \in DOMAIN log :
       \/ id <= v.cursor
       \/ k.mode \in {"catching", "live"} /\
            \/ k.subscribed
            \/ \E n \in DOMAIN log : id <= n /\ (Tells(k.page, n) \/ Tells(k.queue, n))}

Client(log, h, v, k, m) ==
    /\ Stages(k) /\ ViewInOrder(log, v)
    /\ PageInOrder(log, k.page) /\ QueueInOrder(log, k.queue, k.subscribed)
    /\ SaysTheLatest(log, h, k, m) /\ ShowsTheLatest(log, h, v, k, m)
    /\ \A id \in Past(log, v, k) : Accounted(h, v, k, m, id)

Log(log) == log \in Seq(States) /\ Len(log) <= MaxMessages

(* Only a turn holds anything back. *)
RoomInv ==
    /\ Log(messages) /\ held \in Seq(DOMAIN messages)
    /\ running # "turn" => held = <<>>
    /\ conn = [c \in Clients |-> conn[c]]
    /\ view = [c \in Clients |-> view[c]] /\ missed = [c \in Clients |-> missed[c]]
    /\ \A c \in Clients : Client(messages, ToSet(held), view[c], conn[c], missed[c])
-----------------------------------------------------------------------------
(* Publishing to one stream. *)

(* put is what the first n events leave of the stream k. *)
IsPut(k, events, put, n) ==
    put = [i \in 0..n |-> IF i = 0 THEN k ELSE Put(put[i - 1], events[i])]

LEMMA PutsExist ==
    ASSUME NEW k, NEW events, NEW N \in Nat
    PROVE  \E put : IsPut(k, events, put, N)
<1> DEFINE Without == {n \in Nat : ~ \E put : IsPut(k, events, put, n)}
<1> SUFFICES ASSUME Without # {} PROVE FALSE
    OBVIOUS
<1>1. PICK n \in Without : \A m \in Without : n <= m
    <2>1. Without \subseteq Nat
        OBVIOUS
    <2> HIDE DEF Without
    <2> QED BY <2>1, LeastIsThere
<1>2. n \in Nat /\ ~ \E put : IsPut(k, events, put, n)
    OBVIOUS
<1>3. CASE n = 0
    <2>1. IsPut(k, events, [i \in 0..0 |-> k], 0)
        BY DEF IsPut
    <2> QED BY <1>2, <1>3, <2>1
<1>4. CASE n > 0
    <2>1. n - 1 \in Nat /\ ~(n <= n - 1)
        BY <1>2, <1>4
    <2>2. n - 1 \notin Without
        BY <1>1, <2>1
    <2>3. PICK put : IsPut(k, events, put, n - 1)
        BY <2>1, <2>2
    <2> DEFINE more == [i \in 0..n |-> IF i = n THEN Put(put[n - 1], events[n]) ELSE put[i]]
    <2>4. \A i \in 0..n : more[i] = IF i = 0 THEN k ELSE Put(more[i - 1], events[i])
        <3> TAKE i \in 0..n
        <3>1. CASE i = n
            <4>1. more[i] = Put(put[n - 1], events[n]) /\ more[i - 1] = put[n - 1]
                BY <1>2, <1>4, <3>1
            <4> QED BY <1>4, <3>1, <4>1
        <3>2. CASE i # n
            <4>1. i \in 0..(n - 1) /\ more[i] = put[i]
                BY <1>2, <3>2
            <4>2. put[i] = IF i = 0 THEN k ELSE Put(put[i - 1], events[i])
                BY <2>3, <4>1 DEF IsPut
            <4>3. i # 0 => more[i - 1] = put[i - 1]
                BY <1>2, <4>1
            <4> QED BY <4>1, <4>2, <4>3
        <3> QED BY <3>1, <3>2
    <2>5. more = [i \in 0..n |-> more[i]]
        OBVIOUS
    <2> HIDE DEF more
    <2>6. more = [i \in 0..n |-> IF i = 0 THEN k ELSE Put(more[i - 1], events[i])]
        BY <2>4, <2>5
    <2> QED BY <1>2, <2>6 DEF IsPut
<1> QED BY <1>2, <1>3, <1>4

LEMMA PutSteps ==
    ASSUME NEW k, NEW events, Len(events) \in Nat
    PROVE  /\ Puts(k, events)[0] = k
           /\ \A n \in 1..Len(events) : Puts(k, events)[n] = Put(Puts(k, events)[n - 1], events[n])
<1>1. PICK put : IsPut(k, events, put, Len(events))
    BY PutsExist
<1>2. \E put_ : put_ = [n \in 0..Len(events) |-> IF n = 0 THEN k ELSE Put(put_[n - 1], events[n])]
    BY <1>1 DEF IsPut
<1>3. Puts(k, events) = [n \in 0..Len(events) |-> IF n = 0 THEN k ELSE Put(Puts(k, events)[n - 1], events[n])]
    BY <1>2, Zenon DEF Puts
<1> QED BY <1>3

(* What a stream has got after n of the events. *)
Received(k, events, n, new) ==
    LET all == k.queue \o events IN
    /\ new \in Connections /\ new.mode = k.mode /\ new.page = k.page
    /\ \/ ~k.subscribed /\ new = k
       \/ /\ k.subscribed /\ new.subscribed
          /\ Len(new.queue) = Len(k.queue) + n
          /\ \A i \in 1..Len(new.queue) : new.queue[i] = all[i]
       \/ /\ k.subscribed /\ ~new.subscribed
          /\ \E l \in 1..(Len(k.queue) + n) :
               /\ Len(new.queue) = l /\ new.queue[l] = Close
               /\ \A i \in 1..(l - 1) : new.queue[i] = all[i + 1]

LEMMA OneMoreIsReceived ==
    ASSUME NEW k \in Connections, NEW events \in Seq(Events), NEW n \in 1..Len(events),
           NEW old, Received(k, events, n - 1, old)
    PROVE  Received(k, events, n, Put(old, events[n]))
<1> SUFFICES ASSUME NEW new, new = Put(old, events[n]) PROVE Received(k, events, n, new)
    OBVIOUS
<1> DEFINE all == k.queue \o events
           L == Len(k.queue)
<1>1. /\ k.queue \in Seq(Events) /\ old \in Connections /\ old.queue \in Seq(Events)
      /\ old.mode = k.mode /\ old.page = k.page
      /\ L \in Nat /\ Len(events) \in Nat /\ Len(old.queue) \in Nat /\ n - 1 \in Nat
    BY LenProperties DEF Connections, Received
<1>2. all \in Seq(Events) /\ Len(all) = L + Len(events) /\ all[L + n] = events[n] /\ events[n] \in Events
    BY <1>1, ConcatProperties
<1>3. Close \in Events
    BY DEF Events
<1>4. CASE ~k.subscribed
    <2>1. old = k
        BY <1>4 DEF Received
    <2>2. new = k
        BY <1>4, <2>1 DEF Put
    <2> QED BY <1>1, <1>4, <2>1, <2>2 DEF Received
<1>5. CASE k.subscribed /\ old.subscribed
    <2>1. Len(old.queue) = L + (n - 1) /\ \A i \in 1..Len(old.queue) : old.queue[i] = all[i]
        BY <1>5 DEF Received
    <2>2. CASE Len(old.queue) < QueueSize
        <3> DEFINE q == Append(old.queue, events[n])
        <3>1. new = [old EXCEPT !.queue = q]
            BY <1>5, <2>2 DEF Put
        <3>2. /\ q \in Seq(Events) /\ Len(q) = Len(old.queue) + 1
              /\ \A i \in 1..Len(old.queue) : q[i] = old.queue[i]
              /\ q[Len(old.queue) + 1] = events[n]
            <4> HIDE DEF all, L
            <4> QED BY SMTT(20), <1>1, <1>2, AppendProperties
        <3> HIDE DEF q, all, L
        <3>3. Len(q) = L + n /\ q[L + n] = all[L + n]
            BY SMTT(20), <1>1, <1>2, <2>1, <3>2
        <3>4. \A i \in 1..Len(q) : q[i] = all[i]
            <4>1. \A i \in 1..Len(q) : i \in 1..Len(old.queue) \/ i = L + n
                BY <1>1, <2>1, <3>3
            <4>2. \A i \in 1..Len(old.queue) : q[i] = all[i]
                BY <2>1, <3>2
            <4> QED BY <3>3, <4>1, <4>2
        <3>5. /\ new \in Connections /\ new.queue = q /\ new.subscribed /\ new.mode = k.mode /\ new.page = k.page
            BY <1>1, <1>5, <3>1, <3>2 DEF Connections
        <3> QED BY <1>5, <3>3, <3>4, <3>5 DEF Received, all, L
    <2>3. CASE ~(Len(old.queue) < QueueSize)
        <3> DEFINE q == Append(Tail(old.queue), Close)
        <3>1. new = [old EXCEPT !.subscribed = FALSE, !.queue = q]
            BY <1>5, <2>3 DEF Put
        <3>2. Len(old.queue) >= 1 /\ old.queue # <<>>
            BY <1>1, <2>3, SizesAssumption
        <3>3. /\ Tail(old.queue) \in Seq(Events) /\ Len(Tail(old.queue)) = Len(old.queue) - 1
              /\ \A i \in 1..(Len(old.queue) - 1) : Tail(old.queue)[i] = old.queue[i + 1]
            BY <1>1, <3>2, HeadTailProperties
        <3>4. /\ q \in Seq(Events) /\ Len(q) = Len(old.queue)
              /\ \A i \in 1..(Len(old.queue) - 1) : q[i] = Tail(old.queue)[i]
              /\ q[Len(old.queue)] = Close
            BY <1>1, <1>3, <3>2, <3>3, AppendProperties
        <3> HIDE DEF q, all, L
        <3>5. Len(q) \in 1..(L + n) /\ q[Len(q)] = Close
            BY <1>1, <2>1, <3>2, <3>4
        <3>6. \A i \in 1..(Len(q) - 1) : q[i] = all[i + 1]
            BY <1>1, <2>1, <3>2, <3>3, <3>4
        <3>7. /\ new \in Connections /\ new.queue = q /\ ~new.subscribed /\ new.mode = k.mode /\ new.page = k.page
            BY <1>1, <1>5, <3>1, <3>4 DEF Connections
        <3> QED BY <1>5, <3>5, <3>6, <3>7 DEF Received, all, L
    <2> QED BY <2>2, <2>3
<1>6. CASE k.subscribed /\ ~old.subscribed
    <2>1. new = old
        BY <1>6 DEF Put
    <2>2. PICK l \in 1..(L + (n - 1)) :
              /\ Len(old.queue) = l /\ old.queue[l] = Close
              /\ \A i \in 1..(l - 1) : old.queue[i] = all[i + 1]
        BY <1>6 DEF Received
    <2>3. l \in 1..(L + n)
        BY <1>1, <2>2
    <2> QED BY <1>1, <1>6, <2>1, <2>2, <2>3 DEF Received
<1> QED BY <1>1, <1>4, <1>5, <1>6 DEF Connections

LEMMA AllIsReceived ==
    ASSUME NEW k \in Connections, NEW events \in Seq(Events)
    PROVE  Received(k, events, Len(events), PutAll(k, events))
<1> DEFINE N == Len(events)
           Not == {n \in 0..N : ~Received(k, events, n, Puts(k, events)[n])}
<1>1. N \in Nat /\ k.queue \in Seq(Events) /\ Len(k.queue) \in Nat
    BY LenProperties DEF Connections
<1>2. Not = {}
    <2> SUFFICES ASSUME Not # {} PROVE FALSE
        OBVIOUS
    <2>1. PICK n \in Not : \A m \in Not : n <= m
        <3>1. Not \subseteq Nat
            BY <1>1
        <3> HIDE DEF Not
        <3> QED BY <3>1, LeastIsThere
    <2>2. n \in 0..N /\ ~Received(k, events, n, Puts(k, events)[n])
        OBVIOUS
    <2>3. CASE n = 0
        <3>1. Puts(k, events)[n] = k
            BY <1>1, <2>3, PutSteps
        <3>2. \A i \in 1..Len(k.queue) : (k.queue \o events)[i] = k.queue[i]
            BY <1>1, ConcatProperties
        <3>3. Received(k, events, 0, k)
            BY <1>1, <3>2 DEF Received, Connections
        <3> QED BY <2>2, <2>3, <3>1, <3>3
    <2>4. CASE n # 0
        <3>1. n \in 1..N /\ n - 1 \in 0..N /\ ~(n <= n - 1)
            BY <1>1, <2>2, <2>4
        <3>2. Received(k, events, n - 1, Puts(k, events)[n - 1])
            BY <2>1, <3>1
        <3>3. Puts(k, events)[n] = Put(Puts(k, events)[n - 1], events[n])
            BY <1>1, <3>1, PutSteps
        <3> HIDE DEF Not
        <3> QED BY <2>2, <3>1, <3>2, <3>3, OneMoreIsReceived
    <2> QED BY <2>3, <2>4
<1>3. N \in 0..N
    BY <1>1
<1> QED BY <1>2, <1>3 DEF PutAll
-----------------------------------------------------------------------------
(* Publishing to one client. *)

Grows(log, newLog) ==
    /\ Log(log) /\ Log(newLog) /\ Len(log) <= Len(newLog)
    /\ \A id \in DOMAIN log : Upto(log[id], newLog[id])

(* The events say how the messages stand; what they do not say and was not published *)
(* before is held back, or is known not to be said.                                 *)
Announces(log, newLog, h, newH, unsaid, events) ==
    /\ events \in Seq(Events)
    /\ \A i \in DOMAIN events : events[i] # Close /\
         (events[i].type = "message" =>
            /\ events[i].id \in DOMAIN newLog
            /\ events[i] = News(events[i].id, newLog[events[i].id]))
    /\ \A id \in DOMAIN newLog :
         Has(events, News(id, newLog[id])) \/ id \in newH \/ (id \in DOMAIN log /\ newLog[id] = log[id])
    /\ \A id \in h : Has(events, News(id, newLog[id])) \/ id \in newH \/ id \in unsaid

(* The history has the news that were lost, up to where the cursor will get. *)
Recorded(log, k, events, new, reach, m) ==
    \A id \in DOMAIN log :
      LET news == News(id, log[id]) IN
      (Has(k.queue, news) \/ Has(events, news)) /\ ~Has(new.queue, news) /\ id <= reach => id \in m

LEMMA UptoIsTransitive ==
    \A a, b, c : Upto(a, b) /\ Upto(b, c) => Upto(a, c)
    BY DEF Upto

LEMMA NewsIs ==
    ASSUME NEW e \in Events, e.type = "message"
    PROVE  e.id \in Ids /\ e.state \in States /\ e = News(e.id, e.state)
    BY DEF Events, News, Typing, Done, Close

(* Where what a stream has was said. *)
LEMMA ReceivedInOrder ==
    ASSUME NEW k \in Connections, NEW events \in Seq(Events), NEW new, Received(k, events, Len(events), new),
           \A i \in DOMAIN events : events[i] # Close,
           \A i \in DOMAIN k.queue : k.queue[i] = Close => i = Len(k.queue) /\ ~k.subscribed
    PROVE  LET all == k.queue \o events IN
           /\ \E f \in {0, 1} : \A i \in DOMAIN new.queue :
                \/ i + f \in DOMAIN all /\ new.queue[i] = all[i + f]
                \/ new.queue[i] = Close
           /\ \A i \in DOMAIN new.queue : new.queue[i] = Close => i = Len(new.queue) /\ ~new.subscribed
           /\ ~k.subscribed => new = k
           /\ new.subscribed => k.subscribed /\ \A x : Has(all, x) => Has(new.queue, x)
           /\ \A x : Has(all, x) <=> Has(k.queue, x) \/ Has(events, x)
<1> DEFINE all == k.queue \o events
           L == Len(k.queue)
           N == Len(events)
<1>1. /\ k.queue \in Seq(Events) /\ new.queue \in Seq(Events) /\ L \in Nat /\ N \in Nat
      /\ DOMAIN new.queue = 1..Len(new.queue) /\ Len(new.queue) \in Nat
      /\ DOMAIN k.queue = 1..L /\ DOMAIN events = 1..N
    BY LenProperties DEF Connections, Received
<1>2. /\ all \in Seq(Events) /\ Len(all) = L + N /\ DOMAIN all = 1..(L + N)
      /\ \A i \in 1..L : all[i] = k.queue[i]
      /\ \A i \in 1..N : all[L + i] = events[i]
    BY <1>1, ConcatProperties, LenProperties
<1>3. \A x : Has(all, x) <=> Has(k.queue, x) \/ Has(events, x)
    <2> TAKE x
    <2> HIDE DEF all, L, N
    <2>1. ASSUME Has(all, x) PROVE Has(k.queue, x) \/ Has(events, x)
        <3>1. PICK i \in 1..(L + N) : all[i] = x
            BY <1>2, <2>1 DEF Has
        <3>2. CASE i <= L
            BY SMTT(20), <1>1, <1>2, <3>1, <3>2 DEF Has
        <3>3. CASE i > L
            <4>1. i - L \in 1..N /\ all[L + (i - L)] = x
                BY <1>1, <3>1, <3>3
            <4> QED BY <1>1, <1>2, <4>1 DEF Has
        <3> QED BY <1>1, <3>2, <3>3
    <2>2. ASSUME Has(k.queue, x) PROVE Has(all, x)
        <3>1. PICK i \in 1..L : k.queue[i] = x
            BY <1>1, <2>2 DEF Has
        <3>2. i \in 1..(L + N)
            BY <1>1
        <3> QED BY <1>2, <3>1, <3>2 DEF Has
    <2>3. ASSUME Has(events, x) PROVE Has(all, x)
        <3>1. PICK i \in 1..N : events[i] = x
            BY <1>1, <2>3 DEF Has
        <3>2. L + i \in 1..(L + N)
            BY <1>1
        <3> QED BY <1>2, <3>1, <3>2 DEF Has
    <2> QED BY <2>1, <2>2, <2>3
<1>4. CASE ~k.subscribed /\ new = k
    <2> HIDE DEF all, L, N
    <2>1. \A i \in DOMAIN new.queue : i + 0 \in DOMAIN all /\ new.queue[i] = all[i + 0]
        BY <1>1, <1>2, <1>4
    <2> QED BY <1>3, <1>4, <2>1 DEF all
<1>5. ASSUME k.subscribed, \A i \in DOMAIN events : events[i] # Close
      PROVE  \A i \in DOMAIN all : all[i] # Close
    <2> HIDE DEF all, L, N
    <2>1. \A i \in 1..L : all[i] # Close
        BY <1>1, <1>2, <1>5
    <2>2. \A i \in 1..N : all[L + i] # Close
        BY <1>1, <1>2, <1>5
    <2>3. \A i \in 1..(L + N) : i \in 1..L \/ (i - L \in 1..N /\ L + (i - L) = i)
        BY <1>1
    <2> QED BY <1>2, <2>1, <2>2, <2>3
<1>6. CASE /\ k.subscribed /\ new.subscribed /\ Len(new.queue) = L + N
           /\ \A i \in 1..Len(new.queue) : new.queue[i] = all[i]
    <2> HIDE DEF all, L, N
    <2>1. \A i \in DOMAIN new.queue : i + 0 \in DOMAIN all /\ new.queue[i] = all[i + 0]
        BY <1>1, <1>2, <1>6
    <2>2. \A i \in DOMAIN new.queue : new.queue[i] # Close
        BY <1>1, <1>2, <1>5, <1>6
    <2>3. \A x : Has(all, x) => Has(new.queue, x)
        BY <1>1, <1>2, <1>6 DEF Has
    <2> QED BY <1>3, <1>6, <2>1, <2>2, <2>3 DEF all
<1>7. ASSUME k.subscribed, ~new.subscribed, NEW l \in 1..(L + N), Len(new.queue) = l, new.queue[l] = Close,
             \A i \in 1..(l - 1) : new.queue[i] = all[i + 1]
      PROVE  /\ \E f \in {0, 1} : \A i \in DOMAIN new.queue :
                  \/ i + f \in DOMAIN all /\ new.queue[i] = all[i + f]
                  \/ new.queue[i] = Close
             /\ \A i \in DOMAIN new.queue : new.queue[i] = Close => i = Len(new.queue) /\ ~new.subscribed
    <2> HIDE DEF all, L, N
    <2>1. \A i \in DOMAIN new.queue : i \in 1..(l - 1) \/ i = l
        BY <1>1, <1>7
    <2>2. \A i \in 1..(l - 1) : i + 1 \in DOMAIN all
        BY <1>1, <1>2
    <2>3. \A i \in 1..(l - 1) : new.queue[i] # Close
        BY <1>5, <1>7, <2>2
    <2>4. \A i \in DOMAIN new.queue : (i + 1 \in DOMAIN all /\ new.queue[i] = all[i + 1]) \/ new.queue[i] = Close
        BY <1>7, <2>1, <2>2
    <2> QED BY <1>7, <2>1, <2>3, <2>4
<1> HIDE DEF all, L, N
<1> QED BY <1>3, <1>4, <1>6, <1>7 DEF Received, all, L, N

LEMMA PublishKeeps ==
    ASSUME NEW log, NEW newLog, Grows(log, newLog), NEW h, NEW newH, NEW unsaid, NEW events,
           h \subseteq DOMAIN log, Announces(log, newLog, h, newH, unsaid, events),
           NEW v, NEW k, NEW m, Client(log, h, v, k, m),
           NEW new, Received(k, events, Len(events), new),
           NEW reach \in Nat, v.cursor <= reach,
           \A id \in Ids : Tells(new.page, id) \/ Tells(new.queue, id) => id <= reach,
           NEW newM, m \subseteq newM, unsaid \subseteq newM, Recorded(newLog, k, events, new, reach, newM)
    PROVE  Client(newLog, newH, v, new, newM)
<1> DEFINE all == k.queue \o events
           Said(id) == Has(events, News(id, newLog[id])) \/ id \in newH \/ id \in newM
<1>1. /\ k \in Connections /\ new \in Connections /\ events \in Seq(Events)
      /\ new.mode = k.mode /\ new.page = k.page
      /\ k.queue \in Seq(Events) /\ new.queue \in Seq(Events) /\ k.page \in Seq(Events)
      /\ DOMAIN k.queue = 1..Len(k.queue) /\ Len(k.queue) \in Nat
      /\ DOMAIN events = 1..Len(events) /\ Len(events) \in Nat
      /\ DOMAIN new.queue = 1..Len(new.queue) /\ Len(new.queue) \in Nat
    BY LenProperties DEF Client, Stages, Received, Announces, Connections
<1>2. /\ \A i \in DOMAIN events : events[i] # Close
      /\ \A i \in DOMAIN k.queue : k.queue[i] = Close => i = Len(k.queue) /\ ~k.subscribed
    BY DEF Announces, Client, QueueInOrder
<1>3. /\ \E f \in {0, 1} : \A i \in DOMAIN new.queue :
           \/ i + f \in DOMAIN all /\ new.queue[i] = all[i + f]
           \/ new.queue[i] = Close
      /\ \A i \in DOMAIN new.queue : new.queue[i] = Close => i = Len(new.queue) /\ ~new.subscribed
      /\ ~k.subscribed => new = k
      /\ new.subscribed => k.subscribed /\ \A x : Has(all, x) => Has(new.queue, x)
      /\ \A x : Has(all, x) <=> Has(k.queue, x) \/ Has(events, x)
    BY <1>1, <1>2, ReceivedInOrder
<1>4. /\ all \in Seq(Events) /\ DOMAIN all = 1..(Len(k.queue) + Len(events))
      /\ \A i \in DOMAIN k.queue : i \in DOMAIN all /\ all[i] = k.queue[i]
      /\ \A i \in DOMAIN all : all[i] \in Events /\
           \/ i \in DOMAIN k.queue /\ all[i] = k.queue[i]
           \/ i > Len(k.queue) /\ i - Len(k.queue) \in DOMAIN events /\ all[i] = events[i - Len(k.queue)]
    <2>1. /\ all \in Seq(Events) /\ Len(all) = Len(k.queue) + Len(events)
          /\ \A i \in 1..(Len(k.queue) + Len(events)) :
               all[i] = IF i <= Len(k.queue) THEN k.queue[i] ELSE events[i - Len(k.queue)]
        BY <1>1, ConcatProperties
    <2>2. DOMAIN all = 1..(Len(k.queue) + Len(events)) /\ \A i \in DOMAIN all : all[i] \in Events
        BY <2>1, LenProperties, ElementOfSeq
    <2> HIDE DEF all
    <2>3. \A i \in DOMAIN all : \/ i \in DOMAIN k.queue
                                \/ i > Len(k.queue) /\ i - Len(k.queue) \in DOMAIN events
        BY <1>1, <2>2
    <2>4. \A i \in DOMAIN k.queue : i \in DOMAIN all /\ i <= Len(k.queue)
        BY <1>1, <2>2
    <2>5. \A i \in DOMAIN all : i > Len(k.queue) => ~(i <= Len(k.queue))
        BY <1>1, <2>2
    <2> QED BY <2>1, <2>2, <2>3, <2>4, <2>5
<1> HIDE DEF all
<1>5. /\ DOMAIN log \subseteq DOMAIN newLog /\ DOMAIN newLog \subseteq Ids
      /\ \A a : \A id \in DOMAIN log : Upto(a, log[id]) => Upto(a, newLog[id])
    <2>1. /\ Len(log) \in Nat /\ Len(newLog) \in Nat /\ Len(log) <= Len(newLog) /\ Len(newLog) <= MaxMessages
          /\ DOMAIN log = 1..Len(log) /\ DOMAIN newLog = 1..Len(newLog)
        BY LenProperties DEF Grows, Log
    <2>2. DOMAIN log \subseteq DOMAIN newLog /\ DOMAIN newLog \subseteq Ids
        BY <2>1, SizesAssumption DEF Ids
    <2> QED BY <2>2, UptoIsTransitive DEF Grows
<1>6. \A i \in DOMAIN events : events[i].type = "message" =>
        events[i].id \in DOMAIN newLog /\ events[i].state = newLog[events[i].id]
    <2>1. \A id, state : News(id, state).state = state
        BY DEF News
    <2> QED BY <2>1 DEF Announces
<1>7. \A i \in DOMAIN all : all[i].type = "message" =>
        all[i].id \in DOMAIN newLog /\ Upto(all[i].state, newLog[all[i].id])
    <2> TAKE i \in DOMAIN all
    <2>1. CASE i \in DOMAIN k.queue /\ all[i] = k.queue[i]
        BY <1>5, <2>1 DEF Client, QueueInOrder
    <2>2. CASE i - Len(k.queue) \in DOMAIN events /\ all[i] = events[i - Len(k.queue)]
        BY <1>6, <2>2 DEF Upto
    <2> QED BY <1>4, <2>1, <2>2
<1>8. \A i \in DOMAIN all : \A j \in DOMAIN all :
        i < j /\ all[i].type = "message" /\ all[j].type = "message" /\ all[i].id = all[j].id
          => Upto(all[i].state, all[j].state)
    <2> SUFFICES ASSUME NEW i \in DOMAIN all, NEW j \in DOMAIN all, i < j,
                        all[i].type = "message", all[j].type = "message", all[i].id = all[j].id
                 PROVE  Upto(all[i].state, all[j].state)
        OBVIOUS
    <2>1. CASE j \in DOMAIN k.queue /\ all[j] = k.queue[j]
        <3>1. i \in DOMAIN k.queue /\ all[i] = k.queue[i]
            <4>1. ~(i > Len(k.queue))
                BY <1>1, <1>4, <2>1
            <4> QED BY <1>4, <4>1
        <3> QED BY <2>1, <3>1 DEF Client, QueueInOrder
    <2>2. CASE j - Len(k.queue) \in DOMAIN events /\ all[j] = events[j - Len(k.queue)]
        <3>1. all[j].state = newLog[all[j].id]
            BY <1>6, <2>2
        <3> QED BY <1>7, <3>1
    <2> QED BY <1>4, <2>1, <2>2
<1>9. QueueInOrder(newLog, new.queue, new.subscribed)
    <2>1. PICK f \in {0, 1} : \A i \in DOMAIN new.queue :
                \/ i + f \in DOMAIN all /\ new.queue[i] = all[i + f]
                \/ new.queue[i] = Close
        BY <1>3
    <2>2. Close.type # "message"
        BY DEF Close
    <2>3. \A i \in DOMAIN new.queue : new.queue[i].type = "message" =>
            i + f \in DOMAIN all /\ new.queue[i] = all[i + f]
        BY <2>1, <2>2
    <2>4. \A i \in DOMAIN new.queue : new.queue[i].type = "message" =>
            new.queue[i].id \in DOMAIN newLog /\ Upto(new.queue[i].state, newLog[new.queue[i].id])
        BY <1>7, <2>3
    <2>5. \A i \in DOMAIN new.queue : \A j \in DOMAIN new.queue :
            i < j /\ new.queue[i].type = "message" /\ new.queue[j].type = "message"
              /\ new.queue[i].id = new.queue[j].id
              => Upto(new.queue[i].state, new.queue[j].state)
        <3>1. \A i \in DOMAIN new.queue : \A j \in DOMAIN new.queue : i < j => i + f < j + f
            BY <1>1
        <3> QED BY <1>8, <2>3, <3>1
    <2> QED BY <1>3, <2>4, <2>5 DEF QueueInOrder
<1>10. PageInOrder(newLog, new.page)
    BY <1>1, <1>5 DEF Client, PageInOrder
<1>11. ViewInOrder(newLog, v)
    <2>1. Len(log) \in Nat /\ Len(newLog) \in Nat /\ Len(log) <= Len(newLog) /\ v.cursor \in Nat /\ v.cursor <= Len(log)
        BY LenProperties DEF Grows, Log, Client, ViewInOrder, Views
    <2>2. \A id \in Ids : id <= v.cursor => id \in DOMAIN log
        <3>1. DOMAIN log = 1..Len(log)
            BY LenProperties DEF Grows, Log
        <3> QED BY <2>1, <3>1, SizesAssumption DEF Ids
    <2> QED BY <1>5, <2>1, <2>2 DEF Client, ViewInOrder
<1>12. Stages(new)
    <2>1. k.mode = "away" => new = k
        BY <1>1, <1>3 DEF Client, Stages, NoConn
    <2> QED BY <1>1, <2>1 DEF Client, Stages
<1>13. \A id \in DOMAIN newLog : id \notin DOMAIN log \/ newLog[id] # log[id] \/ id \in h => Said(id)
    BY DEF Announces
<1>14. ASSUME NEW id \in DOMAIN newLog, id <= reach \/ new.subscribed,
              Has(all, News(id, newLog[id])) \/ id \in newH \/ id \in newM
       PROVE  Has(new.queue, News(id, newLog[id])) \/ id \in newH \/ id \in newM
    BY <1>3, <1>14 DEF Recorded
<1>15. \A id : \A state : Has(k.queue, News(id, state)) => Tells(k.queue, id)
    BY DEF Has, Tells, News
<1>16. \A id : \A state : Has(new.queue, News(id, state)) => Tells(new.queue, id)
    BY DEF Has, Tells, News
<1>17. ASSUME NEW id \in DOMAIN newLog, Tells(k.queue, id)
       PROVE  Has(all, News(id, newLog[id])) \/ id \in newH \/ id \in newM
    <2>1. CASE id \notin DOMAIN log \/ newLog[id] # log[id] \/ id \in h
        BY <1>3, <1>13, <2>1
    <2>2. CASE ~(id \notin DOMAIN log \/ newLog[id] # log[id] \/ id \in h)
        <3>1. PICK i \in DOMAIN k.queue : k.queue[i].type = "message" /\ k.queue[i].id = id
            BY <1>17 DEF Tells
        <3>2. SaysTheLatest(log, h, k, m)
            BY DEF Client
        <3>3. Has(k.queue, News(id, log[id])) \/ id \in h \/ id \in m
            BY <3>1, <3>2 DEF SaysTheLatest
        <3>4. newLog[id] = log[id]
            BY <2>2
        <3>5. id \notin h /\ (id \in m => id \in newM)
            BY <2>2
        <3>6. Has(k.queue, News(id, log[id])) => Has(all, News(id, log[id]))
            BY <1>3
        <3> QED BY <3>3, <3>4, <3>5, <3>6
    <2> QED BY <2>1, <2>2
<1>18. SaysTheLatest(newLog, newH, new, newM)
    <2>1. ASSUME NEW i \in DOMAIN new.queue, new.queue[i].type = "message"
          PROVE  LET id == new.queue[i].id IN Has(new.queue, News(id, newLog[id])) \/ id \in newH \/ id \in newM
        <3> DEFINE id == new.queue[i].id
        <3>1. id \in DOMAIN newLog /\ Tells(new.queue, id)
            BY <1>9, <2>1 DEF QueueInOrder, Tells
        <3>2. id \in Ids /\ id <= reach
            BY <1>5, <3>1
        <3>3. Has(all, News(id, newLog[id])) \/ id \in newH \/ id \in newM
            <4>1. PICK n \in DOMAIN all : new.queue[i] = all[n]
                <5>1. new.queue[i] # Close
                    BY <2>1 DEF Close
                <5> QED BY <1>3, <5>1
            <4>2. CASE n \in DOMAIN k.queue /\ all[n] = k.queue[n]
                <5>1. Tells(k.queue, id)
                    BY <2>1, <4>1, <4>2 DEF Tells
                <5> QED BY <1>17, <3>1, <5>1
            <4>3. CASE n - Len(k.queue) \in DOMAIN events /\ all[n] = events[n - Len(k.queue)]
                <5>1. new.queue[i] = News(id, newLog[id])
                    BY <2>1, <4>1, <4>3 DEF Announces
                <5> QED BY <4>1, <5>1 DEF Has
            <4> QED BY <1>4, <4>2, <4>3
        <3> HIDE DEF id
        <3>4. Has(new.queue, News(id, newLog[id])) \/ id \in newH \/ id \in newM
            BY <1>14, <3>1, <3>2, <3>3
        <3> QED BY <3>4 DEF id
    <2>2. ASSUME NEW i \in DOMAIN new.page
          PROVE  LET id == new.page[i].id IN
                   \/ new.page[i].state = newLog[id] \/ Has(new.queue, News(id, newLog[id]))
                   \/ id \in newH \/ id \in newM
        <3> DEFINE id == new.page[i].id
        <3>1. id \in DOMAIN log /\ Tells(new.page, id) /\ i \in DOMAIN k.page /\ id = k.page[i].id
            BY <1>1, <2>2 DEF Client, PageInOrder, Tells
        <3>2. id \in DOMAIN newLog /\ id \in Ids /\ id <= reach
            BY <1>5, <3>1
        <3>3. \/ k.page[i].state = log[id] \/ Has(k.queue, News(id, log[id])) \/ id \in h \/ id \in m
            BY <3>1 DEF Client, SaysTheLatest
        <3> HIDE DEF id
        <3>4. CASE newLog[id] # log[id] \/ id \in h
            <4>1. Has(all, News(id, newLog[id])) \/ id \in newH \/ id \in newM
                BY <1>3, <1>13, <3>2, <3>4
            <4>2. Has(new.queue, News(id, newLog[id])) \/ id \in newH \/ id \in newM
                BY <1>14, <3>2, <4>1
            <4> QED BY <4>2 DEF id
        <3>5. CASE newLog[id] = log[id] /\ id \notin h /\ k.page[i].state # log[id]
            <4>1. Has(all, News(id, newLog[id])) \/ id \in newM
                BY <1>3, <3>3, <3>5
            <4>2. Has(new.queue, News(id, newLog[id])) \/ id \in newH \/ id \in newM
                BY <1>14, <3>2, <4>1
            <4> QED BY <4>2 DEF id
        <3>6. CASE newLog[id] = log[id] /\ k.page[i].state = log[id]
            BY <1>1, <3>6 DEF id
        <3> QED BY <3>4, <3>5, <3>6
    <2> QED BY <2>1, <2>2 DEF SaysTheLatest
<1>19. ASSUME NEW id \in DOMAIN newLog, id <= reach \/ new.subscribed, OnTheWay(h, k, id) \/ Said(id)
       PROVE  OnTheWay(newH, new, id) \/ id \in newM
    <2>1. CASE Tells(k.page, id)
        BY <1>1, <2>1 DEF OnTheWay
    <2>2. CASE Tells(k.queue, id) \/ id \in h \/ Said(id)
        <3>1. Has(all, News(id, newLog[id])) \/ id \in newH \/ id \in newM
            BY <1>3, <1>13, <1>17, <2>2
        <3>2. Has(new.queue, News(id, newLog[id])) \/ id \in newH \/ id \in newM
            BY <1>14, <1>19, <3>1
        <3> QED BY <1>16, <3>2 DEF OnTheWay
    <2> QED BY <1>19, <2>1, <2>2 DEF OnTheWay
<1>20. ASSUME NEW id \in Ids, v.shown[id] # Unseen
       PROVE  id \in DOMAIN log /\ id <= reach /\ id \in DOMAIN newLog
    <2>1. /\ v.cursor \in Nat /\ v.cursor <= Len(log) /\ id <= v.cursor
          /\ Len(log) \in Nat /\ DOMAIN log = 1..Len(log)
        BY <1>20, LenProperties DEF Grows, Log, Client, ViewInOrder, Views
    <2>2. id \in Nat \ {0}
        BY SizesAssumption DEF Ids
    <2> QED BY <1>5, <2>1, <2>2
<1>21. ShowsTheLatest(newLog, newH, v, new, newM)
    <2> SUFFICES ASSUME NEW id \in Ids, v.shown[id] # Unseen
                 PROVE  v.shown[id] = newLog[id] \/ id \in newM \/ OnTheWay(newH, new, id)
        BY DEF ShowsTheLatest
    <2>1. id \in DOMAIN log /\ id <= reach /\ id \in DOMAIN newLog
        BY <1>20
    <2>2. v.shown[id] = log[id] \/ id \in m \/ OnTheWay(h, k, id)
        BY DEF Client, ShowsTheLatest
    <2>3. newLog[id] # log[id] => Said(id)
        BY <1>13, <2>1
    <2> HIDE DEF Said
    <2> QED BY <1>19, <2>1, <2>2, <2>3
<1>22. ASSUME NEW id \in Past(newLog, v, new)
       PROVE  Accounted(newH, v, new, newM, id)
    <2>1. id \in DOMAIN newLog /\ id \in Ids
        BY <1>5 DEF Past
    <2>2. id <= reach \/ new.subscribed
        <3>1. ASSUME NEW n \in DOMAIN newLog, id <= n, Tells(new.page, n) \/ Tells(new.queue, n)
              PROVE  id <= reach
            <4>1. n \in Ids /\ n <= reach
                BY <1>5, <3>1
            <4> QED BY <2>1, <3>1, <4>1, SizesAssumption DEF Ids
        <3>2. id <= v.cursor => id <= reach
            <4>1. v.cursor \in Nat
                BY DEF Client, ViewInOrder, Views
            <4> QED BY <2>1, <4>1, SizesAssumption DEF Ids
        <3> QED BY <1>22, <3>1, <3>2 DEF Past
    <2>3. id \in Past(log, v, k) \/ Said(id)
        <3>1. CASE id \notin DOMAIN log
            BY <1>13, <2>1, <3>1
        <3>2. CASE id \in DOMAIN log
            <4>1. CASE id <= v.cursor \/ (k.mode \in {"catching", "live"} /\ k.subscribed)
                BY <3>2, <4>1 DEF Past
            <4>2. CASE ~(id <= v.cursor) /\ ~(k.mode \in {"catching", "live"} /\ k.subscribed)
                <5>1. k.mode \in {"catching", "live"} /\ ~k.subscribed /\ new = k
                    BY <1>1, <1>3, <1>22, <4>2 DEF Past
                <5>2. PICK n \in DOMAIN newLog : id <= n /\ (Tells(k.page, n) \/ Tells(k.queue, n))
                    BY <1>22, <4>2, <5>1 DEF Past
                <5>3. n \in DOMAIN log
                    BY <5>2 DEF Tells, Client, PageInOrder, QueueInOrder
                <5> QED BY <3>2, <5>1, <5>2, <5>3 DEF Past
            <4> QED BY <4>1, <4>2
        <3> QED BY <3>1, <3>2
    <2> HIDE DEF Said
    <2>4. id \in Past(log, v, k) => Accounted(h, v, k, m, id)
        BY DEF Client
    <2> QED BY <1>19, <2>1, <2>2, <2>3, <2>4 DEF Accounted
<1> QED BY <1>9, <1>10, <1>11, <1>12, <1>18, <1>21, <1>22 DEF Client
-----------------------------------------------------------------------------
(* Publishing to the room. *)

LEMMA ReachIsFurthest ==
    ASSUME NEW c, NEW k \in Connections, view[c].cursor \in 0..MaxMessages
    PROVE  /\ Reach(c, k) \in 0..MaxMessages /\ view[c].cursor <= Reach(c, k)
           /\ \A id \in Ids : Tells(k.page, id) \/ Tells(k.queue, id) => id <= Reach(c, k)
<1> DEFINE on == k.page \o k.queue
           S == {view[c].cursor} \cup {e.id : e \in NewsIn(on)}
<1>1. k.page \in Seq(Events) /\ k.queue \in Seq(Events)
    BY DEF Connections
<1>2. on \in Seq(Events) /\ Joins(on, k.page, k.queue)
    BY <1>1, ConcatProperties, ConcatJoins
<1>3. \A e \in NewsIn(on) : e.id \in 1..MaxMessages
    <2>1. \A i \in DOMAIN on : on[i] \in Events
        <3> HIDE DEF on
        <3> QED BY <1>2, LenProperties, ElementOfSeq
    <2> HIDE DEF on
    <2> QED BY <2>1, NewsIs DEF NewsIn, ToSet, Ids
<1>4. S \in SUBSET (0..MaxMessages) /\ S # {} /\ MaxMessages \in Nat
    <2> HIDE DEF on
    <2> QED BY <1>3, SizesAssumption
<1>5. \A id : Tells(k.page, id) \/ Tells(k.queue, id) => id \in S
    <2> SUFFICES ASSUME NEW id, Tells(k.page, id) \/ Tells(k.queue, id) PROVE id \in S
        OBVIOUS
    <2> HIDE DEF on
    <2>1. PICK i \in DOMAIN on : on[i].type = "message" /\ on[i].id = id
        BY <1>2 DEF Tells, Joins
    <2>2. on[i] \in NewsIn(on)
        BY <2>1 DEF NewsIn, ToSet
    <2> QED BY <2>1, <2>2
<1>6. Reach(c, k) = Max(S)
    BY DEF Reach
<1> HIDE DEF S
<1>7. Max(S) \in S /\ \A n \in S : n <= Max(S)
    BY <1>4, GreatestIsThere
<1>8. view[c].cursor \in S
    BY DEF S
<1> QED BY <1>4, <1>5, <1>6, <1>7, <1>8

(* Who publishes must say what changed, and what was held back or that it is not said. *)
LEMMA PublicationKeeps ==
    ASSUME RoomInv, NEW events, NEW unsaid, Publish(events, unsaid), UNCHANGED view,
           Grows(messages, messages'), held' \in Seq(DOMAIN messages'), running' # "turn" => held' = <<>>,
           Announces(messages, messages', ToSet(held), ToSet(held'), unsaid, events)
    PROVE  RoomInv'
<1>1. ToSet(held) \subseteq DOMAIN messages
    <2>1. \A i \in DOMAIN held : held[i] \in DOMAIN messages
        BY LenProperties, ElementOfSeq DEF RoomInv
    <2> QED BY <2>1 DEF ToSet
<1>2. ASSUME NEW c \in Clients
      PROVE  Client(messages', ToSet(held'), view'[c], conn'[c], missed'[c])
    <2> DEFINE k == conn[c]
    <2> SUFFICES ASSUME NEW log, log = messages, NEW newLog, newLog = messages',
                        NEW new, new = conn'[c], NEW m, m = missed[c], NEW newM, newM = missed'[c],
                        NEW v, v = view[c]
                 PROVE  Client(newLog, ToSet(held'), v, new, newM)
        OBVIOUS
    <2>1. Client(log, ToSet(held), v, k, m) /\ k \in Connections /\ events \in Seq(Events)
        BY DEF RoomInv, Client, Stages, Announces
    <2>2. new = PutAll(k, events)
        BY DEF Publish
    <2>3. Received(k, events, Len(events), new) /\ new \in Connections
        <3>1. Received(k, events, Len(events), new)
            BY <2>1, <2>2, AllIsReceived
        <3> QED BY <3>1 DEF Received
    <2>4. v.cursor \in 0..MaxMessages
        BY <2>1, LenProperties, SizesAssumption DEF Client, ViewInOrder, Views, RoomInv, Log
    <2> DEFINE reach == Reach(c, new)
    <2>5. /\ reach \in Nat /\ v.cursor <= reach
          /\ \A id \in Ids : Tells(new.page, id) \/ Tells(new.queue, id) => id <= reach
        BY <2>3, <2>4, ReachIsFurthest
    <2>6. newM = m \cup unsaid \cup
             Unreplayed(c, new, (NewsIn(k.queue) \cup NewsIn(events)) \ NewsIn(new.queue))
        BY DEF Publish
    <2>7. m \subseteq newM /\ unsaid \subseteq newM
        BY <2>6
    <2>8. Recorded(newLog, k, events, new, reach, newM)
        <3> SUFFICES ASSUME NEW id \in DOMAIN newLog, NEW news, news = News(id, newLog[id]),
                            Has(k.queue, news) \/ Has(events, news), ~Has(new.queue, news), id <= reach
                     PROVE  id \in newM
            BY DEF Recorded
        <3>1. news.type = "message" /\ news.id = id /\ news.state = newLog[id]
            BY DEF News
        <3>2. news \in (NewsIn(k.queue) \cup NewsIn(events)) \ NewsIn(new.queue)
            BY <3>1 DEF NewsIn, ToSet, Has
        <3>3. id \in Unreplayed(c, new, (NewsIn(k.queue) \cup NewsIn(events)) \ NewsIn(new.queue))
            BY <3>1, <3>2 DEF Unreplayed
        <3> QED BY <2>6, <3>3
    <2> HIDE DEF k, reach
    <2> QED BY <1>1, <2>1, <2>3, <2>5, <2>7, <2>8, PublishKeeps
<1>3. /\ Log(messages') /\ conn' = [c \in Clients |-> conn'[c]]
      /\ view' = [c \in Clients |-> view'[c]] /\ missed' = [c \in Clients |-> missed'[c]]
    BY DEF Publish, RoomInv, Grows
<1> QED BY <1>2, <1>3 DEF RoomInv
-----------------------------------------------------------------------------
(* What those who write say. *)

(* The events say of messages how they stand. *)
Announced(newLog, events) ==
    /\ events \in Seq(Events)
    /\ \A i \in DOMAIN events : events[i] # Close /\
         (events[i].type = "message" =>
            /\ events[i].id \in DOMAIN newLog
            /\ events[i] = News(events[i].id, newLog[events[i].id]))

LEMMA NewsAreAnnounced ==
    ASSUME NEW newLog, Log(newLog), NEW ids \in Seq(DOMAIN newLog), NEW said,
           said = [i \in DOMAIN ids |-> News(ids[i], newLog[ids[i]])]
    PROVE  Announced(newLog, said) /\ \A i \in DOMAIN ids : Has(said, News(ids[i], newLog[ids[i]]))
<1>1. /\ DOMAIN ids = 1..Len(ids) /\ Len(ids) \in Nat
      /\ \A i \in DOMAIN ids : ids[i] \in DOMAIN newLog
      /\ DOMAIN newLog \subseteq Ids /\ \A id \in DOMAIN newLog : newLog[id] \in States
    <2>1. DOMAIN ids = 1..Len(ids) /\ Len(ids) \in Nat /\ \A i \in DOMAIN ids : ids[i] \in DOMAIN newLog
        BY LenProperties, ElementOfSeq
    <2>2. /\ Len(newLog) \in Nat /\ DOMAIN newLog = 1..Len(newLog) /\ Len(newLog) <= MaxMessages
          /\ \A id \in DOMAIN newLog : newLog[id] \in States
        BY LenProperties, ElementOfSeq DEF Log
    <2>3. DOMAIN newLog \subseteq Ids
        BY <2>2, SizesAssumption DEF Ids
    <2> QED BY <2>1, <2>2, <2>3
<1>2. \A i \in DOMAIN ids : said[i] \in Events
    BY <1>1 DEF Events, News
<1>3. said \in Seq(Events) /\ DOMAIN said = DOMAIN ids
    BY <1>1, <1>2, ASequence
<1>4. \A i \in DOMAIN said : /\ said[i] # Close /\ said[i].id \in DOMAIN newLog
                             /\ said[i] = News(said[i].id, newLog[said[i].id])
    BY <1>1, <1>3 DEF News, Close
<1> QED BY <1>3, <1>4 DEF Announced, Has

LEMMA MoreIsAnnounced ==
    ASSUME NEW newLog, NEW said, Announced(newLog, said), NEW rest \in Seq({Typing, Done})
    PROVE  Announced(newLog, said \o rest) /\ \A x : Has(said, x) => Has(said \o rest, x)
<1> DEFINE events == said \o rest
<1>1. rest \in Seq(Events) /\ \A i \in DOMAIN rest : rest[i] \in {Typing, Done}
    <2>1. \A i \in DOMAIN rest : rest[i] \in {Typing, Done}
        BY LenProperties, ElementOfSeq
    <2> QED BY <2>1, SequenceOf DEF Events
<1>2. said \in Seq(Events)
    BY DEF Announced
<1>3. events \in Seq(Events) /\ Joins(events, said, rest)
    BY <1>1, <1>2, ConcatProperties, ConcatJoins
<1> HIDE DEF events
<1>4. \A e \in {Typing, Done} : e # Close /\ e.type # "message"
    BY DEF Typing, Done, Close
<1>5. Announced(newLog, events)
    BY ZenonT(40), <1>1, <1>3, <1>4 DEF Announced, Joins
<1>6. \A x : Has(said, x) => Has(events, x)
    BY <1>3 DEF Has, Joins
<1> QED BY <1>5, <1>6 DEF events

(* Cards are answered, and n messages are written after what there is. *)
Written(log, ids, n, newLog) ==
    /\ Grows(log, newLog) /\ DOMAIN newLog = 1..(Len(log) + n)
    /\ \A id \in DOMAIN log : id \in DOMAIN newLog /\ (id \notin ids => newLog[id] = log[id])

LEMMA WritingGrows ==
    ASSUME NEW log, Log(log), NEW ids \in SUBSET {id \in DOMAIN log : log[id] = "pending"},
           NEW more \in Seq(States), Len(log) + Len(more) <= MaxMessages,
           NEW newLog, newLog = Answered(log, ids) \o more
    PROVE  Written(log, ids, Len(more), newLog)
<1> DEFINE answered == Answered(log, ids)
<1>1. /\ log \in Seq(States) /\ Len(log) \in Nat /\ DOMAIN log = 1..Len(log) /\ Len(more) \in Nat
      /\ \A id \in DOMAIN log : log[id] \in States
    BY LenProperties, ElementOfSeq DEF Log
<1>2. \A id \in DOMAIN log : answered[id] \in States /\ Upto(log[id], answered[id])
                              /\ (id \notin ids => answered[id] = log[id])
    BY <1>1 DEF Answered, States, Upto
<1>3. answered = [id \in 1..Len(log) |-> answered[id]]
    BY <1>1 DEF Answered
<1> HIDE DEF answered
<1>4. answered \in Seq(States) /\ Len(answered) = Len(log)
    <2>1. answered \in [1..Len(log) -> States]
        BY <1>1, <1>2, <1>3
    <2>2. answered \in Seq(States)
        BY <1>1, <2>1, ASequence
    <2>3. DOMAIN answered = 1..Len(log) /\ DOMAIN answered = 1..Len(answered) /\ Len(answered) \in Nat
        BY <2>1, <2>2, LenProperties
    <2> QED BY <1>1, <2>2, <2>3
<1>5. /\ newLog \in Seq(States) /\ Len(newLog) = Len(log) + Len(more)
      /\ \A i \in 1..(Len(log) + Len(more)) :
           newLog[i] = IF i <= Len(log) THEN answered[i] ELSE more[i - Len(log)]
    <2>1. newLog = answered \o more
        BY DEF answered
    <2>2. /\ answered \o more \in Seq(States) /\ Len(answered \o more) = Len(answered) + Len(more)
          /\ \A i \in 1..(Len(answered) + Len(more)) :
               (answered \o more)[i] = IF i <= Len(answered) THEN answered[i] ELSE more[i - Len(answered)]
        BY <1>4, ConcatProperties
    <2> QED BY <1>4, <2>1, <2>2
<1>6. DOMAIN newLog = 1..(Len(log) + Len(more))
    BY <1>5, LenProperties
<1>7. \A id \in DOMAIN log : id \in DOMAIN newLog /\ newLog[id] = answered[id]
    BY <1>1, <1>5, <1>6
<1>8. Grows(log, newLog)
    BY <1>1, <1>2, <1>5, <1>7 DEF Grows, Log
<1> QED BY <1>2, <1>6, <1>7, <1>8 DEF Written

(* Who writes to the log must tell of it, or hold it back. *)
LEMMA WritingKeeps ==
    ASSUME RoomInv, NEW ids \in SUBSET Cards,
           NEW more \in Seq(States), Len(messages) + Len(more) <= MaxMessages,
           messages' = Answered(messages, ids) \o more,
           NEW told \in Seq(DOMAIN messages'), NEW rest \in Seq({Typing, Done}), NEW unsaid, NEW events,
           events = NewsOf(told) \o rest, Publish(events, unsaid), UNCHANGED view,
           held' \in Seq(DOMAIN messages'), running' # "turn" => held' = <<>>,
           \A id \in ids \cup (Len(messages) + 1 .. Len(messages) + Len(more)) :
             id \in ToSet(told) \/ id \in ToSet(held'),
           \A id \in ToSet(held) : id \in ToSet(told) \/ id \in ToSet(held') \/ id \in unsaid
    PROVE  RoomInv'
<1> SUFFICES ASSUME NEW log, log = messages, NEW newLog, newLog = messages',
                    NEW newH, newH = ToSet(held'), NEW said, said = NewsOf(told)
             PROVE  RoomInv'
    OBVIOUS
<1>1. Log(log) /\ Len(log) \in Nat /\ DOMAIN log = 1..Len(log) /\ Len(more) \in Nat
    BY LenProperties DEF RoomInv, Log
<1>2. /\ Grows(log, newLog) /\ DOMAIN newLog = 1..(Len(log) + Len(more))
      /\ \A id \in DOMAIN log : id \in DOMAIN newLog /\ (id \notin ids => newLog[id] = log[id])
    <2>1. ids \in SUBSET {id \in DOMAIN log : log[id] = "pending"}
        BY DEF Cards
    <2>2. newLog = Answered(log, ids) \o more /\ Len(log) + Len(more) <= MaxMessages
        OBVIOUS
    <2>3. Written(log, ids, Len(more), newLog)
        BY <1>1, <2>1, <2>2, WritingGrows
    <2> QED BY <2>3 DEF Written
<1>3. Announced(newLog, said) /\ \A i \in DOMAIN told : Has(said, News(told[i], newLog[told[i]]))
    <2>1. said = [i \in DOMAIN told |-> News(told[i], newLog[told[i]])]
        BY DEF NewsOf
    <2> QED BY <1>2, <2>1, NewsAreAnnounced DEF Grows
<1>4. Announced(newLog, events) /\ \A x : Has(said, x) => Has(events, x)
    BY <1>3, MoreIsAnnounced
<1>5. \A id \in ToSet(told) : Has(events, News(id, newLog[id]))
    BY <1>3, <1>4 DEF ToSet
<1>6. \A id \in DOMAIN newLog : id \in DOMAIN log \/ id \in Len(log) + 1 .. Len(log) + Len(more)
    BY <1>1, <1>2
<1>7. \A id \in DOMAIN newLog :
         Has(events, News(id, newLog[id])) \/ id \in newH \/ (id \in DOMAIN log /\ newLog[id] = log[id])
    BY <1>2, <1>5, <1>6
<1>8. \A id \in ToSet(held) : Has(events, News(id, newLog[id])) \/ id \in newH \/ id \in unsaid
    BY <1>5
<1>9. Announces(messages, messages', ToSet(held), ToSet(held'), unsaid, events)
    BY <1>4, <1>7, <1>8 DEF Announces, Announced
<1> QED BY <1>2, <1>9, PublicationKeeps
-----------------------------------------------------------------------------
(* The actions that write. *)

LEMMA NothingAnswered ==
    ASSUME NEW log, Log(log)
    PROVE  Answered(log, {}) = log
<1>1. log = [id \in DOMAIN log |-> log[id]]
    BY LenProperties DEF Log
<1> QED BY <1>1 DEF Answered

LEMMA RoomBasics ==
    ASSUME RoomInv
    PROVE  /\ messages \in Seq(States) /\ Len(messages) \in Nat /\ DOMAIN messages = 1..Len(messages)
           /\ Answered(messages, {}) = messages /\ {} \in SUBSET Cards
           /\ held \in Seq(DOMAIN messages) /\ ToSet(held) \subseteq DOMAIN messages
<1>1. messages \in Seq(States) /\ Len(messages) \in Nat /\ DOMAIN messages = 1..Len(messages)
    BY LenProperties DEF RoomInv, Log
<1>2. held \in Seq(DOMAIN messages) /\ \A i \in DOMAIN held : held[i] \in DOMAIN messages
    BY LenProperties, ElementOfSeq DEF RoomInv
<1>3. ToSet(held) \subseteq DOMAIN messages
    BY <1>2 DEF ToSet
<1>4. Answered(messages, {}) = messages
    BY NothingAnswered DEF RoomInv
<1> QED BY <1>1, <1>2, <1>3, <1>4

(* Nothing but the texts is written, and all of them are told. *)
LEMMA SayKeeps ==
    ASSUME RoomInv, Say \/ \E job \in Jobs : Ask(job)
    PROVE  RoomInv'
<1> DEFINE more == <<"text">>
           told == <<NextId>>
<1>1. /\ messages \in Seq(States) /\ Len(messages) \in Nat /\ DOMAIN messages = 1..Len(messages)
      /\ Answered(messages, {}) = messages /\ {} \in SUBSET Cards
      /\ held \in Seq(DOMAIN messages) /\ ToSet(held) \subseteq DOMAIN messages
    BY RoomBasics
<1>2. /\ messages' = Append(messages, "text") /\ Len(messages) + 1 <= MaxMessages
      /\ UNCHANGED <<view, held, running>>
    BY DEF Say, Ask, Fits
<1>3. more \in Seq(States) /\ Len(more) = 1
    BY DEF States
<1>4. messages' = Answered(messages, {}) \o more
    BY <1>1, <1>2, AppendIsConcat DEF States
<1>5. DOMAIN messages' = 1..(Len(messages) + 1)
    BY <1>1, <1>2, AppendProperties, LenProperties DEF States
<1>6. told \in Seq(DOMAIN messages') /\ ToSet(told) = {Len(messages) + 1}
    BY <1>1, <1>5 DEF NextId, ToSet
<1>7. PICK rest \in Seq({Typing, Done}) : Publish(NewsOf(told) \o rest, {})
    <2>1. ASSUME Say PROVE Publish(NewsOf(told) \o <<>>, {})
        <3>1. NewsOf(told) \in Seq({News(Len(messages) + 1, messages'[Len(messages) + 1])})
            BY <1>1 DEF NewsOf, NextId
        <3>2. NewsOf(told) \o <<>> = NewsOf(told)
            BY <3>1, ConcatEmptySeq
        <3> QED BY <2>1, <3>2 DEF Say
    <2>2. ASSUME NEW job \in Jobs, Ask(job) PROVE Publish(NewsOf(told) \o <<Typing>>, {})
        BY <2>2 DEF Ask
    <2>3. <<>> \in Seq({Typing, Done}) /\ <<Typing>> \in Seq({Typing, Done})
        OBVIOUS
    <2> HIDE DEF told
    <2> QED BY <2>1, <2>2, <2>3
<1>8. held' = held /\ held' \in Seq(DOMAIN messages') /\ (running' # "turn" => held' = <<>>)
    <2>1. DOMAIN messages \subseteq DOMAIN messages'
        BY <1>1, <1>5
    <2> QED BY <1>1, <1>2, <2>1, SeqMonotonic DEF RoomInv
<1> HIDE DEF more, told
<1>9. \A id \in {} \cup (Len(messages) + 1 .. Len(messages) + Len(more)) :
         id \in ToSet(told) \/ id \in ToSet(held')
    BY <1>1, <1>3, <1>6
<1>10. \A id \in ToSet(held) : id \in ToSet(told) \/ id \in ToSet(held') \/ id \in {}
    BY <1>8
<1>11. Len(messages) + Len(more) <= MaxMessages /\ UNCHANGED view
    BY <1>2, <1>3
<1> QED BY <1>1, <1>3, <1>4, <1>6, <1>7, <1>8, <1>9, <1>10, <1>11, WritingKeeps

LEMMA AcquireKeeps ==
    ASSUME RoomInv, Acquire
    PROVE  RoomInv'
<1> DEFINE none == <<>>
<1>1. /\ messages \in Seq(States) /\ Len(messages) \in Nat /\ DOMAIN messages = 1..Len(messages)
      /\ Answered(messages, {}) = messages /\ {} \in SUBSET Cards
      /\ held \in Seq(DOMAIN messages) /\ ToSet(held) \subseteq DOMAIN messages
    BY RoomBasics
<1>2. messages' = messages /\ held' = held /\ held = <<>> /\ UNCHANGED view
    BY DEF Acquire, RoomInv, NoJob
<1>3. none \in Seq(States) /\ Len(none) = 0 /\ none \in Seq(DOMAIN messages') /\ messages \o none = messages
    BY <1>1, ConcatEmptySeq
<1>4. PICK rest \in Seq({Typing, Done}) : Publish(NewsOf(none) \o rest, {})
    <2>1. NewsOf(none) = <<>>
        BY DEF NewsOf
    <2>2. <<>> \in Seq({Typing, Done}) /\ <<Typing>> \in Seq({Typing, Done})
        OBVIOUS
    <2>3. <<>> \o <<>> = <<>> /\ <<>> \o <<Typing>> = <<Typing>>
        BY <2>2, ConcatEmptySeq
    <2>4. Publish(<<Typing>>, {}) \/ Publish(<<>>, {})
        BY DEF Acquire
    <2> HIDE DEF none
    <2> QED BY <2>1, <2>2, <2>3, <2>4
<1> HIDE DEF none
<1>5. \A id \in {} \cup (Len(messages) + 1 .. Len(messages) + Len(none)) :
         id \in ToSet(none) \/ id \in ToSet(held')
    BY <1>1, <1>3
<1>6. \A id \in ToSet(held) : id \in ToSet(none) \/ id \in ToSet(held') \/ id \in {}
    BY <1>2
<1>7. Len(messages) + Len(none) <= MaxMessages /\ messages' = Answered(messages, {}) \o none
    BY <1>1, <1>2, <1>3 DEF RoomInv, Log
<1>8. held' \in Seq(DOMAIN messages') /\ (running' # "turn" => held' = <<>>)
    BY <1>1, <1>2
<1> QED BY <1>1, <1>2, <1>3, <1>4, <1>5, <1>6, <1>7, <1>8, WritingKeeps

(* The card and what is posted are told. *)
LEMMA CardKeeps ==
    ASSUME RoomInv, NEW id \in Cards,
           CancelCard(id) \/ \E announced \in {0, 1} : CommitCard(id, announced)
    PROVE  RoomInv'
<1>1. /\ messages \in Seq(States) /\ Len(messages) \in Nat /\ DOMAIN messages = 1..Len(messages)
      /\ held \in Seq(DOMAIN messages) /\ ToSet(held) \subseteq DOMAIN messages
    BY RoomBasics
<1>2. PICK n \in {0, 1} :
        /\ messages' = Answered(messages, {id}) \o [i \in 1..n |-> "text"]
        /\ Len(messages) + n <= MaxMessages
        /\ Publish(NewsOf(<<id>> \o [i \in 1..n |-> NextId]), {})
        /\ UNCHANGED <<view, held, running>>
    <2>1. CASE CancelCard(id)
        <3>1. [i \in 1..0 |-> "text"] = <<>> /\ [i \in 1..0 |-> NextId] = <<>>
            OBVIOUS
        <3>2. Answered(messages, {id}) \in Seq(States)
            <4> DEFINE answered == Answered(messages, {id})
            <4>1. answered \in [1..Len(messages) -> States]
                BY <1>1, ElementOfSeq DEF Answered, States
            <4> HIDE DEF answered
            <4>2. answered \in Seq(States)
                BY <1>1, <4>1, ASequence
            <4> QED BY <4>2 DEF answered
        <3>3. Answered(messages, {id}) \o [i \in 1..0 |-> "text"] = Answered(messages, {id})
            BY <3>1, <3>2, ConcatEmptySeq
        <3>4. <<id>> \o [i \in 1..0 |-> NextId] = <<id>>
            <4>1. <<id>> \in Seq({id})
                OBVIOUS
            <4> QED BY <3>1, <4>1, ConcatEmptySeq
        <3>5. Len(messages) + 0 <= MaxMessages
            BY <1>1 DEF RoomInv, Log
        <3> QED BY <2>1, <3>3, <3>4, <3>5 DEF CancelCard
    <2>2. CASE \E announced \in {0, 1} : CommitCard(id, announced)
        BY <2>2 DEF CommitCard, Fits
    <2> QED BY <2>1, <2>2
<1> DEFINE more == [i \in 1..n |-> "text"]
           next == [i \in 1..n |-> NextId]
           told == <<id>> \o next
<1>3. n \in Nat /\ more \in Seq(States) /\ Len(more) = n /\ next \in Seq({NextId}) /\ Len(next) = n
    <2>1. n \in Nat /\ more \in [1..n -> States] /\ next \in [1..n -> {NextId}]
        BY DEF States
    <2>2. more \in Seq(States) /\ next \in Seq({NextId})
        BY <2>1, ASequence
    <2> HIDE DEF more, next
    <2>3. DOMAIN more = 1..n /\ DOMAIN more = 1..Len(more) /\ Len(more) \in Nat
        BY <2>1, <2>2, LenProperties
    <2>4. DOMAIN next = 1..n /\ DOMAIN next = 1..Len(next) /\ Len(next) \in Nat
        BY <2>1, <2>2, LenProperties
    <2> QED BY <2>1, <2>2, <2>3, <2>4
<1> HIDE DEF more
<1>4. {id} \in SUBSET Cards /\ id \in DOMAIN messages /\ messages' = Answered(messages, {id}) \o more
    BY <1>2 DEF Cards, more
<1>5. Len(messages) + Len(more) <= MaxMessages
    BY <1>2, <1>3
<1>6. DOMAIN messages' = 1..(Len(messages) + n)
    <2>1. Written(messages, {id}, n, messages')
        BY <1>3, <1>4, <1>5, WritingGrows DEF Cards, RoomInv
    <2> QED BY <2>1 DEF Written
<1>7. told \in Seq(DOMAIN messages') /\ id \in ToSet(told) /\ (n = 1 => NextId \in ToSet(told))
    <2>1. n # 0 => NextId \in DOMAIN messages'
        BY <1>1, <1>3, <1>6 DEF NextId
    <2>2. next \in Seq(DOMAIN messages') /\ <<id>> \in Seq(DOMAIN messages')
        <3>1. <<id>> \in Seq(DOMAIN messages')
            BY <1>1, <1>3, <1>4, <1>6
        <3>2. \A i \in DOMAIN next : next[i] \in DOMAIN messages'
            BY <1>3, <2>1
        <3> HIDE DEF next
        <3> QED BY <1>3, <3>1, <3>2, SequenceOf
    <2>3. n = 1 => 1 \in DOMAIN next /\ next[1] = NextId
        OBVIOUS
    <2>4. 1 \in DOMAIN <<id>> /\ <<id>>[1] = id
        OBVIOUS
    <2> HIDE DEF next
    <2>5. told \in Seq(DOMAIN messages') /\ Joins(told, <<id>>, next)
        BY <2>2, ConcatProperties, ConcatJoins
    <2> QED BY <2>3, <2>4, <2>5 DEF Joins, ToSet
<1> HIDE DEF told, next
<1>8. Publish(NewsOf(told) \o <<>>, {}) /\ <<>> \in Seq({Typing, Done})
    <2>1. NewsOf(told) = [i \in 1..Len(told) |-> NewsOf(told)[i]] /\ Len(told) \in Nat
        BY <1>7, LenProperties DEF NewsOf
    <2>2. NewsOf(told) \in Seq({NewsOf(told)[i] : i \in 1..Len(told)})
        <3>1. NewsOf(told) \in [1..Len(told) -> {NewsOf(told)[i] : i \in 1..Len(told)}]
            BY <2>1
        <3> QED BY <2>1, <3>1, ASequence
    <2>3. NewsOf(told) \o <<>> = NewsOf(told)
        BY <2>2, ConcatEmptySeq
    <2>4. Publish(NewsOf(told), {})
        BY <1>2 DEF told, next
    <2> QED BY <2>3, <2>4
<1>9. held' \in Seq(DOMAIN messages') /\ (running' # "turn" => held' = <<>>)
    <2>1. DOMAIN messages \subseteq DOMAIN messages'
        BY <1>1, <1>3, <1>6
    <2> QED BY <1>1, <1>2, <2>1, SeqMonotonic DEF RoomInv
<1>10. \A j \in {id} \cup (Len(messages) + 1 .. Len(messages) + Len(more)) :
         j \in ToSet(told) \/ j \in ToSet(held')
    <2>1. ASSUME NEW j \in Len(messages) + 1 .. Len(messages) + n PROVE j = NextId /\ n = 1
        BY <1>1, <1>3, <2>1 DEF NextId
    <2> QED BY <1>3, <1>7, <2>1
<1>11. \A j \in ToSet(held) : j \in ToSet(told) \/ j \in ToSet(held') \/ j \in {}
    BY <1>2
<1>12. UNCHANGED view
    BY <1>2
<1> QED BY <1>3, <1>4, <1>5, <1>7, <1>8, <1>9, <1>10, <1>11, <1>12, WritingKeeps

(* What is written is held back, and nothing is said. *)
LEMMA HoldingKeeps ==
    ASSUME RoomInv, Remember \/ \E id \in Cards : CancelByBot(id)
    PROVE  RoomInv'
<1>1. /\ messages \in Seq(States) /\ Len(messages) \in Nat /\ DOMAIN messages = 1..Len(messages)
      /\ Answered(messages, {}) = messages /\ {} \in SUBSET Cards
      /\ held \in Seq(DOMAIN messages) /\ ToSet(held) \subseteq DOMAIN messages
    BY RoomBasics
<1>2. PICK ids \in SUBSET Cards, more \in Seq(States), id \in DOMAIN messages' :
        /\ Written(messages, ids, Len(more), messages') /\ Len(more) \in Nat
        /\ held' = Append(held, id)
        /\ ids \cup (Len(messages) + 1 .. Len(messages) + Len(more)) \subseteq {id}
    <2>1. CASE Remember
        <3> DEFINE more == <<"pending">>
        <3>1. more \in Seq(States) /\ Len(more) = 1 /\ messages' = messages \o more
            BY <1>1, <2>1, AppendIsConcat DEF Remember, States
        <3>2. Len(messages) + Len(more) <= MaxMessages
            BY <2>1, <3>1 DEF Remember, Fits
        <3> HIDE DEF more
        <3>3. Written(messages, {}, Len(more), messages')
            BY <1>1, <3>1, <3>2, WritingGrows DEF RoomInv
        <3>4. NextId \in DOMAIN messages' /\ Len(messages) + 1 .. Len(messages) + Len(more) = {NextId}
            BY <1>1, <3>1, <3>3 DEF Written, NextId
        <3>5. held' = Append(held, NextId)
            BY <2>1 DEF Remember
        <3>6. {} \cup (Len(messages) + 1 .. Len(messages) + Len(more)) \subseteq {NextId} /\ Len(more) \in Nat
            BY <3>1, <3>4
        <3> QED BY <1>1, <3>1, <3>3, <3>4, <3>5, <3>6
    <2>2. CASE \E id \in Cards : CancelByBot(id)
        <3>1. PICK id \in Cards : CancelByBot(id)
            BY <2>2
        <3> DEFINE more == <<>>
        <3>2. more \in Seq(States) /\ Len(more) = 0
            OBVIOUS
        <3>3. messages' = Answered(messages, {id}) \o more
            <4> DEFINE answered == Answered(messages, {id})
            <4>1. answered \in [1..Len(messages) -> States]
                BY <1>1, ElementOfSeq DEF Answered, States
            <4>2. messages' = answered
                BY <3>1 DEF CancelByBot
            <4> HIDE DEF answered
            <4>3. answered \in Seq(States)
                BY <1>1, <4>1, ASequence
            <4>4. answered \o more = answered
                BY <4>3, ConcatEmptySeq
            <4> QED BY <4>2, <4>4 DEF answered
        <3> HIDE DEF more
        <3>4. Len(messages) + Len(more) <= MaxMessages
            BY <1>1, <3>2 DEF RoomInv, Log
        <3>5. Written(messages, {id}, Len(more), messages')
            BY <1>1, <3>2, <3>3, <3>4, WritingGrows DEF RoomInv, Cards
        <3>6. id \in DOMAIN messages' /\ held' = Append(held, id)
            BY <3>1, <3>5 DEF Written, Cards, CancelByBot
        <3>7. {id} \cup (Len(messages) + 1 .. Len(messages) + Len(more)) \subseteq {id} /\ Len(more) \in Nat
            BY <1>1, <3>2
        <3>8. {id} \in SUBSET Cards
            OBVIOUS
        <3> QED BY <3>2, <3>5, <3>6, <3>7, <3>8
    <2> QED BY <2>1, <2>2
<1>3. UNCHANGED <<conn, view, missed>> /\ running' = "turn"
    BY DEF Remember, CancelByBot
<1>4. /\ DOMAIN messages \subseteq DOMAIN messages'
      /\ held' \in Seq(DOMAIN messages') /\ ToSet(held') = ToSet(held) \cup {id}
    <2>1. DOMAIN messages \subseteq DOMAIN messages'
        BY <1>2 DEF Written
    <2>2. held \in Seq(DOMAIN messages')
        BY <1>1, <2>1, SeqMonotonic
    <2>3. /\ held' \in Seq(DOMAIN messages') /\ Len(held') = Len(held) + 1 /\ Len(held) \in Nat
          /\ \A i \in 1..Len(held) : held'[i] = held[i]
          /\ held'[Len(held) + 1] = id
        BY <1>2, <2>2, AppendProperties, LenProperties
    <2>4. DOMAIN held = 1..Len(held) /\ DOMAIN held' = 1..(Len(held) + 1)
        BY <2>2, <2>3, LenProperties
    <2>5. \A i \in 1..(Len(held) + 1) : i \in 1..Len(held) \/ i = Len(held) + 1
        BY <2>3
    <2>6. \A i \in 1..Len(held) : i \in 1..(Len(held) + 1)
        BY <2>3
    <2>7. Len(held) + 1 \in 1..(Len(held) + 1)
        BY <2>3
    <2> QED BY <2>1, <2>3, <2>4, <2>5, <2>6, <2>7 DEF ToSet
<1>5. Announces(messages, messages', ToSet(held), ToSet(held'), {}, <<>>)
    <2>1. \A j \in DOMAIN messages' : j \in ToSet(held') \/ (j \in DOMAIN messages /\ messages'[j] = messages[j])
        <3> SUFFICES ASSUME NEW j \in DOMAIN messages', j # id
                     PROVE  j \in DOMAIN messages /\ messages'[j] = messages[j]
            BY <1>4
        <3>1. j \notin ids /\ j \notin Len(messages) + 1 .. Len(messages) + Len(more)
            BY <1>2
        <3>2. j \in DOMAIN messages
            BY <1>1, <1>2, <3>1 DEF Written
        <3> QED BY <1>2, <3>1, <3>2 DEF Written
    <2> QED BY <1>4, <2>1 DEF Announces
<1>6. ASSUME NEW c \in Clients
      PROVE  Client(messages', ToSet(held'), view'[c], conn'[c], missed'[c])
    <2> SUFFICES ASSUME NEW k, k = conn[c], NEW v, v = view[c], NEW m, m = missed[c],
                        NEW log, log = messages, NEW newLog, newLog = messages',
                        NEW h, h = ToSet(held), NEW newH, newH = ToSet(held'), NEW events, events = <<>>
                 PROVE  Client(newLog, newH, v, k, m)
        BY <1>3
    <2>1. Client(messages, ToSet(held), v, k, m) /\ k \in Connections /\ k.queue \in Seq(Events)
        BY DEF RoomInv, Client, Stages, Connections
    <2>2. Received(k, events, Len(events), k)
        <3>1. /\ Len(k.queue) \in Nat /\ k.queue \o <<>> = k.queue /\ Len(<<>>) = 0
            BY <2>1, LenProperties, ConcatEmptySeq
        <3> QED BY <2>1, <3>1 DEF Received
    <2>3. v.cursor \in Nat /\ v.cursor <= MaxMessages
        BY <1>1, <2>1, SizesAssumption DEF Client, ViewInOrder, Views, RoomInv, Log
    <2>4. \A j \in Ids : Tells(k.page, j) \/ Tells(k.queue, j) => j <= MaxMessages
        BY SizesAssumption DEF Ids
    <2>5. Recorded(newLog, k, events, k, MaxMessages, m)
        BY DEF Recorded, Has
    <2>6. Grows(log, newLog) /\ Announces(log, newLog, h, newH, {}, events)
        BY <1>2, <1>5 DEF Written
    <2>7. {} \subseteq m /\ m \subseteq m /\ MaxMessages \in Nat
        BY SizesAssumption
    <2>8. h \subseteq DOMAIN log /\ Client(log, h, v, k, m)
        BY <1>1, <2>1
    <2> QED BY <2>2, <2>3, <2>4, <2>5, <2>6, <2>7, <2>8, PublishKeeps
<1> QED BY <1>2, <1>3, <1>4, <1>6 DEF RoomInv, Written, Grows

(* Whatever the turn held back is not told, and the history says so. *)
LEMMA JobEndKeeps ==
    ASSUME RoomInv, FailTurn \/ FinishClear
    PROVE  RoomInv'
<1>1. /\ messages \in Seq(States) /\ Len(messages) \in Nat /\ DOMAIN messages = 1..Len(messages)
      /\ Answered(messages, {}) = messages /\ {} \in SUBSET Cards
      /\ held \in Seq(DOMAIN messages) /\ ToSet(held) \subseteq DOMAIN messages
    BY RoomBasics
<1>2. PICK n \in {0, 1}, unsaid \in {{}, ToSet(held)} :
        /\ messages' = messages \o [i \in 1..n |-> "text"]
        /\ Len(messages) + n <= MaxMessages
        /\ Publish(NewsOf([i \in 1..n |-> NextId]) \o <<Done>>, unsaid)
        /\ ToSet(held) = unsaid
    <2>1. CASE FailTurn
        BY <2>1 DEF FailTurn, Fits
    <2>2. CASE FinishClear
        <3>1. ToSet(held) = {}
            BY <2>2 DEF FinishClear, RoomInv, ToSet
        <3> QED BY <2>2, <3>1 DEF FinishClear, Fits
    <2> QED BY <2>1, <2>2
<1>3. UNCHANGED view /\ held' = <<>>
    BY DEF FailTurn, FinishClear, Release
<1> DEFINE more == [i \in 1..n |-> "text"]
           told == [i \in 1..n |-> NextId]
           rest == <<Done>>
<1>4. n \in Nat /\ more \in Seq(States) /\ Len(more) = n /\ told \in Seq({NextId}) /\ DOMAIN told = 1..n
    <2>1. n \in Nat /\ more \in [1..n -> States] /\ told \in [1..n -> {NextId}]
        BY DEF States
    <2>2. more \in Seq(States) /\ told \in Seq({NextId})
        BY <2>1, ASequence
    <2> HIDE DEF more, told
    <2>3. DOMAIN more = 1..n /\ DOMAIN more = 1..Len(more) /\ Len(more) \in Nat
        BY <2>1, <2>2, LenProperties
    <2>4. DOMAIN told = 1..n
        BY <2>1
    <2> QED BY <2>1, <2>2, <2>3, <2>4
<1>5. messages' = Answered(messages, {}) \o more /\ Len(messages) + Len(more) <= MaxMessages
    <2>1. messages' = messages \o more /\ Len(messages) + n <= MaxMessages
        BY <1>2
    <2> HIDE DEF more
    <2> QED BY <1>1, <1>4, <2>1
<1>6. Publish(NewsOf(told) \o rest, unsaid) /\ rest \in Seq({Typing, Done})
    BY <1>2
<1> HIDE DEF more, rest
<1>7. DOMAIN messages' = 1..(Len(messages) + n)
    <2>1. Written(messages, {}, n, messages')
        BY <1>1, <1>4, <1>5, WritingGrows DEF RoomInv
    <2> QED BY <2>1 DEF Written
<1>8. told \in Seq(DOMAIN messages') /\ (n = 1 => NextId \in ToSet(told))
    <2>1. n # 0 => NextId \in DOMAIN messages'
        BY <1>1, <1>4, <1>7 DEF NextId
    <2>2. \A i \in DOMAIN told : told[i] \in DOMAIN messages' /\ told[i] = NextId
        BY <2>1
    <2> HIDE DEF told
    <2>3. told \in Seq(DOMAIN messages')
        BY <1>4, <2>2, SequenceOf
    <2>4. n = 1 => NextId \in ToSet(told)
        BY <1>4, <2>2 DEF ToSet
    <2> QED BY <2>3, <2>4
<1> HIDE DEF told
<1>9. held' \in Seq(DOMAIN messages') /\ (running' # "turn" => held' = <<>>)
    BY <1>3
<1>10. \A j \in {} \cup (Len(messages) + 1 .. Len(messages) + Len(more)) :
         j \in ToSet(told) \/ j \in ToSet(held')
    <2>1. ASSUME NEW j \in Len(messages) + 1 .. Len(messages) + n PROVE j = NextId /\ n = 1
        BY <1>1, <1>4, <2>1 DEF NextId
    <2> QED BY <1>4, <1>8, <2>1
<1>11. \A j \in ToSet(held) : j \in ToSet(told) \/ j \in ToSet(held') \/ j \in unsaid
    BY <1>2
<1> QED BY <1>1, <1>3, <1>4, <1>5, <1>6, <1>8, <1>9, <1>10, <1>11, WritingKeeps

(* The reply comes last, after all that the turn did to cards. *)
LEMMA FinishTurnKeeps ==
    ASSUME RoomInv, FinishTurn
    PROVE  RoomInv'
<1>1. /\ messages \in Seq(States) /\ Len(messages) \in Nat /\ DOMAIN messages = 1..Len(messages)
      /\ held \in Seq(DOMAIN messages) /\ ToSet(held) \subseteq DOMAIN messages
    BY RoomBasics
<1>2. PICK retired \in SUBSET Cards, n \in {1, 2}, new \in Seq(States),
           more \in {<<>>, <<NextId + 1>>} :
        /\ Len(new) = n /\ Len(messages) + n <= MaxMessages
        /\ messages' = Answered(messages, retired) \o new
        /\ n = 2 => more = <<NextId + 1>>
        /\ n = 1 => more = <<>>
        /\ Publish(NewsOf(held \o more \o SetToSeq(retired) \o <<NextId>>) \o <<Done>>, {})
    <2>1. PICK outcome \in Outcomes, retired \in SUBSET Cards :
            LET new  == CASE outcome = "text"  -> <<"text">>
                          [] outcome = "card"  -> <<"pending">>
                          [] outcome = "cards" -> <<"pending", "pending">>
                more == IF outcome = "cards" THEN <<NextId + 1>> ELSE <<>>
            IN  /\ Fits(Len(new))
                /\ messages' = Answered(messages, retired) \o new
                /\ Publish(NewsOfTurn(more, retired, <<NextId>>) \o <<Done>>, {})
        BY DEF FinishTurn
    <2>2. outcome \in {"text", "card", "cards"}
        BY OutcomesAssumption
    <2>3. /\ <<"text">> \in Seq(States) /\ Len(<<"text">>) = 1
          /\ <<"pending">> \in Seq(States) /\ Len(<<"pending">>) = 1
          /\ <<"pending", "pending">> \in Seq(States) /\ Len(<<"pending", "pending">>) = 2
        BY DEF States
    <2>4. CASE outcome = "text"
        <3>1. /\ Len(messages) + 1 <= MaxMessages /\ messages' = Answered(messages, retired) \o <<"text">>
              /\ Publish(NewsOf(held \o <<>> \o SetToSeq(retired) \o <<NextId>>) \o <<Done>>, {})
            <4>1. /\ Fits(Len(<<"text">>)) /\ messages' = Answered(messages, retired) \o <<"text">>
                  /\ Publish(NewsOfTurn(<<>>, retired, <<NextId>>) \o <<Done>>, {})
                BY <2>1, <2>4
            <4> QED BY <2>3, <4>1 DEF Fits, NewsOfTurn
        <3> USE <2>3 DEF States
        <3> WITNESS retired \in SUBSET Cards, 1 \in {1, 2}, <<"text">> \in Seq(States), <<>> \in {<<>>, <<NextId + 1>>}
        <3> QED BY <2>3, <3>1
    <2>5. CASE outcome = "card"
        <3>1. /\ Len(messages) + 1 <= MaxMessages /\ messages' = Answered(messages, retired) \o <<"pending">>
              /\ Publish(NewsOf(held \o <<>> \o SetToSeq(retired) \o <<NextId>>) \o <<Done>>, {})
            <4>1. /\ Fits(Len(<<"pending">>)) /\ messages' = Answered(messages, retired) \o <<"pending">>
                  /\ Publish(NewsOfTurn(<<>>, retired, <<NextId>>) \o <<Done>>, {})
                BY <2>1, <2>5
            <4> QED BY <2>3, <4>1 DEF Fits, NewsOfTurn
        <3> USE <2>3 DEF States
        <3> WITNESS retired \in SUBSET Cards, 1 \in {1, 2}, <<"pending">> \in Seq(States), <<>> \in {<<>>, <<NextId + 1>>}
        <3> QED BY <2>3, <3>1
    <2>6. CASE outcome = "cards"
        <3>1. /\ Len(messages) + 2 <= MaxMessages /\ messages' = Answered(messages, retired) \o <<"pending", "pending">>
              /\ Publish(NewsOf(held \o <<NextId + 1>> \o SetToSeq(retired) \o <<NextId>>) \o <<Done>>, {})
            <4>1. /\ Fits(Len(<<"pending", "pending">>)) /\ messages' = Answered(messages, retired) \o <<"pending", "pending">>
                  /\ Publish(NewsOfTurn(<<NextId + 1>>, retired, <<NextId>>) \o <<Done>>, {})
                BY <2>1, <2>6
            <4> QED BY <2>3, <4>1 DEF Fits, NewsOfTurn
        <3> USE <2>3 DEF States
        <3> WITNESS retired \in SUBSET Cards, 2 \in {1, 2}, <<"pending", "pending">> \in Seq(States), <<NextId + 1>> \in {<<>>, <<NextId + 1>>}
        <3> QED BY <2>3, <3>1
    <2> QED BY <2>2, <2>4, <2>5, <2>6
<1>3. UNCHANGED view /\ held' = <<>>
    BY DEF FinishTurn, Release
<1> DEFINE answered == SetToSeq(retired)
           last == <<NextId>>
           told == held \o more \o answered \o last
           rest == <<Done>>
<1>4. NextId = Len(messages) + 1 /\ NextId \in Nat /\ n \in Nat
    BY <1>1, <1>2 DEF NextId
<1>5. Written(messages, retired, n, messages')
    BY <1>1, <1>2, <1>4, WritingGrows DEF Cards, RoomInv
<1>6. /\ DOMAIN messages' = 1..(Len(messages) + n)
      /\ DOMAIN messages \subseteq DOMAIN messages' /\ NextId \in DOMAIN messages'
      /\ n = 2 => NextId + 1 \in DOMAIN messages'
    BY <1>1, <1>4, <1>5 DEF Written
<1>7. answered \in Seq(DOMAIN messages') /\ \A id \in retired : \E i \in DOMAIN answered : answered[i] = id
    <2>1. IsFiniteSet(retired)
        <3>1. IsFiniteSet(1..Len(messages)) /\ retired \subseteq 1..Len(messages)
            BY <1>1, FS_Interval DEF Cards
        <3> QED BY <3>1, FS_Subset
    <2>2. answered \in Seq(retired) /\ \A x \in retired : \E i \in 1..Len(answered) : answered[i] = x
        BY <2>1, SetToSeqCovers
    <2> HIDE DEF answered
    <2>3. DOMAIN answered = 1..Len(answered)
        BY <2>2, LenProperties
    <2>4. retired \subseteq DOMAIN messages'
        BY <1>6 DEF Cards
    <2> QED BY <2>2, <2>3, <2>4, SeqMonotonic
<1>8. held \in Seq(DOMAIN messages') /\ more \in Seq(DOMAIN messages') /\ last \in Seq(DOMAIN messages')
    <2>1. held \in Seq(DOMAIN messages')
        BY <1>1, <1>6, SeqMonotonic
    <2>2. more \in Seq(DOMAIN messages')
        <3>1. CASE more = <<>>
            BY <3>1
        <3>2. CASE more = <<NextId + 1>>
            <4>1. n = 2
                BY <1>2, <3>2
            <4> QED BY <1>6, <3>2, <4>1
        <3> QED BY <3>1, <3>2
    <2> QED BY <1>6, <2>1, <2>2
<1> HIDE DEF answered
<1>9. /\ told \in Seq(DOMAIN messages') /\ NextId \in ToSet(told)
      /\ \A id \in ToSet(held) : id \in ToSet(told)
      /\ \A id \in ToSet(more) : id \in ToSet(told)
      /\ \A id \in ToSet(answered) : id \in ToSet(told)
    <2>1. held \o more \in Seq(DOMAIN messages') /\ Joins(held \o more, held, more)
        BY <1>8, ConcatProperties, ConcatJoins
    <2>2. /\ held \o more \o answered \in Seq(DOMAIN messages')
          /\ Joins(held \o more \o answered, held \o more, answered)
        BY <1>7, <2>1, ConcatProperties, ConcatJoins
    <2>3. told \in Seq(DOMAIN messages') /\ Joins(told, held \o more \o answered, last)
        <3> HIDE DEF last
        <3> QED BY <1>8, <2>2, ConcatProperties, ConcatJoins
    <2>4. \A all, p, q : Joins(all, p, q) => ToSet(p) \subseteq ToSet(all) /\ ToSet(q) \subseteq ToSet(all)
        BY DEF Joins, ToSet
    <2>5. NextId \in ToSet(last)
        BY DEF ToSet
    <2> HIDE DEF told, last
    <2> QED BY <2>1, <2>2, <2>3, <2>4, <2>5
<1>10. Publish(NewsOf(told) \o rest, {}) /\ rest \in Seq({Typing, Done})
    BY <1>2 DEF answered
<1> HIDE DEF told, rest
<1>11. \A j \in retired \cup (Len(messages) + 1 .. Len(messages) + Len(new)) :
          j \in ToSet(told) \/ j \in ToSet(held')
    <2>1. retired \subseteq ToSet(told)
        BY <1>7, <1>9 DEF ToSet
    <2>2. n = 2 => NextId + 1 \in ToSet(told)
        <3>1. n = 2 => NextId + 1 \in ToSet(more)
            BY <1>2 DEF ToSet
        <3> QED BY <1>9, <3>1
    <2>3. ASSUME NEW j \in Len(messages) + 1 .. Len(messages) + Len(new)
          PROVE  j = NextId \/ (j = NextId + 1 /\ n = 2)
        <3>1. j \in NextId .. Len(messages) + n
            BY <1>2, <1>4
        <3>2. CASE n = 1
            BY <1>1, <1>4, <3>1, <3>2
        <3>3. CASE n = 2
            BY <1>1, <1>4, <3>1, <3>3
        <3> QED BY <3>2, <3>3
    <2> QED BY <1>9, <2>1, <2>2, <2>3
<1>12. \A j \in ToSet(held) : j \in ToSet(told) \/ j \in ToSet(held') \/ j \in {}
    BY <1>9
<1>13. held' \in Seq(DOMAIN messages') /\ (running' # "turn" => held' = <<>>)
    BY <1>3
<1> QED BY <1>2, <1>3, <1>4, <1>9, <1>10, <1>11, <1>12, <1>13, WritingKeeps
-----------------------------------------------------------------------------
(* What the streams do. *)

LEMMA OneStreamMoves ==
    ASSUME RoomInv, NEW c \in Clients, UNCHANGED <<messages, held, running>>,
           NEW k, NEW v, NEW m,
           conn' = [conn EXCEPT ![c] = k], view' = [view EXCEPT ![c] = v], missed' = [missed EXCEPT ![c] = m],
           Client(messages, ToSet(held), v, k, m)
    PROVE  RoomInv'
<1>1. /\ conn' = [d \in Clients |-> conn'[d]]
      /\ view' = [d \in Clients |-> view'[d]] /\ missed' = [d \in Clients |-> missed'[d]]
      /\ conn'[c] = k /\ view'[c] = v /\ missed'[c] = m
      /\ \A d \in Clients : d # c => conn'[d] = conn[d] /\ view'[d] = view[d] /\ missed'[d] = missed[d]
    BY DEF RoomInv
<1>2. \A d \in Clients : Client(messages', ToSet(held'), view'[d], conn'[d], missed'[d])
    <2> TAKE d \in Clients
    <2>1. CASE d = c
        BY <1>1, <2>1
    <2>2. CASE d # c
        BY <1>1, <2>2 DEF RoomInv
    <2> QED BY <2>1, <2>2
<1> QED BY <1>1, <1>2 DEF RoomInv

LEMMA LogNumbers ==
    ASSUME NEW log, Log(log)
    PROVE  /\ Len(log) \in Nat /\ DOMAIN log = 1..Len(log) /\ DOMAIN log \subseteq Ids
           /\ Ids = 1..MaxMessages /\ MaxMessages \in Nat
           /\ \A id \in DOMAIN log : log[id] \in States
<1>1. /\ Len(log) \in Nat /\ DOMAIN log = 1..Len(log) /\ Len(log) <= MaxMessages
      /\ \A id \in DOMAIN log : log[id] \in States
    BY LenProperties, ElementOfSeq DEF Log
<1> QED BY <1>1, SizesAssumption DEF Ids

(* What was on its way and the client will not ask for is lost, and the history has it. *)
LEMMA StreamEnds ==
    ASSUME NEW log, Log(log), NEW h, NEW newH, NEW v, NEW k, NEW m, Client(log, h, v, k, m),
           NEW newM, m \subseteq newM,
           \A id \in h : id \in newH \/ (id <= v.cursor => id \in newM),
           \A id \in DOMAIN log : id <= v.cursor /\
             (Has(k.page, News(id, log[id])) \/ Has(k.queue, News(id, log[id]))) => id \in newM
    PROVE  Client(log, newH, v, NoConn, newM)
<1>1. /\ NoConn \in Connections /\ NoConn.page = <<>> /\ NoConn.queue = <<>>
      /\ NoConn.mode = "away" /\ ~NoConn.subscribed
    BY DEF NoConn, Connections, Modes
<1>2. /\ Stages(NoConn) /\ PageInOrder(log, NoConn.page) /\ QueueInOrder(log, NoConn.queue, NoConn.subscribed)
      /\ SaysTheLatest(log, newH, NoConn, newM)
    BY <1>1 DEF Stages, PageInOrder, QueueInOrder, SaysTheLatest
<1>3. k \in Connections /\ k.page \in Seq(Events)
    BY DEF Client, Stages, Connections
<1>4. ASSUME NEW id \in DOMAIN log, id <= v.cursor, OnTheWay(h, k, id)
      PROVE  id \in newH \/ id \in newM
    <2>1. SaysTheLatest(log, h, k, m) /\ PageInOrder(log, k.page)
        BY DEF Client
    <2>2. CASE Tells(k.queue, id)
        <3>1. Has(k.queue, News(id, log[id])) \/ id \in h \/ id \in m
            BY <2>1, <2>2 DEF Tells, SaysTheLatest
        <3> QED BY <1>4, <3>1
    <2>3. CASE Tells(k.page, id)
        <3>1. PICK i \in DOMAIN k.page : k.page[i].type = "message" /\ k.page[i].id = id
            BY <2>3 DEF Tells
        <3>2. k.page[i].state = log[id] \/ Has(k.queue, News(id, log[id])) \/ id \in h \/ id \in m
            BY <2>1, <3>1 DEF SaysTheLatest
        <3>3. CASE k.page[i].state = log[id]
            <4>1. k.page[i] \in Events
                BY <1>3, <3>1, LenProperties, ElementOfSeq
            <4>2. k.page[i] = News(id, log[id])
                BY <3>1, <3>3, <4>1, NewsIs
            <4> QED BY <1>4, <4>2 DEF Has
        <3> QED BY <1>4, <3>2, <3>3
    <2>4. CASE id \in h
        BY <1>4, <2>4
    <2> QED BY <1>4, <2>2, <2>3, <2>4 DEF OnTheWay
<1>5. ASSUME NEW id \in Ids, v.shown[id] # Unseen
      PROVE  id \in DOMAIN log /\ id <= v.cursor
    <2>1. id <= v.cursor /\ v.cursor \in Nat /\ v.cursor <= Len(log)
        BY <1>5 DEF Client, ViewInOrder, Views
    <2> QED BY <2>1, LogNumbers
<1>6. ShowsTheLatest(log, newH, v, NoConn, newM)
    <2> SUFFICES ASSUME NEW id \in Ids, v.shown[id] # Unseen
                 PROVE  v.shown[id] = log[id] \/ id \in newM \/ id \in newH
        BY DEF ShowsTheLatest, OnTheWay
    <2>1. v.shown[id] = log[id] \/ id \in m \/ OnTheWay(h, k, id)
        BY DEF Client, ShowsTheLatest
    <2> QED BY <1>4, <1>5, <2>1
<1>7. \A id \in Past(log, v, NoConn) : Accounted(newH, v, NoConn, newM, id)
    <2> SUFFICES ASSUME NEW id \in DOMAIN log, id <= v.cursor
                 PROVE  v.shown[id] # Unseen \/ id \in newM \/ id \in newH
        BY <1>1 DEF Past, Accounted, OnTheWay
    <2>1. id \in Past(log, v, k)
        BY DEF Past
    <2>2. Accounted(h, v, k, m, id)
        BY <2>1 DEF Client
    <2> QED BY <1>4, <2>2 DEF Accounted
<1> QED BY <1>2, <1>6, <1>7 DEF Client

LEMMA ConnectKeeps ==
    ASSUME RoomInv, NEW c \in Clients, Connect(c)
    PROVE  RoomInv'
<1> DEFINE log == messages
           h == ToSet(held)
           v == view[c]
           m == missed[c]
           new == [NoConn EXCEPT !.mode = "opening", !.subscribed = TRUE]
<1>1. /\ Client(log, h, v, conn[c], m) /\ conn[c] = NoConn
    BY DEF RoomInv, Connect, Client, Stages
<1>2. /\ new \in Connections /\ new.page = <<>> /\ new.queue = <<>> /\ new.mode = "opening"
      /\ NoConn.page = <<>> /\ NoConn.queue = <<>> /\ NoConn.mode = "away"
    <2>1. NoConn \in Connections /\ NoConn.page = <<>> /\ NoConn.queue = <<>> /\ NoConn.mode = "away"
        BY DEF NoConn, Connections, Modes
    <2>2. "opening" \in Modes
        BY DEF Modes
    <2> QED BY <2>1, <2>2 DEF Connections
<1> HIDE DEF new
<1>3. /\ Stages(new) /\ PageInOrder(log, new.page) /\ QueueInOrder(log, new.queue, new.subscribed)
      /\ SaysTheLatest(log, h, new, m)
    BY <1>2 DEF Stages, PageInOrder, QueueInOrder, SaysTheLatest
<1>4. \A id : OnTheWay(h, NoConn, id) <=> OnTheWay(h, new, id)
    BY <1>2 DEF OnTheWay, Tells
<1>5. Past(log, v, new) = Past(log, v, NoConn)
    BY <1>2 DEF Past
<1> HIDE DEF log, h, v, m
<1>6. Client(log, h, v, new, m)
    BY <1>1, <1>3, <1>4, <1>5 DEF Client, ShowsTheLatest, Accounted
<1>7. /\ conn' = [conn EXCEPT ![c] = new] /\ view' = [view EXCEPT ![c] = v] /\ missed' = [missed EXCEPT ![c] = m]
      /\ UNCHANGED <<messages, held, running>>
    <2>1. view = [view EXCEPT ![c] = v] /\ missed = [missed EXCEPT ![c] = m]
        BY DEF v, m, RoomInv
    <2> QED BY <2>1 DEF Connect, new
<1> QED BY <1>6, <1>7, OneStreamMoves DEF log, h

(* What the page does not have is counted as lost. *)
LEMMA CatchUpKeeps ==
    ASSUME RoomInv, NEW c \in Clients, CatchUp(c)
    PROVE  RoomInv'
<1> DEFINE log == messages
           h == ToSet(held)
           v == view[c]
           k == conn[c]
           m == missed[c]
           page == PageAfter(v.cursor)
           new == [[k EXCEPT !.mode = "catching"] EXCEPT !.page = page]
           newM == m \cup (v.cursor + PageLimit + 1 .. Len(log))
           n == Len(log) - v.cursor
           size == IF PageLimit <= n THEN PageLimit ELSE n
<1>1. /\ Client(log, h, v, k, m) /\ Log(log) /\ k \in Connections /\ k.mode = "opening" /\ k.page = <<>>
      /\ v.cursor \in Nat /\ v.cursor <= Len(log) /\ PageLimit \in Nat
    BY SizesAssumption DEF RoomInv, CatchUp, Client, Stages, ViewInOrder, Views
<1>2. /\ Len(log) \in Nat /\ DOMAIN log = 1..Len(log) /\ DOMAIN log \subseteq Ids
      /\ \A id \in DOMAIN log : log[id] \in States
    BY <1>1, LogNumbers
<1>3. Min({PageLimit, n}) = size /\ size \in Nat /\ n \in Nat
    <2>1. n \in Nat
        BY <1>1, <1>2
    <2> HIDE DEF n
    <2>2. size \in {PageLimit, n} /\ \A y \in {PageLimit, n} : size <= y
        BY <1>1, <2>1
    <2>3. \A y \in {PageLimit, n} : (\A z \in {PageLimit, n} : y <= z) => y = size
        BY <1>1, <2>1
    <2> HIDE DEF size
    <2>4. Min({PageLimit, n}) = size
        BY <2>2, <2>3 DEF Min
    <2>5. size \in Nat
        BY <1>1, <2>1, <2>2
    <2> QED BY <2>1, <2>4, <2>5
<1>4. /\ page \in Seq(Events) /\ DOMAIN page = 1..size
      /\ \A i \in DOMAIN page : /\ v.cursor + i \in DOMAIN log
                                /\ page[i] = News(v.cursor + i, log[v.cursor + i])
    <2>1. page = [i \in 1..size |-> News(v.cursor + i, log[v.cursor + i])]
        BY <1>3 DEF PageAfter
    <2>2. \A i \in 1..size : v.cursor + i \in DOMAIN log
        BY <1>1, <1>2, <1>3
    <2>3. \A i \in 1..size : News(v.cursor + i, log[v.cursor + i]) \in Events
        BY <1>2, <2>2 DEF News, Events
    <2> HIDE DEF page, size
    <2>4. page \in [1..size -> Events]
        BY <2>1, <2>3
    <2> QED BY <1>3, <2>1, <2>2, <2>4, ASequence
<1>5. /\ new \in Connections /\ new.page = page /\ new.queue = k.queue
      /\ new.mode = "catching" /\ new.subscribed = k.subscribed
    <2> HIDE DEF page, k
    <2> QED BY <1>1, <1>4 DEF Connections, Modes
<1> HIDE DEF new, page
<1>6. \A i \in DOMAIN page : page[i].type = "message" /\ page[i].id = v.cursor + i /\ page[i].state = log[page[i].id]
    <2>1. \A id, state : /\ News(id, state).type = "message" /\ News(id, state).id = id
                         /\ News(id, state).state = state
        BY DEF News
    <2> QED BY <1>4, <2>1
<1>7. Stages(new) /\ PageInOrder(log, page)
    <2>1. \A i, j \in DOMAIN page : i # j => v.cursor + i # v.cursor + j
        BY <1>1, <1>3, <1>4
    <2>2. PageInOrder(log, page)
        BY <1>4, <1>6, <2>1 DEF PageInOrder, Upto
    <2> QED BY <1>5, <2>2 DEF Stages
<1>8. \A id : OnTheWay(h, k, id) => OnTheWay(h, new, id)
    BY <1>1, <1>5 DEF OnTheWay, Tells
<1>9. m \subseteq newM
    OBVIOUS
<1>10. \A id \in DOMAIN log : id <= v.cursor \/ id \in newM \/ Tells(page, id)
    <2> SUFFICES ASSUME NEW id \in DOMAIN log, ~(id <= v.cursor), ~(id >= v.cursor + PageLimit + 1)
                 PROVE  Tells(page, id)
        BY <1>1, <1>2
    <2>1. id - v.cursor \in 1..size /\ v.cursor + (id - v.cursor) = id
        BY <1>1, <1>2
    <2>2. page[id - v.cursor].type = "message" /\ page[id - v.cursor].id = id /\ id - v.cursor \in DOMAIN page
        BY <1>4, <1>6, <2>1
    <2> QED BY <2>2 DEF Tells
<1>11. \A id \in Past(log, v, new) : Accounted(h, v, new, newM, id)
    <2> SUFFICES ASSUME NEW id \in DOMAIN log PROVE Accounted(h, v, new, newM, id)
        BY DEF Past
    <2>1. CASE id <= v.cursor
        <3>1. Accounted(h, v, k, m, id)
            BY <1>1, <2>1 DEF Client, Past
        <3> QED BY <1>8, <1>9, <3>1 DEF Accounted
    <2>2. CASE ~(id <= v.cursor)
        BY <1>5, <1>10, <2>2 DEF Accounted, OnTheWay
    <2> QED BY <2>1, <2>2
<1> HIDE DEF newM
<1>12. Client(log, h, v, new, newM)
    <2>1. ShowsTheLatest(log, h, v, new, newM)
        BY <1>1, <1>8, <1>9 DEF Client, ShowsTheLatest
    <2>2. SaysTheLatest(log, h, new, newM)
        BY <1>1, <1>5, <1>6, <1>9 DEF Client, SaysTheLatest
    <2> QED BY <1>1, <1>5, <1>7, <1>11, <2>1, <2>2 DEF Client
<1>13. /\ conn' = [conn EXCEPT ![c] = new] /\ view' = [view EXCEPT ![c] = v]
       /\ missed' = [missed EXCEPT ![c] = newM] /\ UNCHANGED <<messages, held, running>>
    <2>1. view = [view EXCEPT ![c] = v]
        BY DEF RoomInv
    <2>2. conn' = [conn EXCEPT ![c] = new]
        BY DEF CatchUp, RoomInv, new, page
    <2> QED BY <2>1, <2>2 DEF CatchUp, newM
<1> HIDE DEF v
<1> QED BY <1>12, <1>13, OneStreamMoves

(* The client shows a piece of news, unless it has the message and the news is but text. *)
LEMMA ShownIs ==
    ASSUME NEW v \in Views, v.cursor <= MaxMessages, NEW e \in Events, e.type = "message",
           NEW w, w = Shown(v, e)
    PROVE  /\ w \in Views /\ w.cursor = (IF e.id <= v.cursor THEN v.cursor ELSE e.id)
           /\ \A id \in Ids : id # e.id => w.shown[id] = v.shown[id]
           /\ w.shown[e.id] = IF v.shown[e.id] = Unseen \/ e.state # "text" THEN e.state ELSE v.shown[e.id]
<1>1. e.id \in Ids /\ e.state \in States /\ e.id \in Nat /\ e.id <= MaxMessages /\ v.cursor \in Nat
    BY NewsIs, SizesAssumption DEF Ids, Views
<1> DEFINE furthest == IF e.id <= v.cursor THEN v.cursor ELSE e.id
           state == IF v.shown[e.id] = Unseen \/ e.state # "text" THEN e.state ELSE v.shown[e.id]
           shown == [v.shown EXCEPT ![e.id] = state]
<1>2. Max({v.cursor, e.id}) = furthest
    <2>1. furthest \in {v.cursor, e.id} /\ \A y \in {v.cursor, e.id} : furthest >= y
        BY <1>1
    <2>2. \A y \in {v.cursor, e.id} : (\A z \in {v.cursor, e.id} : y >= z) => y = furthest
        BY <1>1
    <2> HIDE DEF furthest
    <2> QED BY <2>1, <2>2 DEF Max
<1>3. v.shown \in [Ids -> States \cup {Unseen}] /\ state \in States \cup {Unseen}
    BY <1>1 DEF Views
<1>4. shown \in [Ids -> States \cup {Unseen}] /\ shown[e.id] = state /\ \A id \in Ids : id # e.id => shown[id] = v.shown[id]
    <2> HIDE DEF state
    <2> QED BY <1>1, <1>3
<1>5. w = [[v EXCEPT !.cursor = Max({v.cursor, e.id})] EXCEPT !.shown = shown]
    BY DEF Shown, Views
<1>6. furthest \in Nat
    BY <1>1
<1> HIDE DEF shown, furthest, state
<1>7. w \in Views /\ w.cursor = furthest /\ w.shown = shown
    BY <1>2, <1>4, <1>5, <1>6 DEF Views
<1> QED BY <1>4, <1>7 DEF furthest, state

(* The stream new is the stream k after the news e was taken off it. *)
TakenOff(log, h, k, m, e, new) ==
    /\ e \in Events /\ e.type = "message" /\ e.id \in DOMAIN log /\ Upto(e.state, log[e.id])
    /\ Tells(k.page, e.id) \/ Tells(k.queue, e.id)
    /\ e.state = log[e.id] \/ OnTheWay(h, new, e.id) \/ e.id \in m
    /\ \A id : Tells(new.page, id) => Tells(k.page, id)
    /\ \A id : Tells(new.queue, id) => Tells(k.queue, id)
    /\ \A id : id # e.id /\ OnTheWay(h, k, id) => OnTheWay(h, new, id)
    /\ new.mode = k.mode /\ k.mode \in {"catching", "live"} /\ new.subscribed = k.subscribed

InView(log, h, w, new, m) ==
    /\ ViewInOrder(log, w) /\ ShowsTheLatest(log, h, w, new, m)
    /\ \A id \in Past(log, w, new) : Accounted(h, w, new, m, id)

(* Showing it changes nothing for the other messages; what is shown of this one is the *)
(* latest, or more is to be said.                                                      *)
LEMMA NewsIsShown ==
    ASSUME NEW log, Log(log), NEW h, NEW v, NEW k, NEW m, Client(log, h, v, k, m),
           NEW e, NEW new, TakenOff(log, h, k, m, e, new), NEW w, w = Shown(v, e)
    PROVE  InView(log, h, w, new, m)
<1>0. /\ e \in Events /\ e.type = "message" /\ e.id \in DOMAIN log /\ Upto(e.state, log[e.id])
      /\ Tells(k.page, e.id) \/ Tells(k.queue, e.id)
      /\ e.state = log[e.id] \/ OnTheWay(h, new, e.id) \/ e.id \in m
      /\ \A id : Tells(new.page, id) => Tells(k.page, id)
      /\ \A id : Tells(new.queue, id) => Tells(k.queue, id)
      /\ \A id : id # e.id /\ OnTheWay(h, k, id) => OnTheWay(h, new, id)
      /\ new.mode = k.mode /\ k.mode \in {"catching", "live"} /\ new.subscribed = k.subscribed
    BY DEF TakenOff
<1> USE <1>0
<1>1. /\ v \in Views /\ v.cursor \in Nat /\ v.cursor <= Len(log) /\ v.cursor <= MaxMessages
      /\ Len(log) \in Nat /\ DOMAIN log = 1..Len(log) /\ DOMAIN log \subseteq Ids /\ Ids \subseteq Nat
    <2>1. /\ Len(log) \in Nat /\ DOMAIN log = 1..Len(log) /\ DOMAIN log \subseteq Ids /\ Ids \subseteq Nat
          /\ Len(log) <= MaxMessages /\ MaxMessages \in Nat
        BY LogNumbers DEF Log
    <2>2. v \in Views /\ v.cursor \in Nat /\ v.cursor <= Len(log)
        BY DEF Client, ViewInOrder, Views
    <2> QED BY <2>1, <2>2
<1>2. e.id \in Ids /\ e.state \in States /\ e.state # Unseen
    <2>1. "text" # "unseen" /\ "pending" # "unseen" /\ "answered" # "unseen"
        OBVIOUS
    <2> QED BY <2>1, NewsIs DEF States, Unseen
<1>3. /\ w \in Views /\ w.cursor = (IF e.id <= v.cursor THEN v.cursor ELSE e.id)
      /\ \A id \in Ids : id # e.id => w.shown[id] = v.shown[id]
      /\ w.shown[e.id] = IF v.shown[e.id] = Unseen \/ e.state # "text" THEN e.state ELSE v.shown[e.id]
    BY <1>1, ShownIs
<1>4. /\ w.cursor \in Nat /\ v.cursor <= w.cursor /\ e.id <= w.cursor /\ w.cursor <= Len(log)
      /\ \A id \in Ids : id <= w.cursor => id <= v.cursor \/ id <= e.id
    BY <1>1, <1>2, <1>3
<1>5. w.shown[e.id] # Unseen /\ (w.shown[e.id] = e.state \/ w.shown[e.id] = log[e.id])
    <2>1. CASE v.shown[e.id] = Unseen \/ e.state # "text"
        BY <1>2, <1>3, <2>1
    <2>2. CASE ~(v.shown[e.id] = Unseen \/ e.state # "text")
        <3>1. w.shown[e.id] = v.shown[e.id] /\ log[e.id] = "text"
            BY <1>3, <2>2 DEF Upto
        <3>2. Upto(v.shown[e.id], log[e.id])
            BY <1>2, <2>2 DEF Client, ViewInOrder
        <3> QED BY <2>2, <3>1, <3>2 DEF Upto
    <2> QED BY <2>1, <2>2
<1>6. ViewInOrder(log, w)
    <2> SUFFICES ASSUME NEW id \in Ids, w.shown[id] # Unseen
                 PROVE  id <= w.cursor /\ Upto(w.shown[id], log[id])
        BY <1>3, <1>4 DEF ViewInOrder
    <2>1. CASE id = e.id
        BY <1>4, <1>5, <2>1 DEF Upto
    <2>2. CASE id # e.id
        <3>1. id <= v.cursor /\ Upto(v.shown[id], log[id])
            BY <1>3, <2>2 DEF Client, ViewInOrder
        <3> QED BY <1>1, <1>3, <1>4, <2>2, <3>1
    <2> QED BY <2>1, <2>2
<1>7. ShowsTheLatest(log, h, w, new, m)
    <2> SUFFICES ASSUME NEW id \in Ids, w.shown[id] # Unseen
                 PROVE  w.shown[id] = log[id] \/ id \in m \/ OnTheWay(h, new, id)
        BY DEF ShowsTheLatest
    <2>1. CASE id = e.id
        BY <1>5, <2>1
    <2>2. CASE id # e.id
        BY <1>3, <2>2 DEF Client, ShowsTheLatest
    <2> QED BY <2>1, <2>2
<1>8. ASSUME NEW id \in Past(log, w, new)
      PROVE  Accounted(h, w, new, m, id)
    <2>1. id \in DOMAIN log /\ id \in Ids
        BY <1>1 DEF Past
    <2>2. CASE id = e.id
        BY <1>5, <2>2 DEF Accounted
    <2>3. CASE id # e.id
        <3>1. id \in Past(log, v, k)
            <4>1. CASE id <= w.cursor
                BY <1>4, <2>1, <4>1 DEF Past
            <4>2. CASE ~(id <= w.cursor)
                BY <1>8, <2>1, <4>2 DEF Past
            <4> QED BY <4>1, <4>2
        <3>2. Accounted(h, v, k, m, id)
            BY <3>1 DEF Client
        <3> QED BY <1>3, <2>1, <2>3, <3>2 DEF Accounted
    <2> QED BY <2>2, <2>3
<1> QED BY <1>6, <1>7, <1>8 DEF InView

LEMMA TailHas ==
    ASSUME NEW q \in Seq(Events), q # <<>>
    PROVE  /\ Tail(q) \in Seq(Events) /\ Head(q) \in Events /\ Head(q) = q[1] /\ 1 \in DOMAIN q
           /\ DOMAIN q = 1..Len(q) /\ Len(q) \in Nat /\ DOMAIN Tail(q) = 1..(Len(q) - 1) /\ Len(Tail(q)) = Len(q) - 1
           /\ \A i \in DOMAIN Tail(q) : i + 1 \in DOMAIN q /\ Tail(q)[i] = q[i + 1]
           /\ \A id : Tells(Tail(q), id) => Tells(q, id)
           /\ \A id : Tells(q, id) => Tells(Tail(q), id) \/ (Head(q).type = "message" /\ Head(q).id = id)
           /\ \A x : Has(q, x) <=> (x = Head(q) \/ Has(Tail(q), x))
<1> SUFFICES ASSUME NEW t, t = Tail(q)
             PROVE  /\ t \in Seq(Events) /\ Head(q) \in Events /\ Head(q) = q[1] /\ 1 \in DOMAIN q
                    /\ DOMAIN q = 1..Len(q) /\ Len(q) \in Nat /\ DOMAIN t = 1..(Len(q) - 1) /\ Len(t) = Len(q) - 1
                    /\ \A i \in DOMAIN t : i + 1 \in DOMAIN q /\ t[i] = q[i + 1]
                    /\ \A id : Tells(t, id) => Tells(q, id)
                    /\ \A id : Tells(q, id) => Tells(t, id) \/ (Head(q).type = "message" /\ Head(q).id = id)
                    /\ \A x : Has(q, x) <=> (x = Head(q) \/ Has(t, x))
    OBVIOUS
<1>1. /\ t \in Seq(Events) /\ Len(t) = Len(q) - 1 /\ Head(q) \in Events
      /\ \A i \in 1..Len(t) : t[i] = q[i + 1]
    BY HeadTailProperties
<1>2. Len(q) \in Nat \ {0} /\ DOMAIN q = 1..Len(q) /\ DOMAIN t = 1..Len(t) /\ Head(q) = q[1]
    BY <1>1, LenProperties, EmptySeq
<1>3. 1 \in DOMAIN q /\ \A i \in DOMAIN t : i + 1 \in DOMAIN q /\ t[i] = q[i + 1]
    BY <1>1, <1>2
<1>4. \A i \in DOMAIN q : i = 1 \/ \E j \in DOMAIN t : t[j] = q[i]
    <2> TAKE i \in DOMAIN q
    <2>1. CASE i # 1
        <3>1. i - 1 \in 1..Len(t) /\ i - 1 + 1 = i
            BY <1>1, <1>2, <2>1
        <3>2. t[i - 1] = q[i]
            BY <1>1, <3>1
        <3> QED BY <1>2, <3>1, <3>2
    <2> QED BY <2>1
<1>5. \A id : Tells(t, id) => Tells(q, id)
    BY <1>3 DEF Tells
<1>6. \A id : Tells(q, id) => Tells(t, id) \/ (Head(q).type = "message" /\ Head(q).id = id)
    BY <1>2, <1>4 DEF Tells
<1>7. \A x : Has(q, x) <=> (x = Head(q) \/ Has(t, x))
    BY <1>2, <1>3, <1>4 DEF Has
<1> QED BY <1>1, <1>2, <1>3, <1>5, <1>6, <1>7

LEMMA PageKeeps ==
    ASSUME RoomInv, NEW c \in Clients, DeliverPage(c)
    PROVE  RoomInv'
<1> SUFFICES ASSUME NEW log, log = messages, NEW h, h = ToSet(held),
                    NEW v, v = view[c], NEW k, k = conn[c], NEW m, m = missed[c],
                    NEW t, t = Tail(k.page), NEW e, e = Head(k.page),
                    NEW new, new = [k EXCEPT !.page = t], NEW w, w = Shown(v, e)
             PROVE  RoomInv'
    OBVIOUS
<1>1. /\ Client(log, h, v, k, m) /\ Log(log) /\ k \in Connections /\ k.mode = "catching"
      /\ k.page \in Seq(Events) /\ k.page # <<>> /\ PageInOrder(log, k.page) /\ SaysTheLatest(log, h, k, m)
    BY DEF RoomInv, DeliverPage, Client, Stages, Connections
<1>2. /\ t \in Seq(Events) /\ e \in Events /\ e = k.page[1] /\ 1 \in DOMAIN k.page
      /\ DOMAIN t = 1..(Len(k.page) - 1) /\ Len(k.page) \in Nat
      /\ \A i \in DOMAIN t : i + 1 \in DOMAIN k.page /\ t[i] = k.page[i + 1]
      /\ \A id : Tells(t, id) => Tells(k.page, id)
      /\ \A id : Tells(k.page, id) => Tells(t, id) \/ (e.type = "message" /\ e.id = id)
    BY <1>1, TailHas
<1>3. /\ new \in Connections /\ new.page = t /\ new.queue = k.queue
      /\ new.mode = k.mode /\ new.subscribed = k.subscribed
    BY <1>1, <1>2 DEF Connections
<1>4. e.type = "message" /\ e.id \in DOMAIN log /\ Upto(e.state, log[e.id]) /\ Tells(k.page, e.id)
    BY <1>1, <1>2 DEF PageInOrder, Tells
<1>5. e.state = log[e.id] \/ OnTheWay(h, new, e.id) \/ e.id \in m
    <2>1. e.state = log[e.id] \/ Has(k.queue, News(e.id, log[e.id])) \/ e.id \in h \/ e.id \in m
        BY <1>1, <1>2 DEF SaysTheLatest
    <2>2. Has(k.queue, News(e.id, log[e.id])) => Tells(k.queue, e.id)
        BY DEF Has, Tells, News
    <2> QED BY <1>3, <2>1, <2>2 DEF OnTheWay
<1>6. \A id : id # e.id /\ OnTheWay(h, k, id) => OnTheWay(h, new, id)
    BY <1>2, <1>3 DEF OnTheWay
<1>7. InView(log, h, w, new, m)
    <2>1. /\ \A id : Tells(new.page, id) => Tells(k.page, id)
          /\ \A id : Tells(new.queue, id) => Tells(k.queue, id)
          /\ k.mode \in {"catching", "live"} /\ new.mode = k.mode /\ new.subscribed = k.subscribed
        BY <1>1, <1>2, <1>3
    <2>2. TakenOff(log, h, k, m, e, new)
        BY <1>2, <1>4, <1>5, <1>6, <2>1 DEF TakenOff
    <2> QED BY <1>1, <2>2, NewsIsShown
<1>8. PageInOrder(log, new.page)
    <2>1. \A i \in DOMAIN t : \A j \in DOMAIN t : i # j => i + 1 # j + 1
        BY <1>2
    <2> QED BY SMTT(20), <1>1, <1>2, <1>3, <2>1 DEF PageInOrder
<1>9. Stages(new) /\ SaysTheLatest(log, h, new, m) /\ QueueInOrder(log, new.queue, new.subscribed)
    <2>1. Stages(new)
        BY <1>1, <1>3 DEF Stages
    <2>2. SaysTheLatest(log, h, new, m)
        <3>1. \A i \in DOMAIN t : LET id == t[i].id IN
                t[i].state = log[id] \/ Has(k.queue, News(id, log[id])) \/ id \in h \/ id \in m
            <4> TAKE i \in DOMAIN t
            <4>1. PICK j \in DOMAIN k.page : t[i] = k.page[j]
                BY <1>2
            <4> QED BY <1>1, <4>1 DEF SaysTheLatest
        <3> QED BY ZenonT(40), <1>1, <1>3, <3>1 DEF SaysTheLatest
    <2> QED BY <1>1, <1>3, <2>1, <2>2 DEF Client
<1>10. Client(log, h, w, new, m)
    BY <1>7, <1>8, <1>9 DEF Client, InView
<1>11. /\ conn' = [conn EXCEPT ![c] = new] /\ view' = [view EXCEPT ![c] = w] /\ missed' = [missed EXCEPT ![c] = m]
       /\ UNCHANGED <<messages, held, running>>
    <2>1. missed = [missed EXCEPT ![c] = m]
        BY DEF RoomInv
    <2> QED BY <2>1 DEF DeliverPage
<1> QED BY <1>10, <1>11, OneStreamMoves

(* Only the indicator changes. *)
LEMMA IndicatorIs ==
    ASSUME NEW v \in Views, NEW e \in {Typing, Done}
    PROVE  Shown(v, e) \in Views /\ Shown(v, e).cursor = v.cursor /\ Shown(v, e).shown = v.shown
<1>1. \/ Shown(v, e) = [v EXCEPT !.working = TRUE]
      \/ Shown(v, e) = [v EXCEPT !.working = FALSE]
    BY DEF Shown, Typing, Done
<1> QED BY <1>1 DEF Views

LEMMA ResyncKeeps ==
    ASSUME RoomInv, NEW c \in Clients, Resync(c)
    PROVE  RoomInv'
<1> SUFFICES ASSUME NEW log, log = messages, NEW h, h = ToSet(held),
                    NEW v, v = view[c], NEW k, k = conn[c], NEW m, m = missed[c],
                    NEW new, new = [k EXCEPT !.mode = "live"],
                    NEW e, e = (IF busy > 0 THEN Typing ELSE Done), NEW w, w = Shown(v, e)
             PROVE  RoomInv'
    OBVIOUS
<1>1. /\ Client(log, h, v, k, m) /\ k \in Connections /\ k.mode = "catching" /\ k.page = <<>> /\ v \in Views
    BY DEF RoomInv, Resync, Client, Stages, ViewInOrder
<1>2. w \in Views /\ w.cursor = v.cursor /\ w.shown = v.shown
    BY <1>1, IndicatorIs
<1>3. /\ new \in Connections /\ new.page = k.page /\ new.queue = k.queue
      /\ new.mode = "live" /\ new.subscribed = k.subscribed
    BY <1>1 DEF Connections, Modes
<1>4. Stages(new)
    BY <1>1, <1>3 DEF Stages
<1>5. \A id : OnTheWay(h, k, id) => OnTheWay(h, new, id)
    BY <1>3 DEF OnTheWay
<1>6. ViewInOrder(log, w) /\ SaysTheLatest(log, h, new, m)
    BY <1>1, <1>2, <1>3 DEF Client, ViewInOrder, SaysTheLatest
<1>7. ShowsTheLatest(log, h, w, new, m)
    BY <1>1, <1>2, <1>5 DEF Client, ShowsTheLatest
<1>8. \A id \in Past(log, w, new) : Accounted(h, w, new, m, id)
    <2> TAKE id \in Past(log, w, new)
    <2>1. id \in Past(log, v, k)
        BY <1>1, <1>2, <1>3 DEF Past
    <2>2. Accounted(h, v, k, m, id)
        BY <1>1, <2>1 DEF Client
    <2> QED BY <1>2, <1>5, <2>2 DEF Accounted
<1>9. Client(log, h, w, new, m)
    BY <1>1, <1>3, <1>4, <1>6, <1>7, <1>8 DEF Client
<1>10. /\ conn' = [conn EXCEPT ![c] = new] /\ view' = [view EXCEPT ![c] = w] /\ missed' = [missed EXCEPT ![c] = m]
       /\ UNCHANGED <<messages, held, running>>
    <2>1. missed = [missed EXCEPT ![c] = m]
        BY DEF RoomInv
    <2> QED BY <2>1 DEF Resync
<1> QED BY <1>9, <1>10, OneStreamMoves

(* Of what stays behind, the last word is still the latest. *)
LEMMA RestInOrder ==
    ASSUME NEW log, NEW h, NEW k \in Connections, NEW m, NEW new \in Connections,
           k.queue # <<>>, QueueInOrder(log, k.queue, k.subscribed), SaysTheLatest(log, h, k, m), k.page = <<>>,
           new.queue = Tail(k.queue), new.page = k.page, new.subscribed = k.subscribed
    PROVE  QueueInOrder(log, new.queue, new.subscribed) /\ SaysTheLatest(log, h, new, m)
<1> SUFFICES ASSUME NEW q, q = k.queue, NEW t, t = new.queue, NEW e, e = Head(q)
             PROVE  QueueInOrder(log, t, new.subscribed) /\ SaysTheLatest(log, h, new, m)
    OBVIOUS
<1>1. q \in Seq(Events) /\ q # <<>> /\ t = Tail(q)
    BY DEF Connections
<1>2. /\ t \in Seq(Events) /\ e \in Events /\ e = q[1] /\ 1 \in DOMAIN q
      /\ DOMAIN q = 1..Len(q) /\ DOMAIN t = 1..(Len(q) - 1) /\ Len(q) \in Nat /\ Len(t) = Len(q) - 1
      /\ \A i \in DOMAIN t : i + 1 \in DOMAIN q /\ t[i] = q[i + 1]
      /\ \A x : Has(q, x) <=> (x = e \/ Has(t, x))
    BY <1>1, TailHas
<1>3. /\ \A i \in DOMAIN q : q[i].type = "message" => q[i].id \in DOMAIN log /\ Upto(q[i].state, log[q[i].id])
      /\ \A i \in DOMAIN q : \A j \in DOMAIN q :
           i < j /\ q[i].type = "message" /\ q[j].type = "message" /\ q[i].id = q[j].id
             => Upto(q[i].state, q[j].state)
      /\ \A i \in DOMAIN q : q[i] = Close => i = Len(q) /\ ~k.subscribed
    BY DEF QueueInOrder
<1>4. QueueInOrder(log, t, new.subscribed)
    <2>1. \A i \in DOMAIN t : t[i].type = "message" => t[i].id \in DOMAIN log /\ Upto(t[i].state, log[t[i].id])
        <3> TAKE i \in DOMAIN t
        <3>1. PICK j \in DOMAIN q : t[i] = q[j]
            BY <1>2
        <3> QED BY <1>3, <3>1
    <2>2. \A i \in DOMAIN t : \A j \in DOMAIN t :
            i < j /\ t[i].type = "message" /\ t[j].type = "message" /\ t[i].id = t[j].id
              => Upto(t[i].state, t[j].state)
        <3> TAKE i \in DOMAIN t
        <3> TAKE j \in DOMAIN t
        <3>1. PICK a \in DOMAIN q : a = i + 1 /\ t[i] = q[a]
            BY <1>2
        <3>2. PICK b \in DOMAIN q : b = j + 1 /\ t[j] = q[b]
            BY <1>2
        <3>3. i < j => a < b
            BY <1>2, <3>1, <3>2
        <3> QED BY <1>3, <3>1, <3>2, <3>3
    <2>3. \A i \in DOMAIN t : t[i] = Close => i = Len(t) /\ ~new.subscribed
        <3> SUFFICES ASSUME NEW i \in DOMAIN t, t[i] = Close PROVE i = Len(t) /\ ~new.subscribed
            OBVIOUS
        <3>1. PICK a \in DOMAIN q : a = i + 1 /\ t[i] = q[a]
            BY <1>2
        <3>2. a = Len(q) /\ ~k.subscribed
            BY <1>3, <3>1
        <3> QED BY <1>2, <3>1, <3>2
    <2> QED BY <2>1, <2>2, <2>3 DEF QueueInOrder
<1>5. ASSUME NEW i \in DOMAIN t, t[i].type = "message", NEW id, id = t[i].id
      PROVE  Has(t, News(id, log[id])) \/ id \in h \/ id \in m
    <2>1. PICK a \in DOMAIN q : a = i + 1 /\ t[i] = q[a]
        BY <1>2
    <2>2. Has(q, News(id, log[id])) \/ id \in h \/ id \in m
        BY <1>5, <2>1 DEF SaysTheLatest
    <2>3. CASE News(id, log[id]) = e
        <3>1. e.type = "message" /\ e.id = id /\ e.state = log[id]
            BY <2>3 DEF News
        <3>2. 1 < a
            BY <1>2, <2>1
        <3>3. Upto(e.state, t[i].state) /\ Upto(t[i].state, log[id])
            BY <1>2, <1>3, <1>5, <2>1, <3>1, <3>2
        <3>4. t[i].state = log[id]
            BY <3>1, <3>3 DEF Upto
        <3>5. t[i] \in Events
            BY <1>2, LenProperties, ElementOfSeq
        <3>6. t[i] = News(id, log[id])
            BY <1>5, <3>4, <3>5, NewsIs
        <3> QED BY <3>6 DEF Has
    <2> QED BY <1>2, <2>2, <2>3
<1>6. SaysTheLatest(log, h, new, m)
    BY <1>5 DEF SaysTheLatest
<1> QED BY <1>4, <1>6

LEMMA DeliverKeeps ==
    ASSUME RoomInv, NEW c \in Clients, Deliver(c)
    PROVE  RoomInv'
<1> SUFFICES ASSUME NEW log, log = messages, NEW h, h = ToSet(held),
                    NEW v, v = view[c], NEW k, k = conn[c], NEW m, m = missed[c],
                    NEW t, t = Tail(k.queue), NEW e, e = Head(k.queue),
                    NEW rest, rest = [k EXCEPT !.queue = t],
                    NEW new, new = (IF e = Close THEN NoConn ELSE rest), NEW w, w = Shown(v, e)
             PROVE  RoomInv'
    OBVIOUS
<1>1. /\ Client(log, h, v, k, m) /\ Log(log) /\ k \in Connections /\ k.mode = "live" /\ k.page = <<>> /\ v \in Views
      /\ k.queue \in Seq(Events) /\ k.queue # <<>>
      /\ QueueInOrder(log, k.queue, k.subscribed) /\ SaysTheLatest(log, h, k, m)
    BY DEF RoomInv, Deliver, Client, Stages, Connections, ViewInOrder
<1>2. /\ t \in Seq(Events) /\ e \in Events /\ e = k.queue[1] /\ 1 \in DOMAIN k.queue /\ Len(k.queue) \in Nat
      /\ DOMAIN t = 1..(Len(k.queue) - 1)
      /\ \A id : Tells(t, id) => Tells(k.queue, id)
      /\ \A id : Tells(k.queue, id) => Tells(t, id) \/ (e.type = "message" /\ e.id = id)
      /\ \A x : Has(k.queue, x) <=> (x = e \/ Has(t, x))
    BY <1>1, TailHas
<1>3. /\ rest \in Connections /\ rest.queue = t /\ rest.page = k.page
      /\ rest.mode = k.mode /\ rest.subscribed = k.subscribed
    BY <1>1, <1>2 DEF Connections
<1>4. /\ QueueInOrder(log, rest.queue, rest.subscribed) /\ SaysTheLatest(log, h, rest, m)
      /\ Stages(rest) /\ PageInOrder(log, rest.page)
    <2>1. QueueInOrder(log, rest.queue, rest.subscribed) /\ SaysTheLatest(log, h, rest, m)
        BY <1>1, <1>3, RestInOrder
    <2>2. Stages(rest) /\ PageInOrder(log, rest.page)
        BY <1>1, <1>3 DEF Client, Stages
    <2> QED BY <2>1, <2>2
<1>5. Client(log, h, w, new, m)
    <2>1. CASE e.type = "message"
        <3>1. e.id \in DOMAIN log /\ Upto(e.state, log[e.id]) /\ Tells(k.queue, e.id)
            BY <1>1, <1>2, <2>1 DEF QueueInOrder, Tells
        <3>2. e.state = log[e.id] \/ OnTheWay(h, rest, e.id) \/ e.id \in m
            <4>1. Has(k.queue, News(e.id, log[e.id])) \/ e.id \in h \/ e.id \in m
                BY <1>1, <1>2, <2>1 DEF SaysTheLatest
            <4>2. News(e.id, log[e.id]) = e => e.state = log[e.id]
                BY DEF News
            <4>3. Has(t, News(e.id, log[e.id])) => Tells(t, e.id)
                BY DEF Has, Tells, News
            <4> QED BY <1>2, <1>3, <4>1, <4>2, <4>3 DEF OnTheWay
        <3>3. \A id : id # e.id /\ OnTheWay(h, k, id) => OnTheWay(h, rest, id)
            BY <1>2, <1>3 DEF OnTheWay
        <3>4. /\ \A id : Tells(rest.page, id) => Tells(k.page, id)
              /\ \A id : Tells(rest.queue, id) => Tells(k.queue, id)
              /\ k.mode \in {"catching", "live"} /\ rest.mode = k.mode /\ rest.subscribed = k.subscribed
            BY <1>1, <1>2, <1>3
        <3>5. TakenOff(log, h, k, m, e, rest)
            BY <1>2, <2>1, <3>1, <3>2, <3>3, <3>4 DEF TakenOff
        <3>6. InView(log, h, w, rest, m)
            BY <1>1, <3>5, NewsIsShown
        <3>7. new = rest
            BY <2>1 DEF Close
        <3> QED BY <1>4, <3>6, <3>7 DEF Client, InView
    <2>2. CASE e \in {Typing, Done}
        <3>1. e.type # "message" /\ new = rest
            BY <2>2 DEF Typing, Done, Close
        <3>2. w \in Views /\ w.cursor = v.cursor /\ w.shown = v.shown
            BY <1>1, <2>2, IndicatorIs
        <3>3. \A id : Tells(rest.queue, id) <=> Tells(k.queue, id)
            BY <1>2, <1>3, <3>1
        <3>4. \A id : OnTheWay(h, k, id) <=> OnTheWay(h, rest, id)
            BY <1>3, <3>3 DEF OnTheWay
        <3>5. Past(log, w, rest) = Past(log, v, k)
            BY <1>3, <3>2, <3>3 DEF Past
        <3>6. ViewInOrder(log, w)
            BY <1>1, <3>2 DEF Client, ViewInOrder
        <3>7. ShowsTheLatest(log, h, w, rest, m)
            BY <1>1, <3>2, <3>4 DEF Client, ShowsTheLatest
        <3>8. \A id \in Past(log, w, rest) : Accounted(h, w, rest, m, id)
            BY <1>1, <3>2, <3>4, <3>5 DEF Client, Accounted
        <3> QED BY <1>4, <3>1, <3>6, <3>7, <3>8 DEF Client
    <2>3. CASE e = Close
        <3>1. w = v /\ new = NoConn
            <4>1. e.type = "closed"
                BY <2>3 DEF Close
            <4>2. Shown(v, e) = v
                BY <4>1 DEF Shown
            <4> QED BY <2>3, <4>2
        <3>2. Len(k.queue) = 1
            BY <1>1, <1>2, <2>3 DEF QueueInOrder
        <3>3. \A id : ~Has(k.queue, News(id, log[id])) /\ ~Has(k.page, News(id, log[id]))
            <4>1. \A x : ~Has(t, x)
                BY <1>2, <3>2 DEF Has
            <4>2. \A id : News(id, log[id]) # Close
                BY DEF News, Close
            <4>3. \A x : ~Has(k.page, x)
                BY <1>1 DEF Has
            <4> QED BY <1>2, <2>3, <4>1, <4>2, <4>3
        <3>4. Client(log, h, v, NoConn, m)
            BY <1>1, <3>3, StreamEnds
        <3> QED BY <3>1, <3>4
    <2>4. e.type = "message" \/ e \in {Typing, Done} \/ e = Close
        BY <1>2 DEF Events
    <2> QED BY <2>1, <2>2, <2>3, <2>4
<1>6. /\ conn' = [conn EXCEPT ![c] = new] /\ view' = [view EXCEPT ![c] = w] /\ missed' = [missed EXCEPT ![c] = m]
      /\ UNCHANGED <<messages, held, running>>
    <2>1. missed = [missed EXCEPT ![c] = m]
        BY DEF RoomInv
    <2>2. conn' = [conn EXCEPT ![c] = new]
        BY DEF Deliver
    <2> QED BY <2>1, <2>2 DEF Deliver
<1> QED BY <1>5, <1>6, OneStreamMoves

(* What was lost of a stream that ended, as the history has it. *)
LEMMA LossesAreKnown ==
    ASSUME NEW c \in Clients, NEW log, log = messages', Log(log), NEW k \in Connections,
           view[c].cursor \in 0..MaxMessages, NEW m,
           Unreplayed(c, NoConn, NewsIn(k.page \o k.queue)) \subseteq m
    PROVE  \A id \in DOMAIN log : id <= view[c].cursor /\
             (Has(k.page, News(id, log[id])) \/ Has(k.queue, News(id, log[id]))) => id \in m
<1> SUFFICES ASSUME NEW id \in DOMAIN log, id <= view[c].cursor, NEW news, news = News(id, log[id]),
                    Has(k.page, news) \/ Has(k.queue, news)
             PROVE  id \in m
    OBVIOUS
<1>1. k.page \in Seq(Events) /\ k.queue \in Seq(Events)
    BY DEF Connections
<1>2. Joins(k.page \o k.queue, k.page, k.queue)
    BY <1>1, ConcatJoins
<1>3. \E j \in DOMAIN (k.page \o k.queue) : (k.page \o k.queue)[j] = news
    BY ZenonT(40), <1>2 DEF Joins, Has
<1>4. news.type = "message" /\ news.id = id /\ news.state = log[id]
    BY DEF News
<1>5. news \in NewsIn(k.page \o k.queue)
    BY <1>3, <1>4 DEF NewsIn, ToSet
<1>6. NoConn \in Connections
    BY DEF NoConn, Connections, Modes
<1>7. Reach(c, NoConn) \in 0..MaxMessages /\ view[c].cursor <= Reach(c, NoConn)
    BY <1>6, ReachIsFurthest
<1>8. id <= Reach(c, NoConn)
    BY <1>7, LogNumbers, SizesAssumption
<1>9. id \in Unreplayed(c, NoConn, NewsIn(k.page \o k.queue))
    BY <1>4, <1>5, <1>8 DEF Unreplayed
<1> QED BY <1>9

LEMMA BreakKeeps ==
    ASSUME RoomInv, Restart \/ \E c \in Clients : Drop(c)
    PROVE  RoomInv'
<1>1. /\ messages' = messages /\ UNCHANGED view /\ (held' = held \/ held' = <<>>)
      /\ running' # "turn" => held' = <<>>
      /\ conn' = [d \in Clients |-> conn'[d]] /\ view' = [d \in Clients |-> view'[d]]
      /\ missed' = [d \in Clients |-> missed'[d]]
    BY DEF Restart, Drop, Broken, RoomInv, NoJob
<1>2. held' \in Seq(DOMAIN messages')
    <2>1. held \in Seq(DOMAIN messages') /\ <<>> \in Seq(DOMAIN messages')
        BY <1>1, EmptySeq DEF RoomInv
    <2> QED BY <1>1, <2>1
<1>3. ASSUME NEW c \in Clients
      PROVE  Client(messages', ToSet(held'), view'[c], conn'[c], missed'[c])
    <2> SUFFICES ASSUME NEW log, log = messages', NEW h, h = ToSet(held), NEW newH, newH = ToSet(held'),
                        NEW v, v = view[c], NEW k, k = conn[c], NEW m, m = missed[c],
                        NEW new, new = conn'[c], NEW newM, newM = missed'[c]
                 PROVE  Client(log, newH, v, new, newM)
        BY <1>1
    <2>1. Client(log, h, v, k, m) /\ Log(log) /\ k \in Connections
        BY <1>1 DEF RoomInv, Client, Stages
    <2>2. v.cursor \in 0..MaxMessages
        BY <2>1, LogNumbers DEF Client, ViewInOrder, Views, Log
    <2>3. CASE new = NoConn /\ m \cup Unreplayed(c, NoConn, NewsIn(k.page \o k.queue)) \subseteq newM
               /\ \A id \in h : id \in newH \/ (id <= v.cursor => id \in newM)
        <3>1. \A id \in DOMAIN log : id <= v.cursor /\
                (Has(k.page, News(id, log[id])) \/ Has(k.queue, News(id, log[id]))) => id \in newM
            BY <2>1, <2>2, <2>3, LossesAreKnown
        <3> QED BY <2>1, <2>3, <3>1, StreamEnds
    <2>4. CASE new = k /\ newM = m /\ newH = h
        BY <2>1, <2>4
    <2>5. CASE Restart
        BY <2>3, <2>5 DEF Restart
    <2>6. CASE \E d \in Clients : Drop(d)
        <3>1. PICK d \in Clients : Drop(d)
            BY <2>6
        <3>2. newH = h
            BY <3>1 DEF Drop
        <3>3. new = (IF c = d THEN NoConn ELSE k)
            BY <3>1 DEF Drop, Broken
        <3>4. newM = m \cup (IF c = d THEN Unreplayed(c, NoConn, NewsIn(k.page \o k.queue)) ELSE {})
            BY <3>1 DEF Drop, Broken
        <3>5. CASE c = d
            BY <2>3, <3>2, <3>3, <3>4, <3>5
        <3>6. CASE c # d
            BY <2>4, <3>2, <3>3, <3>4, <3>6
        <3> QED BY <3>5, <3>6
    <2> QED BY <2>5, <2>6
<1> QED BY <1>1, <1>2, <1>3 DEF RoomInv

LEMMA StutterKeeps ==
    ASSUME RoomInv, UNCHANGED vars
    PROVE  RoomInv'
    BY DEF RoomInv, vars

LEMMA InitHolds ==
    ASSUME Init
    PROVE  RoomInv
<1>1. Log(messages) /\ held \in Seq(DOMAIN messages) /\ held = <<>>
    <2>1. messages = <<>> \/ messages = <<"pending">>
        BY DEF Init
    <2>2. messages \in Seq(States) /\ Len(messages) \in {0, 1}
        <3>1. CASE messages = <<>>
            BY <3>1, EmptySeq
        <3>2. CASE messages = <<"pending">>
            BY <3>2 DEF States
        <3> QED BY <2>1, <3>1, <3>2
    <2>3. \A n \in {0, 1} : n <= MaxMessages
        BY SizesAssumption
    <2>4. held = <<>> /\ <<>> \in Seq(DOMAIN messages)
        BY EmptySeq DEF Init
    <2> QED BY <2>2, <2>3, <2>4 DEF Log
<1>2. /\ conn = [c \in Clients |-> conn[c]]
      /\ view = [c \in Clients |-> view[c]] /\ missed = [c \in Clients |-> missed[c]]
    BY DEF Init
<1>3. ASSUME NEW c \in Clients
      PROVE  Client(messages, ToSet(held), view[c], conn[c], missed[c])
    <2> DEFINE v == view[c]
    <2>1. v = [cursor |-> 0, shown |-> [id \in Ids |-> Unseen], working |-> FALSE] /\ conn[c] = NoConn
        BY DEF Init
    <2>2. v \in Views /\ v.cursor = 0 /\ \A id \in Ids : v.shown[id] = Unseen
        BY <2>1 DEF Views
    <2>3. Len(messages) \in Nat /\ DOMAIN messages = 1..Len(messages)
        BY <1>1, LogNumbers
    <2>4. ViewInOrder(messages, v)
        BY <2>2, <2>3 DEF ViewInOrder
    <2>5. /\ NoConn \in Connections /\ NoConn.page = <<>> /\ NoConn.queue = <<>> /\ NoConn.mode = "away"
        BY DEF NoConn, Connections, Modes
    <2>6. /\ Stages(NoConn) /\ PageInOrder(messages, NoConn.page)
          /\ QueueInOrder(messages, NoConn.queue, NoConn.subscribed)
          /\ SaysTheLatest(messages, ToSet(held), NoConn, missed[c])
        BY <2>5 DEF Stages, PageInOrder, QueueInOrder, SaysTheLatest
    <2>7. ShowsTheLatest(messages, ToSet(held), v, NoConn, missed[c])
        BY <2>2 DEF ShowsTheLatest
    <2>8. Past(messages, v, NoConn) = {}
        BY <2>2, <2>3, <2>5 DEF Past
    <2> HIDE DEF v
    <2>9. Client(messages, ToSet(held), v, NoConn, missed[c])
        BY <2>4, <2>6, <2>7, <2>8 DEF Client
    <2> QED BY <2>1, <2>9 DEF v
<1> QED BY <1>1, <1>2, <1>3 DEF RoomInv

LEMMA StepKeeps ==
    ASSUME RoomInv, [Next]_vars
    PROVE  RoomInv'
<1>1. CASE Say \/ \E job \in Jobs : Ask(job)
    BY <1>1, SayKeeps
<1>2. CASE Acquire
    BY <1>2, AcquireKeeps
<1>3. CASE Remember \/ \E id \in Cards : CancelByBot(id)
    BY <1>3, HoldingKeeps
<1>4. CASE FinishTurn
    BY <1>4, FinishTurnKeeps
<1>5. CASE FailTurn \/ FinishClear
    BY <1>5, JobEndKeeps
<1>6. CASE \E id \in Cards : CancelCard(id) \/ \E announced \in {0, 1} : CommitCard(id, announced)
    BY <1>6, CardKeeps
<1>7. CASE \E c \in Clients : Connect(c) \/ CatchUp(c) \/ DeliverPage(c) \/ Resync(c) \/ Deliver(c)
    BY <1>7, ConnectKeeps, CatchUpKeeps, PageKeeps, ResyncKeeps, DeliverKeeps
<1>8. CASE Restart \/ \E c \in Clients : Drop(c)
    BY <1>8, BreakKeeps
<1>9. CASE UNCHANGED vars
    BY <1>9, StutterKeeps
<1> QED BY <1>1, <1>2, <1>3, <1>4, <1>5, <1>6, <1>7, <1>8, <1>9 DEF Next

LEMMA RoomInvHolds ==
    Init /\ [][Next]_vars => []RoomInv
<1>1. Init => RoomInv
    BY InitHolds
<1>2. RoomInv /\ [Next]_vars => RoomInv'
    BY StepKeeps
<1> QED BY <1>1, <1>2, PTL

LEMMA OnItsWayIs ==
    ASSUME RoomInv, NEW c \in Clients, NEW id, OnTheWay(ToSet(held), conn[c], id)
    PROVE  OnItsWay(c, id)
<1> DEFINE k == conn[c]
           on == k.page \o k.queue
<1>1. k.page \in Seq(Events) /\ k.queue \in Seq(Events)
    BY DEF RoomInv, Client, Stages, Connections
<1>2. Joins(on, k.page, k.queue)
    BY <1>1, ConcatJoins
<1> HIDE DEF on
<1>3. Tells(k.page, id) \/ Tells(k.queue, id) => \E j \in DOMAIN on : on[j].type = "message" /\ on[j].id = id
    BY <1>2 DEF Joins, Tells
<1>4. (\E j \in DOMAIN on : on[j].type = "message" /\ on[j].id = id) => \E e \in NewsIn(on) : e.id = id
    BY DEF NewsIn, ToSet
<1> QED BY <1>3, <1>4 DEF OnTheWay, OnItsWay, on

(* However messages, turns, catch-ups, overflows and restarts interleave, the cursor *)
(* a client comes back with passes nothing but what it shows, what is about to be    *)
(* sent, and the losses the history records: for any number of clients, any size of  *)
(* queue and page.                                                                    *)
THEOREM OnlyKnownLossesAreSkipped == Spec => []NothingElseIsSkipped
<1>1. RoomInv => NothingElseIsSkipped
    <2> SUFFICES ASSUME RoomInv, NEW c \in Clients, NEW id \in 1 .. view[c].cursor
                 PROVE  view[c].shown[id] # Unseen \/ id \in missed[c] \/ OnItsWay(c, id)
        BY DEF NothingElseIsSkipped
    <2>1. Client(messages, ToSet(held), view[c], conn[c], missed[c]) /\ Log(messages)
        BY DEF RoomInv
    <2>2. id \in Past(messages, view[c], conn[c])
        <3>1. view[c].cursor \in Nat /\ view[c].cursor <= Len(messages)
            BY <2>1 DEF Client, ViewInOrder, Views
        <3>2. id \in DOMAIN messages /\ id <= view[c].cursor
            BY <2>1, <3>1, LogNumbers
        <3> QED BY <3>2 DEF Past
    <2>3. Accounted(ToSet(held), view[c], conn[c], missed[c], id)
        BY <2>1, <2>2 DEF Client
    <2> QED BY <2>3, OnItsWayIs DEF Accounted
<1>2. Spec => Init /\ [][Next]_vars
    BY DEF Spec
<1> QED BY <1>1, <1>2, RoomInvHolds, PTL

(* A client that has received what was sent shows no card with buttons that was      *)
(* answered, by whomever: for any number of clients, any size of queue and page.     *)
THEOREM ButtonsAlwaysDisappear == Spec => []ButtonsDisappear
<1>1. RoomInv => ButtonsDisappear
    <2> SUFFICES ASSUME RoomInv, NEW c \in Clients, NEW id \in DOMAIN messages,
                        view[c].shown[id] # Unseen, id \notin missed[c], ~OnItsWay(c, id)
                 PROVE  view[c].shown[id] = messages[id]
        BY DEF ButtonsDisappear
    <2>1. Client(messages, ToSet(held), view[c], conn[c], missed[c]) /\ id \in Ids
        BY LogNumbers DEF RoomInv
    <2> QED BY <2>1, OnItsWayIs DEF Client, ShowsTheLatest
<1>2. Spec => Init /\ [][Next]_vars
    BY DEF Spec
<1> QED BY <1>1, <1>2, RoomInvHolds, PTL
=============================================================================
