--------------------------------- MODULE Room ---------------------------------
(***************************************************************************)
(* What the people of a room see: the message log, the event hub           *)
(* (backend/app/realtime.py), the stream route and the bot turns of        *)
(* backend/app/main.py and app/chat.py, and the client's reconnecting loop *)
(* (frontend/src/hooks/use-room.ts).                                       *)
(*                                                                         *)
(* One asyncio process serves the room.  A handler that does not suspend   *)
(* is one action: publishing never suspends, so a route commits and        *)
(* publishes in one step.  A bot turn suspends in the model call while it  *)
(* holds the agent lock, and a client's stream suspends between any two    *)
(* events.                                                                 *)
(*                                                                         *)
(* Left out: message texts, the agent.* progress events other than the     *)
(* start of a run, and the page the client loads before its first          *)
(* connection (a client here opened the room when it was empty).           *)
(***************************************************************************)
EXTENDS Integers, Sequences, FiniteSets, SequencesExt, FiniteSetsExt

CONSTANTS
  Clients,      \* the open browser tabs
  Outcomes,     \* what a turn may end with: "text", "card", "cards"
  Held,         \* whether tools may write or cancel a card during a turn
  QueueSize,    \* the bound of a subscriber's queue
  PageLimit,    \* and of one catch-up
  MaxMessages, MaxBreaks      \* bounds

ASSUME SizesAssumption == QueueSize \in Nat \ {0} /\ PageLimit \in Nat /\ MaxMessages \in Nat \ {0}
ASSUME OutcomesAssumption == Outcomes \subseteq {"text", "card", "cards"}

VARIABLES
  messages,     \* messages[id]: "text", or a card's state
  waiting,      \* jobs waiting for the agent lock, first come first served
  running,      \* the job that holds it
  held,         \* cards written or cancelled during the turn, unpublished
  busy,         \* RoomHub._busy
  conn,         \* conn[c]: the stream of client c and its queue
  view,         \* view[c]: what client c displays
  missed,       \* history: message ids whose news will not be replayed to c
  breaks

vars == <<messages, waiting, running, held, busy, conn, view, missed, breaks>>

Jobs   == {"turn", "clear"}
NoJob  == "none"
States == {"text", "pending", "answered"}
Unseen == "unseen"
Ids    == 1 .. MaxMessages

News(id, state) == [type |-> "message", id |-> id, state |-> state]
Typing == [type |-> "typing"]
Done   == [type |-> "done"]
Close  == [type |-> "closed"]
Events == [type : {"message"}, id : Ids, state : States] \cup {Typing, Done, Close}

(* A stream is "away" (no connection), "opening" (subscribed, nothing      *)
(* read), "catching" up, or "live".  It may be live and unsubscribed.      *)
Modes  == {"away", "opening", "catching", "live"}
NoConn == [mode |-> "away", subscribed |-> FALSE, page |-> <<>>, queue |-> <<>>]

----------------------------------------------------------------------------
(* Publishing. *)

(* Mutant: the newest event is lost and the stream goes on. *)
PutOrLose(k, event) ==
  IF k.subscribed /\ Len(k.queue) < QueueSize
  THEN [k EXCEPT !.queue = Append(@, event)] ELSE k

(* Mutant: the stream is not told to close. *)
PutWithoutClose(k, event) ==
  CASE ~k.subscribed -> k
    [] k.subscribed /\ Len(k.queue) < QueueSize -> [k EXCEPT !.queue = Append(@, event)]
    [] OTHER                      -> [k EXCEPT !.subscribed = FALSE]

(* RoomHub.publish, for one subscriber: a full queue loses its oldest      *)
(* event and the subscription, and ends with the order to close.           *)
Put(k, event) ==
  CASE ~k.subscribed -> k
    [] k.subscribed /\ Len(k.queue) < QueueSize -> [k EXCEPT !.queue = Append(@, event)]
    [] OTHER -> [k EXCEPT !.subscribed = FALSE, !.queue = Append(Tail(@), Close)]

(* What one publication after the other leaves of a stream. *)
Puts(k, events) ==
  LET put[n \in 0..Len(events)] == IF n = 0 THEN k ELSE Put(put[n - 1], events[n])
  IN  put
PutAll(k, events) == Puts(k, events)[Len(events)]

NewsIn(events) == {e \in ToSet(events) : e.type = "message"}
(* The id the client's cursor will have reached on this connection. *)
Reach(c, k) == Max({view[c].cursor} \cup {e.id : e \in NewsIn(k.page \o k.queue)})

(* The news among "lost" that tells the latest state of a message the      *)
(* client will not ask for again.                                          *)
Unreplayed(c, k, lost) ==
  {e.id : e \in {n \in lost : n.state = messages'[n.id] /\ n.id <= Reach(c, k)}}

(* Everyone subscribed gets the events; nobody gets the news of "unsaid".  *)
(* Mentions messages', which the caller sets first.                        *)
Publish(events, unsaid) ==
  /\ conn' = [c \in Clients |-> PutAll(conn[c], events)]
  /\ missed' = [c \in Clients |-> missed[c] \cup unsaid \cup
       Unreplayed(c, conn'[c], (NewsIn(conn[c].queue) \cup NewsIn(events))
                                 \ NewsIn(conn'[c].queue))]

----------------------------------------------------------------------------
(* The log, and those who write to it. *)
Fits(n)   == Len(messages) + n <= MaxMessages
NextId    == Len(messages) + 1
Cards     == {id \in DOMAIN messages : messages[id] = "pending"}
Answered(log, ids) == [id \in DOMAIN log |-> IF id \in ids THEN "answered" ELSE log[id]]
NewsOf(ids) == [i \in DOMAIN ids |-> News(ids[i], messages'[ids[i]])]

(* post_message with no business for the bot, or a route that posts. *)
Say ==
  /\ Fits(1)
  /\ messages' = Append(messages, "text")
  /\ Publish(NewsOf(<<NextId>>), {})
  /\ UNCHANGED <<waiting, running, held, busy, view, breaks>>

(* post_message that mentions the bot or answers it, or says /clear: the   *)
(* job is queued behind whoever waits for the agent lock.                  *)
Ask(job) ==
  /\ Fits(1)
  /\ messages' = Append(messages, "text")
  /\ waiting' = Append(waiting, job)
  /\ busy' = busy + 1
  /\ Publish(NewsOf(<<NextId>>) \o <<Typing>>, {})
  /\ UNCHANGED <<running, held, view, breaks>>

(* The lock is free and the first in line takes it; a turn announces its   *)
(* run.                                                                    *)
Acquire ==
  /\ running = NoJob /\ waiting # <<>>
  /\ running' = Head(waiting)
  /\ waiting' = Tail(waiting)
  /\ messages' = messages
  /\ Publish(IF Head(waiting) = "turn" THEN <<Typing>> ELSE <<>>, {})
  /\ UNCHANGED <<held, busy, view, breaks>>

(* The remember and forget tools write a memo card during the turn. *)
Remember ==
  /\ Held /\ running = "turn"
  /\ Fits(1)
  /\ messages' = Append(messages, "pending")
  /\ held' = Append(held, NextId)
  /\ UNCHANGED <<waiting, running, busy, conn, view, missed, breaks>>

(* The cancel_draft tool. *)
CancelByBot(id) ==
  /\ Held /\ running = "turn"
  /\ messages' = Answered(messages, {id})
  /\ held' = Append(held, id)
  /\ UNCHANGED <<waiting, running, busy, conn, view, missed, breaks>>

(* The job ends: the lock is released, the room marked idle.               *)
Release ==
  /\ running' = NoJob
  /\ held' = <<>>
  /\ busy' = IF busy > 0 THEN busy - 1 ELSE busy
  /\ UNCHANGED <<waiting, view, breaks>>

(* Mutant: the cards a turn retires are not published again. *)
NewsOfTurnQuietly(more, retired, reply) == NewsOf(held \o more \o reply)

(* What a finished turn publishes: the cards its tools wrote or cancelled, *)
(* the further cards, the cards they retire and at last the reply.         *)
NewsOfTurn(more, retired, reply) ==
  NewsOf(held \o more \o SetToSeq(retired) \o reply)

(* run_bot_turn and the rest of _run.  Of several cards the first is the   *)
(* reply.                                                                  *)
FinishTurn ==
  /\ running = "turn"
  /\ \E outcome \in Outcomes, retired \in SUBSET Cards :
       LET new  == CASE outcome = "text"  -> <<"text">>
                     [] outcome = "card"  -> <<"pending">>
                     [] outcome = "cards" -> <<"pending", "pending">>
           more == IF outcome = "cards" THEN <<NextId + 1>> ELSE <<>>
       IN
       /\ outcome = "text" => retired = {}
       /\ Fits(Len(new))
       /\ messages' = Answered(messages, retired) \o new
       /\ Publish(NewsOfTurn(more, retired, <<NextId>>) \o <<Done>>, {})
  /\ Release

(* The turn raises: an apology is posted, or that fails too; nobody        *)
(* publishes what its tools did.                                           *)
FailTurn ==
  /\ running = "turn"
  /\ \E posted \in {0, 1} :
       /\ Fits(posted)
       /\ messages' = messages \o [i \in 1 .. posted |-> "text"]
       /\ Publish(NewsOf([i \in 1 .. posted |-> NextId]) \o <<Done>>, ToSet(held))
  /\ Release

(* _run_clear: the divider is posted, or the summary failed. *)
FinishClear ==
  /\ running = "clear"
  /\ \E posted \in {0, 1} :
       /\ Fits(posted)
       /\ messages' = messages \o [i \in 1 .. posted |-> "text"]
       /\ Publish(NewsOf([i \in 1 .. posted |-> NextId]) \o <<Done>>, {})
  /\ Release

(* The commit routes wait for the lock and hold it for one step: the card  *)
(* is answered and, for money, the record announced.                       *)
CommitCard(id, announced) ==
  /\ running = NoJob
  /\ Fits(announced)
  /\ messages' = Answered(messages, {id}) \o [i \in 1 .. announced |-> "text"]
  /\ Publish(NewsOf(<<id>> \o [i \in 1 .. announced |-> NextId]), {})
  /\ UNCHANGED <<waiting, running, held, busy, view, breaks>>

(* patch_draft with status cancelled: it does not take the lock. *)
CancelCard(id) ==
  /\ messages' = Answered(messages, {id})
  /\ Publish(NewsOf(<<id>>), {})
  /\ UNCHANGED <<waiting, running, held, busy, view, breaks>>

----------------------------------------------------------------------------
(* The stream and the client. *)

(* mergeEvent, and the cursor of the loop around it. *)
Shown(v, event) ==
  CASE event.type = "message" ->
         [v EXCEPT !.cursor = Max({@, event.id}),
                   !.shown[event.id] =
                      IF @ = Unseen \/ event.state # "text" THEN event.state ELSE @]
    [] event.type = "typing"  -> [v EXCEPT !.working = TRUE]
    [] event.type = "done"    -> [v EXCEPT !.working = FALSE]
    [] OTHER                  -> v

(* The client (re)connects and the route subscribes it. *)
Connect(c) ==
  /\ conn[c].mode = "away"
  /\ conn' = [conn EXCEPT ![c] = [NoConn EXCEPT !.mode = "opening", !.subscribed = TRUE]]
  /\ UNCHANGED <<messages, waiting, running, held, busy, view, missed, breaks>>

(* list_messages: what comes after the cursor, at most one page of it. *)
PageAfter(cursor) ==
  [i \in 1 .. Min({PageLimit, Len(messages) - cursor}) |->
     News(cursor + i, messages[cursor + i])]

(* The generator reads the page; what does not fit on it is not fetched    *)
(* again on this connection.                                               *)
CatchUp(c) ==
  LET page == PageAfter(view[c].cursor) IN
  /\ conn[c].mode = "opening"
  /\ conn' = [conn EXCEPT ![c].mode = "catching", ![c].page = page]
  /\ missed' = [missed EXCEPT ![c] = @ \cup (view[c].cursor + PageLimit + 1 .. Len(messages))]
  /\ UNCHANGED <<messages, waiting, running, held, busy, view, breaks>>

DeliverPage(c) ==
  /\ conn[c].mode = "catching" /\ conn[c].page # <<>>
  /\ view' = [view EXCEPT ![c] = Shown(@, Head(conn[c].page))]
  /\ conn' = [conn EXCEPT ![c].page = Tail(@)]
  /\ UNCHANGED <<messages, waiting, running, held, busy, missed, breaks>>

(* Mutant: an idle room is not mentioned. *)
ResyncBusyOnly(c) ==
  /\ conn[c].mode = "catching" /\ conn[c].page = <<>>
  /\ view' = [view EXCEPT ![c] = IF busy > 0 THEN Shown(@, Typing) ELSE @]
  /\ conn' = [conn EXCEPT ![c].mode = "live"]
  /\ UNCHANGED <<messages, waiting, running, held, busy, missed, breaks>>

(* After the page the indicator is set to what the room is doing. *)
Resync(c) ==
  /\ conn[c].mode = "catching" /\ conn[c].page = <<>>
  /\ view' = [view EXCEPT ![c] = Shown(@, IF busy > 0 THEN Typing ELSE Done)]
  /\ conn' = [conn EXCEPT ![c].mode = "live"]
  /\ UNCHANGED <<messages, waiting, running, held, busy, missed, breaks>>

Deliver(c) ==
  /\ conn[c].mode = "live" /\ conn[c].queue # <<>>
  /\ view' = [view EXCEPT ![c] = Shown(@, Head(conn[c].queue))]
  /\ conn' = IF Head(conn[c].queue) = Close THEN [conn EXCEPT ![c] = NoConn]
             ELSE [conn EXCEPT ![c].queue = Tail(@)]
  /\ UNCHANGED <<messages, waiting, running, held, busy, missed, breaks>>

(* Connections break, and what was on its way is gone. *)
Broken(cs) ==
  /\ messages' = messages
  /\ conn' = [c \in Clients |-> IF c \in cs THEN NoConn ELSE conn[c]]
  /\ missed' = [c \in Clients |-> missed[c] \cup
       IF c \in cs THEN Unreplayed(c, NoConn, NewsIn(conn[c].page \o conn[c].queue)) ELSE {}]

Drop(c) ==
  /\ conn[c].mode # "away"
  /\ breaks < MaxBreaks
  /\ breaks' = breaks + 1
  /\ Broken({c})
  /\ UNCHANGED <<waiting, running, held, busy, view>>

(* The process restarts: jobs, queues and the busy count are in memory.    *)
(* The clients notice and come back.                                       *)
Restart ==
  /\ breaks < MaxBreaks
  /\ breaks' = breaks + 1
  /\ messages' = messages
  /\ waiting' = <<>> /\ running' = NoJob /\ held' = <<>> /\ busy' = 0
  /\ conn' = [c \in Clients |-> NoConn]
  /\ missed' = [c \in Clients |-> missed[c]
       \cup Unreplayed(c, NoConn, NewsIn(conn[c].page \o conn[c].queue))
       \cup {id \in ToSet(held) : id <= view[c].cursor}]
  /\ UNCHANGED view

(* A room may already hold a card. *)
Init ==
  /\ messages \in {<<>>, <<"pending">>}
  /\ waiting = <<>> /\ running = NoJob /\ held = <<>> /\ busy = 0
  /\ conn = [c \in Clients |-> NoConn]
  /\ view = [c \in Clients |-> [cursor |-> 0, shown |-> [id \in Ids |-> Unseen], working |-> FALSE]]
  /\ missed = [c \in Clients |-> {}]
  /\ breaks = 0

Proceed(c) == Connect(c) \/ CatchUp(c) \/ DeliverPage(c) \/ Resync(c) \/ Deliver(c)
JobEnds    == FinishTurn \/ FailTurn \/ FinishClear

Next ==
  \/ Say \/ Acquire \/ Remember \/ FinishTurn \/ FailTurn \/ FinishClear
  \/ \E job \in Jobs : Ask(job)
  \/ \E id \in Cards : CancelByBot(id) \/ CancelCard(id)
  \/ \E id \in Cards, announced \in {0, 1} : CommitCard(id, announced)
  \/ \E c \in Clients : Connect(c) \/ CatchUp(c) \/ DeliverPage(c) \/ Resync(c) \/ Deliver(c)
  \/ \E c \in Clients : Drop(c)
  \/ Restart

(* A client whose stream ends reconnects after two seconds and a stream    *)
(* that can send does; the lock is handed on; and a turn ends, because the *)
(* engine cuts it off after PI_MAX_SECONDS.                                *)
Fairness ==
  /\ \A c \in Clients : WF_vars(Proceed(c))
  /\ WF_vars(Acquire)
  /\ WF_vars(JobEnds)

Spec == Init /\ [][Next]_vars /\ Fairness

----------------------------------------------------------------------------
TypeOK ==
  /\ messages \in Seq(States) /\ Len(messages) <= MaxMessages
  /\ waiting \in Seq(Jobs) /\ running \in Jobs \cup {NoJob}
  /\ ToSet(held) \subseteq DOMAIN messages
  /\ busy \in Nat
  /\ \A c \in Clients :
       /\ conn[c].mode \in Modes /\ conn[c].subscribed \in BOOLEAN
       /\ conn[c].page \in Seq(Events)
       /\ conn[c].queue \in Seq(Events) /\ Len(conn[c].queue) <= QueueSize
       /\ view[c].cursor \in 0 .. Len(messages)
       /\ view[c].shown \in [Ids -> States \cup {Unseen}]
       /\ view[c].working \in BOOLEAN
       /\ missed[c] \subseteq DOMAIN messages

OnItsWay(c, id) ==
  \/ \E e \in NewsIn(conn[c].page \o conn[c].queue) : e.id = id
  \/ id \in ToSet(held)

(* The cursor a client reconnects with never passes a message that it has  *)
(* not shown, is not about to be sent, and is not one of the losses the    *)
(* history records: however messages, turns, catch-ups, overflows and      *)
(* restarts interleave, nothing else is ever skipped (the comment in       *)
(* stream() on subscribing before the catch-up is read).                   *)
NothingElseIsSkipped ==
  \A c \in Clients :
    \A id \in 1 .. view[c].cursor :
      view[c].shown[id] # Unseen \/ id \in missed[c] \/ OnItsWay(c, id)

(* Once an open client has received what was sent, no card it shows still  *)
(* has buttons after the card was answered, whoever answered it (the       *)
(* comment of kernos.persist.cards on republishing, and mergeEvent's).     *)
ButtonsDisappear ==
  \A c \in Clients :
    conn[c].mode = "live" /\ conn[c].subscribed =>
      \A id \in DOMAIN messages :
        view[c].shown[id] # Unseen /\ id \notin missed[c] /\ ~OnItsWay(c, id)
          => view[c].shown[id] = messages[id]

(* No client is left showing a bot at work, though the event that ends a   *)
(* turn may be lost with a connection, an overflow or a restart (the       *)
(* comments of RoomHub and stream()).                                      *)
IndicatorSettles ==
  \A c \in Clients : view[c].working ~> ~view[c].working

(* Every message reaches every client, except the recorded losses. *)
EverythingArrives ==
  \A c \in Clients, id \in Ids :
    id \in DOMAIN messages ~> (view[c].shown[id] # Unseen \/ id \in missed[c])

(* What the repository says and the code does not do (see README.md).      *)
(* The design of the stream: "`since` lets a reconnecting client catch up  *)
(* gap-free; on subscriber-queue overflow the server closes the stream     *)
(* rather than silently dropping events".                                  *)
ReconnectIsGapFree ==
  \A c \in Clients :
    conn[c].mode = "live" /\ conn[c].queue = <<>> /\ held = <<>> =>
      \A id \in 1 .. view[c].cursor : view[c].shown[id] # Unseen
=============================================================================
