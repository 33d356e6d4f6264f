-------------------------------- MODULE Engine --------------------------------
(***************************************************************************)
(* The sidecar bridge: requests (a turn, a sub-agent's turn, a summary, a  *)
(* ping) share one child process and its pipes; replies are told apart by  *)
(* req_id.  Each request calls tools back in Python, and the child may die *)
(* at any moment: Python learns of it twice, from the closed stdout and    *)
(* from the exit status, in either order.                                  *)
(*                                                                         *)
(* Python steps are the stretches between awaits of one event loop.  A     *)
(* write to a dead child raises.  A command is handled as it is written: a *)
(* child that dies before reading it cannot be told from one that dies     *)
(* after.  Each session numbers its calls itself, so numbers collide.      *)
(***************************************************************************)
EXTENDS Naturals, Sequences

CONSTANTS
    Reqs,        \* request ids
    MaxCalls,    \* bound on the tool calls of one request
    MaxDeaths,   \* bound on the deaths of the child
    MaxBadLines  \* bound on lines of stdout the read loop raises on

VARIABLES
    process,     \* the child: how many there have been, and what became of it
    reader,      \* is the read loop running?
    lock,        \* who is starting the child, and at which attempt
    queues,      \* queue of each registered request
    inbox,       \* replies waiting for a request, in order
    pc,          \* where each request is
    outcome,     \* what it ended with
    sentTo,      \* the child each request was sent to
    blame,       \* the children whose death a request was told of (history)
    session,     \* the child's session of each request
    calls,       \* tool calls each session has made
    pending,     \* the child's unanswered tool calls: whose they are, by key
    crossed,     \* sessions given the result of another's call (history)
    stdout,      \* lines the child has written, unread
    badLines

vars == <<process, reader, lock, queues, inbox, pc, outcome, sentTo, blame, session, calls,
          pending, crossed, stdout, badLines>>
child == <<session, calls, pending, crossed, stdout>>

LAUNCH_RETRIES == 3
NoOne == [who |-> "nobody", attempt |-> 0]

Line(r, type) == [req |-> r, type |-> type]

Init ==
    /\ process = [n |-> 0, state |-> "none", seen |-> FALSE]
    /\ reader = FALSE /\ lock = NoOne /\ queues = {}
    /\ inbox = [r \in Reqs |-> <<>>] /\ pc = [r \in Reqs |-> "idle"]
    /\ outcome = [r \in Reqs |-> "none"] /\ sentTo = [r \in Reqs |-> 0]
    /\ blame = [r \in Reqs |-> {}]
    /\ session = [r \in Reqs |-> "none"] /\ calls = [r \in Reqs |-> 0]
    /\ pending = <<>> /\ crossed = {} /\ stdout = <<>> /\ badLines = 0
-----------------------------------------------------------------------------

Usable == process.state # "none" /\ ~process.seen

\* Waking every waiter: a fatal on each queue there is.
Wake(n) ==
    /\ inbox' = [r \in Reqs |-> IF r \in queues THEN Append(inbox[r], "fatal") ELSE inbox[r]]
    /\ blame' = [r \in Reqs |-> IF r \in queues THEN blame[r] \cup {n} ELSE blame[r]]

\* Mutant of WakeAll: the loop ends without a word.
WakeNobody(n) == UNCHANGED <<inbox, blame>>

\* The read loop's finally.
WakeAll(n) == Wake(n)

\* Mutant of Key: by the call id alone.
KeyOfCall(r, call) == call

\* pendingKey.
Key(r, call) == <<r, call>>

\* A tool result reaches the child: it settles the call under its key, or is
\* reported as stray.
Resolve(r) ==
    LET key == Key(r, calls[r]) IN
    IF key \in DOMAIN pending
    THEN LET s == pending[key] IN
         /\ pending' = [k \in DOMAIN pending \ {key} |-> pending[k]]
         /\ session' = [session EXCEPT ![s] = IF @ = "calling" THEN "running" ELSE @]
         /\ crossed' = IF s = r THEN crossed ELSE crossed \cup {s}
         /\ UNCHANGED stdout
    ELSE /\ stdout' = Append(stdout, Line(r, "fatal"))
         /\ UNCHANGED <<pending, session, crossed>>

\* Mutant of Registered: the queue is there before the child is started.
RegisteredFirst(pcs) == {r \in Reqs : pcs[r] \in {"starting", "waiting", "tool", "replying"}}

\* A request registers its queue once the child is there, as it writes.
Registered(pcs) == {r \in Reqs : pcs[r] \in {"waiting", "tool", "replying"}}

Ends(r, how) ==
    /\ pc' = [pc EXCEPT ![r] = "done"]
    /\ outcome' = [outcome EXCEPT ![r] = how]
    /\ queues' = queues \ {r}
-----------------------------------------------------------------------------

(* Python. *)

Request(r) ==
    /\ pc[r] = "idle"
    /\ pc' = [pc EXCEPT ![r] = "starting"]
    /\ queues' = queues \cup (Registered(pc') \cap {r})
    /\ UNCHANGED <<process, reader, lock, inbox, outcome, sentTo, blame, child, badLines>>

\* A session of its own for every run; a setup that fails still closes the turn.
Opened(r) == session' = [session EXCEPT ![r] = "running"]

\* The rest of request, or of the engine's send, once ensure_started returns.
WriteRun(r, n, alive) ==
    IF alive
    THEN /\ pc' = [pc EXCEPT ![r] = "waiting"]
         /\ queues' = queues \cup {r}
         /\ sentTo' = [sentTo EXCEPT ![r] = n]
         /\ Opened(r)
         /\ UNCHANGED <<outcome, calls, pending, crossed, stdout>>
    ELSE /\ Ends(r, "error")
         /\ UNCHANGED <<sentTo, child>>

WriteResult(r, alive) ==
    IF alive
    THEN /\ pc' = [pc EXCEPT ![r] = "waiting"]
         /\ Resolve(r)
         /\ UNCHANGED <<queues, sentTo, outcome, calls>>
    ELSE /\ Ends(r, "error")
         /\ UNCHANGED <<sentTo, child>>

Proceed(r, n, alive) ==
    IF pc[r] = "starting" THEN WriteRun(r, n, alive) ELSE WriteResult(r, alive)

AtSend(r) == pc[r] \in {"starting", "replying"}

\* ensure_started finds the child running, as far as it can tell.
Send(r) ==
    /\ AtSend(r) /\ lock = NoOne /\ Usable
    /\ Proceed(r, process.n, process.state = "up")
    /\ UNCHANGED <<process, reader, lock, inbox, blame, badLines>>

\* It finds none, or one that has exited: _teardown, then the first attempt.
Launch(r) ==
    /\ AtSend(r) /\ lock = NoOne /\ ~Usable
    /\ lock' = [who |-> r, attempt |-> 1]
    /\ IF process.state = "none" THEN UNCHANGED <<inbox, blame, queues>>
       ELSE Wake(process.n) /\ queues' = {}
    /\ process' = [process EXCEPT !.state = "none", !.seen = FALSE]
    /\ reader' = FALSE /\ stdout' = <<>>
    /\ UNCHANGED <<pc, outcome, sentTo, session, calls, pending, crossed, badLines>>

LaunchSucceeds(r) ==
    /\ lock # NoOne /\ lock.who = r
    /\ lock' = NoOne
    /\ process' = [n |-> process.n + 1, state |-> "up", seen |-> FALSE]
    /\ reader' = TRUE
    /\ Proceed(r, process.n + 1, TRUE)
    /\ UNCHANGED <<inbox, blame, badLines>>

\* A spawn that fails is tried again, up to the bound; a missing key, which the first
\* attempt finds, is not transient.
LaunchFails(r) ==
    /\ lock # NoOne /\ lock.who = r
    /\ \/ /\ lock.attempt < LAUNCH_RETRIES
          /\ lock' = [lock EXCEPT !.attempt = @ + 1]
          /\ UNCHANGED <<pc, outcome, queues>>
       \/ /\ lock.attempt \in {1, LAUNCH_RETRIES}
          /\ lock' = NoOne
          /\ Ends(r, "error")
    /\ UNCHANGED <<process, reader, inbox, sentTo, blame, child, badLines>>

\* The engine's loop over the replies.
Take(r) ==
    /\ pc[r] = "waiting" /\ inbox[r] # <<>>
    /\ inbox' = [inbox EXCEPT ![r] = Tail(@)]
    /\ CASE Head(inbox[r]) = "tool_call" ->
              pc' = [pc EXCEPT ![r] = "tool"] /\ UNCHANGED <<outcome, queues>>
         [] Head(inbox[r]) = "turn_done" -> Ends(r, "answered")
         [] OTHER -> Ends(r, "error")
    /\ UNCHANGED <<process, reader, lock, sentTo, blame, child, badLines>>

ToolReturns(r) ==
    /\ pc[r] = "tool"
    /\ pc' = [pc EXCEPT ![r] = "replying"]
    /\ UNCHANGED <<process, reader, lock, queues, inbox, outcome, sentTo, blame, child, badLines>>

\* The read loop: a line goes to the queue of its req_id, or nowhere.
ReadLine ==
    /\ reader /\ stdout # <<>>
    /\ LET line == Head(stdout) IN
         inbox' = IF line.req \in queues
                  THEN [inbox EXCEPT ![line.req] = Append(@, line.type)] ELSE inbox
    /\ stdout' = Tail(stdout)
    /\ UNCHANGED <<process, reader, lock, queues, pc, outcome, sentTo, blame, session, calls,
                   pending, crossed, badLines>>

ReadLoopEnds ==
    /\ reader /\ stdout = <<>> /\ process.state = "dead"
    /\ reader' = FALSE
    /\ WakeAll(process.n)
    /\ UNCHANGED <<process, lock, queues, pc, outcome, sentTo, child, badLines>>

\* A line over the stream's limit, or JSON that is not an object: the loop
\* raises, and the child lives on.
BadLine ==
    /\ reader /\ process.state = "up" /\ badLines < MaxBadLines
    /\ badLines' = badLines + 1
    /\ reader' = FALSE
    /\ WakeAll(process.n)
    /\ UNCHANGED <<process, lock, queues, pc, outcome, sentTo, child>>

ExitSeen ==
    /\ process.state = "dead" /\ ~process.seen
    /\ process' = [process EXCEPT !.seen = TRUE]
    /\ UNCHANGED <<reader, lock, queues, inbox, pc, outcome, sentTo, blame, child, badLines>>
-----------------------------------------------------------------------------

(* The child. *)

Alive(r) == process.state = "up" /\ sentTo[r] = process.n

CallTool(r) ==
    /\ Alive(r) /\ session[r] = "running" /\ calls[r] < MaxCalls
    /\ calls' = [calls EXCEPT ![r] = @ + 1]
    /\ session' = [session EXCEPT ![r] = "calling"]
    /\ LET key == Key(r, calls[r] + 1) IN
         pending' = [k \in DOMAIN pending \cup {key} |-> IF k = key THEN r ELSE pending[k]]
    /\ stdout' = Append(stdout, Line(r, "tool_call"))
    /\ UNCHANGED <<process, reader, lock, queues, inbox, pc, outcome, sentTo, blame, crossed, badLines>>

Over(r) ==
    /\ session' = [session EXCEPT ![r] = "over"]
    /\ stdout' = Append(stdout, Line(r, "turn_done"))

\* The prompt settles: an answer, a provider's error, or a setup that failed.
TurnDone(r) ==
    /\ Alive(r) /\ session[r] = "running"
    /\ Over(r)
    /\ UNCHANGED <<process, reader, lock, queues, inbox, pc, outcome, sentTo, blame, calls, pending,
                   crossed, badLines>>

\* Mutant of CapEnds: the deadline aborts, and the abort need not settle prompt().
CapAborts(r) ==
    /\ Alive(r) /\ session[r] = "calling"
    /\ session' = [session EXCEPT ![r] = "running"]
    /\ UNCHANGED <<process, reader, lock, queues, inbox, pc, outcome, sentTo, blame, calls, pending,
                   crossed, stdout, badLines>>

\* The deadline resolves the race itself, whatever the prompt or a tool does.
CapEnds(r) ==
    /\ Alive(r) /\ session[r] \in {"running", "calling"}
    /\ Over(r)
    /\ UNCHANGED <<process, reader, lock, queues, inbox, pc, outcome, sentTo, blame, calls, pending,
                   crossed, badLines>>

Dies ==
    /\ process.state = "up" /\ process.n <= MaxDeaths
    /\ process' = [process EXCEPT !.state = "dead"]
    /\ session' = [r \in Reqs |-> IF session[r] = "none" THEN "none" ELSE "over"]
    /\ pending' = <<>>
    /\ UNCHANGED <<reader, lock, queues, inbox, pc, outcome, sentTo, blame, calls, crossed, stdout, badLines>>

Next ==
    \/ \E r \in Reqs :
         \/ Request(r) \/ Send(r) \/ Launch(r) \/ LaunchSucceeds(r) \/ LaunchFails(r)
         \/ Take(r) \/ ToolReturns(r)
         \/ CallTool(r) \/ TurnDone(r) \/ CapEnds(r)
    \/ ReadLine \/ ReadLoopEnds \/ BadLine \/ ExitSeen
    \/ Dies

\* The event loop runs what is ready; an attempt to start ends one way or the
\* other; a tool returns; the deadline fires.  Nothing is asked of the provider.
Fairness ==
    /\ \A r \in Reqs :
         /\ WF_vars(Send(r)) /\ WF_vars(Launch(r))
         /\ WF_vars(LaunchSucceeds(r) \/ LaunchFails(r))
         /\ WF_vars(Take(r)) /\ WF_vars(ToolReturns(r)) /\ WF_vars(CapEnds(r))
    /\ WF_vars(ReadLine) /\ WF_vars(ReadLoopEnds) /\ WF_vars(ExitSeen)

Spec == Init /\ [][Next]_vars /\ Fairness
-----------------------------------------------------------------------------

\* Type invariant.
TypeOK ==
    /\ process.n \in 0..MaxDeaths + 1 /\ process.state \in {"none", "up", "dead"}
    /\ queues \subseteq Reqs /\ DOMAIN inbox = Reqs
    /\ \A r \in Reqs : pc[r] \in {"idle", "starting", "waiting", "tool", "replying", "done"}

\* "the restart would hand it the previous process's death instead of its own
\* reply" (request): no request is told of the death of a child it was not sent to.
NobodyInheritsADeath == \A r \in Reqs : blame[r] \subseteq {sentTo[r]} \ {0}

\* Two sessions on one bridge number their calls alike, and still neither is
\* given the result of the other's tool (pendingKey).
ResultsReachTheirCall == crossed = {}

\* What a request is told, a death or a result, is meant for it.
RepliesFindTheirRequest == NobodyInheritsADeath /\ ResultsReachTheirCall

\* A child that lives on unread: BadLine, until it dies.
Deaf == process.state = "up" /\ ~reader

\* "Waking every waiter is the difference between a failed turn and a hung one"
\* (_read_loop): a request ends, answered or failed, however the child dies under it, whoever
\* restarts it, and whether or not the provider ever answers -- unless a child
\* lives that nobody reads.
RequestsEnd == \A r \in Reqs : (pc[r] = "starting") ~> (pc[r] = "done" \/ Deaf)
=============================================================================
