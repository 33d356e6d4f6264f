------------------------------- MODULE Memory ------------------------------
(***************************************************************************)
(* What the bot remembers of one room: the chat log, memory.md with its    *)
(* sections, and the watermark file that says how far the log is folded    *)
(* into them.  /clear and the rollover that opens every turn read a window *)
(* of the log, wait for a summary, and move the watermark; people post, and *)
(* edit the sections, meanwhile.                                           *)
(*                                                                         *)
(* Turns, /clear and section edits hold the agent lock, which is handed    *)
(* over in the order it was asked for; posting does not take it.  A section *)
(* is the set of messages it summarises; one a person rewrote stands for   *)
(* none.  The 200-message cap on the history of a turn is left out.        *)
(***************************************************************************)
EXTENDS Naturals, Sequences

CONSTANTS
    MaxMessages,   \* bound on the messages posted, replies and dividers included
    MaxCrashes     \* bound on the crashes

VARIABLES
    log,        \* the kind of each message; ids are positions
    aged,       \* messages up to this id are older than the window
    sections,   \* memory.md
    watermark,  \* summarized_through_id
    jobs,       \* turns and clears that wait for the agent lock, oldest first
    job,        \* the one that holds it
    letGo,      \* messages a person chose to lose, by /clear or in the panel (history)
    torn,       \* a crash fell between or inside the two writes of append_summary
    crashes,    \* crashes so far, a bound
    panel       \* the sections as an open panel loaded them

memoryVars == <<log, aged, sections, watermark, jobs, job, letGo, torn, crashes, panel>>

\* "ask": the message mentions the bot, or answers the question the bot has just asked
\* its author (mentions_bot, replies_to_bot_question); "clear": it is nothing but /clear.
Kinds == {"chat", "ask", "clear", "bot", "divider"}
Idle == [at |-> "idle"]
Messages == DOMAIN log

\* messages_to_summarize takes the kinds text and bot; the /clear line is a text.
Said(m) == log[m] # "divider"
After(wm) == {m \in Messages : m > wm /\ Said(m)}
Preceding(id) == {m \in Messages : m < id /\ Said(m)}
Summarized == UNION {sections[i] : i \in DOMAIN sections}
Latest(rows) == CHOOSE m \in rows : \A n \in rows : n <= m

MemoryInit ==
    /\ log = <<>> /\ aged = 0 /\ sections = <<>> /\ watermark = 0
    /\ jobs = <<>> /\ job = Idle
    /\ letGo = {} /\ torn = FALSE /\ crashes = 0 /\ panel = <<>>
-----------------------------------------------------------------------------

Posted(kind) == log' = Append(log, kind)

\* A person writes; a question or a /clear also queues its task.
Post(kind) ==
    /\ Len(log) < MaxMessages
    /\ Posted(kind)
    /\ jobs' = IF kind = "chat" THEN jobs ELSE Append(jobs, [kind |-> kind, id |-> Len(log) + 1])
    /\ UNCHANGED <<aged, sections, watermark, job, letGo, torn, crashes, panel>>

\* Weeks pass, never while a task is under way.
TimePasses ==
    /\ jobs = <<>> /\ job = Idle
    /\ aged < Len(log)
    /\ aged' \in aged + 1 .. Len(log)
    /\ UNCHANGED <<log, sections, watermark, jobs, job, letGo, torn, crashes, panel>>

\* The window a task folds, read before the summary is asked for.
Window(j) ==
    IF j.kind = "clear" THEN After(watermark) \cap Preceding(j.id)
    ELSE {m \in After(watermark) : m <= aged}

\* A turn with nothing aged goes straight on to its context.
TakeLock ==
    /\ job = Idle /\ jobs # <<>>
    /\ LET j == Head(jobs)
           rows == Window(j)
       IN job' = [at |-> IF j.kind = "ask" /\ rows = {} THEN "context" ELSE "summarizing",
                  kind |-> j.kind, id |-> j.id, rows |-> rows]
    /\ jobs' = Tail(jobs)
    /\ UNCHANGED <<log, aged, sections, watermark, letGo, torn, crashes, panel>>

\* Mutant of Through: what has been said by the time the summary is there.
ThroughLatest(j) == IF j.kind = "clear" THEN Len(log) ELSE Latest(j.rows)

\* Mutant of Through: the rollover marks the first row of its window.
ThroughFirst(j) ==
    IF j.kind = "clear" THEN j.id ELSE CHOOSE m \in j.rows : \A n \in j.rows : n >= m

\* How far the log counts as folded once the task has its summary.
Through(j) == IF j.kind = "clear" THEN j.id ELSE Latest(j.rows)

Summarizing(kind) == job.at = "summarizing" /\ job.kind = kind

\* Without a summary the window is cleared all the same: the user asked for it.
ClearEnds(summary) ==
    /\ Summarizing("clear")
    /\ summary => job.rows # {}
    /\ sections' = IF summary THEN Append(sections, job.rows) ELSE sections
    /\ letGo' = (IF summary THEN letGo ELSE letGo \cup job.rows) \cup {job.id}
    /\ watermark' = Through(job)
    /\ Posted("divider")
    /\ job' = Idle
    /\ UNCHANGED <<aged, jobs, torn, crashes, panel>>

\* Without a summary the watermark stays, so that the next turn tries again.
RolloverEnds(summary) ==
    /\ Summarizing("ask")
    /\ IF summary
       THEN /\ sections' = Append(sections, job.rows)
            /\ watermark' = Through(job)
       ELSE UNCHANGED <<sections, watermark>>
    /\ job' = [job EXCEPT !.at = "context"]
    /\ UNCHANGED <<log, aged, jobs, letGo, torn, crashes, panel>>

\* MemoryLoad, then RecentHistory from the watermark to the question.
LoadContext ==
    /\ job.at = "context"
    /\ job' = [at |-> "answering", id |-> job.id, memory |-> Summarized,
               history |-> After(watermark) \cap Preceding(job.id)]
    /\ UNCHANGED <<log, aged, sections, watermark, jobs, letGo, torn, crashes, panel>>

Answer ==
    /\ job.at = "answering"
    /\ Posted("bot")
    /\ job' = Idle
    /\ UNCHANGED <<aged, sections, watermark, jobs, letGo, torn, crashes, panel>>
-----------------------------------------------------------------------------

\* parse_sections, which joins back to the file byte for byte.
PanelLoads ==
    /\ panel' = sections
    /\ UNCHANGED <<log, aged, sections, watermark, jobs, job, letGo, torn, crashes>>

\* Mutant of Unchanged: the routes trust the index they are given.
UnchangedIndex(i) == i \in DOMAIN panel

\* Both routes compare the etag under the lock: the file is as the panel loaded it.
Unchanged(i) == i \in DOMAIN panel /\ panel = sections

\* A rewritten section says what the person wrote.  The watermark stays.
EditSection(i) ==
    /\ job = Idle /\ Unchanged(i) /\ i \in DOMAIN sections
    /\ letGo' = letGo \cup sections[i]
    /\ sections' = [sections EXCEPT ![i] = {}]
    /\ UNCHANGED <<log, aged, watermark, jobs, job, torn, crashes, panel>>

DeleteSection(i) ==
    /\ job = Idle /\ Unchanged(i) /\ i \in DOMAIN sections
    /\ letGo' = letGo \cup sections[i]
    /\ sections' = SubSeq(sections, 1, i - 1) \o SubSeq(sections, i + 1, Len(sections))
    /\ UNCHANGED <<log, aged, watermark, jobs, job, torn, crashes, panel>>
-----------------------------------------------------------------------------

\* A restart forgets the tasks, which are not persisted.
Restarted == job' = Idle /\ jobs' = <<>>

Crash ==
    /\ crashes < MaxCrashes /\ crashes' = crashes + 1
    /\ Restarted
    /\ UNCHANGED <<log, aged, sections, watermark, letGo, torn, panel>>

\* append_summary writes memory.md and then the watermark file, which it
\* truncates first (a watermark that cannot be read is 0); a clear without a
\* summary writes only the second.  The crash may also fall behind both.
TornCrash ==
    /\ crashes < MaxCrashes /\ crashes' = crashes + 1
    /\ job.at = "summarizing"
    /\ \E written \in BOOLEAN :
         /\ IF written THEN job.rows # {} ELSE job.kind = "clear"
         /\ sections' = IF written THEN Append(sections, job.rows) ELSE sections
         /\ letGo' = IF job.kind = "ask" THEN letGo
                     ELSE letGo \cup {job.id} \cup (IF written THEN {} ELSE job.rows)
    /\ watermark' \in {watermark, 0, Through(job)}
    /\ torn' = TRUE
    /\ Restarted
    /\ UNCHANGED <<log, aged, panel>>

MemoryNext ==
    \/ \E kind \in {"chat", "ask", "clear"} : Post(kind)
    \/ TimePasses \/ TakeLock \/ LoadContext \/ Answer
    \/ \E summary \in BOOLEAN : ClearEnds(summary) \/ RolloverEnds(summary)
    \/ PanelLoads
    \/ \E i \in DOMAIN sections : EditSection(i) \/ DeleteSection(i)
    \/ Crash \/ TornCrash

MemorySpec == MemoryInit /\ [][MemoryNext]_memoryVars
-----------------------------------------------------------------------------

\* Type invariant of the log, the two files and the tasks.
MemoryTypeOK ==
    /\ \A m \in Messages : log[m] \in Kinds
    /\ aged \in 0..Len(log) /\ watermark \in 0..Len(log)
    /\ Summarized \subseteq Messages /\ letGo \subseteq Messages
    /\ \A i \in DOMAIN jobs : jobs[i].id \in Messages

\* Whatever is said while a summary is being made, and wherever a crash falls,
\* no message passes behind the watermark without being in a summary, unless a
\* person let it go.
NothingIsForgotten == \A m \in Preceding(watermark + 1) : m \in Summarized \cup letGo

\* A turn is told every earlier message, in its memory or in its history and
\* not in both, unless a crash tore the two files apart.
TurnIsToldEverything ==
    job.at = "answering" =>
        /\ Preceding(job.id) \subseteq job.memory \cup job.history \cup letGo
        /\ torn \/ job.memory \cap job.history = {}

MemoryIsWhole == NothingIsForgotten /\ TurnIsToldEverything

\* What a person rewrites or deletes in the panel is what the panel showed,
\* though a turn, a /clear or another person changed the file meanwhile.
PanelLosesWhatItShowed ==
    [][letGo' # letGo /\ job' = job =>
          \E i \in DOMAIN panel : i \in DOMAIN sections /\ panel[i] = sections[i]
                                  /\ letGo' = letGo \cup panel[i]]_memoryVars
=============================================================================
