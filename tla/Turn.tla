---------------------------------- MODULE Turn ---------------------------------
(***************************************************************************)
(* One turn of the bot: the stages of kernos/kernel/pipeline.py with the   *)
(* plugins of the default profile -- the engine's tool calls and those of  *)
(* a sub-agent it asks, the outcome the packs decide, the reply's check,   *)
(* the cards, the trace -- and app/chat.py publishing what the turn did.   *)
(*                                                                         *)
(* A call is [tool, arg, ok, from]; from is "own" or "sub".  The argument  *)
(* is what is proposed, or the card that is cancelled or written.  A       *)
(* refusal by a rule of the profile, a tool that raises and a tool that    *)
(* says no all read ok = FALSE.  A rule on the result of a call guards     *)
(* proposals only, which change nothing.  People cancel the cards they     *)
(* see while the turn runs.                                                *)
(***************************************************************************)
EXTENDS Integers, Sequences, SequencesExt, FiniteSets, FiniteSetsExt

CONSTANTS
    Payloads,   \* meals, and amounts of payments
    Changes,    \* changes of records
    Pairs,      \* who pays whom
    Profiles,   \* [tools, payloads, calls]: the tools, what they are asked for, and a bound on the calls
    Before,     \* the cards that are pending when the turn starts
    None

AllTools == {"meal", "pay", "settle", "change", "remember", "cancel"}
DraftKinds == {"meal", "pay", "change"}
Proposals ==
    [kind : {"meal"}, payload : Payloads] \cup [kind : {"change"}, payload : SUBSET Changes]
    \cup [kind : {"pay"}, payload : SUBSET (Pairs \X Payloads)]

ASSUME ProfilesAssumption == Profiles \subseteq [tools : SUBSET AllTools, payloads : SUBSET Payloads, calls : Nat]
ASSUME BeforeAssumption == Before \in Seq(Proposals)

VARIABLES
    profile,    \* the profile of this turn; its calls include the sub-agent's
    stage,      \* where the turn is; "asking" is the run stage while a sub-agent runs
    cards,      \* [kind, payload, status] by id: the room's cards
    calls,      \* ctx.result.tools
    subs,       \* ToolContext.sub_invocations, as merge_sub_invocations groups them: index -> calls
    nested,     \* the calls of the sub-agent that is running
    made,       \* ToolContext.calls_made
    happened,   \* history: the calls as they were made
    text,       \* result.final_text
    outcome,    \* ctx.outcome
    drafts,     \* what persist has still to write: ctx.more_drafts, behind the outcome
    changed,    \* cards the turn retired, by persist or by a cancel tool
    events,     \* what is still to be published, the reply last
    shown,      \* what the room's clients show: the status of each card, None if unseen
    posted,     \* the model's own words, as far as the room reads them in the reply
    traced,     \* history: the calls of the trace row, None without one
    raised      \* a stage raised

turnVars == <<profile, stage, cards, calls, subs, nested, made, happened, text, outcome, drafts, changed,
              events, shown, posted, traced, raised>>

(* What the model may write: whether it says that something was recorded,  *)
(* whether it names a record that is not there, whether it has amounts of  *)
(* nobody's.                                                               *)
Nothing == [says |-> FALSE, claims |-> FALSE, dead |-> FALSE, stray |-> FALSE]
Harmless == [Nothing EXCEPT !.says = TRUE]
Texts == {Nothing, Harmless} \cup [says : {TRUE}, claims : {TRUE}, dead : BOOLEAN, stray : BOOLEAN]

Draft(kind, payload) == [is |-> "draft", kind |-> kind, payload |-> payload]
Body(words, claimed) == [is |-> "body", words |-> words, claimed |-> claimed]
Warning == [is |-> "body", words |-> "warning", claimed |-> TRUE]

TurnInit ==
    /\ profile \in Profiles
    /\ stage = "context"
    /\ cards = [i \in DOMAIN Before |-> [kind |-> Before[i].kind, payload |-> Before[i].payload, status |-> "pending"]]
    /\ shown = [i \in DOMAIN Before |-> "pending"]
    /\ calls = <<>> /\ subs = <<>> /\ nested = <<>> /\ made = 0 /\ happened = <<>>
    /\ text = Nothing /\ outcome = None /\ drafts = <<>> /\ changed = {}
    /\ events = <<>> /\ posted = Nothing /\ traced = None /\ raised = FALSE
-----------------------------------------------------------------------------

(* A plugin raised: whatever is left of the turn is skipped, but for the   *)
(* after stage.                                                            *)
Fails ==
    /\ stage \in {"context", "render", "validate", "persist"}
    /\ stage' = "after"
    /\ raised' = TRUE
    /\ UNCHANGED <<profile, cards, calls, subs, nested, made, happened, text, outcome, drafts, changed,
                   events, shown, posted, traced>>

Context ==
    /\ stage = "context"
    /\ stage' = "run"
    /\ UNCHANGED <<profile, cards, calls, subs, nested, made, happened, text, outcome, drafts, changed,
                   events, shown, posted, traced, raised>>

Arguments(tool) ==
    CASE tool = "meal"   -> profile.payloads
      [] tool = "change" -> Changes
      [] tool = "pay"    -> Pairs \X profile.payloads
      [] tool = "cancel" -> {i \in DOMAIN cards : cards[i].kind # "memo" /\ cards[i].status = "pending"}
      [] OTHER           -> {Len(cards) + 1}

\* A call that works, or one that does not, whatever it asked for.
Attempts(from) ==
    (UNION {[tool : {tool}, arg : Arguments(tool), ok : {TRUE}, from : {from}] : tool \in profile.tools})
    \cup [tool : profile.tools, arg : {None}, ok : {FALSE}, from : {from}]

\* What a call does: the tools that propose do nothing.
CardsAfter(c) ==
    CASE c.ok /\ c.tool = "cancel" -> [cards EXCEPT ![c.arg].status = "cancelled"]
      [] c.ok /\ c.tool = "remember" -> Append(cards, [kind |-> "memo", payload |-> None, status |-> "pending"])
      [] OTHER -> cards
ShownAfter(c) == IF c.ok /\ c.tool = "remember" THEN Append(shown, None) ELSE shown

\* call_tool, for every tool but ask_*: the engine waits for it.
OwnCall ==
    /\ stage = "run"
    /\ Len(happened) < profile.calls
    /\ \E c \in Attempts("own") :
         /\ calls' = Append(calls, c)
         /\ happened' = Append(happened, c)
         /\ cards' = CardsAfter(c)
         /\ shown' = ShownAfter(c)
    /\ made' = made + 1
    /\ UNCHANGED <<profile, stage, subs, nested, text, outcome, drafts, changed, events, posted, traced, raised>>

Asking == [tool |-> "ask", arg |-> None, ok |-> TRUE, from |-> "own"]

\* ask_<sub>: a nested run of the sub-agent's profile, as far as its validate stage.
AskStarts ==
    /\ stage = "run"
    /\ Len(happened) < profile.calls
    /\ stage' = "asking"
    /\ made' = made + 1
    /\ happened' = Append(happened, Asking)
    /\ UNCHANGED <<profile, cards, calls, subs, nested, text, outcome, drafts, changed, events, shown, posted,
                   traced, raised>>

SubCall ==
    /\ stage = "asking"
    /\ Len(happened) < profile.calls
    /\ \E c \in Attempts("sub") :
         /\ nested' = Append(nested, c)
         /\ happened' = Append(happened, c)
         /\ cards' = CardsAfter(c)
         /\ shown' = ShownAfter(c)
    /\ UNCHANGED <<profile, stage, calls, subs, made, text, outcome, drafts, changed, events, posted, traced,
                   raised>>

Under(put, index) == IF index \in DOMAIN put THEN put[index] ELSE <<>>

\* The nested run is over: its calls are put aside under the number of the manager's call.
AskReturns ==
    /\ stage = "asking"
    /\ stage' = "run"
    /\ subs' = [i \in DOMAIN subs \cup {made - 1} |->
                  IF i = made - 1 THEN Under(subs, i) \o nested ELSE subs[i]]
    /\ calls' = Append(calls, Asking)
    /\ nested' = <<>>
    /\ UNCHANGED <<profile, cards, made, happened, text, outcome, drafts, changed, events, shown, posted,
                   traced, raised>>

\* Mutant of Merged: the sub-agents' calls are put before the one that asked for them.
MergedBefore(own, put) ==
    LET upTo[n \in 0..Len(own)] ==
          IF n = 0 THEN <<>> ELSE upTo[n - 1] \o Append(Under(put, n - 1), own[n])
    IN  upTo[Len(own)]

\* merge_sub_invocations.  No number is beyond the manager's calls, so that nothing is left for the end.
Merged(own, put) ==
    LET upTo[n \in 0..Len(own)] ==
          IF n = 0 THEN <<>> ELSE Append(upTo[n - 1], own[n]) \o Under(put, n - 1)
    IN  upTo[Len(own)]

\* The engine's turn_done, or its death: PiEngine.run never raises.
EngineEnds ==
    /\ stage = "run"
    /\ text' \in Texts
    /\ calls' = Merged(calls, subs)
    /\ stage' = "render"
    /\ UNCHANGED <<profile, cards, subs, nested, made, happened, outcome, drafts, changed, events, shown, posted,
                   traced, raised>>
-----------------------------------------------------------------------------

(* The outcome. *)

\* Mutant of Results: a sub-agent's result counts as the manager's.
ResultsOfAll(tool) == {i \in DOMAIN calls : calls[i].tool = tool /\ calls[i].ok}

\* TurnResult.all_results, by position; last_result is the last of them.
Results(tool) == {i \in DOMAIN calls : calls[i].tool = tool /\ calls[i].ok /\ calls[i].from = "own"}

\* Mutant of Collapsed: the first amount named for a pair stays.
CollapsedFirst(at) ==
    {calls[i].arg : i \in {k \in at : ~ \E j \in at : j < k /\ calls[j].arg[1] = calls[k].arg[1]}}

\* ledger_tools' decide: of the payments of one pair the last.
Collapsed(at) ==
    {calls[i].arg : i \in {k \in at : ~ \E j \in at : j > k /\ calls[j].arg[1] = calls[k].arg[1]}}

\* What each pack makes of the result.
Undecided == [is |-> "none"]
LunchDecides ==
    IF Results("meal") = {} THEN Undecided ELSE Draft("meal", calls[Max(Results("meal"))].arg)
LedgerDecides ==
    CASE Results("pay") # {} -> Draft("pay", Collapsed(Results("pay")))
      [] Results("pay") = {} /\ Results("settle") # {} -> Body("settlement", TRUE)
      [] OTHER -> Undecided
RecordsDecide ==
    IF Results("change") = {} THEN Undecided
    ELSE Draft("change", {calls[i].arg : i \in Results("change")})

AsDraft(d) == IF d.is = "draft" THEN <<d>> ELSE <<>>
Drafted(so) == AsDraft(so.outcome) \o so.more

\* Mutant of Joined: the first outcome is the turn's and the others go.
JoinedFirst(so, d) == IF so.outcome.is = "none" THEN [so EXCEPT !.outcome = d] ELSE so

\* The loop of PackRender.run: of two drafts of a kind the second goes, and so does a
\* body behind the first outcome.
Joined(so, d) ==
    CASE d.is = "none" \/ (d.is = "draft" /\ \E i \in DOMAIN Drafted(so) : Drafted(so)[i].kind = d.kind) -> so
      [] OTHER -> CASE so.outcome.is = "none" -> [so EXCEPT !.outcome = d]
                    [] OTHER -> [so EXCEPT !.more = @ \o AsDraft(d)]

\* The packs in the order of the profile.  Two serve the cards of record changes.
Decisions ==
    LET none == [outcome |-> Undecided, more |-> <<>>]
    IN  Joined(Joined(Joined(Joined(none, LunchDecides), LedgerDecides), RecordsDecide), RecordsDecide)

\* PackRender.run: without a decision the outcome is the model's own words.
Render ==
    /\ stage = "render"
    /\ outcome' = IF Decisions.outcome.is = "none" THEN Body(text, ~text.says) ELSE Decisions.outcome
    /\ drafts' = Drafted(Decisions)
    /\ stage' = "validate"
    /\ UNCHANGED <<profile, cards, calls, subs, nested, made, happened, text, changed, events, shown, posted,
                   traced, raised>>

CommitTools == {"meal", "pay", "settle", "cancel"}

\* Mutant of Evidence: a proposal of a sub-agent proves a write.
EvidenceOfAll == {c \in ToSet(calls) : c.tool \in CommitTools /\ c.ok}

Evidence == {c \in ToSet(calls) : c.tool \in CommitTools /\ c.ok /\ c.from = "own"}

\* fabricated_commit.
Forged == text.claims /\ Evidence = {} /\ (text.dead \/ text.stray)

\* FabricatedCommit, which looks at the model's own words only.
Validate ==
    /\ stage = "validate"
    /\ outcome' = IF outcome.is = "body" /\ ~outcome.claimed /\ Forged THEN Warning ELSE outcome
    /\ stage' = "persist"
    /\ UNCHANGED <<profile, cards, calls, subs, nested, made, happened, text, drafts, changed, events, shown,
                   posted, traced, raised>>
-----------------------------------------------------------------------------

(* The cards. *)

Signature(kind, payload) == IF kind = "pay" THEN {p[1] : p \in payload} ELSE payload

\* Mutant of Superseded: what a further card retires is not collected.
SupersededByFirst(d) ==
    {i \in DOMAIN cards : /\ cards[i].kind = d.kind /\ cards[i].status = "pending"
                          /\ Signature(cards[i].kind, cards[i].payload) = Signature(d.kind, d.payload)
                          /\ events = <<>>}

\* create_card retires the pending cards of the same proposal.
Retires(d) ==
    {i \in DOMAIN cards : /\ cards[i].kind = d.kind /\ cards[i].status = "pending"
                          /\ d.kind \in {"meal", "pay"}
                          /\ Signature(cards[i].kind, cards[i].payload) = Signature(d.kind, d.payload)}
Superseded(d) == Retires(d)

\* Cards.run creates one card in a transaction.
PersistCard ==
    /\ stage = "persist" /\ drafts # <<>>
    /\ LET d == Head(drafts) IN
         /\ cards' = Append([i \in DOMAIN cards |->
                               IF i \in Retires(d) THEN [cards[i] EXCEPT !.status = "superseded"] ELSE cards[i]],
                            [kind |-> d.kind, payload |-> d.payload, status |-> "pending"])
         /\ shown' = Append(shown, None)
         /\ changed' = changed \cup Superseded(d)
         /\ events' = <<Len(cards) + 1>> \o events
    /\ drafts' = Tail(drafts)
    /\ UNCHANGED <<profile, stage, calls, subs, nested, made, happened, text, outcome, posted, traced, raised>>

\* Mutant of CancelledCards: only the manager's own cancellations.
CancelledByOwn == {calls[i].arg : i \in Results("cancel")}

\* The cards of the cancel tools' results, the sub-agents' included.
CancelledCards == {c.arg : c \in {d \in ToSet(calls) : d.tool = "cancel" /\ d.ok}}

\* The rest of Cards.run: the cancelled cards join the superseded ones.
PersistRest ==
    /\ stage = "persist" /\ drafts = <<>>
    /\ changed' = changed \cup CancelledCards
    /\ stage' = "after"
    /\ UNCHANGED <<profile, cards, calls, subs, nested, made, happened, text, outcome, drafts, events, shown,
                   posted, traced, raised>>

\* Trace.run, in a finally; it may fail, and then nothing is traced.
Trace ==
    /\ stage = "after"
    /\ traced' \in {calls, None}
    /\ stage' = IF raised THEN "failed" ELSE "publish"
    /\ UNCHANGED <<profile, cards, calls, subs, nested, made, happened, text, outcome, drafts, changed, events,
                   shown, posted, raised>>
-----------------------------------------------------------------------------

(* run_bot_turn behind the lock, and the route that waits for it. *)

Memos == {calls[i].arg : i \in Results("remember")}

\* _memo_card_events, then the pending events, then the reply.
Announce ==
    /\ stage = "publish"
    /\ LET reply == IF outcome.is = "draft" THEN {Last(events)} ELSE {}
           others == {e \in ToSet(events) : e \notin reply}
           all == Memos \cup others \cup changed \cup reply
       IN  shown' = [i \in DOMAIN cards |-> IF i \in all THEN cards[i].status ELSE shown[i]]
    /\ posted' = IF outcome.is = "body" /\ ~outcome.claimed THEN outcome.words ELSE Nothing
    /\ events' = <<>>
    /\ stage' = "done"
    /\ UNCHANGED <<profile, cards, calls, subs, nested, made, happened, text, outcome, drafts, changed, traced, raised>>

\* A person cancels a card: the route needs no lock and publishes the card itself.
PersonCancels ==
    /\ stage # "done"
    /\ \E i \in DOMAIN cards :
         /\ cards[i].status = "pending" /\ shown[i] = "pending" /\ cards[i].kind # "memo"
         /\ cards' = [cards EXCEPT ![i].status = "cancelled"]
         /\ shown' = [shown EXCEPT ![i] = "cancelled"]
    /\ UNCHANGED <<profile, stage, calls, subs, nested, made, happened, text, outcome, drafts, changed, events,
                   posted, traced, raised>>

TurnNext ==
    \/ Fails \/ Context
    \/ OwnCall \/ AskStarts \/ SubCall \/ AskReturns \/ EngineEnds
    \/ Render \/ Validate
    \/ PersistCard \/ PersistRest
    \/ Trace \/ Announce
    \/ PersonCancels

TurnSpec == TurnInit /\ [][TurnNext]_turnVars
-----------------------------------------------------------------------------

\* When a turn is over that did not raise, every card in the room is shown as it stands
\* -- the ones it wrote, retired or cancelled, by itself or through a sub-agent -- so that
\* no button stays on a dead card and no pending card blocks a settlement unseen.  The
\* exception is a memo that a sub-agent wrote: _memo_card_events asks for the manager's
\* own results only.
CardsAreShownAsTheyAre ==
    stage = "done" =>
        \A i \in DOMAIN cards :
            \/ shown[i] = cards[i].status
            \/ cards[i].kind = "memo" /\ \E c \in ToSet(happened) : c.from = "sub" /\ c.tool = "remember" /\ c.arg = i

\* The cards of a turn are what the manager last proposed itself, kind by kind: no
\* proposal goes missing because another pack decided too, a correction replaces what it
\* corrects, and what a sub-agent proposed is on no card.
Own(tool) == {k \in DOMAIN happened : happened[k].tool = tool /\ happened[k].ok /\ happened[k].from = "own"}
Born(kind) == {i \in DOMAIN cards : i > Len(Before) /\ cards[i].kind = kind}
CardsAreTheLastWord ==
    stage = "done" =>
        /\ \A kind \in DraftKinds : Cardinality(Born(kind)) = IF Own(kind) = {} THEN 0 ELSE 1
        /\ \A i \in Born("meal") :
             \E k \in Own("meal") : cards[i].payload = happened[k].arg /\ \A l \in Own("meal") : l <= k
        /\ \A i \in Born("change") : cards[i].payload = {happened[k].arg : k \in Own("change")}
        /\ \A i \in Born("pay") :
             cards[i].payload = {p \in Pairs \X Payloads :
               \E k \in Own("pay") :
                 happened[k].arg = p /\ \A l \in Own("pay") : happened[l].arg[1] = p[1] => l <= k}

\* A reply in which the model says that something was recorded is posted only if the
\* manager itself proposed or cancelled something, or if what it says can be traced.
NoForgeryIsPosted ==
    posted.claims =>
        \/ \E c \in ToSet(happened) : c.ok /\ c.from = "own" /\ c.tool \in CommitTools
        \/ ~posted.dead /\ ~posted.stray

\* The trace of a turn that got an answer has every call, in the order they were made.
TraceReadsAsItHappened ==
    stage \in {"publish", "done"} /\ traced # None => traced = happened
=============================================================================
