# chiatienan: specification, model checking and proofs

chiatienan is a group chat in which friends record who paid for lunch. People
write to a room, a bot proposes *cards* (a meal, a payment, a poker game, a
change of a record), a person confirms a card, and only then is anything
written. The bot runs on a small operating system of its own, *kernos*:
profiles with versions and gates, agents that ask agents, collections of data,
a sidecar process with the model's engine.

This directory holds TLA+ modules of that program, TLC configurations that
check them on small instances, and TLAPS proofs of the results that matter
most for the money.

| module | about | kind |
|---|---|---|
| `Splits` | dividing one bill | pure operators |
| `Bills` | every bill a member can ask to divide, and the answer | state machine |
| `Debts` | debt edges, payment attribution, transfers | pure operators |
| `Attribution` | a ledger that grows, and what the attribution of its payments promises | state machine |
| `Periods` | windows of days | pure operators |
| `Settlement` | what a room is told of its debts; paid marks; poker nights; transfer notes | pure operators |
| `Grading` | how an evaluated proposal is graded | pure operators |
| `Cards` | draft cards, the ledger they write, quick-pay, voids | state machine |
| `LedgerOfRecord` | what a reader of the ledger may rely on | abstract specification |
| `Journal` | the journal, its reader, deploys; refines `LedgerOfRecord` | state machine |
| `Migration` | places and notes moved into the store and back, by a deploy that may die | state machine |
| `Room` | the message log, the hub, bot turns, streams and clients | state machine, fairness |
| `Turn` | the stages of one bot turn, from tool calls to published events | state machine |
| `Delegation` | agents that ask agents inside a budget of time and calls | state machine |
| `Engine` | requests over the pipes of a sidecar that dies | state machine, fairness |
| `Outbox` | a member's messages over a bad network | state machine, fairness |
| `Memory` | memory.md, the watermark, /clear and rollover | state machine |
| `Notes` | places, slugs, notes and memo cards | state machine |
| `Members` | members, names, and the names of a turn nobody answered to | state machine |
| `Subjects` | what a text means among places and people | state machine |
| `Suggest` | where to eat | state machine |
| `Content` | versions, sources and proposals of a profile | state machine |
| `Agents` | agents, bindings, and the resolver's cache | state machine |
| `Evals` | suites, runs, and the gate that reads them | state machine |
| `Data` | collections, proposed actions and their cards | state machine |
| `MCSettlement`, `MCGrading`, `MCCards`, `MCDelegation` | small instances of one module | TLC |
| `MCMoney`, `MCLedger`, `MCLines`, `MCKernel`, `MCRooms` | small instances of several modules in one run | TLC |
| `Lemmas` | finite sets, sums over them, sequences, and the operators several proofs share | TLAPS |
| `DebtProofs` | lemmas about `Debts`: edges, and where the money of a payment goes | TLAPS |
| `MoneyProofs` | theorems about `Splits`, `Bills`, `Attribution`, `Settlement` and `Grading` as `MCMoney` composes them | TLAPS |
| `CardsProofs` | theorems about `Cards` | TLAPS |
| `RoomProofs` | theorems about `Room` | TLAPS |
| `RoomsProofs` | theorems about `Turn`, `Journal`, `Delegation`, `Memory`, `Notes`, `Members`, `Subjects`, `Suggest` and `Migration` as `MCRooms` composes them | TLAPS |
| `LinesProofs` | theorems about `Engine` and `Outbox` | TLAPS |
| `KernelProofs` | theorems about `Content`, `Agents`, `Evals`, and `Data` as `MCKernel` has it | TLAPS |

`Cards`, `Settlement` and `Grading` extend `Splits` and `Debts`, so that they
compute shares and debts with the very operators that `DebtProofs` and `MoneyProofs`
are about.
`Journal` instantiates `LedgerOfRecord` under a refinement mapping. `Subjects`
takes the lookup of names from `Members`.

## Inventory of the system

Backend paths are under `src/backend/`.

**Money functions** (`ledger_core/money.py`, `packs/poker_ledger/money.py`). No
state. Hard: rounding, negative differences, the encoding of a split by price
as adjustments, payments that name a debt, proportional parts in whole dong.
Correct when no dong is lost, when an encoding is exact, and when a payment
counts once for the pair that made it.

**Views of the ledger** (`ledger_core/ledger.py`, `periods.py`, `notes.py`,
`app/chat.py`). Settlement, open pairs, statement, balances and the paid marks
of old settlement cards, all computed on reading. Correct when they tell one
story whatever the period, and when a row without a mark is owed.

**Cards and ledger** (`app/drafts.py`, `ledger_core/drafts.py`, `ledger.py`,
`packs/*/tools.py`, routes of `app/main.py`). State: draft messages with their
status; tables of meals, shares, payments, games. Operations: propose (and
supersede), edit, cancel, commit, recommit, void, quick-pay, each one
transaction. Hard: they interleave among people and the bot, and a recorded
meal is edited after it was paid. Correct when a card is answered once and has
at most one live meal, recorded rows are never rewritten, and a payment never
drifts to a debt it was not made for.

**Journal and migrations** (`ledger_core/journal.py`, `view.py`, `importer.py`,
`app/migrate_storage.py`, `deploy.yml`). State: an append-only event collection
per room beside the tables; the legacy table and note file; which release
serves. Hard: several flushes in a transaction, crashes, scripts that die,
deploys that go back. Correct when a reader sees one ledger that only grows,
and nothing a room wrote is lost on the way between two releases.

**Room stream** (`app/realtime.py`, `stream` in `app/main.py`,
`use-room.ts`). State: a bounded queue per subscriber, the busy count, and in
each client a cursor, the messages and an indicator. Hard: full queues, lost
connections, restarts, messages published in another order than they were
written. Correct when a client is told everything and never keeps a stale
button or a stuck indicator.

**Client outbox** (`lib/outbox.ts`, `use-room.ts`). State: queued records, a
drain, a retry timer. Hard: answers that are lost, a drain and a timer that
overlap, leaving the room. Correct when a message is there, waits, or was
refused, in its order.

**Bot turns** (`app/chat.py`, `kernos/kernel`, `kernos/plugins`,
`ledger_core/moneyguard.py`, `packs/*/render.py`). State: the agent lock, the
calls of the turn, the cards it wrote. Hard: several packs decide one turn,
sub-agents propose too, people answer meanwhile. Correct when the room shows
the cards as they stand and no reply claims what no card does.

**Agents asking agents** (`kernos/agents.py`, `plugins/run.py`). A nested run
inside a tool call. Correct when it leaves the manager time and calls and ends.

**Pi bridge** (`kernos/engine/pi`, `agent_sidecar`). State: a child process, its
pipes, a queue per request, tool calls in flight. Hard: the child dies at any
moment, and Python learns of it twice. Correct when each request ends, with a
reply of its own.

**Room memory** (`app/memory.py`, `plugins/context.py`). State: `memory.md` and
its watermark. Hard: a summary is awaited between reading and writing; two files
are written one after the other; people edit sections. Correct when no message
is behind the watermark unsummarised, unless a person let it go.

**Notes, memo cards, places, people** (`app/memos.py`, `observations.py`,
`places.py`, `knowledge.py`, `accounts.py`, `roster.py`, `packs/`). State: notes
by slug, memo cards, places with former slugs, members with names. Hard: a
rename touches four stores; names are ambiguous. Correct when notes follow
their place, nobody drops out of a bill unseen, and no person is filed as a
place.

**Content, agents, evaluation, data** (`kernos/content`, `kernos/eval`,
`kernos/data`, `kernos/osadmin.py`, `kernos/host.py`, `kernos/api/admin.py`).
State: versions, sources, proposals; agents and bindings; suites and runs;
collections and documents. Every store method is a transaction and an operation
is several of them, on the event loop or in worker threads. Correct when the
fence around money rules holds, nobody is overwritten, a cached resolve is not
stale, a publish has its evidence, and a confirmed card does what it showed.

Not modelled, with the reason in `PROJECT.json`: accounts and rooms (single-row
updates), rendering and prompts (wording), packages, search and registry, bench,
exports and backups (offline tools).

## The modules and how they correspond to the code

**Splits.** A dict from members to amounts is a function, a participant list a
sequence, a `MoneyError` a call whose `...Allowed` predicate is false. Members
are integers because ties are broken by id; guests have negative ids as in
`split_with_guests`. The three loops that hand out one dong each until a remainder
is gone are `OneEach` along an order: by fraction and id, by id, or the payer first
and then the list. In `Bills` one behaviour is one `propose_meal`: a bill with
adjustments and guests, with a price for everyone, or with fixed amounts for some,
is answered with shares or refused.

**Debts.** An edge has a debtor, a creditor, the kind and id of the record it
comes from, a date and an amount; a payment may name a kind and an id. `Paid`
says in closed form what the two loops of `apply_payments_fifo` compute: an edge
takes what is stamped with it, then what the pool of its pair has left once the
edges ahead of it are filled. `Attribution` is a ledger that grows by one meal or
game (`meal_edges`) or one payment (`record_payment`) at a time, in any order of
days; a share and a payment are positive, as both functions insist.

**Periods, Settlement.** Days are numbers and months begin where `MonthStarts`
says. Every view is a function of the edges, the payments and a period: the panel, the
tools' statements of one member and of the period (`MemberStatement`,
`PeriodSummary`), and the code a member pays a creditor with (`QrRequest`).
`settle_period` writes nothing, so "since the last settlement" is the whole
ledger unless a row says otherwise. `allocate` divides floats; the module uses
exact fractions, which differ only beyond 2^53. The mark of a settlement row
compares the pair's debts with the row's amount, so that a row once paid loses
its mark when a new debt of that size arises, and a card over a bounded window
may be marked when it is posted; the property says what is left.

**Cards.** `cards` is the room's draft messages in id order, with `ref` the meal
a committed expense points at; `meals`, `games` and `payments` are the tables.
One action per operation. A refused commit rolls its transaction back, so it is
no step. `origin` is a history variable: the card each meal was recorded from.
Names, notes and dishes are left out, and so are itemized cards: their
arithmetic is in `Splits`, and `ItemsSurviveTheLedger` says that they reach the
ledger as an ordinary split.

**Journal, LedgerOfRecord.** `tables` and `journal` are what is committed; `tx`
is the open session. `Flush` appends what `_mirror` appends, and is refused when
a recorded amount was rewritten. `release` is the deployed image; the previous
one has no mirror. The fold of the events is a recursive function over their
number. The refinement mapping reads the rows from the folded journal
while the journaled release serves, and from the tables otherwise.

**Migration.** `table` and `file` are what the previous release reads, `stored`
what the new one does, `truth` what the room wrote. `stage` follows the deploy
script; `DiesAt` names the stages at which it may die.

**Room.** `messages` is the log, `waiting` and `running` the agent lock, `held`
the cards a running turn has written or cancelled and nobody has published.
`conn[c]` is a client's stream, `view[c]` what the client shows, with the cursor
it will reconnect with. An action is what runs without suspending: a route
commits and publishes in one step, while a turn is at least two steps and the
stream suspends before every event. `missed` is a history variable: messages
whose latest state failed to reach a client and are behind its cursor.

**Turn.** `profile` is the profile of the room: the tools it has, what they are
asked for, and the bound on the calls. `calls` is `ctx.result.tools`, `subs` the
calls of the sub-agents by the number of the manager's call they belong to, and
`happened` every call as it was made. While a sub-agent runs the stage is `asking`:
the engine waits for it, and its calls are in `nested` until it returns. The patterns of the money guard are a choice: the
model's words may claim a commit or not. A profile's rules on a call make it
refused. Four things the code does are left as exceptions in the properties: a
memo card written by a sub-agent is announced to nobody, as are the cards of a
turn that raises between two of them; a card may have been answered before it is
announced; and a reply has a lower id than the cards behind it.

**Delegation.** `now` is the clock, `runs` the stack of nested runs, each with
the caps its engine was given and those of its profile. The run `rooms` has
roots of depth 1 and 2, the ones the code speaks of; `nested_budget` has 3.

**Engine.** Python steps are the stretches between awaits; the child is
`session`, `calls`, `pending` and `stdout`. `BadLine` is a line longer than the
limit of the stream, or JSON that is not an object: `_read_loop` raises on it
while the child lives on, and the requests of that child then wait for their own
caps; `RequestsEnd` says so.

**Outbox.** A view is one mounting of the room page. Two views of one browser
share the store, and each has a guard of its own, so that a record may be posted
by both: `TwiceOnlyIfUnheard` bounds the copies of a record by the answers nobody
received and the other views that may hold it. Any HTTP error
answer drops a queued record; a direct post is lost with its tab (`cut`).

**Memory.** A section is the set of messages it summarises. `letGo` holds what a
person chose to lose. A crash between the two writes of `append_summary` leaves
a section without its watermark, which the next rollover repeats, and a torn
watermark file reads 0 (`torn`).

**Notes.** Ids never change; a slug is what names, notes and seed files know. The
module's last definition is not true of the code and no run has it: `CreatePlace`
looks at live slugs only, so a new place may take a slug another once had.

**Members, Subjects, Suggest.** A name is a sequence of words, `Plain` takes the
tones off a word. `unknown` is `ctx.unknown_names`. A sign-in and the draw dialog
(whose `only=` overwrites flags) are left out. Two promises of the code do not
hold and are in no run: `AmbiguityIsNeverGuessed` (`app/packs/places.py:225`) and
`NotesFindTheirMember` (`app/knowledge.py:40`). In `Suggest` the order is a
relation, because the code adds a jitter of less than five points.

**Content.** `op[p]` is the operation that the event loop or a worker thread is in
the middle of; between two of its transactions the other comes in. A spec is two
rules, one of them about money. Two promises are in no run because they do not
hold: a removed rule comes back with the next snapshotting draft, and an approval
may publish over a change its card did not show. Boot skips a profile a person
has published; a republish accepts versions that were never published;
`apply_source_changes` compares no etag; the scope of `cms_publish` is checked
outside its transaction.

**Agents.** `reading` is the resolve under way. `stale` holds the cache keys that
were filled by a resolve a change overtook, which is the one exception of the
property: nothing clears them until the next change.

**Evals.** A run is keyed to the content its version had when its row was made;
`swapped` marks a run whose job read a draft after an edit, which the gate does not
see. Only the agent's runs count for its daily cap, so only they age.

**Data.** Exceptions in the properties: a record deleted for good and changed in
one card, one hidden while it was not valid, and one that changed and changed back
between the proposals. Search, journals and the cap on records are left out.

**Grading.** A call's arguments and its draft, each against the expectation.
`share_map` looks at shares and not at who paid, so the property is about
expectations that state the payer as well. It gives the dong that a division leaves
over to the first participant and the tool gives it to the payer, so the property asks
that neither of the two splits has a remainder. A
grader reads the last call of a tool even if it was refused. `_draft_delta` knows
nothing of money paid in advance, so the ledgers on which the projection is compared
have none, before and after.

## Runs

| run | shows | bounds |
|---|---|---|
| `money` | `BillIsShared`, `ItemsSurviveTheLedger`, `PairIsConserved`, `PaymentsGoWhereTheyShould`, `ViewsAgree`, `CardsAskForWhatIsOwed`, `NothingIsRoundedAway`, `APassIsTheRightMoney` | bills to 7, 3 people, prices to 4, 2 guests; 3 debts from 2 meals and a game on 2 days, and 2 payments, of a pair; 2 things and a payment among 3 members; poker stacks to 4; graded turns of 2 eaters, a guest and 3 payers, alone or with another proposal |
| `cards` | `StampedMoneyHasItsDebt`, `OneLiveMealPerCard`, `LedgerIsAppendOnly`, `StampsFollowTheCard`, `QuickPayClosesThatDebt`, `AnswersAreFinal`, `OneCardPerProposal` | a room that eats: 2 cards, 3 meals, 2 payments, a guest; a room that plays: 2 cards of every kind, 2 days |
| `room` | `NothingElseIsSkipped`, `ButtonsDisappear`, `IndicatorSettles`, `EverythingArrives` | 1 client, 3 messages, queue of 2, page of 2, 1 break |
| `lines` | `RepliesFindTheirRequest`, `RequestsEnd`, `OutboxKeepsItsWord`, `RetriedUntilAnswered` | 2 requests, a tool call each, 2 deaths, a bad line; 2 views, 2 messages, an error, a departure |
| `kernel` | `OnePublished`, `MoneyIsNeverLost`, `FenceHolds`, `WritersKeepTheirWork`, `CardCanBeConfirmed`, `CardAppliesAsShown`, `AgentsServeTheirSpaces`, `PublishedWasGraded` | 4 operations on a profile; 2 documents, 2 cards of 2 actions, an edit; 3 agents, a space; 2 versions, 2 runs, 2 edits |
| `rooms` | `TurnTellsTheTruth`, `SubsStayInTheBudget`, `NotesFollowTheirPlace`, `MemoryIsWhole`, `NothingIsLost`, `SuggestionIsSound`, `PlacesAreNotPeople`, `NothingBehindTheirBacks`, `ReadersSeeOneLedger` (refinement) | given in `MCRooms`, part by part |
| `games_share` | finding: `MealAndGameNeverShareAPayment` is violated | a meal and a game |
| `stale_amount` | finding: `OmittedAmountPaysOffExactly` is violated | a meal, a payment card |
| `slow_client` | finding: `ReconnectIsGapFree` is violated | queue of 2 |
| `nested_budget` | finding: `TimeIsLeftToAnswer` is violated | a root of depth 3, 2 subs |
| `stuck_outbox` | finding: `QueueIsEmptied` is violated, under `OutboxFairSpec` | 1 view, 2 messages |
| `interrupted_deploy` | finding: `NothingIsLost` is violated | a deploy that may die anywhere |

The modules `MCMoney`, `MCLines`, `MCKernel` and `MCRooms` put several components
that share no state into one run. A variable `part`, chosen at the start, says
which of them a behaviour is about, and the others keep an initial state: the
states of the run are those of the components added, not multiplied, and each
property is decided on its own component. A property of such a run is named for
what a room may rely on and is the conjunction of the component's properties
that say it. The components the theorems are about are extended and the others
instantiated, so that a theorem names the very definition its run checks:
`MCMoney` extends `Attribution`, `Bills`, `MCSettlement` and `MCGrading`, `MCLines`
extends `Engine` and `Outbox`, `MCKernel`
extends `Content`, `Agents` and `Evals`, and `MCRooms` extends `Turn`, `Journal`,
`Delegation`, `Memory` and `Notes`. Modules extended together have prefixed names
(`OutboxInit`, `MemoryNext`, `NotesSpec`).

Why the bounds are enough. A bill of 7 among up to five heads gives every
remainder, with and without a payer among the eaters, and prices to 4 give
negative differences and ties of fractions. Pairs of people never interact in
the attribution, so two people stand for any number; three debts and two
payments give a stamped, an unstamped and a spilling payment on either side of
an older debt. A card with three meals is edited twice, with money moved, kept
and voided between the edits. In `room` the queues of two clients share nothing,
so one is enough; three messages are a question, a card written during the turn
and a reply, and a queue and a page of two both overflow. Two requests are the
fewest that can cross, and two deaths are one before and one after a restart.
Four operations on a profile let a member edit, an admin come in between, and
both write again. A turn starts in a room with a meal and a payment pending; one
profile has few of the tools and three calls, which is a proposal, a sub-agent and
one call of its own, and the other all the tools with two amounts to choose
between, and two calls, which is a correction. Three agents are a default, a manager and a sub. Every mutant
listed in `PROJECT.json` -- a plausible bug in one of the mapped definitions --
is caught within these bounds.

`CHECK_DEADLOCK FALSE` everywhere: a bounded instance stops at its bounds, and
a room where nobody does anything is not stuck.

## Fairness

*Room.* A client whose stream ended reconnects after two seconds, for ever, and
a stream with something to send sends it (`Proceed`); `asyncio.Lock` is handed to
the first waiter (`Acquire`); the engine cuts a turn after `PI_MAX_SECONDS` and
every exception path of the route marks the room idle (`JobEnds`). *Engine.* The
event loop runs what is ready, an attempt to start the child ends one way or the
other, a tool returns, and the cap fires; nothing is asked of the provider or of
the child. *Outbox.* A timer that is armed fires, and a request ends with an
answer or an error; nothing promises the browser's `online` event. Errors of the
network, deaths and breaks are bounded, which stands for a network that is
eventually up. Nothing is assumed of people, but that under `OutboxFairSpec`
they open the room again.

## Disagreements between the code and what it says

1. `games_share`. `quick_pay` sums the open edges whose `meal_id` is the id it
   was given, without their kind. With a meal 1 and a game 1 between the same
   two people, "mark paid" on the meal pays both. `money.py` says that the two
   never share a payment.
2. `stale_amount`. A payment proposed without an amount carries what was owed
   then, and is recorded unchanged although a meal has been voided, edited or
   paid in between. The tool promises to "pay off exactly what `from` owes".
3. `slow_client`. When a subscriber's queue is full, `publish` takes out the
   oldest event to make room for the closing one. The stream still delivers the
   newer events; they move the client's cursor past the one taken out, and the
   reconnect asks only for what comes after it.
4. `nested_budget`. `DelegationPack.budget` reads the caps of the asking agent's
   own profile. A sub that runs on less than its profile says, because its
   manager had little left, gives a sub of its own more time than it has itself.
   It takes a root with a `max_depth` above the default.
5. `stuck_outbox`. The retry timer of the outbox may fire while a drain is in
   flight; the drain does nothing and arms no other. A message queued meanwhile
   is not in the list that drain works through, and waits for the next event.
6. `interrupted_deploy`. The trap of the deploy script starts the stopped
   backend also after the migration has committed and renamed the note file: the
   previous release then serves a room without notes, and what it writes is not
   in the store.

Excused by properties, and so not findings: three ways to miss news in `Room`
(`missed`): a catch-up of more than one page followed by a live message, a card
answered while a client was away, a card published late or never by its turn.

## Proofs

Each theorem holds for every value of the module's constants: every roster,
input set, set of names and bound. What it assumes beside is said with it.

*Bills* (`MoneyProofs`), for finitely many members with natural ids and whole
amounts, whatever the bills, prices, adjustments and numbers of guests.

* `BillsAreAlwaysShared`: `BillIsShared`. Each order in which the remainder is
  handed out is a line (`IdsAreALine`, `FractionsAreALine`, `PayerFirstIsALine`),
  and along a line as many dong are handed out as there are, provided that there
  are no more than people (`OneEachIsAll`). For proportional shares that is
  `LeftoverIsSmall`: the sum of the fractions is less than one dong for each whose
  share was rounded, so nobody whose price came out even is given one, which also
  makes the rounding fair. The guests' heads have ids of their own (`AllHeads`) and
  no adjustments, so dropping them drops as many bases as there are guests.
* `ItemsAlwaysSurviveTheLedger`: `ItemsSurviveTheLedger`. The adjustments of a split by
  price add up to the bill less the base for everyone, so that `split_shares`
  divides a multiple of the number of people, finds the same base again and has
  nothing left over (`ItemsComeBack`): hence neither the order of the list nor the
  payer matters.

*Payments* (`MoneyProofs`, `DebtProofs`), for finitely many members, ids that are positive and
amounts that are natural.

* `PairIsAlwaysConserved`: `PairIsConserved`. `LedgerInv` says that a ledger has
  one edge per pair and thing, which is what makes `Before` a linear order on the
  edges of a pair (`EdgesAreALine`). Along such a line a pool that is poured over
  the edges, each taking what it asks for while something is left, fills them up
  to the smaller of the pool and all they ask for (`PoolIsPoured`, by induction
  over the beginnings of the line). With what the stamps take first this is the
  pair's gross debt less its payments, floored at zero (`PairIsSettled`).
* `PaymentsAlwaysGoWhereTheyShould`: `PaymentsGoWhereTheyShould`. An edge that
  still has something open leaves nothing of the pool to a later one; one more
  payment enlarges a stamp or the pool and takes from neither
  (`PaymentReopensNothing`); and since every pair is settled as a whole, the
  settlement by edges and the one by totals subtract the same two numbers.

*Settlement* (`MoneyProofs`), for finitely many members with natural ids, finitely many
days, positive amounts, and games whose players are left with no more than they
brought (`PeopleAssumption` to `OutcomesAssumption` of `MCSettlement`).

* `NothingIsEverRoundedAway`: `NothingIsRoundedAway`. `allocate` hands out the whole
  amount and gives nobody more than his weight when the weights suffice (`AllocateIs`,
  by `LeftoverIsSmall`), so what the losers give in turn always finds winners who
  still lack as much: by induction over the losers (`TurnsAreTaken`,
  `AllIsHandedOut`) each winner has his win in the end, which the house's part of
  the losses (`HouseIsPaid`) leaves exactly. The note keeps the longest prefix that
  fits, or none (`NotesFit`).
* `ViewsAlwaysAgree`: `ViewsAgree`. `MoneyInv` is inductive: the edges are debts
  between two members, on a day of the room, one per pair and thing, and the number
  the next meal or game gets is above all others (`Numbered`), which is what keeps
  them distinct. The windows share one attribution, so every view is a sum of the
  same open amounts: by edges (`StatementTells`), by pairs (`PairByPair`,
  `PairsTell`) or net (`TransfersTell`), and the days split in two parts (`DaysAddUp`).
* `CardsAlwaysAskForWhatIsOwed`: `CardsAskForWhatIsOwed`. Over the whole ledger a pair
  owes its gross debt less its payments, floored at zero (`OwedIs`), and payments on
  top come off before the floor (`OwedAfterRows`). A row that is not marked is no more
  than the pair's net debt, so the floor is not reached (`LateRowsAreOwed`); the rows of
  a card after which nothing was recorded are one per pair and in one direction
  (`FreshRows`), so paying one levels its pair and leaves the others alone. That needs
  `CardInv`: such a card has the transfers of today. A code's parts are distinct
  debts, and what they pay is what is open (`CodeIs`).

*Grading* (`MoneyProofs`), for every set of graded turns, under `GradingAssumption`
(members have natural ids, an absent argument is no value, arguments and ledgers are of
the right sort, and the number of the proposed meal is new).

* `PassesAreAlwaysTheRightMoney`: `APassIsTheRightMoney`. `JudgingInv` says that case,
  calls and grades are those of one turn; the rest is about what is computed from it.
  Without guests, an argument set that the tool accepts means the very shares the tool
  answers, by base and adjustments (`PlainMealIsEven`) or by price, where the encoding
  as adjustments comes back as the shares (`PricedMealIs`, by `ItemsComeBack`), so equal
  share maps are equal money. With guests there is no share map, and equal totals,
  heads, people and adjustments are equal bases (`MealIsTheMoney`). What a call leaves
  out counts only as what the tool recorded, and it recorded nothing (`NotRecorded`).
  For the ledger, a balance is the sum over the members of what each owes and is owed
  (`BalanceByPairs`); where nothing is paid in advance the floor of a pair is not
  reached, so a meal moves one pair per eater (`OwingAfterMeal`) and a payment one pair
  (`OwingAfterPayment`), and the sums of these moves are `_draft_delta`
  (`DraftMovesBalances`).

*Cards* (`CardsProofs`), under `InputsAssumption` (the inputs are of the right
sort) and `RosterAssumption` (a room has finitely many members).

* `TypeCorrect`: `Spec => []TypeOK`. Beside the sorts of the rows, `TypeOK` says
  that every id a row carries is the id of a row, which most steps need of the
  others. The work is in the shares: that the split of an allowed bill gives
  natural numbers.
* `AnsweredOnce`: an answered card stays answered.
* `OneMealPerCard`: a card never has two live meals. The property is not
  inductive: nothing in it says that the meal a card points at is the card's own,
  so a recommit could void another card's meal and leave its own alive. `Link`
  adds that every meal comes from an expense card that was answered
  (`MealsComeFromAnsweredCards`) and that a card that names a meal is the one it
  was recorded from (`CardsNameTheirMeals`).
* `StampsMoveWithTheirCard`, `RecordsAreKept`: the action properties
  `StampsFollowTheCard` and `LedgerIsAppendOnly`, from the same invariant.
* `StampsAreSound`: `StampedMoneyHasItsDebt` as long as no game is recorded. With
  games the first finding above breaks the property (the button stamps a meal with
  a game's debt), so the assumption is needed.
* `OneCardWaits`: `OneCardPerProposal`. Three ways lead to a new card with a key and
  each supersedes in the same step (`CreateCardRetires`); every other step leaves
  as many cards as there were (`AsManyCards`), so what became of the others is
  between one card and the next.
* `QuickPayIsExact`: `QuickPayClosesThatDebt`, again as long as no game is recorded. A
  room's live meals and payments are a ledger in the sense of `DebtProofs`
  (`RoomIsALedger`); the amount of the button is what is left of the debt, which is
  one edge (`QuickPayPaysAnEdge`); and a payment that names an edge and is no more
  than what is left of it goes to that edge whole and to no other, under the
  stamps and the pool of all payments before (`NamedPaymentCloses`). The void of a
  meal may rewrite stamps too, but it adds no payment (`OnlyQuickPayStamps`).

*Journal* (`RoomsProofs`), for natural bounds and amounts other than zero, which
stands for an amount somebody rewrote.

* `ReadersAlwaysSeeOneLedger`: `ReadersSeeOneLedger`, the refinement of
  `LedgerOfRecord`, step by step. `JournalInv` says that the journal folds to rows
  that are there in the tables (`BehindTheTables`), to exactly those while the
  journaled release serves, and the same of an open session: what it has flushed
  grew from what is committed, its events fold to what it has flushed, and what it
  has in hand takes no void back (`SessionStands`). What one flush, reconcile or
  migration appends is put right key by key (`PutsRight`, `RightFrom`), by
  induction over the keys that are left.
* `ServedJournalIsAlwaysLevel`, `MigrationIsNeverRefused`: the module's
  `ServedJournalIsLevel` and `MigrationNeverRefused`, from the same invariant: a
  journal that serves folds to the tables, and a deploy always finds one it can
  bring level, whatever a previous release wrote.

*Room* (`RoomProofs`), under `SizesAssumption` (the bounds are natural, and a queue has
room for one event). Safety needs no fairness.

* `OnlyKnownLossesAreSkipped`: `NothingElseIsSkipped`. The cursor of a client may
  pass a message only if the client has it, it is on its way, or it is on record
  as missed. `Client` therefore speaks of what is not behind the cursor yet as
  well: the queue and the page are in the order of the log, what they end with is
  what the log says last (`SaysTheLatest`), and everything that a client will not
  ask for again is accounted for (`Past`, `Accounted`).
* `ButtonsAlwaysDisappear`: `ButtonsDisappear`, from the same invariant
  (`ShowsTheLatest`).

*Outbox*, *Engine* (`LinesProofs`), for finitely many views.

* `OutboxAlwaysKeepsItsWord`: `OutboxKeepsItsWord`. `OutboxInv` says where every
  message is: in the store, delivered, refused, or on its way (`Whereabouts`);
  that a view which skips a record of its list knows it settled
  (`QueueIsWorkedOff`); and that an answer on its way is of a message in the room
  (`LandedIsThere`). That a record is posted twice only for an answer nobody heard
  is a count: `CopiesAreCounted` says what of the copies is to be charged to the
  views that hold the record, while it is in the store and after.
* `RepliesAreForTheirRequest`: `RepliesFindTheirRequest`. A queue is of a request
  that was sent to the child there is (`QueuesArePresent`), and while a child is
  being started there is none (`StartingAlone`).

*Agents*, *Evals* (`KernelProofs`), for finitely many cases.

* `AgentsAlwaysServeTheirSpaces`: `AgentsServeTheirSpaces`. Of the cache it needs
  what a resolve has read so far: one that no change has overtaken holds the
  overrides in force (`ReadingIsCurrent`).
* `PublishedWasAlwaysGraded`: `PublishedWasGraded`. A version may be rolled back to
  long after its run, so the evidence of every version that was ever live has to
  last (`EvidenceIsKept`), and a run that is not over yet has to be keyed to what
  its job reads, unless the draft was edited under it (`RowIsKeyed`).

*Content* (`KernelProofs`), under `BodiesAssumption` (0, which stands for a rule that
is absent, is no body).

* `OneVersionIsPublished`, `MoneyStays`: `OnePublished` and `MoneyIsNeverLost`. Alone
  they are not inductive, because an operation holds between its transactions what
  it read before: `Sound` says that the versions and proposals it names exist, and
  that the changes it has yet to apply, and the row an operator is about to
  delete, are not of the money rule.
* `FenceAlwaysHolds`: the action property `FenceHolds`. `BaseIsSettled` adds that
  the base of a member's operation is no draft, so that nobody can edit it while
  the operation waits, and that the operation's goal has the base's money rule;
  `if_published` then makes it the live version's.
* `WritersAlwaysKeepTheirWork`: the three action properties that make up
  `WritersKeepTheirWork`. The last needs that a profile boot still manages was last
  published by boot.

*Data* (`KernelProofs`), for a natural bound on the ids (`KernelBounds`).

* `CardsCanAlwaysBeConfirmed`: `CardCanBeConfirmed`. The inductive invariant is about
  the list of actions a turn builds (`GoodList`: one update of a record and one
  creation of an id at most) and, while nothing stored has changed, about each of them
  on its own (`Fresh`: proposed against what is stored). What lets the card through is
  an induction over its transaction: after every action, each record an action has yet
  to come to is there, untouched ones as they were (`Confirmable`), so that the next
  one passes. The numbers stay distinct because the counter never falls below one it
  has drawn (`GoodNumbers`), whatever the floor.
* `CardsAlwaysApplyAsShown`: both action properties of `CardAppliesAsShown`. The
  induction is over the same transaction, for one record (`ShownSoFar`): until an
  action is about it, it is as it was; the first that is checks the copy it was
  shown against, which is then the copy of all of them; and of each field the one
  action that shows it has the last word.

*Turn* (`RoomsProofs`), for any profiles and any cards that are pending when the turn
starts.

* `TurnsTellTheTruth`: `TurnTellsTheTruth`. `TurnInv` says, until the engine ends,
  that the calls made so far are the manager's with those of the sub-agents where
  their numbers put them, those of the sub-agent that runs last (`CallsAreMerged`);
  a call of the manager adds nothing under a number, and a sub-agent that returns
  puts its own under the last one (`MergingExists` and what follows it, by induction
  over the calls). Of each kind of card there is, from the outcome on, either one
  written by this turn or one still to be written, if the manager proposed one and
  not otherwise, and it holds what that pack decided (`CardOfKind`). A card which is
  not shown as it stands is on the list of those to be announced, or the call that
  will put it there has been made (`StillToAnnounce`). Words that no pack stands
  behind are the model's, and have been checked (`WordsAreChecked`).

*Delegation* (`RoomsProofs`), with roots of depth 2 at most and `Delay <= Margin`.

* `SubsAlwaysStayInTheBudget`: `SubsStayInTheBudget`. A nested run is given what its
  manager has left less a margin, and its own clock starts only after the stages
  before the engine; the margin has to cover them (`InTime`, `Given`). The
  hypothesis on the depth is needed: with deeper roots the fourth finding breaks
  the property.

*Memory*, *Notes* (`RoomsProofs`), under no assumption.

* `MemoryStaysWhole`: `MemoryIsWhole`. A summary is awaited between the reading of
  the window and the write, so the invariant says that the window the task has
  read is the window still (`WindowStands`), which rests on the order of the tasks
  behind the lock (`InOrder`); `FoldedOnce` says that sections and watermark agree
  unless a crash came between the two files.
* `NotesAlwaysFollow`: `NotesFollowTheirPlace`. It needs that no two places have one
  live slug (`LiveSlugsDiffer`); that no two places share any slug, former ones
  included, is not true.

*Names and places* (`RoomsProofs`), in the room of `MCRooms`, under no assumption.

* `NothingIsBehindTheirBacks`: `NothingBehindTheirBacks`. The meal needs that the holes
  of a turn are among the names its context still calls unknown (`HolesAreKnown`): the
  tool compares with the latter. The links need what a sure guess is
  (`SureIsTheName`): when the first tier that any place is in has one place, no other
  place the room shows bears the text as its very name; a broader tier of one place
  is reached only when the narrower ones have none.
* `PlacesAreNeverPeople`: `PlacesAreNotPeople`, which is inductive as it stands, because
  a note keeps whom its text could mean when it was written.

*Suggest* (`RoomsProofs`), for any directories, meals, rules of the clock and minute of
the day, under `SuggestAssumption` (a place has a number and a row, a meal is one visit
at least, prices and minutes are natural).

* `SuggestionsAreSound`: `SuggestionIsSound`. The invariant is the type alone
  (`SuggestTypes`); the rest is about what is computed from it. Visits are natural sums,
  and the meals of a place are counted once (`VisitsAreCounted`, `UsualsScore`), so three
  visits and ten days outweigh what a new place may score. The verdict on a place is
  right after each of its notes (`SaidRight`), which gives the reason and what is out of
  reach. The bands need that the known prices stand in a line by price and place
  (`PlacesAreALine`) in which every rank up to their number is taken by one place
  (`EveryRankIsTaken`, by induction over the ranks), so that the two boundaries are
  prices of the line (`BoundariesAre`), ordered as their ranks, and with three prices
  that differ each band has its place.

*Migration* (`RoomsProofs`), under `LoreAssumption` (a fact is not the sign that there
is no file), for a deploy that may die once the backend is stopped and nowhere else:
elsewhere the sixth finding breaks the property.

* `NothingIsEverLost`: `NothingIsLost`, with the two theorems about the journal.
  `MigrationInv` says what the release that serves has, or that the stopped
  container would start again with: the previous one everything, and the store is
  empty (`OldIsWhole`); the new one everything, and the table has no place that the
  store lacks, which is what lets an undo put its places over the rows that are
  there (`NewIsWhole`); `HalfWay` is what a deploy or an undo has done before its
  next step. Notes are in order: what the room believes is what is left of the
  served facts, each where it first stood (`Tells`), and every edit keeps that
  (`EditIsTold`). `SelectSeq` is opaque to the provers, so `Migration` sifts a
  sequence with a recursive function, of which `OnlyGrows` and `UniqueGrows` say
  what one element more does, and `EverySequence` the rest.

`Lemmas` has what these share. The library's induction theorems take an operator
and cannot be used, so induction is by least counterexample (`EveryNumber`) and, for
finite sets, over the set of the subsets that have a property (`EverySubset`); the
values of recursive functions and of sums (`SumUnfolds`, `SumTakesOut`,
`SumOfParts`) are drawn from those two.

Only model-checked: liveness under fairness (`RequestsEnd`, `RetriedUntilAnswered`,
`IndicatorSettles`, `EverythingArrives`), which TLAPS cannot treat. Every invariant and
every action property that a passing run checks is a theorem.

## Plan

Every component of the inventory with state that interleaves has its module.
What is left, in this order:

1. Games of several players as cards, itemized cards, and the progress events of
   a turn in `Room`.
2. Compositions that share state: `Turn` with `Data` (a record card proposed by a
   pack), `Evals` with the gates of `Content`.
