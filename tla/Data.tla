--------------------------------- MODULE Data ---------------------------------
(***************************************************************************)
(* One table collection of one space: its definition, its documents, the   *)
(* actions an agent's turn proposes, and the cards a person confirms.       *)
(*                                                                         *)
(* A turn reads the definition once and checks each proposal against it;   *)
(* a confirmed card is applied against the definition and the documents of *)
(* that moment, in one transaction that any refused action rolls back.  An *)
(* administrator changes the definition and the documents meanwhile; a     *)
(* document put reads the definition in one transaction and writes in the  *)
(* next.                                                                   *)
(*                                                                         *)
(* A document has two editable fields and the soft_delete flag; 0 is an    *)
(* empty field, and an update sends it only for a field it names in clear. *)
(* The cap on documents and journals are left out.                         *)
(***************************************************************************)
EXTENDS Naturals, Sequences, FiniteSetsExt

CONSTANTS
    MaxId,        \* bound on the document ids
    MaxActions,   \* bound on the proposals of one turn
    MaxCards,     \* bound on the cards
    MaxEdits      \* bound on the administrator's changes

VARIABLES
    options,    \* soft_delete and ids of the collection, fixed
    schema,     \* the stored definition: must field "a" be filled?
    docs,       \* documents by id
    counter,    \* kn_sequences
    drawn,      \* ids drawn from the counter, in order (history)
    turn,       \* the definition the turn read, and its card so far
    cards,      \* record_draft cards, in order
    put,        \* the definition an administrator's put has read
    edits,      \* administrator's changes so far
    calm        \* nothing stored changed since the turn began (history)

vars == <<options, schema, docs, counter, drawn, turn, cards, put, edits, calm>>

Fields == {"a", "b"}
Schemas == {"open", "filled"}
DocIds == 1..MaxId
Docs == [a : {0, 1}, b : {0, 1}, shown : BOOLEAN]
NewDocs == [a : {0, 1}, b : {0}, shown : {TRUE}]   \* as they are created and put
NoTurn == [on |-> FALSE, schema |-> "open", actions |-> <<>>]
NoPut == [on |-> FALSE, schema |-> "open"]

Payloads == UNION {[S -> {0, 1}] : S \in (SUBSET Fields) \ {{}}}

Satisfies(sch, d) == sch = "filled" => d.a # 0

\* {**now, **payload}
Onto(now, payload) ==
    [f \in DOMAIN now \cup DOMAIN payload |-> IF f \in DOMAIN payload THEN payload[f] ELSE now[f]]

\* {**now, flag: False}
Hidden(now) == [now EXCEPT !.shown = FALSE]

Init ==
    /\ options \in {[soft |-> FALSE, ids |-> "client"], [soft |-> TRUE, ids |-> "server"]}
    /\ schema = "open" /\ docs = <<>> /\ counter = 0 /\ drawn = <<>>
    /\ turn = NoTurn /\ cards = <<>> /\ put = NoPut /\ edits = 0 /\ calm = TRUE
-----------------------------------------------------------------------------

(* Proposing: what would change, checked now. *)

Action(op, id, payload, before, after) ==
    [op |-> op, id |-> id, payload |-> payload, before |-> before, after |-> after]

\* A server id is not known yet: 0.
CreateActions ==
    {Action("create", id, <<>>, <<>>, d) :
        id \in IF options.ids = "client" THEN DocIds \ DOMAIN docs ELSE {0},
        d \in {x \in NewDocs : Satisfies(turn.schema, x)}}

UpdateActions ==
    {Action("update", id, p, docs[id], Onto(docs[id], p)) : id \in DOMAIN docs, p \in Payloads}

DeleteActions ==
    {Action("delete", id, <<>>, docs[id], Hidden(docs[id])) : id \in DOMAIN docs}

Proposable ==
    CreateActions
      \cup {x \in UpdateActions : x.after # x.before /\ Satisfies(turn.schema, x.after)}
      \cup {x \in DeleteActions : options.soft => x.before.shown}

\* What the card shows of an action, field by field; a removal shows no field.
Changes(x) ==
    IF x.op = "create" THEN DOMAIN x.after
    ELSE IF x.op = "delete" /\ ~options.soft THEN {}
    ELSE {f \in DOMAIN x.after : x.after[f] # x.before[f]}

\* Two updates of one record as one: the fields the later sends win.
Merged(first, later) ==
    Action("update", first.id, Onto(first.payload, later.payload), first.before,
           Onto(first.after, [f \in DOMAIN later.payload |-> later.after[f]]))

SameUpdate(x, y) == x.op = "update" /\ y.op = "update" /\ x.id = y.id
MadeBefore(list, x) ==
    x.op = "create" /\ x.id # 0 /\ \E i \in DOMAIN list : list[i].op = "create" /\ list[i].id = x.id

\* Mutant of Proposed: a second create of one identity joins the card.
ProposedTwice(list, x) ==
    IF \E i \in DOMAIN list : SameUpdate(list[i], x)
    THEN [i \in DOMAIN list |-> IF SameUpdate(list[i], x) THEN Merged(list[i], x) ELSE list[i]]
    ELSE IF \E i \in DOMAIN list : list[i] = x THEN list ELSE Append(list, x)

\* The turn's actions, in order, each once.
Proposed(list, x) ==
    IF MadeBefore(list, x) THEN list ELSE
    IF \E i \in DOMAIN list : SameUpdate(list[i], x)
    THEN [i \in DOMAIN list |-> IF SameUpdate(list[i], x) THEN Merged(list[i], x) ELSE list[i]]
    ELSE IF \E i \in DOMAIN list : list[i] = x THEN list ELSE Append(list, x)
-----------------------------------------------------------------------------

(* Applying: one action in the card's transaction. *)

Largest(S) == CHOOSE m \in S \cup {0} : \A n \in S : n <= m

\* Mutant of NextId: the next number is the largest in use, plus one.
NextIdFloor(count, floor) == floor + 1

\* Never at or below the floor, and never one drawn before.
NextId(count, floor) == (IF count > floor THEN count ELSE floor) + 1

\* Mutant of Current: an action applies whatever has become of its record.
CurrentAnyway(tx, x) == x.id \in DOMAIN tx.docs

\* An earlier action of the card checked the record for the later ones.
Current(tx, x) == x.id \in DOMAIN tx.docs /\ (x.id \in tx.touched \/ tx.docs[x.id] = x.before)

\* Mutant of Becomes: the copy seen when proposed, not the record as it is now.
BecomesCopy(now, x) == x.after

Becomes(now, x) ==
    IF x.op = "update" THEN Onto(now, x.payload) ELSE Hidden(now)

\* Mutant of Allowed: propose has validated it.
AllowedAsProposed(d) == TRUE

\* _write validates against the stored definition.
Allowed(d) == Satisfies(schema, d)

Refused(tx) == [tx EXCEPT !.ok = FALSE]
With(f, id, d) == [i \in DOMAIN f \cup {id} |-> IF i = id THEN d ELSE f[i]]
Without(f, id) == [i \in DOMAIN f \ {id} |-> f[i]]

ApplyCreate(tx, x) ==
    LET id == IF options.ids = "server" THEN NextId(tx.counter, Largest(DOMAIN tx.docs)) ELSE x.id
    IN IF id \in DOMAIN tx.docs \/ ~Allowed(x.after) THEN Refused(tx)
       ELSE [tx EXCEPT !.docs = With(@, id, x.after),
                       !.counter = IF options.ids = "server" THEN id ELSE @,
                       !.drawn = IF options.ids = "server" THEN Append(@, id) ELSE @]

ApplyChange(tx, x) ==
    LET new == Becomes(tx.docs[x.id], x)
    IN IF ~Allowed(new) THEN Refused(tx)
       ELSE [tx EXCEPT !.docs = With(@, x.id, new), !.touched = @ \cup {x.id}]

ApplyAction(tx, x) ==
    IF ~tx.ok THEN tx
    ELSE IF x.op = "create" THEN ApplyCreate(tx, x)
    ELSE IF ~Current(tx, x) THEN Refused(tx)
    ELSE IF x.op = "delete" /\ ~options.soft
         THEN [tx EXCEPT !.docs = Without(@, x.id), !.touched = @ \cup {x.id}]
    ELSE ApplyChange(tx, x)

\* The transaction after each of the actions, and after the last.
Begun == [ok |-> TRUE, docs |-> docs, counter |-> counter, drawn |-> drawn, touched |-> {}]
AppliedTo(actions) ==
    LET tx[n \in 0..Len(actions)] == IF n = 0 THEN Begun ELSE ApplyAction(tx[n - 1], actions[n])
    IN  tx
Commit(actions) == AppliedTo(actions)[Len(actions)]
-----------------------------------------------------------------------------

\* The turn's tools are built from the definition as it is now.
BeginTurn ==
    /\ ~turn.on /\ Len(cards) < MaxCards
    /\ turn' = [on |-> TRUE, schema |-> schema, actions |-> <<>>]
    /\ calm' = TRUE
    /\ UNCHANGED <<options, schema, docs, counter, drawn, cards, put, edits>>

Propose(x) ==
    /\ turn.on /\ Len(turn.actions) < MaxActions
    /\ turn' = [turn EXCEPT !.actions = Proposed(@, x)]
    /\ UNCHANGED <<options, schema, docs, counter, drawn, cards, put, edits, calm>>

EndTurn ==
    /\ turn.on
    /\ cards' = IF turn.actions = <<>> THEN cards
                ELSE Append(cards, [actions |-> turn.actions, status |-> "pending"])
    /\ turn' = NoTurn
    /\ UNCHANGED <<options, schema, docs, counter, drawn, put, edits, calm>>

\* What became of a card; its actions are not read again.
Settled(status) == [actions |-> <<>>, status |-> status]

ConfirmCard(c) ==
    /\ cards[c].status = "pending"
    /\ LET tx == Commit(cards[c].actions) IN
         /\ tx.ok
         /\ Largest(DOMAIN tx.docs) <= MaxId
         /\ docs' = tx.docs /\ counter' = tx.counter /\ drawn' = tx.drawn
    /\ cards' = [cards EXCEPT ![c] = Settled("committed")]
    /\ calm' = FALSE
    /\ UNCHANGED <<options, schema, turn, put, edits>>

CancelCard(c) ==
    /\ cards[c].status = "pending"
    /\ cards' = [cards EXCEPT ![c] = Settled("cancelled")]
    /\ UNCHANGED <<options, schema, docs, counter, drawn, turn, put, edits, calm>>

\* A changed definition must hold of the documents there are, unless forced.
PutCollection(sch, force) ==
    /\ edits < MaxEdits /\ sch # schema
    /\ force \/ \A id \in DOMAIN docs : Satisfies(sch, docs[id])
    /\ schema' = sch /\ edits' = edits + 1 /\ calm' = FALSE
    /\ UNCHANGED <<options, docs, counter, drawn, turn, cards, put>>

PutReadsCollection ==
    /\ ~put.on
    /\ put' = [on |-> TRUE, schema |-> schema]
    /\ UNCHANGED <<options, schema, docs, counter, drawn, turn, cards, edits, calm>>

PutWritesDocument(id, d) ==
    /\ put.on /\ edits < MaxEdits
    /\ Satisfies(put.schema, d)
    /\ docs' = With(docs, id, d)
    /\ put' = NoPut /\ edits' = edits + 1 /\ calm' = FALSE
    /\ UNCHANGED <<options, schema, counter, drawn, turn, cards>>

DeleteDocument(id) ==
    /\ edits < MaxEdits
    /\ docs' = Without(docs, id)
    /\ edits' = edits + 1 /\ calm' = FALSE
    /\ UNCHANGED <<options, schema, counter, drawn, turn, cards, put>>

Next ==
    \/ BeginTurn \/ EndTurn
    \/ \E x \in Proposable : Propose(x)
    \/ \E c \in DOMAIN cards : ConfirmCard(c) \/ CancelCard(c)
    \/ \E sch \in Schemas, force \in BOOLEAN : PutCollection(sch, force)
    \/ PutReadsCollection
    \/ \E id \in DocIds, d \in NewDocs : PutWritesDocument(id, d)
    \/ \E id \in DOMAIN docs : DeleteDocument(id)

Spec == Init /\ [][Next]_vars
-----------------------------------------------------------------------------

\* Type invariant.
TypeOK ==
    /\ DOMAIN docs \subseteq DocIds /\ \A id \in DOMAIN docs : docs[id] \in Docs
    /\ counter \in 0..MaxId /\ turn.schema \in Schemas
    /\ \A c \in DOMAIN cards : cards[c].status \in {"pending", "committed", "cancelled"}

Confirmed(c) == cards[c].status = "pending" /\ cards'[c].status = "committed"
Shows(x, id, f) == x.id = id /\ f \in Changes(x)
Mine(c, id) == {i \in DOMAIN cards[c].actions : cards[c].actions[i].id = id}

\* The value the card last showed for a field of a record, or what it was.
LastShown(c, id, f) ==
    LET at == {i \in DOMAIN cards[c].actions : Shows(cards[c].actions[i], id, f)}
    IN IF at = {} THEN docs[id][f] ELSE cards[c].actions[Max(at)].after[f]

\* The card's changes of a record were all proposed against one copy of it.  (If
\* it was changed and changed back between two of them, apply cannot tell: it
\* checks the first and trusts the rest.)
SawOneCopy(c, id) ==
    \A i, j \in Mine(c, id) : cards[c].actions[i].before = cards[c].actions[j].before

\* "a person sees exactly what they confirm" (actions.body): of every record a
\* confirmed card changes and keeps, each field ends as the card last showed it,
\* or as it was when the card shows nothing of it, and the value a change was
\* shown to replace is the one it had.
CardAppliesAsShown ==
    [][\A c \in DOMAIN cards : Confirmed(c) =>
         \A id \in DOMAIN docs : (Mine(c, id) # {} /\ SawOneCopy(c, id)) =>
            /\ \A i \in Mine(c, id) : cards[c].actions[i].op # "create" =>
                 \A f \in Changes(cards[c].actions[i]) :
                   cards[c].actions[i].before[f] = docs[id][f]
            /\ id \in DOMAIN docs' =>
                 \A f \in DOMAIN docs[id] : docs'[id][f] = LastShown(c, id, f)]_vars

\* No number names two records, though rows are deleted, put by hand above the
\* counter, and created by cards in any order (next_id, _max_numeric_id).
NumbersAreDrawnOnce == \A i, j \in DOMAIN drawn : i # j => drawn[i] # drawn[j]

\* The two cards propose lets through: a record removed for good and then
\* changed, and one hidden that a forced definition has left invalid.
Removed(list) ==
    \E i, j \in DOMAIN list :
        i < j /\ list[i].id = list[j].id /\ list[i].op = "delete" /\ ~options.soft
HidesInvalid(list) ==
    \E i \in DOMAIN list : list[i].op = "delete" /\ options.soft /\ ~Satisfies(schema, list[i].after)

\* A card is not left that "nobody can ever confirm" (actions.proposed): while
\* nothing stored has changed, the turn's card would be applied; the two cards
\* above excepted.
CardCanBeConfirmed ==
    (turn.on /\ calm) =>
        Commit(turn.actions).ok \/ Removed(turn.actions) \/ HidesInvalid(turn.actions)

\* Whatever the turn had read, what a confirmed card writes satisfies the
\* definition in force when it is written.
CardsObeyTheSchemaInForce ==
    [][\A c \in DOMAIN cards : Confirmed(c) =>
         \A id \in DOMAIN docs' :
            (id \notin DOMAIN docs \/ docs'[id] # docs[id]) => Satisfies(schema, docs'[id])]_vars
=============================================================================
