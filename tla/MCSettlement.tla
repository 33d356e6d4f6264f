------------------------------ MODULE MCSettlement -----------------------------
(***************************************************************************)
(* A ledger of three members growing by meals, poker nights and payments,  *)
(* with a settlement card in its thread; and, as calls of their own, every *)
(* small poker night and every small note.                                 *)
(***************************************************************************)
EXTENDS Settlement

CONSTANTS
    People,     \* the members, numbers
    Openers,    \* who may be the first to pay
    Dates,      \* days on which something happens; the last is today
    Amounts,    \* shares and payments
    MaxEaters,  \* bound on those who owe for one meal
    Outcomes,   \* what a game leaves each player with; what is missing the house took
    Chips,      \* buy-ins and cash-outs
    Cuts,       \* the house's part of a night
    NameLengths, ChunkLengths, MaxChunks, Budgets,  \* the notes of transfers
    MaxThings,  \* bound on the meals and games
    MaxPaid     \* bound on the payments

ASSUME PeopleAssumption == IsFiniteSet(People) /\ People \subseteq Nat /\ Openers \subseteq People
ASSUME DatesAssumption == IsFiniteSet(Dates) /\ Dates # {} /\ Dates \subseteq Int /\ Beginning \notin Int
ASSUME AmountsAssumption == Amounts \subseteq Nat \ {0} /\ Chips \cup Cuts \cup ChunkLengths \subseteq Nat
                            /\ NameLengths \cup Budgets \subseteq Int
ASSUME OutcomesAssumption == Outcomes \subseteq [People -> Int] /\ \A nets \in Outcomes : Total(nets) <= 0

VARIABLES call, edges, pays, card
settlementVars == <<call, edges, pays, card>>

Today == Max(Dates)
Whole == [from |-> Beginning, to |-> Today]
NoCard == [rows |-> {}, fresh |-> FALSE]
TheLedger == [is |-> "ledger"]

Nights == {n \in [is : {"night"}, buyIn : [People -> Chips], cashOut : [People -> Chips], house : Cuts] :
             GameAllowed(n.buyIn, n.cashOut, n.house)}
Notes == [is : {"note"}, name : NameLengths, chunks : UNION {[1..n -> ChunkLengths] : n \in 1..MaxChunks},
          budget : Budgets]

SettlingInit ==
    /\ call \in {TheLedger} \cup Nights \cup Notes
    /\ edges = {} /\ pays = <<>> /\ card = NoCard

Ref == 1 + Cardinality({<<e.kind, e.ref>> : e \in edges})

AddMeal ==
    /\ Ref <= MaxThings
    /\ \E payer \in (IF edges = {} THEN Openers ELSE People), day \in Dates, eaters \in SUBSET People :
         /\ eaters # {} /\ payer \notin eaters /\ Cardinality(eaters) <= MaxEaters
         /\ \E shares \in [eaters -> Amounts] :
              edges' = edges \cup EdgesOf("meal", Ref, payer, shares, day)
    /\ card' = [card EXCEPT !.fresh = FALSE]
    /\ UNCHANGED <<call, pays>>

AddGame ==
    /\ Ref <= MaxThings
    /\ edges # {}
    /\ \E nets \in Outcomes :
         edges' = edges \cup GameEdges(Ref, Today, nets, -Total(nets))
    /\ card' = [card EXCEPT !.fresh = FALSE]
    /\ UNCHANGED <<call, pays>>

Paying(frm, to, amount, e) ==
    /\ Len(pays) < MaxPaid
    /\ pays' = Append(pays, [frm |-> frm, to |-> to, amount |-> amount, kind |-> e.kind, ref |-> e.ref])
    /\ UNCHANGED <<call, edges>>

\* Quick-pay of an edge, or money that names nothing.
RecordPayment ==
    /\ \E frm, to \in People, amount \in Amounts :
         /\ frm # to
         /\ \E e \in {[kind |-> "meal", ref |-> NoRef]}
                      \cup {f \in edges : f.debtor = frm /\ f.creditor = to} : Paying(frm, to, amount, e)
    /\ card' = [card EXCEPT !.fresh = FALSE]

PostCard ==
    /\ card = NoCard
    /\ card' = [rows |-> Transfers(edges, pays, Whole, People), fresh |-> TRUE]
    /\ UNCHANGED <<call, edges, pays>>

SettlingNext == call = TheLedger /\ (AddMeal \/ AddGame \/ RecordPayment \/ PostCard)
SettlingSpec == SettlingInit /\ [][SettlingNext]_settlementVars
-----------------------------------------------------------------------------
SumOf(rows) == SumFunction([r \in rows |-> r.amount])
InTo(rows, m) == SumOf({r \in rows : r.to = m})
OutOf(rows, m) == SumOf({r \in rows : r.frm = m})
AsRows(pairs) == {[frm |-> p.debtor, to |-> p.creditor, amount |-> p.amount] : p \in pairs}

\* Over any period, a member's balance is what the settlement brings and takes, what
\* the bot's summary says of the open pairs, and what its statement says of the member
\* ("the three can no longer contradict each other"), and the room's panel shows the
\* same; and the balances up to a day and since it add up to
\* those of the whole ledger: a window never brings back a debt that was paid after it.
PeriodsAgree ==
    /\ \A keyword \in Keywords :
         LET period == ResolvePeriod(keyword, Today, Beginning)
             rows == Transfers(edges, pays, period, People)
         IN  \A m \in People :
               LET balance == Balance(edges, pays, period, m)
                   summary == PeriodSummary(edges, pays, keyword, Today, Beginning, People)
                   mine == MemberStatement(edges, pays, keyword, Today, Beginning, m)
                   pairs == AsRows(summary)
               IN  /\ balance = InTo(rows, m) - OutOf(rows, m)
                   /\ balance = InTo(pairs, m) - OutOf(pairs, m)
                   /\ balance = SumOf(mine.owed) - SumOf(mine.owe)
                   /\ Panel(edges, pays, period, m, People) = [outstanding |-> summary, me |-> mine]
    /\ \A day \in Dates, m \in People :
         Balance(edges, pays, Whole, m)
           = Balance(edges, pays, [from |-> Beginning, to |-> day], m)
               + Balance(edges, pays, SinceLast(Today, day), m)

Net(ps, a, b) ==
    LET open == Breakdown(edges, ps, Whole) IN Owes(open, a, b) - Owes(open, b, a)
WithRows(rows) ==
    pays \o SetToSeq({[frm |-> r.frm, to |-> r.to, amount |-> r.amount, kind |-> "meal", ref |-> NoRef] : r \in rows})
WithParts(frm, to, parts) ==
    pays \o SetToSeq({[frm |-> frm, to |-> to, amount |-> p.amount, kind |-> p.kind, ref |-> p.ref] : p \in parts})
Marked(ps) == {r \in card.rows : Settled(r, edges, ps, Today, People)}

\* A card stays in the thread with its codes.  Whoever pays a row that is not marked as
\* settled, however late, pays a debt: what is owed falls by the whole amount and does
\* not turn around.  Paying rows of a fresh card marks exactly these, and all of them
\* leave the room square.
UnmarkedRowsAreOwed ==
    /\ \A r \in card.rows \ Marked(pays) :
         /\ Net(WithRows({r}), r.frm, r.to) = Net(pays, r.frm, r.to) - r.amount
         /\ Net(WithRows({r}), r.frm, r.to) >= 0
    /\ card.fresh =>
         /\ \A rows \in SUBSET card.rows : Marked(WithRows(rows)) = rows
         /\ Transfers(edges, WithRows(card.rows), Whole, People) = {}

\* A member who says "I paid" is offered a payment that clears what was meant and no
\* more: by the gross debt nothing is owed in that direction any longer and the other
\* direction stands, by the offset the room sees no transfer between the two; and when
\* only the other side owes, nothing is offered.  The code the member can ask for instead
\* asks for exactly what is owed, and is there only when something is; paid at once, or
\* debt by debt as it lists them, it clears the same.
PayOffClears ==
    \A frm, to \in People : \A mode \in {"gross", "offset"} :
      LET owed(ps, a, b) == Owes(Breakdown(edges, ps, Whole), a, b)
          mine == owed(pays, frm, to)
          theirs == owed(pays, to, frm)
          offer == PayOff(mine, theirs, frm, to, mode)
          paid == WithRows(offer)
      IN  frm # to =>
            /\ mode = "gross" => owed(paid, frm, to) = 0 /\ owed(paid, to, frm) = theirs
            /\ mode = "offset" /\ mine > 0 => owed(paid, frm, to) = owed(paid, to, frm)
            /\ mine = 0 => offer = {}
            /\ LET code == QrRequest(edges, pays, Today, Beginning, frm, to) IN
                  /\ {c.amount : c \in code} = {mine} \ {0}
                  /\ \A c \in code : \A ps \in {WithRows(Pay(frm, to, c.amount)), WithParts(frm, to, c.of)} :
                       owed(ps, frm, to) = 0 /\ owed(ps, to, frm) = theirs

\* A poker night loses no dong on either side: a loser's edges make up the loss less the
\* loser's part of the house's cut, a winner's edges the whole win, and the parts of the
\* house make up its cut.
NightIsExact ==
    call.is = "night" =>
        LET nets == Nets(call.buyIn, call.cashOut)
            house == HouseShares(nets, call.house)
            es == GameEdges(1, Today, nets, call.house)
        IN  /\ \A m \in DOMAIN Losses(nets) :
                 SumOf({e \in es : e.debtor = m}) = Losses(nets)[m] - house[m]
            /\ \A m \in DOMAIN Wins(nets) :
                 SumOf({e \in es : e.creditor = m}) = Wins(nets)[m]
            /\ Total(house) = call.house
            /\ \A e \in es : e.amount > 0 /\ nets[e.debtor] < 0 /\ nets[e.creditor] > 0

\* A note stays within the bank's budget unless not even the name and the bare tag fit,
\* it names the oldest meals first and as many as fit.
NoteFits ==
    call.is = "note" =>
        LET kept == Kept(call.name, call.chunks, call.budget) IN
            /\ NoteLength(call.name, call.chunks, kept) > call.budget =>
                 kept = 0 /\ call.name + 2 > call.budget
            /\ \A more \in (kept + 1)..Len(call.chunks) :
                 NoteLength(call.name, call.chunks, more) > call.budget
=============================================================================
