------------------------------- MODULE Settlement ------------------------------
(***************************************************************************)
(* What a room is told of its debts over a period -- the settlement with   *)
(* its transfers, the open pairs, a member's statement, the balances --    *)
(* and the marks on the settlement cards that stay in the thread.  All of  *)
(* it is computed from the attributed edges of Debts; nothing is written.  *)
(*                                                                         *)
(* With them the arithmetic of a poker night, which makes edges as well,   *)
(* and the note that goes with a transfer.  Members are numbers.           *)
(***************************************************************************)
EXTENDS Debts, Splits, Periods

\* debt_breakdown: the payments are attributed over the whole ledger, and only then
\* the edges of the window are taken.
Window(edges, period) == {e \in edges : In(e.day, period)}

\* Mutant of Breakdown: the ledger is cut to the window before the attribution.
BreakdownOfWindow(edges, pays, period) == Outstanding(Window(edges, period), pays)

Breakdown(edges, pays, period) ==
    LET open == Outstanding(edges, pays) IN [e \in Window(edges, period) |-> open[e]]

Owes(open, from, to) == OwedOver(open, DOMAIN open, from, to)

\* settle_period, when no card about money is pending.
Transfers(edges, pays, period, people) ==
    LET open == Breakdown(edges, pays, period)
    IN  NetPairs([q \in people \X people |-> Owes(open, q[1], q[2])], people)

\* outstanding_pairs: both directions of a pair, not netted.
OutstandingPairs(edges, pays, period, people) ==
    LET open == Breakdown(edges, pays, period)
    IN  {[debtor |-> p[1], creditor |-> p[2], amount |-> Owes(open, p[1], p[2])] :
           p \in {q \in people \X people : Owes(open, q[1], q[2]) > 0}}

\* statement_for: what m owes and is owed, edge by edge.
Statement(edges, pays, period, m) ==
    LET open == Breakdown(edges, pays, period) IN
        [owe  |-> {[other |-> e.creditor, kind |-> e.kind, ref |-> e.ref, amount |-> open[e]] :
                     e \in {f \in DOMAIN open : f.debtor = m /\ open[f] > 0}},
         owed |-> {[other |-> e.debtor, kind |-> e.kind, ref |-> e.ref, amount |-> open[e]] :
                     e \in {f \in DOMAIN open : f.creditor = m /\ open[f] > 0}}]

\* period_balances' balance.
Balance(edges, pays, period, m) ==
    LET open == Breakdown(edges, pays, period) IN
        SumFunctionOnSet(open, {e \in DOMAIN open : e.creditor = m})
          - SumFunctionOnSet(open, {e \in DOMAIN open : e.debtor = m})

\* get_ledger: the panel of one member over a period.
Panel(edges, pays, period, m, people) ==
    [outstanding |-> OutstandingPairs(edges, pays, period, people),
     me          |-> Statement(edges, pays, period, m)]

\* member_statement and get_period_summary: the same, over a period told to the bot in
\* words; the summary's timeline is left out.
MemberStatement(edges, pays, keyword, today, last, m) ==
    Statement(edges, pays, ResolvePeriod(keyword, today, last), m)
PeriodSummary(edges, pays, keyword, today, last, people) ==
    OutstandingPairs(edges, pays, ResolvePeriod(keyword, today, last), people)

\* Mutant of QrRequest: the debts that were partly paid are asked for in full.
QrRequestFull(edges, pays, today, last, m, to) ==
    LET open == Breakdown(edges, pays, SinceLast(today, last))
        asked == {e \in DOMAIN open : e.debtor = m /\ e.creditor = to /\ open[e] > 0}
    IN  {[amount |-> SumFunction([e \in es |-> e.amount]),
          of |-> {[kind |-> e.kind, ref |-> e.ref, amount |-> e.amount] : e \in es}] : es \in {asked} \ {{}}}

\* qr_request: the code with which m pays one creditor all that is open in this direction
\* since the last settlement, and the debts it is made of; none when nothing is open.
\* The other direction is not taken off, and nothing is recorded.
QrRequest(edges, pays, today, last, m, to) ==
    LET open == Breakdown(edges, pays, SinceLast(today, last))
        asked == {e \in DOMAIN open : e.debtor = m /\ e.creditor = to /\ open[e] > 0}
    IN  {[amount |-> SumFunctionOnSet(open, es),
          of |-> {[kind |-> e.kind, ref |-> e.ref, amount |-> open[e]] : e \in es}] : es \in {asked} \ {{}}}

Pay(frm, to, amount) == {[frm |-> frm, to |-> to, amount |-> amount]}

\* Mutant of PayOff: the debt is netted before anybody is asked which way it is meant.
PayOffNets(mine, theirs, frm, to, mode) ==
    IF mine > theirs THEN Pay(frm, to, mine - theirs)
    ELSE IF theirs > mine THEN Pay(to, frm, theirs - mine) ELSE {}

\* propose_payment without an amount, from what each owes the other: the payments it
\* offers -- none when nothing is owed that way, both when it has to ask.
PayOff(mine, theirs, frm, to, mode) ==
    LET gross == Pay(frm, to, mine)
        offset == IF mine >= theirs THEN Pay(frm, to, mine - theirs) ELSE Pay(to, frm, theirs - mine)
    IN  CASE mine = 0 -> {}
          [] mine > 0 /\ theirs = 0 -> gross
          [] mine > 0 /\ theirs > 0 /\ mode = "gross" -> gross
          [] mine > 0 /\ theirs > 0 /\ mode = "offset" -> IF mine = theirs THEN {} ELSE offset
          [] OTHER -> gross \cup offset

\* Mutant of Settled: a row is settled once nothing at all is owed any more.
SettledWhenSquare(row, edges, pays, today, people) ==
    ~ \E t \in Transfers(edges, pays, [from |-> Beginning, to |-> today], people) :
        t.frm = row.frm /\ t.to = row.to

\* annotate_settled_transfers: the row asks for more than is owed by now.
Settled(row, edges, pays, today, people) ==
    LET now == {t \in Transfers(edges, pays, [from |-> Beginning, to |-> today], people) :
                  t.frm = row.frm /\ t.to = row.to}
    IN  \A t \in now : row.amount > t.amount
-----------------------------------------------------------------------------

(* A poker night. *)

\* net_positions: two players at least, and every chip accounted for.
GameAllowed(buyIn, cashOut, house) ==
    /\ Cardinality(DOMAIN buyIn) >= 2
    /\ house >= 0
    /\ \A m \in DOMAIN buyIn : buyIn[m] >= 0 /\ cashOut[m] >= 0
    /\ Total(buyIn) = Total(cashOut) + house

Nets(buyIn, cashOut) == [m \in DOMAIN buyIn |-> cashOut[m] - buyIn[m]]

\* Mutant of Allocate: every share is rounded down.
AllocateFloors(amount, weights) ==
    [w \in DOMAIN weights |-> IF weights[w] = 0 THEN 0 ELSE (weights[w] * amount) \div Total(weights)]

\* allocate: by largest remainder, ties by member id; who has no weight gets nothing.
Allocate(amount, weights) ==
    LET floor == Scaled(amount, weights)
        some == {w \in DOMAIN weights : weights[w] > 0}
        extra == OneEach(some, ByFraction(amount, weights), amount - Total(floor))
    IN  [w \in DOMAIN weights |-> floor[w] + IF w \in some THEN extra[w] ELSE 0]

Losses(nets) == [m \in {k \in DOMAIN nets : nets[k] < 0} |-> -nets[m]]
Wins(nets) == [m \in {k \in DOMAIN nets : nets[k] > 0} |-> nets[m]]

\* house_shares: the losers bear the house's cut.
HouseShares(nets, house) ==
    IF house = 0 \/ Losses(nets) = <<>> THEN [m \in DOMAIN Losses(nets) |-> 0]
    ELSE Allocate(house, Losses(nets))

\* game_edges: the losers in order of their ids, each split over what the winners have
\* not received yet.
GameEdges(ref, day, nets, house) ==
    LET toHouse == HouseShares(nets, house)
        owes(m) == -nets[m] - toHouse[m]
        losers == {m \in DOMAIN Losses(nets) : owes(m) > 0}
        given[m \in losers] ==
          Allocate(owes(m), [w \in DOMAIN Wins(nets) |->
                               Wins(nets)[w] - SumFunction([k \in {l \in losers : l < m} |-> given[k][w]])])
    IN  {[debtor |-> p[1], creditor |-> p[2], kind |-> "game", ref |-> ref, day |-> day,
          amount |-> given[p[1]][p[2]]] :
           p \in {q \in losers \X DOMAIN Wins(nets) : given[q[1]][q[2]] > 0}}
-----------------------------------------------------------------------------

(* The note of a transfer: the debtor's name and the meals it repays. *)

\* Lengths of the texts, in the order of the meals' days: ", " joins the chunks, and
\* "+N" stands for those that do not fit.
NoteLength(name, chunks, keep) ==
    LET kept == SubSeq(chunks, 1, keep)
        more == IF keep < Len(chunks) THEN <<2>> ELSE <<>>
        parts == kept \o more
    IN  name + Total(parts) + 2 * (Len(parts) - 1)

\* Mutant of Kept: the tag is not counted.
KeptUntagged(name, chunks, budget) ==
    Max({0} \cup {k \in 1..Len(chunks) :
           name + Total(SubSeq(chunks, 1, k)) + 2 * (k - 1) <= budget})

\* build_qr_note: all of the meals, or the most that leave room for the tag; when not
\* even the bare tag fits, the bare tag.
Kept(name, chunks, budget) ==
    Max({0} \cup {k \in 0..Len(chunks) : NoteLength(name, chunks, k) <= budget})
=============================================================================
