-------------------------------- MODULE Debts --------------------------------
(***************************************************************************)
(* Who still owes whom, and for what: the debt edges of                    *)
(* backend/ledger_core/money.py and the attribution of payments to them.   *)
(*                                                                         *)
(* An edge is a record                                                     *)
(*   [debtor, creditor, kind, ref, day, amount]                            *)
(* -- kind and ref name the meal or the game it comes from -- and a        *)
(* payment, as debt_breakdown hands it over, is                            *)
(*   [frm, to, amount, kind, ref],   ref = NoRef when it names nothing.    *)
(* "pays" is always a function from some payment ids to such records: the  *)
(* live payments of the room.                                              *)
(***************************************************************************)
EXTENDS Integers, FiniteSets, Functions

NoRef == 0

Smaller(a, b) == IF a <= b THEN a ELSE b
Positive(a)   == IF a > 0 THEN a ELSE 0

AmountOf(pays, ids) == SumFunction([i \in ids |-> pays[i].amount])

(* build_debt_edges: one edge per participant who is not the payer and     *)
(* whose share is not zero.                                                *)
EdgesOf(kind, ref, creditor, shares, day) ==
  {[debtor |-> m, creditor |-> creditor, kind |-> kind, ref |-> ref,
    day |-> day, amount |-> shares[m]] :
     m \in {k \in DOMAIN shares : k # creditor /\ shares[k] # 0}}

(* Mutant: the newest debt is paid first. *)
NewestFirst(e, f) == e.day > f.day \/ (e.day = f.day /\ e.ref > f.ref)

(* The order (occurred_on, ref_kind, meal_id) of apply_payments_fifo;      *)
(* "game" sorts before "meal".                                             *)
Before(e, f) ==
  \/ e.day < f.day
  \/ e.day = f.day /\ e.kind = "game" /\ f.kind = "meal"
  \/ e.day = f.day /\ e.kind = f.kind /\ e.ref < f.ref

SamePair(p, e) == p.frm = e.debtor /\ p.to = e.creditor

(* The payment names exactly this edge. *)
Names(p, e) == p.ref # NoRef /\ SamePair(p, e) /\ p.kind = e.kind /\ p.ref = e.ref

(* Money stamped with the edge, and how much of it the edge can take. *)
Stamped(pays, e) == AmountOf(pays, {i \in DOMAIN pays : Names(pays[i], e)})
Direct(pays, e)  == Smaller(Stamped(pays, e), e.amount)

PairPayments(pays, pair) ==
  {i \in DOMAIN pays : pays[i].frm = pair[1] /\ pays[i].to = pair[2]}
PairEdges(edges, pair) ==
  {e \in edges : e.debtor = pair[1] /\ e.creditor = pair[2]}

(* Mutant: stamped money its edge cannot take evaporates. *)
PairPoolNoSpill(edges, pays, pair) ==
  AmountOf(pays, {i \in PairPayments(pays, pair) : pays[i].ref = NoRef})

(* Mutant: what is taken by name is also taken from the pool. *)
PairPoolDrawnTwice(edges, pays, pair) ==
  AmountOf(pays, {i \in PairPayments(pays, pair) : pays[i].ref = NoRef})
    - SumFunction([e \in PairEdges(edges, pair) |-> Direct(pays, e)])

(* What the pair has paid and no edge has taken by name: the unstamped     *)
(* payments, and what spills from stamped ones because their edge is gone  *)
(* or too small.                                                           *)
PairPool(edges, pays, pair) ==
  AmountOf(pays, PairPayments(pays, pair))
    - SumFunction([e \in PairEdges(edges, pair) |-> Direct(pays, e)])

(* The debts of e's pair that the loop of apply_payments_fifo visits       *)
(* before e, and what it asks the pool for on each.                        *)
Ahead(edges, e) ==
  {f \in PairEdges(edges, <<e.debtor, e.creditor>>) : Before(f, e)}
Rest(pays, e) == e.amount - Direct(pays, e)

(* apply_payments_fifo: an edge takes the money stamped with it, then      *)
(* whatever the pool of its pair still holds once every edge ahead of it   *)
(* has been filled.                                                        *)
Paid(edges, pays, e) ==
  LET pool == PairPool(edges, pays, <<e.debtor, e.creditor>>)
      left == pool - SumFunction([f \in Ahead(edges, e) |-> Rest(pays, f)])
  IN  Direct(pays, e) + Smaller(Positive(left), Rest(pays, e))

(* DebtEdge.outstanding, for every edge. *)
Outstanding(edges, pays) == [e \in edges |-> e.amount - Paid(edges, pays, e)]

(* What debtor owes creditor over the edges of a window. *)
OwedOver(open, window, debtor, creditor) ==
  SumFunction([e \in PairEdges(window, <<debtor, creditor>>) |-> open[e]])

(* What debtor has ever owed creditor, whatever was paid. *)
Gross(edges, debtor, creditor) ==
  SumFunction([e \in PairEdges(edges, <<debtor, creditor>>) |-> e.amount])

----------------------------------------------------------------------------
(* Opposing debts of a pair, collapsed into one transfer (_net_pairs). *)
NetPairs(owed, people) ==
  {[frm |-> q[1], to |-> q[2], amount |-> owed[q] - owed[<<q[2], q[1]>>]] :
     q \in {r \in people \X people : owed[r] > owed[<<r[2], r[1]>>]}}

(* net_transfers over attributed edges: what the settlement shows. *)
NetTransfers(edges, pays, people) ==
  LET open == Outstanding(edges, pays)
  IN  NetPairs([q \in people \X people |-> OwedOver(open, edges, q[1], q[2])], people)

(* Mutant: a pair's balance may go below zero. *)
PerPayerUnfloored(edges, pays, people) ==
  NetPairs([q \in people \X people |->
              Gross(edges, q[1], q[2]) - AmountOf(pays, PairPayments(pays, q))], people)

(* per_payer_transfers: the same answer from the gross debts and the       *)
(* payments alone, each pair's balance floored at zero.                    *)
PerPayerTransfers(edges, pays, people) ==
  NetPairs([q \in people \X people |->
              Positive(Gross(edges, q[1], q[2]) - AmountOf(pays, PairPayments(pays, q)))], people)
=============================================================================
