------------------------------- MODULE MCGrading -------------------------------
(***************************************************************************)
(* One behaviour is one graded turn: a case, the proposals of the turn in  *)
(* their order, and its two grades.  The facts a case states about the     *)
(* ledger are what recording its expected proposal leaves there.           *)
(***************************************************************************)
EXTENDS Grading, TLC

CONSTANTS
    Turns,              \* graded turns: [tool, want, made, book, forbidden, error]
    NextMeal, Tonight   \* number and day of the meal that a turn proposes

\* What a proposal, or an expectation, may say, and what the ledger of a room may be.
IsAmounts(x) == x = None \/ (DOMAIN x \subseteq Members /\ x \in [DOMAIN x -> Int])
IsMeal(a) ==
    /\ a \in [total : Int \cup {None}, participants : Seq(Members) \cup {None}, payer : Members \cup {None},
              guests : Nat \cup {None}, adjustments : {a.adjustments}, items : {a.items},
              discount : {"proportional", "equal"}]
    /\ IsAmounts(a.adjustments) /\ IsAmounts(a.items)
IsPayment(a) == a \in [from : Members \cup {None}, to : Members \cup {None}, amount : Nat \cup {None}]
IsProposal(tool, args) == IF tool = "propose_meal" THEN IsMeal(args) ELSE tool = "propose_payment" /\ IsPayment(args)
IsBook(book) ==
    /\ book = [edges |-> book.edges, pays |-> book.pays]
    /\ IsFiniteSet(book.edges)
    /\ book.edges \subseteq [debtor : Members, creditor : Members, kind : {"meal", "game"},
                             ref : Nat \ {NoRef, NextMeal}, day : Int, amount : Nat]
    /\ \A e, f \in book.edges :
         e.debtor = f.debtor /\ e.creditor = f.creditor /\ e.kind = f.kind /\ e.ref = f.ref => e = f
    /\ book.pays \in Seq([frm : Members, to : Members, amount : Nat, kind : {"meal", "game"}, ref : Nat])

\* An expectation is an argument set of its tool.
ASSUME GradingAssumption ==
    /\ IsFiniteSet(Members) /\ Members \subseteq Nat /\ Sender \in Members
    /\ NextMeal \in Nat \ {NoRef} /\ Tonight \in Int
    /\ None \notin Int /\ \A S \in SUBSET Members : None \notin [S -> Int]
    /\ \A t \in Turns :
         /\ IsProposal(t.tool, t.want)
         /\ t.made \in Seq(ToSet(t.made)) /\ t.made # <<>>
         /\ \A i \in DOMAIN t.made : IsProposal(t.made[i].tool, t.made[i].args)
         /\ IsBook(t.book)

VARIABLES case, calls, error, grades
gradingVars == <<case, calls, error, grades>>

Ungraded == [done |-> FALSE, tools |-> FALSE, ledger |-> FALSE]

\* The draft, confirmed.
Confirmed(draft, book) ==
    IF draft.type = "expense_draft"
    THEN [book EXCEPT !.edges = @ \cup EdgesOf("meal", NextMeal, draft.payer, draft.shares, Tonight)]
    ELSE [book EXCEPT !.pays = Append(@, [frm |-> draft.from, to |-> draft.to, amount |-> draft.amount,
                                          kind |-> "meal", ref |-> NoRef])]

Answer(p, book) ==
    IF p.tool = "propose_meal" THEN ProposeMeal(p.args) ELSE ProposePayment(p.args, book)
CallsOfTurn(t) ==
    [i \in DOMAIN t.made |-> [tool |-> t.made[i].tool, args |-> t.made[i].args, result |-> Answer(t.made[i], t.book)]]

Wanted(t) == Answer([tool |-> t.tool, args |-> t.want], t.book)
CaseOf(t) ==
    [tool |-> t.tool, forbidden |-> t.forbidden, want |-> t.want, ledger |-> t.book,
     shares |-> IF t.tool = "propose_meal" THEN Wanted(t).shares ELSE None,
     balances |-> [m \in Members |-> BalanceOf(Confirmed(Wanted(t), t.book), m)]]

\* An expectation names the bill, who paid and who was there, or the payment.
Stated(t) ==
    /\ Wanted(t).ok
    /\ IF t.tool = "propose_meal" THEN Given(t.want.payer)
       ELSE Given(t.want.from) /\ Given(t.want.to) /\ Given(t.want.amount)

GradingInit ==
    /\ grades = Ungraded
    /\ \E t \in Turns : Stated(t) /\ case = CaseOf(t) /\ calls = CallsOfTurn(t) /\ error = t.error

Grade ==
    /\ ~grades.done
    /\ grades' = [done |-> TRUE, tools |-> ToolSelection(case, calls, error), ledger |-> LedgerState(case, calls, error)]
    /\ UNCHANGED <<case, calls, error>>

GradingSpec == GradingInit /\ [][Grade]_gradingVars
-----------------------------------------------------------------------------

\* An expectation that names guests and the adjustments or the items, so that nothing
\* that is money is left unsaid.
Complete(want) == Given(want.guests) /\ (Given(want.adjustments) \/ EmptyOr(want.items) # <<>>)

\* A turn passes on its arguments only if the proposal it ends with is the money that was
\* expected -- the same shares in whatever encoding, from the same payer; the same amount
\* from the same person to the same -- provided that the tool accepted it, that the
\* expectation leaves nothing unsaid, and that neither split has a remainder, which the
\* grader gives to another person than the tool.  A case that must ask passes only if
\* nothing was proposed.
Even(a) == EmptyOr(a.items) # <<>> \/ (a.total - Total(EmptyOr(a.adjustments))) % (Len(a.participants) + Heads(a)) = 0
ArgumentsAreTheMoney ==
    grades.tools =>
      LET judged == LastOf(calls, {case.tool})
          draft == judged.result
      IN  /\ case.forbidden => \A i \in DOMAIN calls : calls[i].tool = case.tool => ~calls[i].result.ok
          /\ ~case.forbidden /\ case.tool = "propose_payment" =>
               draft.ok /\ draft.type = "payment_draft" /\ draft.from = case.want.from
                 /\ draft.to = case.want.to /\ draft.amount = case.want.amount
          /\ ~case.forbidden /\ case.tool = "propose_meal" =>
               (Complete(case.want) /\ draft.ok /\ Even(case.want) /\ Even(judged.args) =>
                  draft.shares = case.shares /\ draft.payer = case.want.payer)

\* A turn passes on the ledger only if confirming its draft leaves every balance where
\* the case says; and a turn that proposes just what is expected passes.  The projection
\* knows nothing of money paid in advance, so it holds where nobody has paid more than was
\* owed, before or after.
NoAdvance(book) ==
    \A m, k \in Members : AmountOf(book.pays, PairPayments(book.pays, <<m, k>>)) <= Gross(book.edges, m, k)
ProjectionIsTheLedger ==
    grades.done /\ ~error /\ Last(calls).result.ok /\ Last(calls).result.type # "unsettled" =>
      LET draft == Last(calls).result
          after == Confirmed(draft, case.ledger)
      IN  NoAdvance(case.ledger) /\ NoAdvance(after) =>
            (grades.ledger <=> /\ \A m \in Members : BalanceOf(after, m) = case.balances[m]
                               /\ Given(case.shares) => draft.type = "expense_draft" /\ draft.shares = case.shares)

APassIsRight == ArgumentsAreTheMoney /\ ProjectionIsTheLedger
=============================================================================
