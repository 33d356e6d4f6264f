-------------------------------- MODULE Grading -------------------------------
(***************************************************************************)
(* How an evaluated turn is graded on its money: ToolSelection of          *)
(* kernos/eval/graders.py over the arguments of a call, and LedgerState of *)
(* packs/lunch_ledger/eval.py over the draft it returned, projected onto   *)
(* the ledger because a graded turn records nothing.                       *)
(*                                                                         *)
(* An absent argument is None.  Guests are their number, adjustments and   *)
(* items functions from members to amounts.  A call is [tool, args,        *)
(* result]; a ledger is [edges, pays] of Debts.                            *)
(***************************************************************************)
EXTENDS Splits, Debts

CONSTANTS None, Members, Sender

Given(x) == x # None
EmptyOr(x) == IF Given(x) THEN x ELSE <<>>
Refusal == [ok |-> FALSE]
-----------------------------------------------------------------------------

(* The tools, as far as their answers are graded. *)

MealAllowed(a) ==
    /\ Given(a.total) /\ Given(a.participants)
    /\ EmptyOr(a.items) # <<>> =>
         /\ EmptyOr(a.adjustments) = <<>> /\ a.guests \in {None, 0}
         /\ DOMAIN a.items = ToSet(a.participants) /\ ItemsAllowed(a.total, a.items)

Adjustments(a) ==
    IF EmptyOr(a.items) = <<>> THEN EmptyOr(a.adjustments)
    ELSE ItemizedAdjustments(a.total, IF a.discount = "equal" THEN EqualDeltaShares(a.total, a.items)
                                      ELSE ProportionalShares(a.total, a.items))
Heads(a) == IF Given(a.guests) THEN a.guests ELSE 0
PayerOf(a) == IF Given(a.payer) THEN a.payer ELSE Sender

\* propose_meal.
ProposeMeal(a) ==
    IF /\ MealAllowed(a)
       /\ EmptyOr(a.items) # <<>> /\ a.discount = "equal" => EqualDeltaAllowed(a.total, a.items)
       /\ GuestSplitAllowed(a.total, a.participants, Heads(a), Adjustments(a))
    THEN [ok |-> TRUE, type |-> "expense_draft", payer |-> PayerOf(a),
          shares |-> SplitWithGuests(a.total, a.participants, Heads(a), Adjustments(a), PayerOf(a)),
          adjustments |-> Adjustments(a), items |-> EmptyOr(a.items), guests |-> Heads(a)]
    ELSE Refusal

OwesNow(ledger, from, to) == OwedOver(Outstanding(ledger.edges, ledger.pays), ledger.edges, from, to)

\* propose_payment, without a mode.
ProposePayment(a, ledger) ==
    LET from == IF Given(a.from) THEN a.from ELSE Sender
        amount == IF Given(a.amount) THEN a.amount ELSE OwesNow(ledger, from, a.to)
    IN  CASE ~Given(a.to) \/ from = a.to -> Refusal
          [] Given(a.to) /\ from # a.to /\ ~Given(a.amount)
               /\ (OwesNow(ledger, from, a.to) = 0 \/ OwesNow(ledger, a.to, from) > 0) ->
               [ok |-> TRUE, type |-> "unsettled"]
          [] OTHER -> [ok |-> TRUE, type |-> "payment_draft", from |-> from, to |-> a.to, amount |-> amount]
-----------------------------------------------------------------------------

(* ToolSelection. *)

\* share_map: the shares an argument set means, or None; nobody is told who pays.
ShareMap(a) ==
    IF ~Given(a.total) \/ EmptyOr(a.participants) = <<>> \/ Heads(a) > 0 THEN None
    ELSE IF EmptyOr(a.items) # <<>>
    THEN IF /\ DOMAIN a.items = ToSet(a.participants) /\ IsInjective(a.participants)
            /\ ItemsAllowed(a.total, a.items)
            /\ a.discount = "equal" => EqualDeltaAllowed(a.total, a.items)
         THEN IF a.discount = "equal" THEN EqualDeltaShares(a.total, a.items) ELSE ProportionalShares(a.total, a.items)
         ELSE None
    ELSE IF SplitAllowed(a.total, a.participants, EmptyOr(a.adjustments))
    THEN SplitShares(a.total, a.participants, EmptyOr(a.adjustments), None)
    ELSE None

\* _args_differ: people in any order, guests by their number.
Matches(key, want, got) ==
    IF key = "participants" /\ Given(got) THEN ToSet(want) = ToSet(got) ELSE want = got

\* _recorded: what the tool put in its result under the argument's name.
Recorded(call, key) ==
    IF ~call.result.ok \/ key \notin DOMAIN call.result THEN None
    ELSE IF key = "amount" THEN call.result.amount
    ELSE IF call.result[key] = (IF key = "guests" THEN 0 ELSE <<>>) THEN None ELSE call.result[key]

\* Mutant of Absent: an argument that is not there is not compared.
AbsentIsFine(call, key, want) == TRUE

\* An argument the model left out.
Absent(call, key, want) ==
    \/ key \in {"payer", "from"} /\ want = Sender
    \/ key \in {"guests", "adjustments", "items", "amount"} /\ Recorded(call, key) = want

\* Mutant of Equivalent: the arguments decide, whatever they come to.
EquivalentNever(call, key, want) == FALSE

\* "Compare the money, not the encoding."
Equivalent(call, key, want) ==
    call.tool = "propose_meal" /\ key \in {"adjustments", "items"} /\ Given(ShareMap(want)) /\ Given(ShareMap(call.args))

Agrees(call, want) ==
    \A key \in {k \in DOMAIN want : want[k] # None /\ k # "discount"} :
      CASE Equivalent(call, key, want) -> ShareMap(want) = ShareMap(call.args)
        [] ~Equivalent(call, key, want) /\ ~Given(call.args[key]) -> Absent(call, key, want[key])
        [] OTHER -> Matches(key, want[key], call.args[key])

\* The calls of some tools, by their position, and _last_call.
CallsOf(calls, tools) == {i \in DOMAIN calls : calls[i].tool \in tools}
LastOf(calls, tools) == calls[Max(CallsOf(calls, tools))]

\* _ok_results.
Acted(calls, tool) == \E i \in DOMAIN calls : calls[i].tool = tool /\ calls[i].result.ok

\* ToolSelection.grade of a case that names one tool, to call or to leave alone.
ToolSelection(case, calls, error) ==
    /\ ~error
    /\ IF case.forbidden THEN ~Acted(calls, case.tool)
       ELSE /\ CallsOf(calls, {case.tool}) # {}
            /\ Agrees(LastOf(calls, {case.tool}), case.want)
-----------------------------------------------------------------------------

(* LedgerState. *)

\* balances_by_member: what others owe a member, less what the member owes.
BalanceOf(ledger, m) ==
    LET open == Outstanding(ledger.edges, ledger.pays)
    IN  SumFunctionOnSet(open, {e \in ledger.edges : e.creditor = m})
          - SumFunctionOnSet(open, {e \in ledger.edges : e.debtor = m})

\* Mutant of Delta: the payer is credited nothing.
DeltaOfShares(draft, m) ==
    IF draft.type = "expense_draft"
    THEN (IF m \in DOMAIN draft.shares THEN -draft.shares[m] ELSE 0)
    ELSE (IF m = draft.from THEN draft.amount ELSE IF m = draft.to THEN -draft.amount ELSE 0)

\* _draft_delta: what a draft would do to a member's balance.
Delta(draft, m) ==
    IF draft.type = "expense_draft"
    THEN (IF m \in DOMAIN draft.shares THEN -draft.shares[m] ELSE 0)
           + (IF m = draft.payer THEN Total(draft.shares) ELSE 0)
    ELSE (IF m = draft.from THEN draft.amount ELSE IF m = draft.to THEN -draft.amount ELSE 0)

Drafts == {"propose_meal", "propose_payment"}

\* LedgerState.grade, _compare_draft: the last draft against the case's balances, and its
\* shares when the case names them.
LedgerState(case, calls, error) ==
    /\ ~error
    /\ CallsOf(calls, Drafts) # {}
    /\ LET draft == LastOf(calls, Drafts).result IN
         /\ draft.ok /\ draft.type \in {"expense_draft", "payment_draft"}
         /\ Given(case.shares) => draft.type = "expense_draft" /\ draft.shares = case.shares
         /\ \A m \in Members : BalanceOf(case.ledger, m) + Delta(draft, m) = case.balances[m]
=============================================================================
