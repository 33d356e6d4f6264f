-------------------------------- MODULE MCMoney --------------------------------
(***************************************************************************)
(* The money of a room, for TLC: the division of bills, the attribution of *)
(* payments, the settlement and the grading of proposals.  None of them    *)
(* reads another's state: part says which one a behaviour is about.        *)
(***************************************************************************)
EXTENDS Attribution, Bills, MCSettlement, MCGrading

VARIABLE part
vars == <<part, ledgerVars, billVars, settlementVars, gradingVars>>

LessAndMore == {-1, 2}
TwoGames == {<<-2, 1, 1>>, <<-1, -1, 2>>}

\* Turns that are graded: every pair of argument sets on an empty ledger; few of them on the
\* others, with another proposal before or after, in a case that must ask and in a turn that
\* fails.
SomeMeals ==
    {a \in [total : {3, 4}, participants : {<<1, 2>>, <<2, 1>>}, payer : {None, 1, 2, 3},
            guests : {None, 0, 1}, adjustments : {None, <<>>, 1 :> 1}, items : {None, 1 :> 1 @@ 2 :> 3},
            discount : {"proportional", "equal"}] : a.items = None => a.discount = "proportional"}
SomePayments == [from : {None, 1, 2}, to : {None, 1, 2}, amount : {None, 1, 2}]
Meal(a) == [tool |-> "propose_meal", args |-> a]
Pays(a) == [tool |-> "propose_payment", args |-> a]

OneDebt == {[debtor |-> 1, creditor |-> 2, kind |-> "meal", ref |-> 1, day |-> 1, amount |-> 2]}
NoDebts == [edges |-> {}, pays |-> <<>>]
SomeBooks ==
    {NoDebts, [edges |-> OneDebt, pays |-> <<>>],
     [edges |-> OneDebt, pays |-> <<[frm |-> 1, to |-> 2, amount |-> 3, kind |-> "meal", ref |-> NoRef]>>]}

OtherMeal == Meal([total |-> 4, participants |-> <<1>>, payer |-> 1, guests |-> None,
                   adjustments |-> None, items |-> None, discount |-> "proportional"])
Around(p) == {<<p>>, <<OtherMeal, p>>, <<p, OtherMeal>>}
ATurn(tool, want, made) ==
    [tool : {tool}, want : {want}, made : made, book : SomeBooks, forbidden : BOOLEAN, error : BOOLEAN]

WantedMeals == {a \in SomeMeals : a.participants = <<1, 2>> /\ a.payer # None}
SomeTurns ==
    UNION {ATurn("propose_meal", w, Around(Meal(w)) \cup Around(Meal([w EXCEPT !.payer = 3]))
                                      \cup Around(Meal([w EXCEPT !.total = 2]))) : w \in WantedMeals}
    \cup {[tool |-> "propose_meal", want |-> w, made |-> <<Meal(a)>>, book |-> NoDebts,
            forbidden |-> FALSE, error |-> FALSE] : w \in WantedMeals, a \in SomeMeals}
    \cup UNION {ATurn("propose_payment", w, Around(Pays(a))) : w \in SomePayments, a \in SomePayments}

Idle == "idle"

NoPayments == debts = {} /\ paid = <<>>
NoTurn == case = Idle /\ calls = Idle /\ error = Idle /\ grades = Idle
NoBill == bill = [mode |-> Idle] /\ answer = Refused

Init ==
    \/ /\ part = "bills" /\ BillsInit
       /\ NoPayments /\ call = Idle /\ edges = Idle /\ pays = Idle /\ card = Idle
       /\ NoTurn
    \/ /\ part = "payments" /\ LedgerInit
       /\ NoBill /\ call = Idle /\ edges = Idle /\ pays = Idle /\ card = Idle
       /\ NoTurn
    \/ /\ part = "settling" /\ SettlingInit
       /\ NoBill /\ NoPayments
       /\ NoTurn
    \/ /\ part = "judging" /\ GradingInit
       /\ NoBill /\ NoPayments /\ call = Idle /\ edges = Idle /\ pays = Idle /\ card = Idle

Next ==
    /\ UNCHANGED part
    /\ \/ /\ part = "bills" /\ BillsNext
          /\ UNCHANGED <<ledgerVars, settlementVars, gradingVars>>
       \/ /\ part = "payments" /\ LedgerNext
          /\ UNCHANGED <<billVars, settlementVars, gradingVars>>
       \/ /\ part = "settling" /\ SettlingNext
          /\ UNCHANGED <<ledgerVars, billVars, gradingVars>>
       \/ /\ part = "judging" /\ Grade
          /\ UNCHANGED <<ledgerVars, billVars, settlementVars>>

Spec == Init /\ [][Next]_vars
-----------------------------------------------------------------------------

\* Posting a card changes no money, so every ledger is also met without one.
NoCardYet == part = "settling" /\ card = NoCard

\* Balances, transfers and panels of every period agree (MCSettlement).
ViewsAgree == NoCardYet => PeriodsAgree

\* Cards ask for what is owed, however late they are paid (UnmarkedRowsAreOwed and
\* PayOffClears of MCSettlement).
CardsAskForWhatIsOwed ==
    /\ part = "settling" => UnmarkedRowsAreOwed
    /\ NoCardYet => PayOffClears

\* A poker night is exact to the dong, and a transfer's note says as much as the bank
\* allows (NightIsExact and NoteFits of MCSettlement).
NothingIsRoundedAway == part = "settling" => NightIsExact /\ NoteFits

\* A proposal that passes its grading is the money that was expected (MCGrading).
APassIsTheRightMoney == part = "judging" => APassIsRight
=============================================================================
