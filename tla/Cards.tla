-------------------------------- MODULE Cards --------------------------------
(***************************************************************************)
(* The draft cards of one room and the ledger they write:                  *)
(* backend/app/drafts.py, backend/ledger_core/ledger.py, the draft and     *)
(* payment routes of backend/app/main.py and the tools that propose.       *)
(*                                                                         *)
(* The bot proposes; a card is pending until somebody commits, cancels or  *)
(* re-proposes it; only a commit writes meals, games or payments.  A       *)
(* committed meal is edited by voiding it and recording a new one.  Each   *)
(* operation below is one database transaction, atomic because no handler  *)
(* awaits inside its session; TLC interleaves them in every order.         *)
(*                                                                         *)
(* Left out: names, notes, dishes, places, and the itemized, fixed and     *)
(* adjusted splits (module Splits).  A game is one debt from a loser to a  *)
(* winner.  Settlements are never recorded by this program, so the         *)
(* "since_last" window is everything up to today.                          *)
(***************************************************************************)
EXTENDS Splits, Debts

CONSTANTS
  Members,      \* the room's roster
  Kinds,        \* the draft kinds of the enabled packs
  EaterLists,   \* participant lists a person or the bot may send
  GuestCounts,
  Totals,       \* bill totals sent, refused ones included
  SaidDays,     \* dates a proposal may carry; NoDay when it carries none
  Amounts,      \* explicit payment and game amounts
  LastDay,      \* bounds: the clock, and how much is recorded
  MaxCards, MaxMeals, MaxGames, MaxPayments

NoDay    == 0
FirstDay == 1

ASSUME RosterAssumption == IsFiniteSet(Members)

ASSUME InputsAssumption ==
  /\ Kinds \subseteq {"expense", "payment", "game"}
  /\ EaterLists \subseteq Seq(Members)
  /\ GuestCounts \subseteq Nat
  /\ Totals \subseteq Int
  /\ SaidDays \subseteq Nat
  /\ Amounts \subseteq Int

VARIABLES
  today,
  cards,     \* the room's draft messages, in id order
  meals, games, payments,    \* the tables, rows in id order
  origin     \* history: the card each meal was recorded from

vars == <<today, cards, meals, games, payments, origin>>
ledger == <<meals, games, payments, origin>>

----------------------------------------------------------------------------
(* Rows and payloads. *)
Statuses == {"pending", "committed", "cancelled", "superseded"}

ExpenseBodies == [payer : Members, eaters : Seq(Members), guests : Nat,
                  total : Int, day : Nat]
(* "whole" marks a transfer whose amount the user left out. *)
Transfers     == [frm : Members, to : Members, amount : Nat \ {0}, whole : BOOLEAN]
PaymentBodies == [transfers : Seq(Transfers)]
GameBodies    == [loser : Members, winner : Members, amount : Nat \ {0}, day : Nat]

CardRows == [kind : {"expense"}, status : Statuses, body : ExpenseBodies, ref : Nat]
              \cup [kind : {"payment"}, status : Statuses, body : PaymentBodies, ref : {NoRef}]
              \cup [kind : {"game"}, status : Statuses, body : GameBodies, ref : {NoRef}]

(* shares is zero for whoever did not eat, as shares.get(m, 0) reads it. *)
MealRows    == [payer : Members, shares : [Members -> Nat], day : Nat, voided : BOOLEAN]
GameRows    == [loser : Members, winner : Members, amount : Nat \ {0},
                day : Nat, voided : BOOLEAN]
(* meal is the target of a quick-pay; ref_kind is always "meal", since no  *)
(* writer sets it.                                                         *)
PaymentRows == [frm : Members, to : Members, amount : Nat \ {0},
                meal : Nat, voided : BOOLEAN]

(* Rows are well formed, and every id a row carries is the id of a row.    *)
TypeOK ==
  /\ today \in Nat
  /\ cards \in Seq(CardRows)
  /\ meals \in Seq(MealRows)
  /\ games \in Seq(GameRows)
  /\ payments \in Seq(PaymentRows)
  /\ origin \in Seq(Nat)
  /\ Len(origin) = Len(meals)
  /\ \A i \in DOMAIN payments : payments[i].meal \in {NoRef} \cup DOMAIN meals
  /\ \A c \in DOMAIN cards : cards[c].ref \in {NoRef} \cup DOMAIN meals
  /\ \A m \in DOMAIN meals : origin[m] \in DOMAIN cards

----------------------------------------------------------------------------
(* What the room owes, from the rows that are not voided. *)
Live(rows) == {i \in DOMAIN rows : ~rows[i].voided}

Edges ==
  (UNION {EdgesOf("meal", m, meals[m].payer, meals[m].shares, meals[m].day) : m \in Live(meals)})
    \cup {[debtor |-> games[g].loser, creditor |-> games[g].winner, kind |-> "game",
           ref |-> g, day |-> games[g].day, amount |-> games[g].amount] : g \in Live(games)}

LivePayments ==
  [i \in Live(payments) |->
     [frm |-> payments[i].frm, to |-> payments[i].to, amount |-> payments[i].amount,
      kind |-> "meal", ref |-> payments[i].meal]]

Open == Outstanding(Edges, LivePayments)

(* debt_breakdown over "since_last": attribution sees everything, the      *)
(* window then drops what is dated after today.                            *)
Window == {e \in Edges : e.day <= today}
OwedNow(debtor, creditor) == OwedOver(Open, Window, debtor, creditor)

(* What the quick-pay route sums for a reference: the edges of the pair    *)
(* with that id, whatever their kind.                                      *)
OpenOn(kind, debtor, creditor, ref) ==
  LET hits == {e \in Window : /\ e.debtor = debtor /\ e.creditor = creditor
                              /\ e.kind = kind /\ e.ref = ref}
  IN  IF hits = {} THEN 0 ELSE Open[CHOOSE e \in hits : TRUE]

----------------------------------------------------------------------------
(* Proposing. *)

(* draft_signature and the game kind's signature: what makes two cards the *)
(* same proposal.  The amount is left out on purpose.                      *)
Signature(kind, body) ==
  CASE kind = "expense" -> <<body.payer, ToSet(body.eaters), body.day>>
    [] kind = "payment" -> {<<t.frm, t.to>> : t \in ToSet(body.transfers)}
    [] kind = "game"    -> <<{body.loser, body.winner}, body.day>>

SameProposal(card, kind, body) ==
  card.kind = kind /\ Signature(card.kind, card.body) = Signature(kind, body)

(* Mutant: a payment asked for twice leaves two live cards. *)
CreateCardKeepingPayments(kind, body) ==
  /\ kind \in Kinds
  /\ Len(cards) < MaxCards
  /\ cards' = Append(
       [c \in DOMAIN cards |->
          IF kind = "expense" /\ cards[c].status = "pending" /\ SameProposal(cards[c], kind, body)
          THEN [cards[c] EXCEPT !.status = "superseded"] ELSE cards[c]],
       [kind |-> kind, status |-> "pending", body |-> body, ref |-> NoRef])
  /\ UNCHANGED <<today, ledger>>

(* create_card: a new pending card, and every pending card that it         *)
(* re-proposes retired.                                                    *)
CreateCard(kind, body) ==
  /\ kind \in Kinds
  /\ Len(cards) < MaxCards
  /\ cards' = Append(
       [c \in DOMAIN cards |->
          IF cards[c].status = "pending" /\ SameProposal(cards[c], kind, body)
          THEN [cards[c] EXCEPT !.status = "superseded"] ELSE cards[c]],
       [kind |-> kind, status |-> "pending", body |-> body, ref |-> NoRef])
  /\ UNCHANGED <<today, ledger>>

(* propose_meal, its preview split included. *)
ProposeMeal ==
  \E payer \in Members, eaters \in EaterLists, guests \in GuestCounts,
     total \in Totals, day \in SaidDays :
    /\ EqualSplitAllowed(total, eaters)
    /\ CreateCard("expense", [payer |-> payer, eaters |-> eaters, guests |-> guests,
                              total |-> total, day |-> day])

Transfer(frm, to, amount, whole) ==
  [frm |-> frm, to |-> to, amount |-> amount, whole |-> whole]

(* propose_payment without an amount: pay off what is owed, or, when the   *)
(* two owe each other, the gross debt or the difference, as asked.         *)
PayOffs(frm, to) ==
  LET there == OwedNow(frm, to)
      back  == OwedNow(to, frm)
  IN  IF there <= 0 THEN {}
      ELSE {Transfer(frm, to, there, TRUE)}
             \cup {Transfer(frm, to, there - back, FALSE) : x \in {y \in {back} : 0 < y /\ y < there}}
             \cup {Transfer(to, frm, back - there, FALSE) : x \in {y \in {back} : there < y}}

(* propose_payment: one transfer on the card. *)
ProposePayment ==
  \E frm, to \in Members :
    \E t \in {Transfer(frm, to, a, FALSE) : a \in Amounts} \cup PayOffs(frm, to) :
      /\ t.frm # t.to
      /\ t.amount \in Nat \ {0}
      /\ CreateCard("payment", [transfers |-> <<t>>])

(* propose_game, for a table of two. *)
ProposeGame ==
  \E loser, winner \in Members, amount \in Amounts, day \in SaidDays :
    /\ loser # winner
    /\ amount \in Nat \ {0}
    /\ CreateCard("game", [loser |-> loser, winner |-> winner, amount |-> amount, day |-> day])

----------------------------------------------------------------------------
(* Editing and answering a card. *)
Pending(c) == cards[c].status = "pending"

(* The fields a person may change; the date is not one of them. *)
EditedBodies(body) ==
  {[payer |-> payer, eaters |-> eaters, guests |-> guests, total |-> total, day |-> body.day] :
     payer \in Members, eaters \in EaterLists, guests \in GuestCounts, total \in Totals}

(* update_draft with new fields.  Only an expense card has any; whether    *)
(* the bill still splits is asked when it is committed.                    *)
EditDraft(c) ==
  /\ Pending(c)
  /\ cards[c].kind = "expense"
  /\ \E body \in EditedBodies(cards[c].body) :
       cards' = [cards EXCEPT ![c].body = body]
  /\ UNCHANGED <<today, ledger>>

(* Mutant: the status is not looked at. *)
CancelAnyDraft(c) ==
  /\ cards' = [cards EXCEPT ![c].status = "cancelled"]
  /\ UNCHANGED <<today, ledger>>

(* update_draft with status cancelled, from the card or from the bot's     *)
(* cancel_draft tool.                                                      *)
CancelDraft(c) ==
  /\ Pending(c)
  /\ cards' = [cards EXCEPT ![c].status = "cancelled"]
  /\ UNCHANGED <<today, ledger>>

MealRow(body, day) ==
  LET split == EqualShares(body.total, body.eaters, body.guests, body.payer)
  IN  [payer  |-> body.payer,
       shares |-> [m \in Members |-> IF m \in ToSet(body.eaters) THEN split[m] ELSE 0],
       day    |-> day, voided |-> FALSE]

(* occurred_on, or the day of the write when the card carries none. *)
DayOf(body) == IF body.day = NoDay THEN today ELSE body.day

CommitExpense(c) ==
  LET body == cards[c].body IN
  /\ cards[c].kind = "expense"
  /\ EqualSplitAllowed(body.total, body.eaters)
  /\ Len(meals) < MaxMeals
  /\ meals' = Append(meals, MealRow(body, DayOf(body)))
  /\ origin' = Append(origin, c)
  /\ cards' = [cards EXCEPT ![c].status = "committed", ![c].ref = Len(meals) + 1]
  /\ UNCHANGED <<games, payments>>

PaymentOf(t) ==
  [frm |-> t.frm, to |-> t.to, amount |-> t.amount, meal |-> NoRef, voided |-> FALSE]

CommitPayment(c) ==
  LET transfers == cards[c].body.transfers IN
  /\ cards[c].kind = "payment"
  /\ Len(payments) + Len(transfers) <= MaxPayments
  /\ payments' = payments \o [i \in DOMAIN transfers |-> PaymentOf(transfers[i])]
  /\ cards' = [cards EXCEPT ![c].status = "committed"]
  /\ UNCHANGED <<meals, games, origin>>

CommitGame(c) ==
  LET body == cards[c].body IN
  /\ cards[c].kind = "game"
  /\ Len(games) < MaxGames
  /\ games' = Append(games, [loser |-> body.loser, winner |-> body.winner,
                             amount |-> body.amount, day |-> DayOf(body), voided |-> FALSE])
  /\ cards' = [cards EXCEPT ![c].status = "committed"]
  /\ UNCHANGED <<meals, payments, origin>>

(* Mutant: a card that is no longer pending is committed again. *)
CommitAgain(c) ==
  /\ cards[c].status \in {"pending", "committed"}
  /\ CommitExpense(c) \/ CommitPayment(c) \/ CommitGame(c)
  /\ UNCHANGED today

(* commit_any: a refused commit rolls back and leaves the card pending. *)
Commit(c) ==
  /\ Pending(c)
  /\ CommitExpense(c) \/ CommitPayment(c) \/ CommitGame(c)
  /\ UNCHANGED today

----------------------------------------------------------------------------
(* Editing a recorded meal. *)

(* Mutant: whoever paid the payer is taken to owe still. *)
StillOwedByAnyone(p, row) == p.to = row.payer /\ p.frm # row.payer

(* The condition of _repoint_or_void_edited_payment. *)
StillOwed(p, row) ==
  /\ p.to = row.payer
  /\ p.frm # row.payer
  /\ row.shares[p.frm] # 0

(* Mutant: every payment of the debtor follows, whatever it was for. *)
FollowEditWithAll(old, new, row) ==
  [i \in DOMAIN payments |->
     IF StillOwed(payments[i], row) THEN [payments[i] EXCEPT !.meal = new] ELSE payments[i]]

(* The payments stamped with the edited meal follow it while the debt they *)
(* paid is still on it; the others are voided in front of the room.        *)
FollowEdit(old, new, row) ==
  [i \in DOMAIN payments |->
     LET p == payments[i] IN
     IF p.meal # old \/ p.voided THEN p
     ELSE IF StillOwed(p, row) THEN [p EXCEPT !.meal = new]
     ELSE [p EXCEPT !.voided = TRUE]]

(* Mutant: the meal is rewritten in place. *)
RecommitInPlace(c) ==
  LET old == cards[c].ref IN
  /\ cards[c].kind = "expense"
  /\ cards[c].status = "committed"
  /\ ~meals[old].voided
  /\ \E body \in EditedBodies(cards[c].body) :
       /\ EqualSplitAllowed(body.total, body.eaters)
       /\ meals' = [meals EXCEPT ![old] = MealRow(body, meals[old].day)]
       /\ cards' = [cards EXCEPT ![c].body = body]
  /\ UNCHANGED <<today, games, payments, origin>>

(* recommit_draft: void, record again on the same day, repoint. *)
Recommit(c) ==
  LET old == cards[c].ref
      new == Len(meals) + 1
  IN
  /\ cards[c].kind = "expense"
  /\ cards[c].status = "committed"
  /\ old # NoRef
  /\ ~meals[old].voided
  /\ Len(meals) < MaxMeals
  /\ \E body \in EditedBodies(cards[c].body) :
       LET row == MealRow(body, meals[old].day) IN
       /\ EqualSplitAllowed(body.total, body.eaters)
       /\ meals' = Append([meals EXCEPT ![old].voided = TRUE], row)
       /\ payments' = FollowEdit(old, new, row)
       /\ cards' = [cards EXCEPT ![c].body = body, ![c].ref = new]
  /\ origin' = Append(origin, c)
  /\ UNCHANGED <<today, games>>

----------------------------------------------------------------------------
(* Buttons and tools that write without a card. *)

(* The void_meal tool: the meal goes, the money it was paid with stays     *)
(* and counts for the pair.                                                *)
VoidMeal(m) ==
  /\ ~meals[m].voided
  /\ meals' = [meals EXCEPT ![m].voided = TRUE]
  /\ payments' = [i \in DOMAIN payments |->
                    IF payments[i].meal = m THEN [payments[i] EXCEPT !.meal = NoRef]
                    ELSE payments[i]]
  /\ UNCHANGED <<today, cards, games, origin>>

(* The void_game tool. *)
VoidGame(g) ==
  /\ ~games[g].voided
  /\ games' = [games EXCEPT ![g].voided = TRUE]
  /\ UNCHANGED <<today, cards, meals, payments, origin>>

(* Mutant: the button pays the whole share, whatever was paid already. *)
QuickPayWholeShare(debtor, creditor, ref) ==
  /\ debtor # creditor
  /\ ref \in Live(meals)
  /\ meals[ref].payer = creditor
  /\ OpenOn("meal", debtor, creditor, ref) > 0
  /\ Len(payments) < MaxPayments
  /\ payments' = Append(payments, [frm |-> debtor, to |-> creditor,
                                   amount |-> meals[ref].shares[debtor],
                                   meal |-> ref, voided |-> FALSE])
  /\ UNCHANGED <<today, cards, meals, games, origin>>

(* The quick_pay route, tapped by either of the two: it pays what is open  *)
(* on the reference, stamped with it.  The column refers to meals and      *)
(* foreign keys are enforced, so the insert fails for an id no meal has.   *)
QuickPay(debtor, creditor, ref) ==
  LET owed == OpenOn("meal", debtor, creditor, ref) + OpenOn("game", debtor, creditor, ref) IN
  /\ debtor # creditor
  /\ owed \in Nat \ {0}
  /\ ref \in DOMAIN meals
  /\ Len(payments) < MaxPayments
  /\ payments' = Append(payments, [frm |-> debtor, to |-> creditor, amount |-> owed,
                                   meal |-> ref, voided |-> FALSE])
  /\ UNCHANGED <<today, cards, meals, games, origin>>

(* The void_payment route, tapped by either of the two. *)
VoidPayment(i) ==
  /\ ~payments[i].voided
  /\ payments' = [payments EXCEPT ![i].voided = TRUE]
  /\ UNCHANGED <<today, cards, meals, games, origin>>

(* Midnight. *)
NextDay ==
  /\ today < LastDay
  /\ today' = today + 1
  /\ UNCHANGED <<cards, ledger>>

Init ==
  /\ today = FirstDay
  /\ cards = <<>>
  /\ meals = <<>> /\ games = <<>> /\ payments = <<>>
  /\ origin = <<>>

Next ==
  \/ ProposeMeal \/ ProposePayment \/ ProposeGame
  \/ \E c \in DOMAIN cards : EditDraft(c) \/ CancelDraft(c) \/ Commit(c) \/ Recommit(c)
  \/ \E m \in DOMAIN meals : VoidMeal(m)
  \/ \E g \in DOMAIN games : VoidGame(g)
  \/ \E debtor, creditor \in Members :
       \E ref \in DOMAIN meals \cup DOMAIN games : QuickPay(debtor, creditor, ref)
  \/ \E i \in DOMAIN payments : VoidPayment(i)
  \/ NextDay

Spec == Init /\ [][Next]_vars

----------------------------------------------------------------------------
(* A payment that still counts and names a meal names a live one, on which *)
(* its sender does owe its receiver: otherwise an edit or a void would     *)
(* have let it drift and cancel some other debt (the incident that         *)
(* _repoint_or_void_edited_payment describes).  So it is as long as the    *)
(* room records no game: with games, see MealAndGameNeverShareAPayment.    *)
StampedMoneyHasItsDebt ==
  games = <<>> =>
  \A i \in DOMAIN payments :
    LET p == payments[i] IN
    ~p.voided /\ p.meal # NoRef =>
      /\ p.meal \in DOMAIN meals
      /\ ~meals[p.meal].voided
      /\ meals[p.meal].payer = p.to /\ p.frm # p.to
      /\ meals[p.meal].shares[p.frm] # 0

(* However often a card is committed, edited and its meals voided, it      *)
(* never has two meals in the ledger: a live meal is the one its card      *)
(* points at, and the card is committed.                                   *)
OneLiveMealPerCard ==
  \A m \in Live(meals) :
    /\ cards[origin[m]].kind = "expense"
    /\ cards[origin[m]].status = "committed"
    /\ cards[origin[m]].ref = m

(* Amounts, people and dates of a recorded row never change, a voided row  *)
(* never comes back, and no row disappears ("ledger stays append-only").   *)
SameRow(old, new) == old = [new EXCEPT !.voided = old.voided] /\ (old.voided => new.voided)
LedgerIsAppendOnly ==
  [][/\ \A m \in DOMAIN meals : m \in DOMAIN meals' /\ SameRow(meals[m], meals'[m])
     /\ \A g \in DOMAIN games : g \in DOMAIN games' /\ SameRow(games[g], games'[g])
     /\ \A i \in DOMAIN payments :
          /\ i \in DOMAIN payments'
          /\ SameRow(payments[i], [payments'[i] EXCEPT !.meal = payments[i].meal])]_vars

(* A recorded payment changes what it names only when that very meal is    *)
(* voided, and then only to nothing or to the meal re-recorded from the    *)
(* same card.                                                              *)
StampsFollowTheCard ==
  [][\A i \in DOMAIN payments :
       LET old == payments[i].meal
           new == payments'[i].meal
       IN  old # new =>
             /\ old # NoRef /\ ~meals[old].voided /\ meals'[old].voided
             /\ new # NoRef => origin'[new] = origin[old]]_vars

(* A card that has been answered stays answered. *)
AnswersAreFinal ==
  [][\A c \in DOMAIN cards : cards[c].status # "pending" => cards'[c].status = cards[c].status]_vars

(* After a proposal, its card is the only pending one for that proposal.   *)
OneCardPerProposal ==
  [][Len(cards') > Len(cards) =>
       \A c \in DOMAIN cards :
         LET new == cards'[Len(cards')] IN
         cards'[c].status = "pending" => ~SameProposal(cards'[c], new.kind, new.body)]_vars

(* "Mark paid" on a meal closes exactly that debt: it becomes zero and     *)
(* what is open on every other meal, of this pair or another, stays.  In a *)
(* room without games: with them, see MealAndGameNeverShareAPayment.       *)
QuickPayClosesThatDebt ==
  [][games = <<>> /\ Len(payments') > Len(payments) /\ payments'[Len(payments')].meal # NoRef =>
       LET before == Open
           after  == Open'
           p      == payments'[Len(payments')]
       IN  \A e \in Edges :
             after[e] = IF e.debtor = p.frm /\ e.creditor = p.to /\ e.kind = "meal" /\ e.ref = p.meal
                        THEN 0 ELSE before[e]]_vars

(* What the repository says and the code does not do (see README.md). *)

(* DebtEdge: "a meal #5 and a game #5 between the same two people never    *)
(* share a payment".                                                       *)
MealAndGameNeverShareAPayment ==
  [][Len(payments') > Len(payments) =>
       LET before == Open
           after  == Open'
       IN  \A e, f \in Edges :
             /\ e.debtor = f.debtor /\ e.creditor = f.creditor
             /\ e.kind = "meal" /\ f.kind = "game" /\ e.ref = f.ref
             => after[e] = before[e] \/ after[f] = before[f]]_vars

(* propose_payment: "Omit `amount` to pay off exactly what `from` owes     *)
(* `to`".                                                                  *)
OmittedAmountPaysOffExactly ==
  [][\A c \in DOMAIN cards :
       /\ cards[c].kind = "payment"
       /\ cards[c].status = "pending" /\ cards'[c].status = "committed"
       => \A t \in ToSet(cards[c].body.transfers) :
            t.whole => t.amount = OwedNow(t.frm, t.to)]_vars
=============================================================================
