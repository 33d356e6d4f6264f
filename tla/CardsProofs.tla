------------------------------ MODULE CardsProofs -----------------------------
(***************************************************************************)
(* Proofs about the draft cards and their ledger (module Cards), for every *)
(* roster, every set of inputs and every bound.                            *)
(***************************************************************************)
EXTENDS Cards, DebtProofs

(* Division of a bill among a positive number of heads. *)
LEMMA DivisionOfABill ==
  ASSUME NEW t \in Nat, NEW n \in Nat \ {0}
  PROVE  t \div n \in Nat /\ t % n \in Nat
  OBVIOUS

(* An allowed equal split gives every participant a natural number. *)
LEMMA EqualSharesType ==
  ASSUME NEW total \in Int, NEW people \in Seq(Members), NEW guests \in Nat,
         NEW payer \in Members, EqualSplitAllowed(total, people)
  PROVE  EqualShares(total, people, guests, payer) \in [ToSet(people) -> Nat]
<1>1. total \in Nat /\ Len(people) + guests \in Nat \ {0}
  BY EmptySeq, LenProperties DEF EqualSplitAllowed
<1>2. /\ total \div (Len(people) + guests) \in Nat
      /\ total % (Len(people) + guests) \in Nat
  BY <1>1, DivisionOfABill
<1> QED
  BY <1>2 DEF EqualShares

----------------------------------------------------------------------------
(* Rows. *)

LEMMA NoRefIsNat == NoRef \in Nat
  BY DEF NoRef

LEMMA MapIsSeq ==
  ASSUME NEW S, NEW n \in Nat, NEW f \in [1 .. n -> S]
  PROVE  f \in Seq(S) /\ Len(f) = n /\ DOMAIN f = 1 .. n
<1>1. f \in Seq(S)
  BY SeqDef
<1> QED
  BY <1>1, LenProperties

(* A row of a sequence replaced by another: the sequence keeps its length. *)
LEMMA ReplaceRow ==
  ASSUME NEW S, NEW rows \in Seq(S), NEW i \in DOMAIN rows, NEW r \in S
  PROVE  LET new == [rows EXCEPT ![i] = r]
         IN  /\ new \in Seq(S)
             /\ Len(new) = Len(rows)
             /\ DOMAIN new = DOMAIN rows
             /\ \A j \in DOMAIN rows : new[j] = IF j = i THEN r ELSE rows[j]
  BY ExceptSeq, LenProperties

LEMMA AppendRow ==
  ASSUME NEW S, NEW rows \in Seq(S), NEW r \in S
  PROVE  LET new == Append(rows, r)
         IN  /\ new \in Seq(S)
             /\ Len(new) = Len(rows) + 1
             /\ Len(rows) + 1 \in DOMAIN new
             /\ DOMAIN new = DOMAIN rows \cup {Len(rows) + 1}
             /\ Len(rows) + 1 \notin DOMAIN rows
             /\ \A j \in DOMAIN rows : new[j] = rows[j]
             /\ new[Len(rows) + 1] = r
  BY AppendProperties, LenProperties

(* An answered, superseded or edited card is still a card. *)
LEMMA CardStatusChange ==
  ASSUME NEW r \in CardRows, NEW s \in Statuses
  PROVE  /\ [r EXCEPT !.status = s] \in CardRows
         /\ [r EXCEPT !.status = s].kind = r.kind
         /\ [r EXCEPT !.status = s].ref = r.ref
         /\ [r EXCEPT !.status = s].status = s
  BY DEF CardRows

LEMMA MealRowType ==
  ASSUME NEW body \in ExpenseBodies, NEW day \in Nat,
         EqualSplitAllowed(body.total, body.eaters)
  PROVE  MealRow(body, day) \in MealRows
<1> DEFINE split == EqualShares(body.total, body.eaters, body.guests, body.payer)
<1>1. split \in [ToSet(body.eaters) -> Nat]
  BY EqualSharesType DEF ExpenseBodies
<1>2. [m \in Members |-> IF m \in ToSet(body.eaters) THEN split[m] ELSE 0] \in [Members -> Nat]
  BY <1>1
<1> QED
  BY <1>2 DEF MealRow, MealRows, ExpenseBodies

----------------------------------------------------------------------------
(* Type correctness, action by action. *)

USE NoRefIsNat

NewCard(kind, body) == [kind |-> kind, status |-> "pending", body |-> body, ref |-> NoRef]

LEMMA CreateCardType ==
  ASSUME TypeOK, NEW kind, NEW body, CreateCard(kind, body),
         NewCard(kind, body) \in CardRows
  PROVE  TypeOK'
<1> DEFINE kept == [c \in DOMAIN cards |->
             IF cards[c].status = "pending" /\ SameProposal(cards[c], kind, body)
             THEN [cards[c] EXCEPT !.status = "superseded"] ELSE cards[c]]
<1>1. /\ Len(cards) \in Nat
      /\ DOMAIN cards = 1 .. Len(cards)
      /\ \A c \in DOMAIN cards : cards[c] \in CardRows
  BY LenProperties, ElementOfSeq DEF TypeOK
<1>2. \A c \in DOMAIN cards : kept[c] \in CardRows /\ kept[c].ref = cards[c].ref
  BY <1>1, CardStatusChange DEF Statuses
<1>3. kept \in [1 .. Len(cards) -> CardRows]
  <2> HIDE DEF kept
  <2>1. kept = [c \in DOMAIN cards |-> kept[c]]
    BY DEF kept
  <2> QED
    BY <1>1, <1>2, <2>1
<1>4. kept \in Seq(CardRows) /\ Len(kept) = Len(cards) /\ DOMAIN kept = DOMAIN cards
  <2> HIDE DEF kept
  <2> QED  BY <1>1, <1>3, MapIsSeq
<1>5. cards' = Append(kept, NewCard(kind, body))
  BY DEF CreateCard, NewCard
<1>6. /\ cards' \in Seq(CardRows)
      /\ DOMAIN cards \subseteq DOMAIN cards'
      /\ \A c \in DOMAIN cards' : cards'[c].ref \in {NoRef} \cup DOMAIN meals
  <2> HIDE DEF kept
  <2>1. /\ cards' \in Seq(CardRows)
        /\ DOMAIN cards' = DOMAIN kept \cup {Len(kept) + 1}
        /\ \A c \in DOMAIN kept : cards'[c] = kept[c]
        /\ cards'[Len(kept) + 1] = NewCard(kind, body)
    BY <1>4, <1>5, AppendRow
  <2>2. \A c \in DOMAIN kept : cards'[c].ref \in {NoRef} \cup DOMAIN meals
    BY <1>2, <1>4, <2>1 DEF TypeOK
  <2>3. NewCard(kind, body).ref = NoRef
    BY DEF NewCard
  <2> QED  BY <1>4, <2>1, <2>2, <2>3
<1> QED
  BY <1>6 DEF TypeOK, CreateCard, ledger

LEMMA ProposeMealType ==
  ASSUME TypeOK, ProposeMeal  PROVE TypeOK'
<1>1. PICK payer \in Members, eaters \in EaterLists, guests \in GuestCounts,
           total \in Totals, day \in SaidDays :
        CreateCard("expense", [payer |-> payer, eaters |-> eaters, guests |-> guests,
                               total |-> total, day |-> day])
  BY DEF ProposeMeal
<1> DEFINE body == [payer |-> payer, eaters |-> eaters, guests |-> guests,
                    total |-> total, day |-> day]
<1>2. body \in ExpenseBodies
  BY InputsAssumption DEF ExpenseBodies
<1>3. NewCard("expense", body) \in CardRows
  <2> HIDE DEF body
  <2> QED  BY <1>2 DEF NewCard, CardRows, Statuses
<1> QED
  BY <1>1, <1>3, CreateCardType

LEMMA ProposePaymentType ==
  ASSUME TypeOK, ProposePayment  PROVE TypeOK'
<1>1. PICK frm \in Members, to \in Members :
        \E t \in {Transfer(frm, to, a, FALSE) : a \in Amounts} \cup PayOffs(frm, to) :
          /\ t.amount \in Nat \ {0}
          /\ CreateCard("payment", [transfers |-> <<t>>])
  BY DEF ProposePayment
<1>2. PICK t \in {Transfer(frm, to, a, FALSE) : a \in Amounts} \cup PayOffs(frm, to) :
          /\ t.amount \in Nat \ {0}
          /\ CreateCard("payment", [transfers |-> <<t>>])
  BY <1>1
<1>3. \E f, g \in Members, w \in BOOLEAN : \E a : t = Transfer(f, g, a, w)
  <2>1. CASE t \in {Transfer(frm, to, a, FALSE) : a \in Amounts}
    BY <2>1
  <2>2. CASE t \in PayOffs(frm, to)
    BY <2>2 DEF PayOffs
  <2> QED  BY <2>1, <2>2
<1>4. t \in Transfers
  BY <1>2, <1>3 DEF Transfer, Transfers
<1>5. [transfers |-> <<t>>] \in PaymentBodies
  BY <1>4 DEF PaymentBodies
<1>6. NewCard("payment", [transfers |-> <<t>>]) \in CardRows
  BY <1>5 DEF NewCard, CardRows, Statuses
<1> QED
  BY <1>2, <1>6, CreateCardType

LEMMA ProposeGameType ==
  ASSUME TypeOK, ProposeGame  PROVE TypeOK'
<1>1. PICK loser \in Members, winner \in Members, amount \in Amounts, day \in SaidDays :
        /\ amount \in Nat \ {0}
        /\ CreateCard("game", [loser |-> loser, winner |-> winner, amount |-> amount, day |-> day])
  BY DEF ProposeGame
<1> DEFINE body == [loser |-> loser, winner |-> winner, amount |-> amount, day |-> day]
<1>2. body \in GameBodies
  BY <1>1, InputsAssumption DEF GameBodies
<1>3. NewCard("game", body) \in CardRows
  <2> HIDE DEF body
  <2> QED  BY <1>2 DEF NewCard, CardRows, Statuses
<1> QED
  BY <1>1, <1>3, CreateCardType

LEMMA ReplaceCardType ==
  ASSUME TypeOK, NEW c \in DOMAIN cards, NEW r \in CardRows, r.ref = cards[c].ref,
         cards' = [cards EXCEPT ![c] = r], UNCHANGED <<today, ledger>>
  PROVE  TypeOK'
<1>1. /\ cards' \in Seq(CardRows)
      /\ DOMAIN cards' = DOMAIN cards
      /\ \A d \in DOMAIN cards : cards'[d] = IF d = c THEN r ELSE cards[d]
  BY ReplaceRow DEF TypeOK
<1> QED
  BY <1>1 DEF TypeOK, ledger

LEMMA CardFacts ==
  ASSUME TypeOK, NEW c \in DOMAIN cards
  PROVE  /\ cards[c] \in CardRows
         /\ cards[c].kind = "expense" => cards[c].body \in ExpenseBodies
         /\ cards[c].kind = "payment" => cards[c].body \in PaymentBodies
         /\ cards[c].kind = "game" => cards[c].body \in GameBodies
         /\ cards[c].kind # "expense" => cards[c].ref = NoRef
<1>1. cards[c] \in CardRows
  BY LenProperties, ElementOfSeq DEF TypeOK
<1> QED
  BY <1>1 DEF CardRows

LEMMA EditedBodyType ==
  ASSUME NEW old \in ExpenseBodies, NEW body \in EditedBodies(old)
  PROVE  body \in ExpenseBodies
  BY InputsAssumption DEF EditedBodies, ExpenseBodies

LEMMA EditDraftType ==
  ASSUME TypeOK, NEW c \in DOMAIN cards, EditDraft(c)  PROVE TypeOK'
<1>1. PICK body \in EditedBodies(cards[c].body) : cards' = [cards EXCEPT ![c].body = body]
  BY DEF EditDraft
<1>2. body \in ExpenseBodies
  BY CardFacts, EditedBodyType DEF EditDraft
<1> DEFINE r == [cards[c] EXCEPT !.body = body]
<1>3. r \in CardRows /\ r.ref = cards[c].ref
  BY <1>2, CardFacts DEF EditDraft, CardRows
<1>4. cards' = [cards EXCEPT ![c] = r]
  BY <1>1
<1> QED
  <2> HIDE DEF r
  <2> QED  BY <1>3, <1>4, ReplaceCardType DEF EditDraft

LEMMA CancelDraftType ==
  ASSUME TypeOK, NEW c \in DOMAIN cards, CancelDraft(c)  PROVE TypeOK'
<1> DEFINE r == [cards[c] EXCEPT !.status = "cancelled"]
<1>1. r \in CardRows /\ r.ref = cards[c].ref
  BY CardFacts, CardStatusChange DEF Statuses
<1>2. cards' = [cards EXCEPT ![c] = r]
  BY DEF CancelDraft
<1> QED
  <2> HIDE DEF r
  <2> QED  BY <1>1, <1>2, ReplaceCardType DEF CancelDraft

LEMMA DayOfType ==
  ASSUME TypeOK, NEW body, body.day \in Nat  PROVE DayOf(body) \in Nat
  BY DEF DayOf, TypeOK

(* A meal recorded from card c, which then points at it. *)
LEMMA RecordMealType ==
  ASSUME TypeOK, NEW c \in DOMAIN cards, NEW row \in MealRows, NEW old \in Seq(MealRows),
         Len(old) = Len(meals), NEW r \in CardRows, r.ref = Len(meals) + 1,
         meals' = Append(old, row), origin' = Append(origin, c),
         cards' = [cards EXCEPT ![c] = r]
  PROVE  /\ cards' \in Seq(CardRows)
         /\ meals' \in Seq(MealRows)
         /\ origin' \in Seq(Nat)
         /\ Len(origin') = Len(meals')
         /\ DOMAIN meals \subseteq DOMAIN meals'
         /\ Len(meals) + 1 \in DOMAIN meals'
         /\ \A d \in DOMAIN cards' : cards'[d].ref \in {NoRef} \cup DOMAIN meals'
         /\ \A m \in DOMAIN meals' : origin'[m] \in DOMAIN cards'
<1>1. /\ DOMAIN meals = 1 .. Len(meals) /\ Len(meals) \in Nat
      /\ DOMAIN old = DOMAIN meals
      /\ DOMAIN origin = DOMAIN meals
      /\ c \in Nat
  BY LenProperties DEF TypeOK
<1>2. /\ meals' \in Seq(MealRows)
      /\ Len(meals') = Len(meals) + 1
      /\ DOMAIN meals' = DOMAIN meals \cup {Len(meals) + 1}
  BY <1>1, AppendRow
<1>3. /\ origin' \in Seq(Nat)
      /\ Len(origin') = Len(meals) + 1
      /\ \A m \in DOMAIN meals : origin'[m] = origin[m]
      /\ origin'[Len(meals) + 1] = c
  BY SMTT(20), <1>1, AppendRow DEF TypeOK
<1>4. /\ cards' \in Seq(CardRows)
      /\ DOMAIN cards' = DOMAIN cards
      /\ \A d \in DOMAIN cards : cards'[d] = IF d = c THEN r ELSE cards[d]
  BY ReplaceRow DEF TypeOK
<1>5. \A d \in DOMAIN cards' : cards'[d].ref \in {NoRef} \cup DOMAIN meals'
  BY <1>2, <1>4 DEF TypeOK
<1>6. \A m \in DOMAIN meals' : origin'[m] \in DOMAIN cards'
  BY <1>2, <1>3, <1>4 DEF TypeOK
<1> QED
  BY <1>2, <1>3, <1>4, <1>5, <1>6

LEMMA CommitExpenseType ==
  ASSUME TypeOK, NEW c \in DOMAIN cards, CommitExpense(c), UNCHANGED today
  PROVE  TypeOK'
<1> DEFINE body == cards[c].body
           row  == MealRow(body, DayOf(body))
           r    == [cards[c] EXCEPT !.status = "committed", !.ref = Len(meals) + 1]
<1>1. body \in ExpenseBodies /\ cards[c] \in CardRows
  BY CardFacts DEF CommitExpense
<1>2. row \in MealRows
  BY <1>1, DayOfType, MealRowType DEF CommitExpense, ExpenseBodies
<1>3. Len(meals) \in Nat
  BY LenProperties DEF TypeOK
<1>4. r \in CardRows /\ r.ref = Len(meals) + 1
  BY <1>1, <1>3 DEF CommitExpense, CardRows, Statuses
<1>5. /\ meals' = Append(meals, row)
      /\ origin' = Append(origin, c)
      /\ cards' = [cards EXCEPT ![c] = r]
      /\ UNCHANGED <<games, payments>>
  BY DEF CommitExpense
<1>6. meals \in Seq(MealRows)
  BY DEF TypeOK
<1> HIDE DEF body, row, r
<1>7. /\ cards' \in Seq(CardRows)
      /\ meals' \in Seq(MealRows)
      /\ origin' \in Seq(Nat)
      /\ Len(origin') = Len(meals')
      /\ DOMAIN meals \subseteq DOMAIN meals'
      /\ \A d \in DOMAIN cards' : cards'[d].ref \in {NoRef} \cup DOMAIN meals'
      /\ \A m \in DOMAIN meals' : origin'[m] \in DOMAIN cards'
  BY <1>2, <1>4, <1>5, <1>6, RecordMealType
<1> QED
  BY <1>5, <1>7 DEF TypeOK

(* A commit that leaves the meals alone. *)
LEMMA AnswerCardType ==
  ASSUME TypeOK, NEW c \in DOMAIN cards,
         cards' = [cards EXCEPT ![c].status = "committed"]
  PROVE  /\ cards' \in Seq(CardRows)
         /\ DOMAIN cards' = DOMAIN cards
         /\ \A d \in DOMAIN cards : cards'[d].ref = cards[d].ref
<1> DEFINE r == [cards[c] EXCEPT !.status = "committed"]
<1>1. r \in CardRows /\ r.ref = cards[c].ref
  BY CardFacts, CardStatusChange DEF Statuses
<1>2. cards' = [cards EXCEPT ![c] = r]
  OBVIOUS
<1> DEFINE answered == [cards EXCEPT ![c] = r]
<1>3. cards \in Seq(CardRows)
  BY DEF TypeOK
<1>4. /\ answered \in Seq(CardRows)
      /\ DOMAIN answered = DOMAIN cards
      /\ \A d \in DOMAIN cards : answered[d] = IF d = c THEN r ELSE cards[d]
  <2> HIDE DEF r
  <2> QED  BY <1>1, <1>3, ReplaceRow
<1> HIDE DEF r, answered
<1>5. cards' = answered
  BY <1>2 DEF answered
<1> QED
  BY <1>1, <1>4, <1>5

LEMMA CommitPaymentType ==
  ASSUME TypeOK, NEW c \in DOMAIN cards, CommitPayment(c), UNCHANGED today
  PROVE  TypeOK'
<1> DEFINE transfers == cards[c].body.transfers
           made == [i \in DOMAIN transfers |-> PaymentOf(transfers[i])]
<1>1. transfers \in Seq(Transfers)
  BY CardFacts DEF CommitPayment, PaymentBodies
<1>2. /\ Len(transfers) \in Nat /\ DOMAIN transfers = 1 .. Len(transfers)
      /\ \A i \in DOMAIN transfers : transfers[i] \in Transfers
  BY <1>1, LenProperties, ElementOfSeq
<1>3. made \in [1 .. Len(transfers) -> PaymentRows]
  BY <1>2 DEF PaymentOf, PaymentRows, Transfers
<1>4. /\ made \in Seq(PaymentRows) /\ Len(made) = Len(transfers)
      /\ \A i \in 1 .. Len(made) : made[i].meal = NoRef
  BY <1>2, <1>3, MapIsSeq DEF PaymentOf
<1>5. payments' = payments \o made
  BY DEF CommitPayment
<1>6. /\ payments' \in Seq(PaymentRows)
      /\ \A i \in DOMAIN payments' : payments'[i].meal \in {NoRef} \cup DOMAIN meals
  <2> HIDE DEF made
  <2>1. payments \in Seq(PaymentRows) /\ DOMAIN payments = 1 .. Len(payments) /\ Len(payments) \in Nat
    BY LenProperties DEF TypeOK
  <2>2. /\ payments' \in Seq(PaymentRows)
        /\ Len(payments') = Len(payments) + Len(made)
        /\ \A i \in 1 .. Len(payments) + Len(made) :
             payments'[i] = IF i <= Len(payments) THEN payments[i] ELSE made[i - Len(payments)]
    <3>1. LET all == payments \o made IN
          /\ all \in Seq(PaymentRows)
          /\ Len(all) = Len(payments) + Len(made)
          /\ \A i \in 1 .. Len(payments) + Len(made) :
               all[i] = IF i <= Len(payments) THEN payments[i] ELSE made[i - Len(payments)]
      BY ZenonT(40), <1>4, <2>1, ConcatProperties
    <3> QED  BY <1>5, <3>1
  <2>a. /\ DOMAIN payments' = 1 .. (Len(payments) + Len(made))
        /\ Len(made) \in Nat
    BY <1>4, <2>2, LenProperties
  <2>3. ASSUME NEW i \in DOMAIN payments'
        PROVE  payments'[i].meal \in {NoRef} \cup DOMAIN meals
    <3>0. i \in 1 .. Len(payments) + Len(made)
      BY <2>a, <2>3
    <3>1. CASE i <= Len(payments)
      <4>1. i \in DOMAIN payments /\ payments'[i] = payments[i]
        BY <2>1, <2>2, <3>0, <3>1
      <4> QED  BY <4>1 DEF TypeOK
    <3>2. CASE ~(i <= Len(payments))
      <4>1. payments'[i] = made[i - Len(payments)] /\ i - Len(payments) \in 1 .. Len(made)
        BY <2>1, <2>2, <2>a, <3>0, <3>2
      <4> QED  BY <1>4, <4>1
    <3> QED  BY <3>1, <3>2
  <2> QED  BY <2>2, <2>3
<1>7. /\ cards' \in Seq(CardRows) /\ DOMAIN cards' = DOMAIN cards
      /\ \A d \in DOMAIN cards : cards'[d].ref = cards[d].ref
  BY AnswerCardType DEF CommitPayment
<1> QED
  BY <1>6, <1>7 DEF TypeOK, CommitPayment

LEMMA CommitGameType ==
  ASSUME TypeOK, NEW c \in DOMAIN cards, CommitGame(c), UNCHANGED today
  PROVE  TypeOK'
<1> DEFINE body == cards[c].body
           row  == [loser |-> body.loser, winner |-> body.winner,
                    amount |-> body.amount, day |-> DayOf(body), voided |-> FALSE]
<1>1. body \in GameBodies
  BY CardFacts DEF CommitGame
<1>2. row \in GameRows
  BY <1>1, DayOfType DEF GameBodies, GameRows
<1>3. games' \in Seq(GameRows)
  <2> HIDE DEF row
  <2>1. games' = Append(games, row)
    BY DEF CommitGame, row
  <2> QED  BY <1>2, <2>1, AppendRow DEF TypeOK
<1>4. /\ cards' \in Seq(CardRows) /\ DOMAIN cards' = DOMAIN cards
      /\ \A d \in DOMAIN cards : cards'[d].ref = cards[d].ref
  BY AnswerCardType DEF CommitGame
<1> QED
  BY <1>3, <1>4 DEF TypeOK, CommitGame

(* The payments after an edit or a void, as one sequence map. *)
LEMMA PaymentMapType ==
  ASSUME TypeOK, NEW to, NEW f \in [DOMAIN payments -> PaymentRows],
         \A i \in DOMAIN payments : f[i].meal \in {NoRef} \cup to
  PROVE  /\ f \in Seq(PaymentRows)
         /\ DOMAIN f = DOMAIN payments
         /\ \A i \in DOMAIN f : f[i].meal \in {NoRef} \cup to
<1>1. Len(payments) \in Nat /\ DOMAIN payments = 1 .. Len(payments)
  BY LenProperties DEF TypeOK
<1> QED
  BY <1>1, MapIsSeq

LEMMA PaymentFacts ==
  ASSUME TypeOK, NEW i \in DOMAIN payments
  PROVE  payments[i] \in PaymentRows /\ payments[i].meal \in {NoRef} \cup DOMAIN meals
  BY LenProperties, ElementOfSeq DEF TypeOK

LEMMA MealFacts ==
  ASSUME TypeOK, NEW m \in DOMAIN meals
  PROVE  meals[m] \in MealRows /\ m \in Nat /\ m # NoRef
  BY LenProperties, ElementOfSeq DEF TypeOK, NoRef

LEMMA FollowEditType ==
  ASSUME TypeOK, NEW old \in DOMAIN meals, NEW new \in Nat, NEW row
  PROVE  LET f == FollowEdit(old, new, row)
         IN  /\ f \in Seq(PaymentRows)
             /\ DOMAIN f = DOMAIN payments
             /\ \A i \in DOMAIN f : f[i].meal \in {NoRef} \cup DOMAIN meals \cup {new}
<1> DEFINE f == FollowEdit(old, new, row)
<1>1. ASSUME NEW i \in DOMAIN payments
      PROVE  f[i] \in PaymentRows /\ f[i].meal \in {NoRef} \cup (DOMAIN meals \cup {new})
  <2>1. payments[i] \in PaymentRows /\ payments[i].meal \in {NoRef} \cup DOMAIN meals
    BY PaymentFacts
  <2>2. f[i] \in {payments[i], [payments[i] EXCEPT !.meal = new],
                  [payments[i] EXCEPT !.voided = TRUE]}
    BY DEF FollowEdit
  <2>3. CASE f[i] = payments[i]
    BY <2>1, <2>3
  <2>4. CASE f[i] = [payments[i] EXCEPT !.meal = new]
    BY <2>1, <2>4 DEF PaymentRows
  <2>5. CASE f[i] = [payments[i] EXCEPT !.voided = TRUE]
    BY <2>1, <2>5 DEF PaymentRows
  <2> QED  BY <2>2, <2>3, <2>4, <2>5
<1>2. f \in [DOMAIN payments -> PaymentRows]
  BY <1>1 DEF FollowEdit
<1> HIDE DEF f
<1>3. /\ f \in Seq(PaymentRows)
      /\ DOMAIN f = DOMAIN payments
      /\ \A i \in DOMAIN f : f[i].meal \in {NoRef} \cup (DOMAIN meals \cup {new})
  BY <1>1, <1>2, PaymentMapType
<1> QED
  BY <1>3 DEF f

LEMMA VoidedMealsType ==
  ASSUME TypeOK, NEW m \in DOMAIN meals
  PROVE  LET gone == [meals EXCEPT ![m].voided = TRUE] IN
         /\ gone \in Seq(MealRows)
         /\ Len(gone) = Len(meals)
         /\ DOMAIN gone = DOMAIN meals
<1> DEFINE v == [meals[m] EXCEPT !.voided = TRUE]
<1>1. v \in MealRows
  BY MealFacts DEF MealRows
<1> DEFINE gone == [meals EXCEPT ![m] = v]
<1>2. gone = [meals EXCEPT ![m].voided = TRUE]
  OBVIOUS
<1>3. meals \in Seq(MealRows)
  BY DEF TypeOK
<1>4. gone \in Seq(MealRows) /\ Len(gone) = Len(meals) /\ DOMAIN gone = DOMAIN meals
  <2> HIDE DEF v
  <2> QED  BY <1>1, <1>3, ReplaceRow
<1> HIDE DEF gone
<1> QED  BY <1>2, <1>4

LEMMA RecommitType ==
  ASSUME TypeOK, NEW c \in DOMAIN cards, Recommit(c)  PROVE TypeOK'
<1> DEFINE old == cards[c].ref
           new == Len(meals) + 1
           gone == [meals EXCEPT ![old].voided = TRUE]
<1>1. /\ cards[c] \in CardRows /\ cards[c].body \in ExpenseBodies
      /\ old \in DOMAIN meals
      /\ Len(meals) \in Nat
  BY CardFacts, LenProperties DEF Recommit, TypeOK
<1>2. PICK body \in EditedBodies(cards[c].body) :
        LET row == MealRow(body, meals[old].day) IN
        /\ EqualSplitAllowed(body.total, body.eaters)
        /\ meals' = Append(gone, row)
        /\ payments' = FollowEdit(old, new, row)
        /\ cards' = [cards EXCEPT ![c].body = body, ![c].ref = new]
  BY DEF Recommit
<1> DEFINE row == MealRow(body, meals[old].day)
           r   == [cards[c] EXCEPT !.body = body, !.ref = new]
<1>3. body \in ExpenseBodies
  BY <1>1, EditedBodyType
<1>4. row \in MealRows
  BY <1>1, <1>2, <1>3, MealFacts, MealRowType DEF MealRows
<1>5. gone \in Seq(MealRows) /\ Len(gone) = Len(meals)
  <2> HIDE DEF old
  <2> QED  BY <1>1, VoidedMealsType
<1>6. r \in CardRows /\ r.ref = Len(meals) + 1
  <2>1. cards[c].kind = "expense"
    BY DEF Recommit
  <2>2. new \in Nat
    BY <1>1
  <2>3. \A card \in CardRows : card.kind = "expense" =>
          LET edited == [card EXCEPT !.body = body, !.ref = new] IN
          edited \in CardRows /\ edited.ref = new
    <3> HIDE DEF new
    <3> QED  BY <1>3, <2>2 DEF CardRows
  <2> QED  BY <1>1, <2>1, <2>3
<1>7. /\ meals' = Append(gone, row)
      /\ payments' = FollowEdit(old, new, row)
      /\ cards' = [cards EXCEPT ![c] = r]
      /\ origin' = Append(origin, c)
      /\ UNCHANGED <<today, games>>
  BY <1>2 DEF Recommit
<1> HIDE DEF row, r, gone
<1>8. /\ cards' \in Seq(CardRows)
      /\ meals' \in Seq(MealRows)
      /\ origin' \in Seq(Nat)
      /\ Len(origin') = Len(meals')
      /\ DOMAIN meals \subseteq DOMAIN meals'
      /\ new \in DOMAIN meals'
      /\ \A d \in DOMAIN cards' : cards'[d].ref \in {NoRef} \cup DOMAIN meals'
      /\ \A m \in DOMAIN meals' : origin'[m] \in DOMAIN cards'
  BY <1>4, <1>5, <1>6, <1>7, RecordMealType
<1>9. /\ payments' \in Seq(PaymentRows)
      /\ \A i \in DOMAIN payments' : payments'[i].meal \in {NoRef} \cup DOMAIN meals \cup {new}
  <2>1. new \in Nat
    BY <1>1
  <2> HIDE DEF old, new
  <2> QED  BY <1>1, <1>7, <2>1, FollowEditType
<1> QED
  BY <1>7, <1>8, <1>9 DEF TypeOK

LEMMA VoidMealType ==
  ASSUME TypeOK, NEW m \in DOMAIN meals, VoidMeal(m)  PROVE TypeOK'
<1>1. /\ meals' \in Seq(MealRows) /\ Len(meals') = Len(meals) /\ DOMAIN meals' = DOMAIN meals
  BY VoidedMealsType DEF VoidMeal
<1>2. payments' \in [DOMAIN payments -> PaymentRows]
  <2>1. \A i \in DOMAIN payments : [payments[i] EXCEPT !.meal = NoRef] \in PaymentRows
    BY PaymentFacts DEF PaymentRows
  <2> QED  BY <2>1, PaymentFacts DEF VoidMeal
<1>3. \A i \in DOMAIN payments : payments'[i].meal \in {NoRef} \cup DOMAIN meals
  <2>1. \A i \in DOMAIN payments : [payments[i] EXCEPT !.meal = NoRef].meal = NoRef
    BY PaymentFacts DEF PaymentRows
  <2> QED  BY <2>1, PaymentFacts DEF VoidMeal
<1>4. /\ payments' \in Seq(PaymentRows)
      /\ \A i \in DOMAIN payments' : payments'[i].meal \in {NoRef} \cup DOMAIN meals
  BY <1>2, <1>3, PaymentMapType
<1> QED
  BY <1>1, <1>4 DEF TypeOK, VoidMeal

LEMMA VoidGameType ==
  ASSUME TypeOK, NEW g \in DOMAIN games, VoidGame(g)  PROVE TypeOK'
<1> DEFINE v == [games[g] EXCEPT !.voided = TRUE]
<1>1. games[g] \in GameRows
  BY LenProperties, ElementOfSeq DEF TypeOK
<1>2. v \in GameRows
  BY <1>1 DEF GameRows
<1>3. games' = [games EXCEPT ![g] = v]
  BY DEF VoidGame
<1> HIDE DEF v
<1>4. games' \in Seq(GameRows)
  BY <1>2, <1>3, ReplaceRow DEF TypeOK
<1> QED
  BY <1>4 DEF TypeOK, VoidGame

LEMMA QuickPayType ==
  ASSUME TypeOK, NEW debtor \in Members, NEW creditor \in Members, NEW ref,
         QuickPay(debtor, creditor, ref)
  PROVE  TypeOK'
<1>1. PICK owed \in Nat \ {0} :
        payments' = Append(payments, [frm |-> debtor, to |-> creditor, amount |-> owed,
                                      meal |-> ref, voided |-> FALSE])
  BY DEF QuickPay
<1> DEFINE row == [frm |-> debtor, to |-> creditor, amount |-> owed, meal |-> ref, voided |-> FALSE]
<1>2. ref \in DOMAIN meals /\ ref \in Nat
  BY MealFacts DEF QuickPay
<1>3. row \in PaymentRows /\ row.meal = ref
  BY <1>2 DEF PaymentRows
<1> HIDE DEF row
<1>4. /\ payments' \in Seq(PaymentRows)
      /\ \A i \in DOMAIN payments' : payments'[i].meal \in {NoRef} \cup DOMAIN meals
  <2>1. payments' = Append(payments, row)
    BY <1>1 DEF row
  <2>2. /\ payments' \in Seq(PaymentRows)
        /\ DOMAIN payments' = DOMAIN payments \cup {Len(payments) + 1}
        /\ \A i \in DOMAIN payments : payments'[i] = payments[i]
        /\ payments'[Len(payments) + 1] = row
    BY <1>3, <2>1, AppendRow DEF TypeOK
  <2> QED  BY <1>2, <1>3, <2>2 DEF TypeOK
<1> QED
  BY <1>4 DEF TypeOK, QuickPay

LEMMA VoidPaymentType ==
  ASSUME TypeOK, NEW i \in DOMAIN payments, VoidPayment(i)  PROVE TypeOK'
<1> DEFINE v == [payments[i] EXCEPT !.voided = TRUE]
<1>1. v \in PaymentRows /\ v.meal = payments[i].meal
  BY PaymentFacts DEF PaymentRows
<1>2. payments' = [payments EXCEPT ![i] = v]
  BY DEF VoidPayment
<1> HIDE DEF v
<1>3. /\ payments' \in Seq(PaymentRows)
      /\ DOMAIN payments' = DOMAIN payments
      /\ \A j \in DOMAIN payments : payments'[j] = IF j = i THEN v ELSE payments[j]
  BY <1>1, <1>2, ReplaceRow DEF TypeOK
<1> QED
  BY <1>1, <1>3 DEF TypeOK, VoidPayment

LEMMA TypeInit == Init => TypeOK
<1>1. \A S : <<>> \in Seq(S)
  BY EmptySeq
<1> QED
  BY <1>1 DEF Init, TypeOK, FirstDay

LEMMA TypeStep == TypeOK /\ [Next]_vars => TypeOK'
<1> SUFFICES ASSUME TypeOK, [Next]_vars  PROVE TypeOK'
  OBVIOUS
<1>1. CASE ProposeMeal \/ ProposePayment \/ ProposeGame
  BY <1>1, ProposeMealType, ProposePaymentType, ProposeGameType
<1>2. ASSUME NEW c \in DOMAIN cards,
             EditDraft(c) \/ CancelDraft(c) \/ Commit(c) \/ Recommit(c)
      PROVE  TypeOK'
  <2>1. CASE EditDraft(c)
    BY <2>1, EditDraftType
  <2>2. CASE CancelDraft(c)
    BY <2>2, CancelDraftType
  <2>3. CASE Commit(c)
    BY <2>3, CommitExpenseType, CommitPaymentType, CommitGameType DEF Commit
  <2>4. CASE Recommit(c)
    BY <2>4, RecommitType
  <2> QED  BY <1>2, <2>1, <2>2, <2>3, <2>4
<1>3. ASSUME NEW m \in DOMAIN meals, VoidMeal(m)  PROVE TypeOK'
  BY <1>3, VoidMealType
<1>4. ASSUME NEW g \in DOMAIN games, VoidGame(g)  PROVE TypeOK'
  BY <1>4, VoidGameType
<1>5. ASSUME NEW debtor \in Members, NEW creditor \in Members,
             NEW ref \in DOMAIN meals \cup DOMAIN games, QuickPay(debtor, creditor, ref)
      PROVE  TypeOK'
  BY <1>5, QuickPayType
<1>6. ASSUME NEW i \in DOMAIN payments, VoidPayment(i)  PROVE TypeOK'
  BY <1>6, VoidPaymentType
<1>7. CASE NextDay
  BY <1>7 DEF NextDay, TypeOK, ledger
<1>8. CASE UNCHANGED vars
  BY <1>8 DEF vars, TypeOK
<1> QED
  BY <1>1, <1>2, <1>3, <1>4, <1>5, <1>6, <1>7, <1>8 DEF Next

(* Every row the program writes is well formed, and every id stored in a   *)
(* card, a payment or the history is the id of a row.                      *)
THEOREM TypeCorrect == Spec => []TypeOK
  BY TypeInit, TypeStep, PTL DEF Spec
-----------------------------------------------------------------------------
(***************************************************************************)
(* Safety of the draft cards and their ledger, for every roster, every set *)
(* of inputs and every bound.  Each lemma of the first part says what all  *)
(* the steps do to one table; the theorems combine them.                   *)
(***************************************************************************)

(* What a step does to the meals. *)

MealsAfter ==
  \A m \in DOMAIN meals : /\ m \in DOMAIN meals' /\ SameRow(meals[m], meals'[m])
                         /\ origin'[m] = origin[m]

(* A new meal is the one its card names, and the card is committed. *)
NewMeals ==
  \A m \in DOMAIN meals' \ DOMAIN meals :
    /\ origin'[m] \in DOMAIN cards
    /\ cards'[origin'[m]].kind = "expense"
    /\ cards'[origin'[m]].status = "committed"
    /\ cards'[origin'[m]].ref = m

LEMMA SameMeal == ASSUME NEW r \in MealRows  PROVE SameRow(r, r)
  BY DEF SameRow, MealRows

LEMMA VoidedMeal ==
  ASSUME NEW r \in MealRows
  PROVE  /\ SameRow(r, [r EXCEPT !.voided = TRUE])
         /\ [r EXCEPT !.voided = TRUE].voided
  BY DEF SameRow, MealRows

LEMMA AppendedMeal ==
  ASSUME TypeOK, NEW c \in DOMAIN cards, NEW row \in MealRows, NEW gone \in Seq(MealRows),
         Len(gone) = Len(meals),
         meals' = Append(gone, row), origin' = Append(origin, c)
  PROVE  /\ DOMAIN meals' = DOMAIN meals \cup {Len(meals) + 1}
         /\ Len(meals) + 1 \notin DOMAIN meals
         /\ \A m \in DOMAIN meals : meals'[m] = gone[m] /\ origin'[m] = origin[m]
         /\ meals'[Len(meals) + 1] = row
         /\ origin'[Len(meals) + 1] = c
<1>1. /\ meals \in Seq(MealRows) /\ origin \in Seq(Nat) /\ Len(origin) = Len(meals)
      /\ c \in Nat
      /\ DOMAIN gone = DOMAIN meals /\ DOMAIN origin = DOMAIN meals
  BY LenProperties DEF TypeOK
<1> DEFINE ms == Append(gone, row)
           os == Append(origin, c)
<1>2. /\ DOMAIN ms = DOMAIN meals \cup {Len(meals) + 1}
      /\ Len(meals) + 1 \notin DOMAIN meals
      /\ \A m \in DOMAIN meals : ms[m] = gone[m]
      /\ ms[Len(meals) + 1] = row
  BY <1>1, AppendRow
<1>3. /\ \A m \in DOMAIN meals : os[m] = origin[m]
      /\ os[Len(meals) + 1] = c
  BY <1>1, AppendRow
<1> HIDE DEF ms, os
<1>4. meals' = ms /\ origin' = os
  BY DEF ms, os
<1> QED
  BY <1>2, <1>3, <1>4

LEMMA CommittedMeal ==
  ASSUME TypeOK, NEW c \in DOMAIN cards, CommitExpense(c)
  PROVE  /\ MealsAfter /\ NewMeals
         /\ DOMAIN meals' = DOMAIN meals \cup {Len(meals) + 1}
         /\ Len(meals) + 1 \notin DOMAIN meals
         /\ \A m \in DOMAIN meals : meals'[m] = meals[m]
         /\ origin'[Len(meals) + 1] = c
<1> DEFINE body == cards[c].body
           row  == MealRow(body, DayOf(body))
           r    == [cards[c] EXCEPT !.status = "committed", !.ref = Len(meals) + 1]
<1>1. row \in MealRows
  BY CardFacts, DayOfType, MealRowType DEF CommitExpense, ExpenseBodies
<1>2. /\ meals' = Append(meals, row) /\ origin' = Append(origin, c)
      /\ cards' = [cards EXCEPT ![c] = r]
  BY DEF CommitExpense
<1> HIDE DEF row
<1>3. /\ DOMAIN meals' = DOMAIN meals \cup {Len(meals) + 1}
      /\ Len(meals) + 1 \notin DOMAIN meals
      /\ \A m \in DOMAIN meals : meals'[m] = meals[m] /\ origin'[m] = origin[m]
      /\ origin'[Len(meals) + 1] = c
  BY <1>1, <1>2, AppendedMeal DEF TypeOK
<1>4. MealsAfter
  BY <1>3, MealFacts, SameMeal DEF MealsAfter
<1>5. r.kind = "expense" /\ r.status = "committed" /\ r.ref = Len(meals) + 1
  BY CardFacts DEF CommitExpense, CardRows
<1> HIDE DEF r
<1>6. cards'[c] = r
  BY <1>2
<1> QED
  BY <1>3, <1>4, <1>5, <1>6 DEF NewMeals

(* An edit of a recorded meal: the old row is voided, the new one is the   *)
(* card's, and no other row changes.                                       *)
LEMMA RecommittedMeal ==
  ASSUME TypeOK, NEW c \in DOMAIN cards, Recommit(c)
  PROVE  /\ MealsAfter /\ NewMeals
         /\ cards[c].ref \in DOMAIN meals
         /\ meals'[cards[c].ref].voided
         /\ \A m \in DOMAIN meals : m # cards[c].ref => meals'[m] = meals[m]
         /\ DOMAIN meals' = DOMAIN meals \cup {Len(meals) + 1}
         /\ Len(meals) + 1 \notin DOMAIN meals
         /\ origin'[Len(meals) + 1] = c
         /\ \E row : /\ meals'[Len(meals) + 1] = row /\ ~row.voided
                    /\ payments' = FollowEdit(cards[c].ref, Len(meals) + 1, row)
<1> DEFINE old  == cards[c].ref
           new  == Len(meals) + 1
           gone == [meals EXCEPT ![old].voided = TRUE]
<1>1. old \in DOMAIN meals /\ cards[c].body \in ExpenseBodies /\ cards[c] \in CardRows
  BY CardFacts DEF Recommit, TypeOK
<1>2. PICK body \in EditedBodies(cards[c].body) :
        LET row == MealRow(body, meals[old].day) IN
        /\ EqualSplitAllowed(body.total, body.eaters)
        /\ meals' = Append(gone, row)
        /\ payments' = FollowEdit(old, new, row)
        /\ cards' = [cards EXCEPT ![c].body = body, ![c].ref = new]
  BY DEF Recommit
<1> DEFINE row == MealRow(body, meals[old].day)
           r   == [cards[c] EXCEPT !.body = body, !.ref = new]
<1>3. row \in MealRows
  BY <1>1, <1>2, EditedBodyType, MealFacts, MealRowType DEF MealRows
<1>4. ~row.voided
  BY DEF MealRow
<1>5. /\ meals' = Append(gone, row) /\ origin' = Append(origin, c)
      /\ payments' = FollowEdit(old, new, row)
      /\ cards' = [cards EXCEPT ![c] = r]
  BY <1>2 DEF Recommit
<1>6. r.kind = "expense" /\ r.status = "committed" /\ r.ref = new
  <2>1. cards[c].kind = "expense" /\ cards[c].status = "committed"
    BY DEF Recommit
  <2>2. \A card \in CardRows :
          LET edited == [card EXCEPT !.body = body, !.ref = new] IN
          edited.kind = card.kind /\ edited.status = card.status /\ edited.ref = new
    <3> HIDE DEF new
    <3> QED  BY DEF CardRows
  <2> QED  BY <1>1, <2>1, <2>2
<1> HIDE DEF row, r
<1>7. /\ gone[old] = [meals[old] EXCEPT !.voided = TRUE]
      /\ \A m \in DOMAIN meals : m # old => gone[m] = meals[m]
  BY <1>1
<1>8. gone \in Seq(MealRows) /\ Len(gone) = Len(meals)
  <2> HIDE DEF old
  <2> QED  BY <1>1, VoidedMealsType
<1> HIDE DEF gone
<1>9. /\ DOMAIN meals' = DOMAIN meals \cup {new}
      /\ new \notin DOMAIN meals
      /\ \A m \in DOMAIN meals : meals'[m] = gone[m] /\ origin'[m] = origin[m]
      /\ meals'[new] = row
      /\ origin'[new] = c
  BY <1>3, <1>5, <1>8, AppendedMeal
<1>10. MealsAfter /\ meals'[old].voided
  <2>1. \A m \in DOMAIN meals : SameRow(meals[m], gone[m])
    BY <1>7, MealFacts, SameMeal, VoidedMeal
  <2> QED  BY <1>1, <1>7, <1>9, <2>1, MealFacts, VoidedMeal DEF MealsAfter
<1>11. NewMeals
  BY ZenonT(40), <1>5, <1>6, <1>9 DEF NewMeals
<1> QED
  BY <1>1, <1>4, <1>5, <1>7, <1>9, <1>10, <1>11

LEMMA MealsAfterStep == TypeOK /\ [Next]_vars => MealsAfter /\ NewMeals
<1> SUFFICES ASSUME TypeOK, [Next]_vars  PROVE MealsAfter /\ NewMeals
  OBVIOUS
<1>1. CASE UNCHANGED <<meals, origin>>
  BY <1>1, MealFacts, SameMeal DEF MealsAfter, NewMeals
<1>2. ASSUME NEW c \in DOMAIN cards, Commit(c)  PROVE MealsAfter /\ NewMeals
  BY <1>1, <1>2, CommittedMeal DEF Commit, CommitPayment, CommitGame
<1>3. ASSUME NEW c \in DOMAIN cards, Recommit(c)  PROVE MealsAfter /\ NewMeals
  BY <1>3, RecommittedMeal
<1>4. ASSUME NEW m \in DOMAIN meals, VoidMeal(m)  PROVE MealsAfter /\ NewMeals
  <2>1. meals' = [meals EXCEPT ![m].voided = TRUE] /\ origin' = origin
    BY <1>4 DEF VoidMeal
  <2> QED  BY <2>1, MealFacts, SameMeal, VoidedMeal DEF MealsAfter, NewMeals
<1> QED
  BY <1>1, <1>2, <1>3, <1>4
  DEF Next, vars, ledger, ProposeMeal, ProposePayment, ProposeGame, CreateCard, EditDraft,
      CancelDraft, VoidGame, QuickPay, VoidPayment, NextDay

----------------------------------------------------------------------------
(* What a step does to the cards. *)

(* A card keeps its kind, and its status once it is answered; its ref      *)
(* moves only when it is committed, or when the meal it named is voided.   *)
CardAfter(old, new) ==
  /\ new.kind = old.kind
  /\ old.status # "pending" => new.status = old.status
  /\ \/ new.ref = old.ref
     \/ old.status = "pending"
     \/ old.ref \in DOMAIN meals /\ meals'[old.ref].voided

CardsAfter == \A c \in DOMAIN cards : c \in DOMAIN cards' /\ CardAfter(cards[c], cards'[c])

LEMMA SameCard == ASSUME NEW old  PROVE CardAfter(old, old)
  BY DEF CardAfter

LEMMA CreateCardAfter ==
  ASSUME TypeOK, NEW kind, NEW body, CreateCard(kind, body)
  PROVE  /\ CardsAfter
         /\ \A c \in DOMAIN cards : cards'[c].ref = cards[c].ref
         /\ \A c \in DOMAIN cards' \ DOMAIN cards :
              cards'[c].ref = NoRef /\ cards'[c].kind = kind
<1> DEFINE kept == [c \in DOMAIN cards |->
             IF cards[c].status = "pending" /\ SameProposal(cards[c], kind, body)
             THEN [cards[c] EXCEPT !.status = "superseded"] ELSE cards[c]]
           new == [kind |-> kind, status |-> "pending", body |-> body, ref |-> NoRef]
<1>1. Len(cards) \in Nat /\ DOMAIN cards = 1 .. Len(cards)
  BY LenProperties DEF TypeOK
<1>2. ASSUME NEW c \in DOMAIN cards  PROVE CardAfter(cards[c], kept[c]) /\ kept[c].ref = cards[c].ref
  BY <1>2, CardFacts, CardStatusChange DEF CardAfter, Statuses
<1> DEFINE S == {kept[c] : c \in DOMAIN cards} \cup {new}
<1>4. kept \in [1 .. Len(cards) -> S]
  BY <1>1
<1>5. cards' = Append(kept, new) /\ new.ref = NoRef /\ new.kind = kind
  BY DEF CreateCard
<1> HIDE DEF kept, new
<1>3. kept \in Seq(S) /\ new \in S /\ DOMAIN kept = DOMAIN cards
  BY <1>1, <1>4, MapIsSeq
<1> HIDE DEF S
<1>7. LET all == Append(kept, new) IN
      /\ DOMAIN all = DOMAIN cards \cup {Len(kept) + 1}
      /\ \A c \in DOMAIN cards : all[c] = kept[c]
      /\ all[Len(kept) + 1] = new
  BY <1>3, AppendRow
<1> QED
  BY <1>2, <1>5, <1>7 DEF CardsAfter

LEMMA OneCardAfter ==
  ASSUME NEW c \in DOMAIN cards, NEW r, CardAfter(cards[c], r),
         cards' = [cards EXCEPT ![c] = r]
  PROVE  CardsAfter
  BY SameCard DEF CardsAfter

LEMMA CardsAfterStep == TypeOK /\ [Next]_vars => CardsAfter
<1> SUFFICES ASSUME TypeOK, [Next]_vars  PROVE CardsAfter
  OBVIOUS
<1>1. CASE ProposeMeal \/ ProposePayment \/ ProposeGame
  BY <1>1, CreateCardAfter DEF ProposeMeal, ProposePayment, ProposeGame
<1>2. ASSUME NEW c \in DOMAIN cards,
             EditDraft(c) \/ CancelDraft(c) \/ Commit(c) \/ Recommit(c)
      PROVE  CardsAfter
  <2>1. CASE EditDraft(c)
    <3>1. PICK body : cards' = [cards EXCEPT ![c].body = body]
      BY <2>1 DEF EditDraft
    <3> DEFINE r == [cards[c] EXCEPT !.body = body]
    <3>2. CardAfter(cards[c], r)
      BY CardFacts DEF CardAfter, CardRows
    <3> QED  BY <3>1, <3>2, OneCardAfter
  <2>2. CASE CancelDraft(c)
    <3> DEFINE r == [cards[c] EXCEPT !.status = "cancelled"]
    <3>1. CardAfter(cards[c], r)
      BY <2>2, CardFacts DEF CancelDraft, Pending, CardAfter, CardRows
    <3> QED  BY <2>2, <3>1, OneCardAfter DEF CancelDraft
  <2>3. CASE Commit(c) /\ CommitExpense(c)
    <3> DEFINE r == [cards[c] EXCEPT !.status = "committed", !.ref = Len(meals) + 1]
    <3>1. CardAfter(cards[c], r)
      BY <2>3, CardFacts DEF Commit, Pending, CardAfter, CardRows
    <3> QED  BY <2>3, <3>1, OneCardAfter DEF CommitExpense
  <2>4. CASE Commit(c) /\ ~CommitExpense(c)
    <3> DEFINE r == [cards[c] EXCEPT !.status = "committed"]
    <3>1. CardAfter(cards[c], r)
      BY <2>4, CardFacts DEF Commit, Pending, CardAfter, CardRows
    <3> QED  BY <2>4, <3>1, OneCardAfter DEF Commit, CommitPayment, CommitGame
  <2>5. CASE Recommit(c)
    <3> DEFINE old == cards[c].ref
               new == Len(meals) + 1
    <3>1. PICK body : cards' = [cards EXCEPT ![c].body = body, ![c].ref = new]
      BY <2>5 DEF Recommit
    <3> DEFINE r == [cards[c] EXCEPT !.body = body, !.ref = new]
    <3>2. old \in DOMAIN meals /\ meals'[old].voided
      BY <2>5, RecommittedMeal
    <3> HIDE DEF new
    <3>3. CardAfter(cards[c], r)
      BY <3>2, CardFacts DEF CardAfter, CardRows
    <3> QED  BY <3>1, <3>3, OneCardAfter
  <2> QED  BY <1>2, <2>1, <2>2, <2>3, <2>4, <2>5
<1>3. CASE UNCHANGED cards
  BY <1>3, SameCard DEF CardsAfter
<1> QED
  BY <1>1, <1>2, <1>3 DEF Next, vars, VoidMeal, VoidGame, QuickPay, VoidPayment, NextDay

(* No step touches a card's kind, a second answer is never given. *)
THEOREM AnsweredOnce == Spec => AnswersAreFinal
<1>1. TypeOK /\ [Next]_vars =>
        [\A c \in DOMAIN cards : cards[c].status # "pending" =>
            cards'[c].status = cards[c].status]_vars
  BY CardsAfterStep DEF CardsAfter, CardAfter
<1> QED
  BY <1>1, TypeCorrect, PTL DEF Spec, AnswersAreFinal

(* A new card retires the pending ones it proposes again. *)
LEMMA CreateCardRetires ==
  ASSUME TypeOK, NEW kind, NEW body, CreateCard(kind, body)
  PROVE  /\ cards'[Len(cards')] = NewCard(kind, body)
         /\ \A c \in DOMAIN cards :
              cards'[c].status = "pending" => ~SameProposal(cards'[c], kind, body)
<1> DEFINE kept == [c \in DOMAIN cards |->
             IF cards[c].status = "pending" /\ SameProposal(cards[c], kind, body)
             THEN [cards[c] EXCEPT !.status = "superseded"] ELSE cards[c]]
           new == NewCard(kind, body)
           S == {kept[c] : c \in DOMAIN cards} \cup {new}
<1>1. Len(cards) \in Nat /\ DOMAIN cards = 1 .. Len(cards)
  BY LenProperties DEF TypeOK
<1>2. ASSUME NEW c \in DOMAIN cards, kept[c].status = "pending"
      PROVE  ~SameProposal(kept[c], kind, body)
  <2>1. CASE cards[c].status = "pending" /\ SameProposal(cards[c], kind, body)
    <3>1. kept[c].status = "superseded"
      BY <2>1, CardFacts, CardStatusChange DEF CardRows
    <3> HIDE DEF kept
    <3> QED  BY <1>2, <3>1
  <2>2. CASE ~(cards[c].status = "pending" /\ SameProposal(cards[c], kind, body))
    <3>1. kept[c] = cards[c]
      BY <2>2
    <3> HIDE DEF kept
    <3> QED  BY <1>2, <2>2, <3>1
  <2> QED  BY <2>1, <2>2
<1>3. kept \in [1 .. Len(cards) -> S]
  BY <1>1
<1>4. cards' = Append(kept, new)
  BY DEF CreateCard, NewCard
<1> HIDE DEF kept, new
<1>5. kept \in Seq(S) /\ new \in S /\ DOMAIN kept = DOMAIN cards
  BY <1>1, <1>3, MapIsSeq
<1> HIDE DEF S
<1>6. /\ Len(cards') = Len(kept) + 1
      /\ \A c \in DOMAIN cards : cards'[c] = kept[c]
      /\ cards'[Len(kept) + 1] = new
  BY <1>4, <1>5, AppendRow
<1> QED
  BY <1>2, <1>6 DEF new

(* A card that is only rewritten leaves as many as there were. *)
LEMMA AsManyCards ==
  ASSUME TypeOK, TypeOK', NEW c, NEW r, cards' = [cards EXCEPT ![c] = r]
  PROVE  Len(cards') = Len(cards)
<1>1. /\ DOMAIN cards = 1 .. Len(cards) /\ Len(cards) \in Nat
      /\ DOMAIN cards' = 1 .. Len(cards') /\ Len(cards') \in Nat
  BY LenProperties DEF TypeOK
<1>2. DOMAIN cards' = DOMAIN cards
  OBVIOUS
<1> QED
  BY <1>1, <1>2

(* Whatever is proposed again while it waits, one card of it waits. *)
THEOREM OneCardWaits == Spec => OneCardPerProposal
<1> DEFINE One ==
      Len(cards') > Len(cards) =>
        \A c \in DOMAIN cards :
          LET new == cards'[Len(cards')] IN
          cards'[c].status = "pending" => ~SameProposal(cards'[c], new.kind, new.body)
<1>1. TypeOK /\ TypeOK' /\ [Next]_vars => One
  <2> SUFFICES ASSUME TypeOK, TypeOK', [Next]_vars  PROVE One
    OBVIOUS
  <2>1. ASSUME NEW kind, NEW body, CreateCard(kind, body)  PROVE One
    <3>1. cards'[Len(cards')] = NewCard(kind, body)
      BY <2>1, CreateCardRetires
    <3>2. cards'[Len(cards')].kind = kind /\ cards'[Len(cards')].body = body
      BY <3>1 DEF NewCard
    <3>3. \A c \in DOMAIN cards : cards'[c].status = "pending" => ~SameProposal(cards'[c], kind, body)
      BY <2>1, CreateCardRetires
    <3> QED  BY <3>2, <3>3
  <2>2. CASE ProposeMeal \/ ProposePayment \/ ProposeGame
    <3>1. PICK kind, body : CreateCard(kind, body)
      BY <2>2 DEF ProposeMeal, ProposePayment, ProposeGame
    <3> QED  BY <2>1, <3>1
  <2>3. CASE Len(cards') = Len(cards)
    <3>1. Len(cards) \in Nat
      BY LenProperties DEF TypeOK
    <3> QED  BY <2>3, <3>1
  <2>4. ASSUME NEW c \in DOMAIN cards,
               EditDraft(c) \/ CancelDraft(c) \/ Commit(c) \/ Recommit(c)
        PROVE  \E r : cards' = [cards EXCEPT ![c] = r]
    BY <2>4 DEF EditDraft, CancelDraft, Commit, CommitExpense, CommitPayment, CommitGame, Recommit
  <2>5. CASE UNCHANGED cards
    BY <2>3, <2>5
  <2> QED
    BY <2>2, <2>3, <2>4, <2>5, AsManyCards
    DEF Next, vars, VoidMeal, VoidGame, QuickPay, VoidPayment, NextDay
<1>2. [One]_vars <=> [Len(cards') > Len(cards) =>
        \A c \in DOMAIN cards :
          LET new == cards'[Len(cards')] IN
          cards'[c].status = "pending" => ~SameProposal(cards'[c], new.kind, new.body)]_vars
  OBVIOUS
<1> QED
  BY <1>1, <1>2, TypeCorrect, PTL DEF Spec, OneCardPerProposal

----------------------------------------------------------------------------
(* Cards and meals name each other. *)

(* OneLiveMealPerCard is not inductive: a voided meal must not come from a *)
(* card that can still be committed.                                       *)
MealsComeFromAnsweredCards ==
  \A m \in DOMAIN meals : /\ cards[origin[m]].kind = "expense"
                          /\ cards[origin[m]].status = "committed"

CardsNameTheirMeals == \A c \in DOMAIN cards : cards[c].ref # NoRef => origin[cards[c].ref] = c

Link == TypeOK /\ OneLiveMealPerCard /\ MealsComeFromAnsweredCards /\ CardsNameTheirMeals

LEMMA LinkInit == Init => Link
<1>1. DOMAIN <<>> = {}
  OBVIOUS
<1> QED
  BY <1>1, TypeInit
  DEF Init, Link, OneLiveMealPerCard, Live, MealsComeFromAnsweredCards, CardsNameTheirMeals

LEMMA MealsComeFromAnsweredCardsStep ==
  ASSUME TypeOK, MealsComeFromAnsweredCards, CardsAfter, MealsAfter, NewMeals
  PROVE  MealsComeFromAnsweredCards'
<1> SUFFICES ASSUME NEW m \in DOMAIN meals'
             PROVE  /\ cards'[origin'[m]].kind = "expense"
                    /\ cards'[origin'[m]].status = "committed"
  BY DEF MealsComeFromAnsweredCards
<1>1. CASE m \in DOMAIN meals
  <2>1. origin'[m] = origin[m] /\ origin[m] \in DOMAIN cards
    BY <1>1 DEF TypeOK, MealsAfter
  <2>2. cards[origin[m]].kind = "expense" /\ cards[origin[m]].status = "committed"
    BY <1>1 DEF MealsComeFromAnsweredCards
  <2> QED  BY <2>1, <2>2 DEF CardsAfter, CardAfter
<1>2. CASE m \notin DOMAIN meals
  BY <1>2 DEF NewMeals
<1> QED
  BY <1>1, <1>2

LEMMA OneLiveMealPerCardStep ==
  ASSUME TypeOK, OneLiveMealPerCard, MealsComeFromAnsweredCards,
         CardsAfter, MealsAfter, NewMeals
  PROVE  OneLiveMealPerCard'
<1> SUFFICES ASSUME NEW m \in DOMAIN meals', ~meals'[m].voided
             PROVE  /\ cards'[origin'[m]].kind = "expense"
                    /\ cards'[origin'[m]].status = "committed"
                    /\ cards'[origin'[m]].ref = m
  BY DEF OneLiveMealPerCard, Live
<1>1. CASE m \in DOMAIN meals
  <2>1. ~meals[m].voided /\ origin'[m] = origin[m] /\ origin[m] \in DOMAIN cards
    BY <1>1 DEF MealsAfter, SameRow, TypeOK
  <2>2. /\ cards[origin[m]].kind = "expense"
        /\ cards[origin[m]].status = "committed"
        /\ cards[origin[m]].ref = m
    BY <1>1, <2>1 DEF OneLiveMealPerCard, Live
  <2> QED  BY <2>1, <2>2 DEF CardsAfter, CardAfter
<1>2. CASE m \notin DOMAIN meals
  BY <1>2 DEF NewMeals
<1> QED
  BY <1>1, <1>2

(* A card's ref, when a step moves it, is a meal just recorded from it. *)
RefsAfter ==
  \A c \in DOMAIN cards' :
    \/ cards'[c].ref = NoRef
    \/ c \in DOMAIN cards /\ cards'[c].ref = cards[c].ref
    \/ cards'[c].ref \in DOMAIN meals' \ DOMAIN meals /\ origin'[cards'[c].ref] = c

LEMMA RefsAfterStep == TypeOK /\ [Next]_vars => RefsAfter
<1> SUFFICES ASSUME TypeOK, [Next]_vars  PROVE RefsAfter
  OBVIOUS
<1>1. ASSUME NEW kind, NEW body, CreateCard(kind, body)  PROVE RefsAfter
  BY <1>1, CreateCardAfter DEF CardsAfter, RefsAfter
<1>2. ASSUME NEW c \in DOMAIN cards, NEW r, r.ref = cards[c].ref, cards' = [cards EXCEPT ![c] = r]
      PROVE  RefsAfter
  BY <1>2 DEF RefsAfter
<1>3. ASSUME NEW c \in DOMAIN cards,
             EditDraft(c) \/ CancelDraft(c) \/ (Commit(c) /\ ~CommitExpense(c))
      PROVE  RefsAfter
  <2>1. CASE EditDraft(c)
    <3>1. PICK body : cards' = [cards EXCEPT ![c].body = body]
      BY <2>1 DEF EditDraft
    <3> DEFINE r == [cards[c] EXCEPT !.body = body]
    <3>2. r.ref = cards[c].ref
      BY CardFacts DEF CardRows
    <3> QED  BY <1>2, <3>1, <3>2
  <2>2. CASE CancelDraft(c)
    <3> DEFINE r == [cards[c] EXCEPT !.status = "cancelled"]
    <3>1. r.ref = cards[c].ref
      BY CardFacts DEF CardRows
    <3> QED  BY <1>2, <2>2, <3>1 DEF CancelDraft
  <2>3. CASE Commit(c) /\ ~CommitExpense(c)
    <3> DEFINE r == [cards[c] EXCEPT !.status = "committed"]
    <3>1. r.ref = cards[c].ref
      BY CardFacts DEF CardRows
    <3> QED  BY <1>2, <2>3, <3>1 DEF Commit, CommitPayment, CommitGame
  <2> QED  BY <1>3, <2>1, <2>2, <2>3
<1>4. ASSUME NEW c \in DOMAIN cards, (Commit(c) /\ CommitExpense(c)) \/ Recommit(c)
      PROVE  RefsAfter
  <2> DEFINE new == Len(meals) + 1
  <2>1. /\ DOMAIN cards' = DOMAIN cards
        /\ \A d \in DOMAIN cards : d # c => cards'[d] = cards[d]
    BY <1>4 DEF CommitExpense, Recommit
  <2>2. cards'[c].ref = new
    <3>1. \A card \in CardRows : [card EXCEPT !.status = "committed", !.ref = new].ref = new
      <4> HIDE DEF new
      <4> QED  BY DEF CardRows
    <3>2. \A card \in CardRows : \A body : [card EXCEPT !.body = body, !.ref = new].ref = new
      <4> HIDE DEF new
      <4> QED  BY DEF CardRows
    <3>3. CASE Commit(c) /\ CommitExpense(c)
      <4>1. cards'[c] = [cards[c] EXCEPT !.status = "committed", !.ref = new]
        BY <3>3 DEF CommitExpense
      <4> HIDE DEF new
      <4> QED  BY <4>1, <3>1, CardFacts
    <3>4. CASE Recommit(c)
      <4>1. PICK body : cards'[c] = [cards[c] EXCEPT !.body = body, !.ref = new]
        BY <3>4 DEF Recommit
      <4> HIDE DEF new
      <4> QED  BY <4>1, <3>2, CardFacts
    <3> QED  BY <1>4, <3>3, <3>4
  <2>3. new \in DOMAIN meals' \ DOMAIN meals /\ origin'[new] = c
    BY <1>4, CommittedMeal, RecommittedMeal
  <2> HIDE DEF new
  <2> QED  BY <2>1, <2>2, <2>3 DEF RefsAfter
<1>5. CASE UNCHANGED cards
  BY <1>5 DEF RefsAfter
<1> QED
  BY <1>1, <1>3, <1>4, <1>5
  DEF Next, vars, ProposeMeal, ProposePayment, ProposeGame, VoidMeal, VoidGame, QuickPay,
      VoidPayment, NextDay

LEMMA CardsNameTheirMealsStep ==
  ASSUME TypeOK, CardsNameTheirMeals, RefsAfter, MealsAfter
  PROVE  CardsNameTheirMeals'
<1> SUFFICES ASSUME NEW c \in DOMAIN cards', cards'[c].ref # NoRef
             PROVE  origin'[cards'[c].ref] = c
  BY DEF CardsNameTheirMeals
<1>1. CASE c \in DOMAIN cards /\ cards'[c].ref = cards[c].ref
  <2>1. cards[c].ref \in DOMAIN meals /\ origin[cards[c].ref] = c
    BY <1>1 DEF TypeOK, CardsNameTheirMeals
  <2> QED  BY <1>1, <2>1 DEF MealsAfter
<1> QED
  BY <1>1 DEF RefsAfter

LEMMA LinkStep == Link /\ [Next]_vars => Link'
  BY TypeStep, CardsAfterStep, MealsAfterStep, RefsAfterStep, OneLiveMealPerCardStep,
     MealsComeFromAnsweredCardsStep, CardsNameTheirMealsStep
  DEF Link

LEMMA LinkCorrect == Spec => []Link
  BY LinkInit, LinkStep, PTL DEF Spec

(* However a room's cards are committed and edited and its meals voided,   *)
(* no card ever counts twice in the ledger.                                *)
THEOREM OneMealPerCard == Spec => []OneLiveMealPerCard
<1>1. Link => OneLiveMealPerCard
  BY DEF Link
<1> QED
  BY <1>1, LinkCorrect, PTL
-----------------------------------------------------------------------------
(***************************************************************************)
(* What the steps of module Cards do to the payments: the ledger is        *)
(* append-only, a payment's stamp follows its card, and, in a room that    *)
(* has no games, stamped money always has its debt on the meal it names.   *)
(***************************************************************************)

(* The ways a step may rewrite a recorded payment. *)
LEMMA RewrittenPayment ==
  ASSUME NEW p \in PaymentRows, NEW x
  PROVE  /\ SameRow(p, [p EXCEPT !.meal = p.meal])
         /\ SameRow(p, [[p EXCEPT !.meal = x] EXCEPT !.meal = p.meal])
         /\ SameRow(p, [[p EXCEPT !.voided = TRUE] EXCEPT !.meal = p.meal])
         /\ [p EXCEPT !.meal = x].meal = x
         /\ [p EXCEPT !.meal = x].voided = p.voided
         /\ [p EXCEPT !.meal = x].frm = p.frm
         /\ [p EXCEPT !.meal = x].to = p.to
         /\ [p EXCEPT !.voided = TRUE].meal = p.meal
         /\ [p EXCEPT !.voided = TRUE].voided
  BY DEF SameRow, PaymentRows

PaymentAfter(p, q) ==
  /\ SameRow(p, [q EXCEPT !.meal = p.meal])
  /\ q.meal # p.meal =>
       /\ p.meal # NoRef /\ ~meals[p.meal].voided /\ meals'[p.meal].voided
       /\ q.meal # NoRef => origin'[q.meal] = origin[p.meal]

PaymentsAfter ==
  \A i \in DOMAIN payments : i \in DOMAIN payments' /\ PaymentAfter(payments[i], payments'[i])

LEMMA SamePayment == ASSUME NEW p \in PaymentRows  PROVE PaymentAfter(p, p)
  BY RewrittenPayment DEF PaymentAfter

(* The payments a commit adds come after the recorded ones and name        *)
(* nothing.                                                                *)
LEMMA CommittedPayments ==
  ASSUME TypeOK, NEW c \in DOMAIN cards, CommitPayment(c)
  PROVE  /\ DOMAIN payments \subseteq DOMAIN payments'
         /\ \A i \in DOMAIN payments : payments'[i] = payments[i]
         /\ \A i \in DOMAIN payments' \ DOMAIN payments : payments'[i].meal = NoRef
<1> DEFINE transfers == cards[c].body.transfers
           made == [i \in DOMAIN transfers |-> PaymentOf(transfers[i])]
           S == {PaymentOf(transfers[i]) : i \in DOMAIN transfers} \cup PaymentRows
<1>1. transfers \in Seq(Transfers)
  BY CardFacts DEF CommitPayment, PaymentBodies
<1>2. Len(transfers) \in Nat /\ DOMAIN transfers = 1 .. Len(transfers)
  BY <1>1, LenProperties
<1>3. \A i \in DOMAIN transfers : made[i] \in S /\ made[i].meal = NoRef
  BY DEF PaymentOf
<1>4. made \in [1 .. Len(transfers) -> S]
  BY <1>2, <1>3
<1>5. payments' = payments \o made
  BY DEF CommitPayment
<1> HIDE DEF S, made, transfers
<1>6. made \in Seq(S) /\ Len(made) = Len(transfers) /\ DOMAIN made = DOMAIN transfers
  BY <1>2, <1>4, MapIsSeq
<1>7. payments \in Seq(S) /\ DOMAIN payments = 1 .. Len(payments) /\ Len(payments) \in Nat
  <2>1. PaymentRows \subseteq S
    BY DEF S
  <2>2. payments \in Seq(PaymentRows)
    BY DEF TypeOK
  <2>3. \A i \in 1 .. Len(payments) : payments[i] \in S
    BY <2>1, <2>2, ElementOfSeq
  <2>4. Len(payments) \in Nat /\ payments \in [1 .. Len(payments) -> S]
    BY <2>2, <2>3, LenProperties
  <2> QED  BY <2>4, MapIsSeq
<1>8. LET all == payments \o made IN
      /\ DOMAIN all = 1 .. Len(payments) + Len(made)
      /\ \A i \in 1 .. Len(payments) + Len(made) :
           all[i] = IF i <= Len(payments) THEN payments[i] ELSE made[i - Len(payments)]
  BY <1>6, <1>7, ConcatProperties, LenProperties
<1>9. ASSUME NEW i \in DOMAIN payments', i \notin DOMAIN payments
      PROVE  i - Len(payments) \in DOMAIN transfers
  BY <1>2, <1>5, <1>6, <1>7, <1>8, <1>9
<1> QED
  BY <1>2, <1>3, <1>5, <1>6, <1>7, <1>8, <1>9

LEMMA PaymentsAfterStep == Link /\ [Next]_vars => PaymentsAfter
<1> SUFFICES ASSUME Link, [Next]_vars  PROVE PaymentsAfter
  OBVIOUS
<1>0. TypeOK
  BY DEF Link
<1>1. CASE UNCHANGED payments
  BY <1>0, <1>1, PaymentFacts, SamePayment DEF PaymentsAfter
<1>2. ASSUME NEW c \in DOMAIN cards, CommitPayment(c)  PROVE PaymentsAfter
  BY <1>0, <1>2, CommittedPayments, PaymentFacts, SamePayment DEF PaymentsAfter
<1>3. ASSUME NEW c \in DOMAIN cards, Recommit(c)  PROVE PaymentsAfter
  <2> DEFINE old == cards[c].ref
             new == Len(meals) + 1
  <2>1. /\ old \in DOMAIN meals /\ old # NoRef /\ ~meals[old].voided
        /\ meals'[old].voided /\ origin'[new] = c
    BY <1>0, <1>3, RecommittedMeal DEF Recommit
  <2>2. origin[old] = c
    BY <2>1 DEF Link, CardsNameTheirMeals
  <2>3. PICK row : payments' = FollowEdit(old, new, row)
    BY <1>0, <1>3, RecommittedMeal
  <2> HIDE DEF old, new
  <2>4. ASSUME NEW i \in DOMAIN payments
        PROVE  i \in DOMAIN payments' /\ PaymentAfter(payments[i], payments'[i])
    <3> DEFINE p == payments[i]
    <3>1. p \in PaymentRows
      BY <1>0, PaymentFacts
    <3>2. /\ i \in DOMAIN payments'
          /\ \/ payments'[i] = p
             \/ p.meal = old /\ payments'[i] = [p EXCEPT !.meal = new]
             \/ payments'[i] = [p EXCEPT !.voided = TRUE]
      BY <2>3 DEF FollowEdit
    <3> HIDE DEF p
    <3>3. PaymentAfter(p, p)
      BY <3>1, SamePayment
    <3>4. p.meal = old => PaymentAfter(p, [p EXCEPT !.meal = new])
      BY ZenonT(40), <2>1, <2>2, <3>1, RewrittenPayment DEF PaymentAfter
    <3>5. PaymentAfter(p, [p EXCEPT !.voided = TRUE])
      BY <3>1, RewrittenPayment DEF PaymentAfter
    <3> QED  BY <3>2, <3>3, <3>4, <3>5 DEF p
  <2> QED  BY <2>4 DEF PaymentsAfter
<1>4. ASSUME NEW m \in DOMAIN meals, VoidMeal(m)  PROVE PaymentsAfter
  <2>1. ~meals[m].voided /\ meals'[m].voided /\ m # NoRef
    BY <1>0, <1>4, MealFacts, VoidedMeal DEF VoidMeal
  <2>2. ASSUME NEW i \in DOMAIN payments
        PROVE  i \in DOMAIN payments' /\ PaymentAfter(payments[i], payments'[i])
    <3> DEFINE p == payments[i]
    <3>1. p \in PaymentRows
      BY <1>0, PaymentFacts
    <3>2. /\ i \in DOMAIN payments'
          /\ \/ payments'[i] = p
             \/ p.meal = m /\ payments'[i] = [p EXCEPT !.meal = NoRef]
      BY <1>4 DEF VoidMeal
    <3> HIDE DEF p
    <3>3. PaymentAfter(p, p)
      BY <3>1, SamePayment
    <3>4. p.meal = m => PaymentAfter(p, [p EXCEPT !.meal = NoRef])
      BY ZenonT(40), <2>1, <3>1, RewrittenPayment DEF PaymentAfter
    <3> QED  BY <3>2, <3>3, <3>4 DEF p
  <2> QED  BY <2>2 DEF PaymentsAfter
<1>5. ASSUME NEW row, payments' = Append(payments, row)  PROVE PaymentsAfter
  <2>1. \A i \in DOMAIN payments : i \in DOMAIN payments' /\ payments'[i] = payments[i]
    <3>1. payments \in Seq(PaymentRows \cup {row}) /\ row \in PaymentRows \cup {row}
      <4>1. Len(payments) \in Nat /\ payments \in [1 .. Len(payments) -> PaymentRows \cup {row}]
        BY <1>0, LenProperties, PaymentFacts DEF TypeOK
      <4> QED  BY <4>1, MapIsSeq
    <3>2. LET all == Append(payments, row) IN
          \A i \in DOMAIN payments : i \in DOMAIN all /\ all[i] = payments[i]
      BY <3>1, AppendRow
    <3> QED  BY <1>5, <3>2
  <2> QED  BY <1>0, <2>1, PaymentFacts, SamePayment DEF PaymentsAfter
<1>6. ASSUME NEW j \in DOMAIN payments, VoidPayment(j)  PROVE PaymentsAfter
  <2>1. /\ DOMAIN payments' = DOMAIN payments
        /\ payments'[j] = [payments[j] EXCEPT !.voided = TRUE]
        /\ \A i \in DOMAIN payments : i # j => payments'[i] = payments[i]
    BY <1>6 DEF VoidPayment
  <2>2. PaymentAfter(payments[j], payments'[j])
    BY <1>0, <2>1, PaymentFacts, RewrittenPayment DEF PaymentAfter
  <2> QED  BY <1>0, <2>1, <2>2, PaymentFacts, SamePayment DEF PaymentsAfter
<1> QED
  BY ZenonT(40), <1>1, <1>2, <1>3, <1>4, <1>5, <1>6
  DEF Next, vars, ledger, ProposeMeal, ProposePayment, ProposeGame, CreateCard, EditDraft,
      CancelDraft, Commit, CommitExpense, CommitGame, VoidGame, QuickPay, NextDay

(* Every payment that moves to another meal moves with the edit of the     *)
(* card both meals were recorded from.                                     *)
THEOREM StampsMoveWithTheirCard == Spec => StampsFollowTheCard
<1>1. Link /\ [Next]_vars =>
        [\A i \in DOMAIN payments :
           LET old == payments[i].meal
               new == payments'[i].meal
           IN  old # new =>
                 /\ old # NoRef /\ ~meals[old].voided /\ meals'[old].voided
                 /\ new # NoRef => origin'[new] = origin[old]]_vars
  BY PaymentsAfterStep DEF PaymentsAfter, PaymentAfter
<1> QED
  BY <1>1, LinkCorrect, PTL DEF Spec, StampsFollowTheCard

LEMMA GamesAfterStep ==
  TypeOK /\ [Next]_vars =>
    \A g \in DOMAIN games : g \in DOMAIN games' /\ SameRow(games[g], games'[g])
<1> SUFFICES ASSUME TypeOK, [Next]_vars, NEW g \in DOMAIN games
             PROVE  g \in DOMAIN games' /\ SameRow(games[g], games'[g])
  OBVIOUS
<1>1. games[g] \in GameRows
  BY LenProperties, ElementOfSeq DEF TypeOK
<1>2. /\ SameRow(games[g], games[g])
      /\ SameRow(games[g], [games[g] EXCEPT !.voided = TRUE])
  BY <1>1 DEF SameRow, GameRows
<1>3. CASE UNCHANGED games
  BY <1>2, <1>3
<1>4. ASSUME NEW c \in DOMAIN cards, CommitGame(c)
      PROVE  g \in DOMAIN games' /\ games'[g] = games[g]
  <2>1. PICK row : games' = Append(games, row)
    BY <1>4 DEF CommitGame
  <2>2. games \in Seq(GameRows \cup {row}) /\ row \in GameRows \cup {row}
    <3>1. Len(games) \in Nat /\ games \in [1 .. Len(games) -> GameRows \cup {row}]
      BY LenProperties, ElementOfSeq DEF TypeOK
    <3> QED  BY <3>1, MapIsSeq
  <2>3. LET all == Append(games, row) IN g \in DOMAIN all /\ all[g] = games[g]
    BY <2>2, AppendRow
  <2> QED  BY <2>1, <2>3
<1>5. ASSUME NEW h \in DOMAIN games, VoidGame(h)
      PROVE  g \in DOMAIN games' /\ SameRow(games[g], games'[g])
  BY <1>2, <1>5 DEF VoidGame
<1> QED
  BY ZenonT(40), <1>2, <1>3, <1>4, <1>5
  DEF Next, vars, ledger, ProposeMeal, ProposePayment, ProposeGame, CreateCard, EditDraft,
      CancelDraft, Commit, CommitExpense, CommitPayment, Recommit, VoidMeal, QuickPay,
      VoidPayment, NextDay

(* What was recorded stays as it was recorded; a row is only ever voided.  *)
THEOREM RecordsAreKept == Spec => LedgerIsAppendOnly
<1>1. Link /\ [Next]_vars =>
        [/\ \A m \in DOMAIN meals : m \in DOMAIN meals' /\ SameRow(meals[m], meals'[m])
         /\ \A g \in DOMAIN games : g \in DOMAIN games' /\ SameRow(games[g], games'[g])
         /\ \A i \in DOMAIN payments :
              /\ i \in DOMAIN payments'
              /\ SameRow(payments[i], [payments'[i] EXCEPT !.meal = payments[i].meal])]_vars
  BY MealsAfterStep, GamesAfterStep, PaymentsAfterStep
  DEF Link, MealsAfter, PaymentsAfter, PaymentAfter
<1> QED
  BY <1>1, LinkCorrect, PTL DEF Spec, LedgerIsAppendOnly

----------------------------------------------------------------------------
(* Stamped money, in a room that has recorded no game. *)

NoGames == games = <<>>

LEMMA NoGamesBefore ==
  TypeOK /\ [Next]_vars /\ games' = <<>> => NoGames
<1> SUFFICES ASSUME TypeOK, [Next]_vars, games' = <<>>  PROVE games = <<>>
  BY DEF NoGames
<1>1. DOMAIN games' = {}
  OBVIOUS
<1>2. DOMAIN games = {}
  BY <1>1, GamesAfterStep
<1>3. games \in Seq(GameRows)
  BY DEF TypeOK
<1> HIDE DEF GameRows
<1> QED
  BY <1>2, <1>3

(* With no games, a quick-pay finds a debt only on a live meal it names.   *)
LEMMA QuickPayFindsADebt ==
  ASSUME TypeOK, NoGames, NEW debtor, NEW creditor, NEW ref, QuickPay(debtor, creditor, ref)
  PROVE  /\ ref \in DOMAIN meals /\ ~meals[ref].voided
         /\ meals[ref].payer = creditor /\ debtor # creditor
         /\ meals[ref].shares[debtor] # 0
<1> DEFINE Hits(kind) == {e \in Window : /\ e.debtor = debtor /\ e.creditor = creditor
                                         /\ e.kind = kind /\ e.ref = ref}
<1>1. \A e \in Edges : \E m \in Live(meals) :
        e \in EdgesOf("meal", m, meals[m].payer, meals[m].shares, meals[m].day)
  BY DEF Edges, Live, NoGames
<1>2. ASSUME NEW e \in Edges
      PROVE  /\ e.kind = "meal" /\ e.ref \in Live(meals)
             /\ e.creditor = meals[e.ref].payer /\ e.debtor # e.creditor
             /\ meals[e.ref].shares[e.debtor] # 0
  BY <1>1 DEF EdgesOf
<1>3. Hits("game") = {}
  BY <1>2 DEF Window
<1>4. OpenOn("game", debtor, creditor, ref) = 0
  BY <1>3 DEF OpenOn
<1>5. Hits("meal") = {} => OpenOn("meal", debtor, creditor, ref) = 0
  BY DEF OpenOn
<1>6. Hits("meal") # {}
  BY <1>4, <1>5 DEF QuickPay
<1> QED
  BY <1>2, <1>6 DEF Window, Live

(* The stamp of a payment the step neither voids nor moves.                *)
Sound(p) ==
  ~p.voided /\ p.meal # NoRef =>
    p.meal \in DOMAIN meals /\ ~meals[p.meal].voided /\ StillOwed(p, meals[p.meal])

SoundAfter(p) ==
  ~p.voided /\ p.meal # NoRef =>
    p.meal \in DOMAIN meals' /\ ~meals'[p.meal].voided /\ StillOwed(p, meals'[p.meal])

(* A payment the step leaves alone keeps its debt if its meal is kept.     *)
LEMMA SoundKept ==
  ASSUME NEW p, Sound(p),
         ~p.voided /\ p.meal # NoRef => p.meal \in DOMAIN meals' /\ meals'[p.meal] = meals[p.meal]
  PROVE  SoundAfter(p)
  BY DEF Sound, SoundAfter

LEMMA VoidedIsSound ==
  ASSUME NEW p \in PaymentRows  PROVE SoundAfter([p EXCEPT !.voided = TRUE])
  BY RewrittenPayment DEF SoundAfter

LEMMA MovedIsSound ==
  ASSUME NEW p \in PaymentRows, NEW m \in DOMAIN meals', ~meals'[m].voided,
         StillOwed(p, meals'[m])
  PROVE  SoundAfter([p EXCEPT !.meal = m])
<1> DEFINE q == [p EXCEPT !.meal = m]
<1>1. q.meal = m /\ q.frm = p.frm /\ q.to = p.to
  BY ZenonT(40), RewrittenPayment
<1> HIDE DEF q
<1>2. SoundAfter(q)
  BY <1>1 DEF SoundAfter, StillOwed
<1> QED
  BY <1>2 DEF q

LEMMA UnstampedIsSound ==
  ASSUME NEW p \in PaymentRows  PROVE SoundAfter([p EXCEPT !.meal = NoRef])
  BY ZenonT(40), RewrittenPayment DEF SoundAfter

LEMMA StampedMoneyStep ==
  ASSUME Link, StampedMoneyHasItsDebt, [Next]_vars
  PROVE  StampedMoneyHasItsDebt'
<1> SUFFICES ASSUME games' = <<>>, NEW i \in DOMAIN payments'  PROVE SoundAfter(payments'[i])
  BY DEF StampedMoneyHasItsDebt, SoundAfter, StillOwed
<1>a. NoGames
  BY NoGamesBefore DEF Link
<1>0. TypeOK /\ \A j \in DOMAIN payments : payments[j] \in PaymentRows /\ Sound(payments[j])
  BY <1>a, PaymentFacts DEF Link, StampedMoneyHasItsDebt, Sound, StillOwed, NoGames
(* Rows that keep their stamp keep their debt when the meals do. *)
<1>1. CASE UNCHANGED <<meals, payments>>
  BY <1>0, <1>1 DEF Sound, SoundAfter
<1>2. ASSUME NEW c \in DOMAIN cards, CommitExpense(c)  PROVE SoundAfter(payments'[i])
  <2>1. /\ DOMAIN meals \subseteq DOMAIN meals'
        /\ \A m \in DOMAIN meals : meals'[m] = meals[m]
        /\ payments' = payments
    BY <1>0, <1>2, CommittedMeal DEF CommitExpense
  <2> QED  BY <1>0, <2>1 DEF Sound, SoundAfter
<1>3. ASSUME NEW c \in DOMAIN cards, CommitPayment(c)  PROVE SoundAfter(payments'[i])
  <2>1. meals' = meals
    BY <1>3 DEF CommitPayment
  <2> QED  BY <1>0, <1>3, <2>1, CommittedPayments DEF Sound, SoundAfter
<1>4. ASSUME NEW c \in DOMAIN cards, Recommit(c)  PROVE SoundAfter(payments'[i])
  <2> DEFINE old == cards[c].ref
             new == Len(meals) + 1
             p   == payments[i]
  <2>1. PICK row : /\ meals'[new] = row /\ ~row.voided
                   /\ payments' = FollowEdit(old, new, row)
    BY <1>0, <1>4, RecommittedMeal
  <2>2. /\ new \in DOMAIN meals' /\ DOMAIN meals \subseteq DOMAIN meals'
        /\ \A m \in DOMAIN meals : m # old => meals'[m] = meals[m]
    BY <1>0, <1>4, RecommittedMeal
  <2> HIDE DEF old, new
  <2>3. i \in DOMAIN payments /\ p \in PaymentRows /\ Sound(p)
    BY <1>0, <2>1 DEF FollowEdit
  <2>4. \/ payments'[i] = p /\ (p.meal # old \/ p.voided)
        \/ payments'[i] = [p EXCEPT !.meal = new] /\ StillOwed(p, row)
        \/ payments'[i] = [p EXCEPT !.voided = TRUE]
    BY <2>1, <2>3 DEF FollowEdit
  <2> HIDE DEF p
  <2>5. CASE payments'[i] = p /\ (p.meal # old \/ p.voided)
    BY <2>2, <2>3, <2>5 DEF Sound, SoundAfter
  <2>6. CASE payments'[i] = [p EXCEPT !.meal = new] /\ StillOwed(p, row)
    BY <2>1, <2>2, <2>3, <2>6, MovedIsSound
  <2>7. CASE payments'[i] = [p EXCEPT !.voided = TRUE]
    BY <2>3, <2>7, VoidedIsSound
  <2> QED  BY <2>4, <2>5, <2>6, <2>7
<1>5. ASSUME NEW m \in DOMAIN meals, VoidMeal(m)  PROVE SoundAfter(payments'[i])
  <2> DEFINE p == payments[i]
  <2>1. i \in DOMAIN payments /\ p \in PaymentRows /\ Sound(p)
    BY <1>0, <1>5 DEF VoidMeal
  <2>2. /\ DOMAIN meals' = DOMAIN meals
        /\ \A k \in DOMAIN meals : k # m => meals'[k] = meals[k]
    BY <1>5 DEF VoidMeal
  <2>3. \/ payments'[i] = p /\ p.meal # m
        \/ payments'[i] = [p EXCEPT !.meal = NoRef]
    BY <1>5, <2>1 DEF VoidMeal
  <2> HIDE DEF p
  <2>4. CASE payments'[i] = p /\ p.meal # m
    <3>1. ~p.voided /\ p.meal # NoRef => p.meal \in DOMAIN meals' /\ meals'[p.meal] = meals[p.meal]
      BY <2>1, <2>2, <2>4 DEF Sound
    <3>2. SoundAfter(p)
      BY <2>1, <3>1, SoundKept
    <3> QED  BY <2>4, <3>2
  <2>5. CASE payments'[i] = [p EXCEPT !.meal = NoRef]
    BY <2>1, <2>5, UnstampedIsSound
  <2> QED  BY <2>3, <2>4, <2>5
<1>6. ASSUME NEW debtor \in Members, NEW creditor \in Members,
             NEW ref \in DOMAIN meals \cup DOMAIN games, QuickPay(debtor, creditor, ref)
      PROVE  SoundAfter(payments'[i])
  <2>1. PICK row : /\ payments' = Append(payments, row)
                   /\ row.frm = debtor /\ row.to = creditor /\ row.meal = ref
    BY <1>6 DEF QuickPay
  <2>2. meals' = meals
    BY <1>6 DEF QuickPay
  <2>3. SoundAfter(row)
    BY <1>0, <1>a, <1>6, <2>1, <2>2, QuickPayFindsADebt DEF SoundAfter, StillOwed
  <2>4. payments \in Seq(PaymentRows \cup {row}) /\ row \in PaymentRows \cup {row}
    <3>1. Len(payments) \in Nat /\ payments \in [1 .. Len(payments) -> PaymentRows \cup {row}]
      BY <1>0, LenProperties DEF TypeOK
    <3> QED  BY <3>1, MapIsSeq
  <2>5. LET all == Append(payments, row) IN
        /\ DOMAIN all = DOMAIN payments \cup {Len(payments) + 1}
        /\ \A j \in DOMAIN payments : all[j] = payments[j]
        /\ all[Len(payments) + 1] = row
    BY <2>4, AppendRow
  <2>6. (i \in DOMAIN payments /\ payments'[i] = payments[i]) \/ payments'[i] = row
    BY <2>1, <2>5
  <2> QED  BY <1>0, <2>2, <2>3, <2>6 DEF Sound, SoundAfter
<1>7. ASSUME NEW j \in DOMAIN payments, VoidPayment(j)  PROVE SoundAfter(payments'[i])
  <2>1. /\ i \in DOMAIN payments /\ meals' = meals
        /\ payments'[i] = payments[i] \/ payments'[i] = [payments[i] EXCEPT !.voided = TRUE]
    BY <1>7 DEF VoidPayment
  <2>2. payments[i] \in PaymentRows /\ SoundAfter(payments[i])
    BY <1>0, <2>1, SoundKept DEF Sound
  <2> QED  BY <2>1, <2>2, VoidedIsSound
<1> QED
  BY <1>1, <1>2, <1>3, <1>4, <1>5, <1>6, <1>7
  DEF Next, vars, ledger, ProposeMeal, ProposePayment, ProposeGame, CreateCard, EditDraft,
      CancelDraft, Commit, CommitGame, VoidGame, NextDay

(* As long as a room has recorded no game, every payment stamped with a    *)
(* meal stays on a live meal its sender owes its receiver for, whatever is *)
(* edited or voided.  With games it fails: see                             *)
(* MealAndGameNeverShareAPayment.                                          *)
THEOREM StampsAreSound == Spec => []StampedMoneyHasItsDebt
<1> DEFINE Inv == Link /\ StampedMoneyHasItsDebt
<1>1. Init => Inv
  <2>1. DOMAIN <<>> = {}
    OBVIOUS
  <2> QED  BY <2>1, LinkInit DEF Init, StampedMoneyHasItsDebt
<1>2. Inv /\ [Next]_vars => Inv'
  BY LinkStep, StampedMoneyStep DEF Link
<1> QED
  BY <1>1, <1>2, PTL DEF Spec
----------------------------------------------------------------------------
(* What a quick-pay does to the open debts. *)

(* The rows of the room are a ledger as the attribution wants them.        *)
LEMMA RoomIsALedger == TypeOK => ALedger(Edges, LivePayments)
<1> SUFFICES ASSUME TypeOK  PROVE ALedger(Edges, LivePayments)
  OBVIOUS
<1>1. /\ \A m \in DOMAIN meals : meals[m] \in MealRows
      /\ \A g \in DOMAIN games : games[g] \in GameRows
      /\ \A i \in DOMAIN payments : payments[i] \in PaymentRows
      /\ DOMAIN meals = 1 .. Len(meals) /\ Len(meals) \in Nat
      /\ DOMAIN games = 1 .. Len(games) /\ Len(games) \in Nat
      /\ DOMAIN payments = 1 .. Len(payments) /\ Len(payments) \in Nat
  BY LenProperties, ElementOfSeq DEF TypeOK
<1>2. /\ IsFiniteSet(Live(meals)) /\ Live(meals) \subseteq DOMAIN meals
      /\ IsFiniteSet(Live(games)) /\ Live(games) \subseteq DOMAIN games
      /\ IsFiniteSet(Live(payments)) /\ Live(payments) \subseteq DOMAIN payments
  <2>1. IsFiniteSet(DOMAIN meals) /\ IsFiniteSet(DOMAIN games) /\ IsFiniteSet(DOMAIN payments)
    BY <1>1, FS_Interval
  <2>2. \A rows : Live(rows) \subseteq DOMAIN rows
    BY DEF Live
  <2> QED  BY <2>1, <2>2, FS_Subset
<1> DEFINE of(m) == EdgesOf("meal", m, meals[m].payer, meals[m].shares, meals[m].day)
           play(g) == [debtor |-> games[g].loser, creditor |-> games[g].winner, kind |-> "game",
                       ref |-> g, day |-> games[g].day, amount |-> games[g].amount]
           eaten == UNION {of(m) : m \in Live(meals)}
           played == {play(g) : g \in Live(games)}
<1>3. ASSUME NEW m \in Live(meals)
      PROVE  /\ IsFiniteSet(of(m))
             /\ \A e \in of(m) : AnEdge(e) /\ e.kind = "meal" /\ e.ref = m
             /\ \A e, f \in of(m) : e.debtor = f.debtor => e = f
  <2>1. meals[m] \in MealRows /\ m \in Nat \ {NoRef}
    BY <1>1, <1>2 DEF NoRef
  <2> DEFINE shares == meals[m].shares
             day == meals[m].day
             payer == meals[m].payer
  <2>2. /\ DOMAIN shares = Members /\ day \in Int
        /\ IsFiniteSet(DOMAIN shares) /\ \A k \in DOMAIN shares : shares[k] \in Nat
    BY <2>1, RosterAssumption DEF MealRows
  <2> HIDE DEF shares, day, payer
  <2>3. /\ IsFiniteSet(EdgesOf("meal", m, payer, shares, day))
        /\ \A e \in EdgesOf("meal", m, payer, shares, day) : AnEdge(e) /\ e.kind = "meal" /\ e.ref = m
        /\ \A e, f \in EdgesOf("meal", m, payer, shares, day) : e.debtor = f.debtor => e = f
    BY <2>1, <2>2, EdgesAre
  <2> QED  BY <2>3 DEF shares, day, payer
<1>4. ASSUME NEW g \in Live(games)
      PROVE  AnEdge(play(g)) /\ play(g).kind = "game" /\ play(g).ref = g
  <2>1. games[g] \in GameRows /\ g \in Nat \ {NoRef}
    BY <1>1, <1>2 DEF NoRef
  <2> QED  BY <2>1 DEF AnEdge, GameRows
<1>5. Edges = eaten \cup played
  BY DEF Edges
<1>6. IsFiniteSet(eaten)
  <2> DEFINE all == {of(m) : m \in Live(meals)}
             map == [m \in Live(meals) |-> of(m)]
  <2>1. all = {map[m] : m \in Live(meals)}
    OBVIOUS
  <2>2. IsFiniteSet(all)
    <3> HIDE DEF all, map
    <3> QED  BY <1>2, <2>1, ImageIsFinite
  <2>3. \A T \in all : IsFiniteSet(T)
    BY <1>3
  <2> HIDE DEF all
  <2>4. IsFiniteSet(UNION all)
    BY <2>2, <2>3, FS_UNION
  <2> QED  BY <2>4 DEF all
<1>7. IsFiniteSet(played)
  <2> DEFINE map == [g \in Live(games) |-> play(g)]
  <2>1. played = {map[g] : g \in Live(games)}
    OBVIOUS
  <2> HIDE DEF played, map
  <2> QED  BY <1>2, <2>1, ImageIsFinite
<1>8. \A e \in eaten : \E m \in Live(meals) : e \in of(m)
  OBVIOUS
<1>9. \A e \in played : \E g \in Live(games) : e = play(g)
  OBVIOUS
<1> HIDE DEF eaten, played, of, play
<1>10. IsFiniteSet(Edges) /\ \A e \in Edges : AnEdge(e)
  <2>1. IsFiniteSet(eaten \cup played)
    BY <1>6, <1>7, FS_Union
  <2>2. (\A e \in eaten : AnEdge(e)) /\ (\A e \in played : AnEdge(e))
    BY <1>3, <1>4, <1>8, <1>9
  <2> QED  BY <1>5, <2>1, <2>2
<1>11. Distinct(Edges)
  <2> SUFFICES ASSUME NEW e \in Edges, NEW f \in Edges, e.debtor = f.debtor, e.kind = f.kind, e.ref = f.ref
               PROVE  e = f
    BY DEF Distinct
  <2>1. CASE e \in eaten /\ f \in eaten
    BY <1>3, <1>8, <2>1
  <2>2. CASE e \in played /\ f \in played
    BY <1>4, <1>9, <2>2
  <2>3. CASE (e \in eaten /\ f \in played) \/ (e \in played /\ f \in eaten)
    <3>1. \A d \in eaten : d.kind = "meal"
      BY <1>3, <1>8
    <3>2. \A d \in played : d.kind = "game"
      BY <1>4, <1>9
    <3> QED  BY <2>3, <3>1, <3>2
  <2> QED  BY <1>5, <2>1, <2>2, <2>3
<1>12. Payments(LivePayments)
  <2>1. DOMAIN LivePayments = Live(payments)
    BY DEF LivePayments
  <2>2. \A i \in DOMAIN LivePayments : LivePayments[i].amount \in Nat
    <3> TAKE i \in DOMAIN LivePayments
    <3>1. payments[i] \in PaymentRows
      BY <1>1, <1>2, <2>1
    <3>2. LivePayments[i].amount = payments[i].amount
      BY <2>1 DEF LivePayments
    <3> QED  BY <3>1, <3>2 DEF PaymentRows
  <2> QED  BY <1>2, <2>1, <2>2 DEF Payments
<1> QED  BY <1>10, <1>11, <1>12 DEF ALedger

(* Of the pair and the meal there is one edge, and its open amount is what *)
(* a quick-pay pays.                                                       *)
LEMMA QuickPayPaysAnEdge ==
  ASSUME TypeOK, NoGames, NEW debtor, NEW creditor, NEW ref, QuickPay(debtor, creditor, ref)
  PROVE  \E t \in Edges :
           /\ t.debtor = debtor /\ t.creditor = creditor /\ t.kind = "meal" /\ t.ref = ref
           /\ Open[t] \in Nat \ {0}
           /\ payments' = Append(payments, [frm |-> debtor, to |-> creditor, amount |-> Open[t],
                                            meal |-> ref, voided |-> FALSE])
<1> DEFINE Hits(kind) == {e \in Window : /\ e.debtor = debtor /\ e.creditor = creditor
                                         /\ e.kind = kind /\ e.ref = ref}
           owed == OpenOn("meal", debtor, creditor, ref) + OpenOn("game", debtor, creditor, ref)
<1>1. \A e \in Edges : e.kind = "meal"
  BY DEF Edges, EdgesOf, Live, NoGames
<1>2. Hits("game") = {}
  BY <1>1 DEF Window
<1>3. OpenOn("game", debtor, creditor, ref) = 0
  BY <1>2 DEF OpenOn
<1>4. Hits("meal") = {} => OpenOn("meal", debtor, creditor, ref) = 0
  BY DEF OpenOn
<1>5. owed \in Nat \ {0} /\ payments' = Append(payments, [frm |-> debtor, to |-> creditor, amount |-> owed,
                                                           meal |-> ref, voided |-> FALSE])
  BY DEF QuickPay
<1>6. Hits("meal") # {}
  BY <1>3, <1>4, <1>5
<1> DEFINE t == CHOOSE e \in Hits("meal") : TRUE
<1>7. t \in Hits("meal")
  BY <1>6
<1>8. OpenOn("meal", debtor, creditor, ref) = Open[t]
  BY <1>6 DEF OpenOn
<1>9. /\ t \in Edges /\ t.debtor = debtor /\ t.creditor = creditor /\ t.kind = "meal" /\ t.ref = ref
  BY <1>7 DEF Window
<1> HIDE DEF t
<1>10. Open[t] \in Nat
  <2>1. Open[t] \in 0 .. t.amount /\ AnEdge(t)
    BY <1>9, RoomIsALedger, PaidIs DEF Open, ALedger
  <2> QED  BY <2>1 DEF AnEdge
<1>11. owed = Open[t]
  BY <1>3, <1>8, <1>10
<1> HIDE DEF owed
<1> QED  BY <1>5, <1>9, <1>11

(* With the payment counted, that edge is closed and the others are as they were. *)
LEMMA QuickPayCloses ==
  ASSUME TypeOK, TypeOK', NoGames, NEW debtor, NEW creditor, NEW ref, QuickPay(debtor, creditor, ref)
  PROVE  LET p == payments'[Len(payments')] IN
         \A e \in Edges :
           Open'[e] = IF e.debtor = p.frm /\ e.creditor = p.to /\ e.kind = "meal" /\ e.ref = p.meal
                      THEN 0 ELSE Open[e]
<1>1. PICK t \in Edges :
        /\ t.debtor = debtor /\ t.creditor = creditor /\ t.kind = "meal" /\ t.ref = ref
        /\ Open[t] \in Nat \ {0}
        /\ payments' = Append(payments, [frm |-> debtor, to |-> creditor, amount |-> Open[t],
                                         meal |-> ref, voided |-> FALSE])
  BY QuickPayPaysAnEdge
<1> DEFINE row == [frm |-> debtor, to |-> creditor, amount |-> Open[t], meal |-> ref, voided |-> FALSE]
           i == Len(payments) + 1
           pays == LivePayments
           more == LivePayments'
<1>2. /\ row.frm = debtor /\ row.to = creditor /\ row.amount = Open[t] /\ row.meal = ref /\ ~row.voided
      /\ payments' = Append(payments, row)
  BY <1>1
<1> HIDE DEF row
<1>3. /\ DOMAIN payments' = DOMAIN payments \cup {i} /\ i \notin DOMAIN payments
      /\ \A j \in DOMAIN payments : payments'[j] = payments[j]
      /\ payments'[i] = row /\ Len(payments') = i
  <2>1. payments \in Seq(PaymentRows \cup {row}) /\ row \in PaymentRows \cup {row}
    <3>1. Len(payments) \in Nat /\ payments \in [1 .. Len(payments) -> PaymentRows \cup {row}]
      BY LenProperties DEF TypeOK
    <3> QED  BY <3>1, MapIsSeq
  <2> QED  BY <1>2, <2>1, AppendRow
<1> HIDE DEF i
<1>4. Edges' = Edges
  BY DEF QuickPay, Edges, Live
<1>5. ALedger(Edges, pays) /\ ALedger(Edges, more)
  <2>1. ALedger(Edges, LivePayments)'
    BY RoomIsALedger, PTL
  <2>2. ALedger(Edges, LivePayments)
    BY RoomIsALedger
  <2> QED  BY <1>4, <2>1, <2>2
<1>6. /\ OneMore(pays, more, i) /\ more[i].frm = debtor /\ more[i].to = creditor
      /\ more[i].amount = Open[t] /\ more[i].kind = "meal" /\ more[i].ref = ref
  <2> DEFINE shown(p) == [frm |-> p.frm, to |-> p.to, amount |-> p.amount, kind |-> "meal", ref |-> p.meal]
  <2>1. pays = [j \in Live(payments) |-> shown(payments[j])]
    BY DEF LivePayments
  <2>2. more = [j \in Live(payments') |-> shown(payments'[j])]
    BY DEF LivePayments
  <2>3. Live(payments') = Live(payments) \cup {i} /\ i \notin Live(payments)
    BY <1>2, <1>3 DEF Live
  <2>4. \A j \in Live(payments) : payments'[j] = payments[j]
    BY <1>3 DEF Live
  <2>5. more[i] = shown(row)
    BY <1>3, <2>2, <2>3
  <2>6. OneMore(pays, more, i)
    <3> HIDE DEF pays, more, shown
    <3>1. \A j \in Live(payments) : more[j] = pays[j]
      BY <2>1, <2>2, <2>3, <2>4
    <3> QED  BY <2>1, <2>2, <2>3, <3>1 DEF OneMore
  <2> QED  BY <1>2, <2>5, <2>6
<1> HIDE DEF pays, more
<1>7. ref # NoRef
  BY <1>1, <1>5 DEF ALedger, AnEdge
<1>8. Names(more[i], t)
  BY <1>1, <1>6, <1>7 DEF Names, SamePair
<1>9. Open = Outstanding(Edges, pays) /\ Open' = Outstanding(Edges, more)
  BY <1>4 DEF Open, pays, more
<1>10. ASSUME NEW e \in Edges
       PROVE  Open'[e] = IF e = t THEN 0 ELSE Open[e]
  <2>1. more[i].amount = Outstanding(Edges, pays)[t] /\ Outstanding(Edges, pays)[t] > 0
    BY <1>1, <1>6, <1>9
  <2>2. Outstanding(Edges, more)[e] = IF e = t THEN 0 ELSE Outstanding(Edges, pays)[e]
    BY <1>5, <1>6, <1>8, <2>1, NamedPaymentCloses
  <2> QED  BY <1>9, <2>2
<1>11. \A e \in Edges : e = t <=> e.debtor = debtor /\ e.creditor = creditor /\ e.kind = "meal" /\ e.ref = ref
  BY <1>1, <1>5 DEF ALedger, Distinct
<1> QED
  BY <1>2, <1>3, <1>10, <1>11

(* Only a quick-pay adds a payment with a stamp. *)
LEMMA OnlyQuickPayStamps ==
  ASSUME TypeOK, TypeOK', [Next]_vars, Len(payments') > Len(payments),
         payments'[Len(payments')].meal # NoRef
  PROVE  \E debtor, creditor, ref : QuickPay(debtor, creditor, ref)
<1>1. /\ DOMAIN payments = 1 .. Len(payments) /\ Len(payments) \in Nat
      /\ DOMAIN payments' = 1 .. Len(payments') /\ Len(payments') \in Nat
  BY LenProperties DEF TypeOK
<1>2. Len(payments') \in DOMAIN payments' \ DOMAIN payments
  BY <1>1
<1>3. DOMAIN payments' # DOMAIN payments
  BY <1>2
<1>4. ASSUME NEW c \in DOMAIN cards, CommitPayment(c)  PROVE FALSE
  <2>1. \A i \in DOMAIN payments' \ DOMAIN payments : payments'[i].meal = NoRef
    BY <1>4, CommittedPayments
  <2> QED  BY <1>2, <2>1
<1>5. ASSUME NEW c \in DOMAIN cards, Recommit(c)  PROVE FALSE
  <2>1. DOMAIN payments' = DOMAIN payments
    BY <1>5 DEF Recommit, FollowEdit
  <2> QED  BY <1>3, <2>1
<1>6. ASSUME NEW m, VoidMeal(m)  PROVE FALSE
  <2>1. DOMAIN payments' = DOMAIN payments
    BY <1>6 DEF VoidMeal
  <2> QED  BY <1>3, <2>1
<1>7. ASSUME NEW j, VoidPayment(j)  PROVE FALSE
  <2>1. DOMAIN payments' = DOMAIN payments
    BY <1>7 DEF VoidPayment
  <2> QED  BY <1>3, <2>1
<1>8. payments' # payments
  BY <1>3
<1> QED
  BY <1>4, <1>5, <1>6, <1>7, <1>8
  DEF Next, vars, ledger, ProposeMeal, ProposePayment, ProposeGame, CreateCard, EditDraft,
      CancelDraft, Commit, CommitExpense, CommitGame, VoidGame, NextDay

(* In a room without games "mark paid" closes the debt it is tapped on and *)
(* no other, whatever payments and edits came before (the quick_pay route  *)
(* and apply_payments_fifo).                                               *)
THEOREM QuickPayIsExact == Spec => QuickPayClosesThatDebt
<1>1. TypeOK /\ TypeOK' /\ [Next]_vars =>
        [games = <<>> /\ Len(payments') > Len(payments) /\ payments'[Len(payments')].meal # NoRef =>
           LET before == Open
               after  == Open'
               p      == payments'[Len(payments')]
           IN  \A e \in Edges :
                 after[e] = IF e.debtor = p.frm /\ e.creditor = p.to /\ e.kind = "meal" /\ e.ref = p.meal
                            THEN 0 ELSE before[e]]_vars
  BY OnlyQuickPayStamps, QuickPayCloses DEF NoGames
<1> QED
  BY <1>1, TypeCorrect, PTL DEF Spec, QuickPayClosesThatDebt
=============================================================================
