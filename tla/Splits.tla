------------------------------- MODULE Splits -------------------------------
(***************************************************************************)
(* How a bill becomes one whole number of dong per member: the pure money  *)
(* functions of backend/ledger_core/money.py.  A dict from members to      *)
(* amounts is a function, a participant list is a sequence, and a          *)
(* MoneyError is a call whose "Allowed" predicate is false.                *)
(*                                                                         *)
(* Member ids are integers because ties are broken by id.                  *)
(***************************************************************************)
EXTENDS Integers, Sequences, FiniteSets, Functions, FiniteSetsExt, SequencesExt

(* Total, over members, of a function to amounts. *)
Total(f) == SumFunction(f)

(* The adjustment of member m; a member the list does not name has none. *)
AdjustmentOf(adj, m) == IF m \in DOMAIN adj THEN adj[m] ELSE 0

(* The share before anyone's own adjustment.  \div floors, as // does. *)
PerHead(total, people, adj) == (total - Total(adj)) \div Len(people)

(* Everything split_shares refuses with a MoneyError, negated. *)
SplitAllowed(total, people, adj) ==
  /\ total > 0
  /\ Len(people) >= 1
  /\ IsInjective(people)
  /\ DOMAIN adj \subseteq ToSet(people)
  /\ Total(adj) <= total
  /\ \A m \in ToSet(people) :
       PerHead(total, people, adj) + AdjustmentOf(adj, m) >= 0

(* What is left of the integer division goes to one person. *)
Keeper(people, payer) == IF payer \in ToSet(people) THEN payer ELSE people[1]

(* Mutant: the remainder of the division is dropped. *)
SplitSharesLosingRest(total, people, adj, payer) ==
  [m \in ToSet(people) |-> PerHead(total, people, adj) + AdjustmentOf(adj, m)]

SplitShares(total, people, adj, payer) ==
  LET base == PerHead(total, people, adj)
      raw  == [m \in ToSet(people) |-> base + AdjustmentOf(adj, m)]
  IN  [raw EXCEPT ![Keeper(people, payer)] = @ + total - Total(raw)]

(* Cash guests take part in the division under negative ids and are then   *)
(* left out: nobody records what they owe.                                 *)
GuestHeads(count) == [i \in 1 .. count |-> -i]

GuestSplitAllowed(total, members, guests, adj) ==
  /\ Len(members) >= 1
  /\ \A m \in ToSet(members) : m >= 0
  /\ SplitAllowed(total, members \o GuestHeads(guests), adj)

SplitWithGuests(total, members, guests, adj, payer) ==
  Restrict(SplitShares(total, members \o GuestHeads(guests), adj, payer),
           ToSet(members))

(* Mutant: the total is not looked at. *)
EqualSplitOfAnything(total, members) == members # <<>> /\ IsInjective(members)

(* The same split with no adjustments, as most cards carry it. *)
EqualSplitAllowed(total, members) ==
  total > 0 /\ members # <<>> /\ IsInjective(members)

EqualShares(total, members, guests, payer) ==
  LET heads   == Len(members) + guests
      perHead == total \div heads
  IN  [m \in ToSet(members) |->
         IF m = Keeper(members, payer) THEN perHead + (total % heads) ELSE perHead]

----------------------------------------------------------------------------
(* "ai an nay tra": everyone has a price, and the difference between the   *)
(* prices and the bill (a promotion, a delivery fee) is shared out.        *)

(* The dong that a division leaves over: one each to the first of ids in   *)
(* an order, until they are gone.                                          *)
OneEach(ids, before, leftover) ==
  [m \in ids |-> IF Cardinality({k \in ids : <<k, m>> \in before}) < leftover THEN 1 ELSE 0]

ById(ids) == {p \in ids \X ids : p[1] < p[2]}

ItemsAllowed(total, items) ==
  /\ total > 0
  /\ DOMAIN items # {}
  /\ \A m \in DOMAIN items : items[m] >= 0
  /\ Total(items) > 0

(* Every share scaled by total / sum of the prices, rounded down.          *)
Scaled(total, items)    == [m \in DOMAIN items |-> (items[m] * total) \div Total(items)]
Fractions(total, items) == [m \in DOMAIN items |-> (items[m] * total) % Total(items)]

ByFraction(total, items) ==
  LET fraction == Fractions(total, items) IN
  {p \in (DOMAIN items) \X (DOMAIN items) :
     fraction[p[1]] > fraction[p[2]] \/ (fraction[p[1]] = fraction[p[2]] /\ p[1] < p[2])}

(* Mutant: the lost dong go to the lowest ids, whatever they ordered. *)
ProportionalSharesByRank(total, items) ==
  LET floor == Scaled(total, items)
      extra == OneEach(DOMAIN items, ById(DOMAIN items), total - Total(floor))
  IN  [m \in DOMAIN items |-> floor[m] + extra[m]]

(* The dong that rounding loses go to the largest fractions, lowest id     *)
(* first.                                                                  *)
ProportionalShares(total, items) ==
  LET floor == Scaled(total, items)
      extra == OneEach(DOMAIN items, ByFraction(total, items), total - Total(floor))
  IN  [m \in DOMAIN items |-> floor[m] + extra[m]]

(* The same difference taken off everyone's price, one dong more for the   *)
(* lowest ids.  A fee is a negative difference.                            *)
EqualDeltaShares(total, items) ==
  LET n     == Cardinality(DOMAIN items)
      delta == Total(items) - total
      more  == OneEach(DOMAIN items, ById(DOMAIN items), delta % n)
  IN  [m \in DOMAIN items |-> items[m] - (delta \div n) - more[m]]

EqualDeltaAllowed(total, items) ==
  \A m \in DOMAIN items : EqualDeltaShares(total, items)[m] >= 0

(* Mutant: people below the base get no entry. *)
PositiveAdjustmentsOnly(total, shares) ==
  LET base == total \div Cardinality(DOMAIN shares)
  IN  [m \in {k \in DOMAIN shares : shares[k] > base} |-> shares[m] - base]

(* Shares fixed per person travel to the ledger as adjustments around the  *)
(* equal base; a member whose share is the base has no entry.              *)
ItemizedAdjustments(total, shares) ==
  LET base == total \div Cardinality(DOMAIN shares)
  IN  [m \in {k \in DOMAIN shares : shares[k] # base} |-> shares[m] - base]

(* "Emi 110k, the rest split evenly". *)
FixedAllowed(total, people, fixed) ==
  /\ total > 0
  /\ DOMAIN fixed # {}
  /\ DOMAIN fixed \subseteq ToSet(people)
  /\ \A m \in DOMAIN fixed : fixed[m] >= 0
  /\ ToSet(people) # DOMAIN fixed
  /\ Total(fixed) <= total

Others(people, fixed) == ToSet(people) \ DOMAIN fixed

(* The payer first, then as they are listed. *)
PlaceOf(people, m) == CHOOSE i \in DOMAIN people : people[i] = m
ByList(people, ids) == {p \in ids \X ids : PlaceOf(people, p[1]) < PlaceOf(people, p[2])}
PayerFirst(people, ids, payer) ==
  {p \in ids \X ids : p[2] # payer /\ (p[1] = payer \/ p \in ByList(people, ids))}

(* Mutant: the remainder goes in list order, payer or not. *)
FixedThenListOrder(total, people, fixed, payer) ==
  LET others == Others(people, fixed)
      n      == Cardinality(others)
      rest   == total - Total(fixed)
      extra  == OneEach(others, ByList(people, others), rest % n)
  IN  [m \in ToSet(people) |->
         IF m \in DOMAIN fixed THEN fixed[m] ELSE (rest \div n) + extra[m]]

(* The rest, evenly over the others, one dong each until the remainder is  *)
(* gone.                                                                   *)
FixedThenEven(total, people, fixed, payer) ==
  LET others == Others(people, fixed)
      n      == Cardinality(others)
      rest   == total - Total(fixed)
      extra  == OneEach(others, PayerFirst(people, others, payer), rest % n)
  IN  [m \in ToSet(people) |->
         IF m \in DOMAIN fixed THEN fixed[m] ELSE (rest \div n) + extra[m]]
=============================================================================
