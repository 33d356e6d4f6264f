-------------------------------- MODULE Bills --------------------------------
(***************************************************************************)
(* Every bill that propose_meal can be asked to divide, and what it puts   *)
(* on the card: one behaviour is one call, answered or refused.            *)
(***************************************************************************)
EXTENDS Splits

CONSTANTS
  Eaters,        \* ids of members
  BillTotals,
  Prices,        \* of items, and fixed amounts
  Differences,   \* adjustments of a plain split
  GuestCounts

ASSUME EatersAssumption == IsFiniteSet(Eaters) /\ Eaters \subseteq Nat
ASSUME BillsAssumption == BillTotals \cup Prices \cup Differences \subseteq Int
                          /\ GuestCounts \subseteq Nat

VARIABLES bill, answer
billVars == <<bill, answer>>

Refused == [refused |-> TRUE, shares |-> <<>>]
Shares(s) == [refused |-> FALSE, shares |-> s]

(* Participant lists: every order of every group, and the empty list. *)
Lists == {q \in UNION {[1 .. n -> Eaters] : n \in 0 .. Cardinality(Eaters)} : IsInjective(q)}
PartialMaps(values) == UNION {[S -> values] : S \in SUBSET Eaters}

PlainBills ==
  [mode : {"plain"}, total : BillTotals, people : Lists, payer : Eaters,
   guests : GuestCounts, adj : PartialMaps(Differences)]
ItemBills ==
  [mode : {"proportional", "equal"}, total : BillTotals, items : PartialMaps(Prices)]
FixedBills ==
  [mode : {"fixed"}, total : BillTotals, people : Lists, payer : Eaters,
   fixed : PartialMaps(Prices)]

BillsInit == bill \in PlainBills \cup ItemBills \cup FixedBills /\ answer = Refused

(* A plain bill: split_with_guests. *)
Plain ==
  /\ bill.mode = "plain"
  /\ GuestSplitAllowed(bill.total, bill.people, bill.guests, bill.adj)
  /\ answer' = Shares(SplitWithGuests(bill.total, bill.people, bill.guests, bill.adj, bill.payer))

(* With items: prorate_items. *)
Proportional ==
  /\ bill.mode = "proportional"
  /\ ItemsAllowed(bill.total, bill.items)
  /\ answer' = Shares(ProportionalShares(bill.total, bill.items))

EqualDelta ==
  /\ bill.mode = "equal"
  /\ ItemsAllowed(bill.total, bill.items)
  /\ EqualDeltaAllowed(bill.total, bill.items)
  /\ answer' = Shares(EqualDeltaShares(bill.total, bill.items))

(* With fixed amounts: fixed_then_even. *)
Fixed ==
  /\ bill.mode = "fixed"
  /\ FixedAllowed(bill.total, bill.people, bill.fixed)
  /\ answer' = Shares(FixedThenEven(bill.total, bill.people, bill.fixed, bill.payer))

BillsNext == answer = Refused /\ (Plain \/ Proportional \/ EqualDelta \/ Fixed) /\ UNCHANGED bill
BillsSpec == BillsInit /\ [][BillsNext]_billVars
----------------------------------------------------------------------------
Answered == ~answer.refused
ByPrice  == bill.mode \in {"proportional", "equal", "fixed"}

(* No dong is invented or lost and nobody owes less than nothing: the      *)
(* members' shares and the guests' cash heads make up the whole bill (the  *)
(* asserts at the end of split_shares, prorate_items and                   *)
(* _equal_delta_shares, and the drop of the guest heads).                  *)
BillIsWhole ==
  Answered =>
    /\ \A m \in DOMAIN answer.shares : answer.shares[m] >= 0
    /\ ByPrice => Total(answer.shares) = bill.total
    /\ bill.mode = "plain" =>
         Total(answer.shares)
           + bill.guests * PerHead(bill.total, bill.people \o GuestHeads(bill.guests), bill.adj)
         = bill.total

(* With no adjustments the general split is the equal one that Cards uses, *)
(* and one is refused exactly when the other is.                           *)
EqualSplitIsTheGeneralOne ==
  bill.mode = "plain" /\ bill.adj = <<>> =>
    /\ GuestSplitAllowed(bill.total, bill.people, bill.guests, bill.adj)
         <=> EqualSplitAllowed(bill.total, bill.people)
    /\ Answered =>
         answer.shares = EqualShares(bill.total, bill.people, bill.guests, bill.payer)

(* Proportional rounding is fair: nobody is a dong or more away from the   *)
(* exact proportional amount, and a dearer dish never costs less.          *)
ProportionIsFair ==
  Answered /\ bill.mode = "proportional" =>
    LET gross == Total(bill.items) IN
    \A m, k \in DOMAIN bill.items :
      /\ answer.shares[m] * gross - bill.items[m] * bill.total < gross
      /\ bill.items[m] * bill.total - answer.shares[m] * gross < gross
      /\ bill.items[m] > bill.items[k] => answer.shares[m] >= answer.shares[k]

(* Those without a fixed amount are at most a dong apart, and when the     *)
(* payer is one of them nobody carries more than the payer.                *)
RestIsEven ==
  Answered /\ bill.mode = "fixed" =>
    LET rest == DOMAIN answer.shares \ DOMAIN bill.fixed IN
    \A m, k \in rest :
      /\ answer.shares[m] - answer.shares[k] <= 1
      /\ bill.payer \in rest => answer.shares[m] <= answer.shares[bill.payer]

(* No dong is lost, and what rounding leaves over goes where it should.    *)
BillIsShared == BillIsWhole /\ EqualSplitIsTheGeneralOne /\ ProportionIsFair /\ RestIsEven

(* A split by price reaches the ledger only as adjustments on an equal     *)
(* split.  split_shares must accept them and give back the same shares,    *)
(* in whatever order the people are named and whoever of them paid (the    *)
(* docstring of itemized_adjustments).                                     *)
ItemsSurviveTheLedger ==
  Answered /\ ByPrice =>
    LET adj == ItemizedAdjustments(bill.total, answer.shares) IN
    \A people \in Lists : ToSet(people) = DOMAIN answer.shares =>
      /\ SplitAllowed(bill.total, people, adj)
      /\ \A payer \in Eaters : SplitShares(bill.total, people, adj, payer) = answer.shares
=============================================================================
