----------------------------- MODULE Attribution -----------------------------
(***************************************************************************)
(* A ledger growing one meal, one game or one payment at a time, in any    *)
(* order of days, and what debt_breakdown and the two algorithms of        *)
(* settling say of it at each point.                                       *)
(***************************************************************************)
EXTENDS Debts, Sequences, SequencesExt

CONSTANTS
  Everyone,               \* the members
  MealIds, GameIds, Days,
  EdgeAmounts, PayAmounts,
  MaxEdges, MaxPays       \* bounds

ASSUME EveryoneAssumption == IsFiniteSet(Everyone)
ASSUME RowsAssumption == MealIds \cup GameIds \cup EdgeAmounts \subseteq Nat \ {0}
                         /\ Days \subseteq Int /\ PayAmounts \subseteq Nat

VARIABLES debts, paid
ledgerVars == <<debts, paid>>

Things == ({"meal"} \X MealIds) \cup ({"game"} \X GameIds)

LedgerInit == debts = {} /\ paid = <<>>

(* A meal somebody paid for, with its eaters' shares, or a game with its   *)
(* losers': build_debt_edges.                                              *)
AddThing ==
  \E t \in Things, day \in Days, creditor \in Everyone, eaters \in SUBSET Everyone :
    \E shares \in [eaters -> EdgeAmounts] :
      /\ \A e \in debts : <<e.kind, e.ref>> # t
      /\ debts' = debts \cup EdgesOf(t[1], t[2], creditor, shares, day)
      /\ Cardinality(debts') <= MaxEdges
      /\ UNCHANGED paid

(* Of a payment, everybody's: it may name a thing, one that is not there   *)
(* included, or nothing.                                                   *)
AddPayment ==
  \E frm, to \in Everyone, amount \in PayAmounts, t \in Things \cup {<<"meal", NoRef>>} :
    /\ frm # to
    /\ Len(paid) < MaxPays
    /\ paid' = Append(paid, [frm |-> frm, to |-> to, amount |-> amount, kind |-> t[1], ref |-> t[2]])
    /\ UNCHANGED debts

LedgerNext == AddThing \/ AddPayment
LedgerSpec == LedgerInit /\ [][LedgerNext]_ledgerVars
----------------------------------------------------------------------------
(* Money is conserved pair by pair: whatever the payments name, in         *)
(* whatever order things were recorded, all of it counts against the       *)
(* pair's debts and none of it counts twice or below zero (the spill of    *)
(* apply_payments_fifo: "the money is still in the ledger and still owed   *)
(* to the same person, so it must keep counting").                         *)
PairIsConserved ==
  LET open == Outstanding(debts, paid) IN
  /\ \A e \in debts : open[e] \in 0 .. e.amount
  /\ \A d, c \in Everyone :
       OwedOver(open, debts, d, c)
         = Positive(Gross(debts, d, c) - AmountOf(paid, PairPayments(paid, <<d, c>>)))

(* A payment that names a thing settles that very edge first, and money    *)
(* that names nothing never reaches a debt while an older one of the pair  *)
(* is open (docstring of apply_payments_fifo).                             *)
StampedThenOldest ==
  LET open == Outstanding(debts, paid) IN
  \A e \in debts :
    /\ e.amount - open[e] >= Direct(paid, e)
    /\ open[e] > 0 =>
         \A f \in PairEdges(debts, <<e.debtor, e.creditor>>) :
           (f.day > e.day \/ (f.day = e.day /\ f.kind = e.kind /\ f.ref > e.ref))
             => open[f] = f.amount - Direct(paid, f)

(* The last payment recorded, wherever it was meant to go, reopened no     *)
(* debt, of its pair or of another.                                        *)
PaymentNeverReopens ==
  paid # <<>> =>
    \A e \in debts : Outstanding(debts, paid)[e] <= Outstanding(debts, Front(paid))[e]

(* The settlement computed from attributed edges and the one computed from *)
(* gross debts and payments agree on the whole ledger (docstring of        *)
(* net_transfers).                                                         *)
TransfersAgree ==
  NetTransfers(debts, paid, Everyone) = PerPayerTransfers(debts, paid, Everyone)

(* Payments settle what they name and then the oldest debt, none reopens a *)
(* debt, and both algorithms of settling agree.                            *)
PaymentsGoWhereTheyShould ==
  StampedThenOldest /\ PaymentNeverReopens /\ TransfersAgree
=============================================================================
