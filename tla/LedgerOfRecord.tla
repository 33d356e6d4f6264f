---------------------------- MODULE LedgerOfRecord ----------------------------
(***************************************************************************)
(* What a room may rely on when it reads its ledger, whichever release is  *)
(* serving and wherever that release reads from: the rows only grow, one   *)
(* whole transaction at a time, and a recorded row keeps its amount.       *)
(* Specified without saying how the rows are stored (see Journal).         *)
(***************************************************************************)
EXTENDS Integers, Sequences

CONSTANT Tables      \* the kinds of rows

VARIABLE rows        \* rows[t][id] is the row of table t with that id

Init == rows = [t \in Tables |-> <<>>]

(* A recorded row may be voided or linked elsewhere, never removed,        *)
(* renumbered or given another amount.                                     *)
Keeps(old, new) ==
  /\ Len(old) <= Len(new)
  /\ \A id \in DOMAIN old : /\ new[id].amount = old[id].amount
                            /\ old[id].voided => new[id].voided

Transaction ==
  /\ rows' # rows
  /\ \A t \in Tables : Keeps(rows[t], rows'[t])

Spec == Init /\ [][Transaction]_rows
=============================================================================
