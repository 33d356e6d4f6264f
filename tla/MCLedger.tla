-------------------------------- MODULE MCLedger -------------------------------
(***************************************************************************)
(* Cards for TLC, in two rooms: one edits, pays and voids meals and never  *)
(* plays; the other has cards of every kind, and midnight passes.          *)
(***************************************************************************)
EXTENDS MCCards

VARIABLE part
ledgerVars == <<part, vars>>

Playing == INSTANCE Cards WITH
    Members <- Pair, Kinds <- {"expense", "payment", "game"}, EaterLists <- BothEat, GuestCounts <- {0},
    Totals <- {4}, SaidDays <- {0, 1}, Amounts <- {1}, LastDay <- 2,
    MaxCards <- 2, MaxMeals <- 1, MaxGames <- 1, MaxPayments <- 1

LedgerInit == part \in {"eating", "playing"} /\ Init

LedgerNext ==
    /\ UNCHANGED part
    /\ \/ part = "eating" /\ Next
       \/ part = "playing" /\ Playing!Next

LedgerSpec == LedgerInit /\ [][LedgerNext]_ledgerVars
=============================================================================
