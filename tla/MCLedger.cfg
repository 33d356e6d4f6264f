CONSTANTS
  a = a
  b = b
  Members <- Pair
  Kinds = {"expense", "payment"}
  EaterLists <- SomeOfTwo
  GuestCounts = {1}
  Totals = {1, 4}
  SaidDays = {0}
  Amounts = {1}
  LastDay = 1
  MaxCards = 2
  MaxMeals = 3
  MaxGames = 0
  MaxPayments = 2
SPECIFICATION LedgerSpec
CHECK_DEADLOCK FALSE
INVARIANTS
  StampedMoneyHasItsDebt
  OneLiveMealPerCard
PROPERTIES
  LedgerIsAppendOnly
  StampsFollowTheCard
  QuickPayClosesThatDebt
  AnswersAreFinal
  OneCardPerProposal
