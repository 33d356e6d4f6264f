CONSTANTS
  a = a
  b = b
  Members <- Pair
  Kinds = {"expense", "payment"}
  EaterLists <- BothEat
  GuestCounts = {0}
  Totals = {4}
  SaidDays = {0}
  Amounts = {1}
  LastDay = 1
  MaxCards = 2
  MaxMeals = 1
  MaxGames = 0
  MaxPayments = 2
SPECIFICATION Spec
CHECK_DEADLOCK FALSE
PROPERTY
  OmittedAmountPaysOffExactly
