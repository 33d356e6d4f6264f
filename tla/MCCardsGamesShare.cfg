CONSTANTS
  a = a
  b = b
  Members <- Pair
  Kinds = {"expense", "game"}
  EaterLists <- BothEat
  GuestCounts = {0}
  Totals = {4}
  SaidDays = {0}
  Amounts = {2}
  LastDay = 1
  MaxCards = 2
  MaxMeals = 1
  MaxGames = 1
  MaxPayments = 1
SPECIFICATION Spec
CHECK_DEADLOCK FALSE
PROPERTY
  MealAndGameNeverShareAPayment
