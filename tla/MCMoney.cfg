CONSTANTS
  Eaters = {1, 2, 3}
  BillTotals = {0, 1, 2, 3, 4, 5, 6, 7}
  Prices = {0, 1, 2, 3, 4}
  Differences <- LessAndMore
  GuestCounts = {0, 1, 2}
  Everyone = {1, 2}
  MealIds = {1, 2}
  GameIds = {1}
  MaxEdges = 3
  MaxPays = 2
  EdgeAmounts = {2}
  PayAmounts = {1, 3}
  MonthStarts = {0, 5, 40}
  Beginning = Beginning
  Days = {3, 10}
  People = {1, 2, 3}
  Openers = {2}
  Dates = {3, 10}
  Amounts = {1, 2}
  MaxEaters = 1
  Outcomes <- TwoGames
  Cuts = {0, 1}
  NameLengths = {0, 1, 2, 3}
  ChunkLengths = {1, 3, 5}
  MaxChunks = 3
  Budgets = {8, 12}
  Chips = {0, 1, 2, 4}
  MaxThings = 2
  MaxPaid = 1
  None = None
  Members = {1, 2, 3}
  Sender = 1
  Turns <- SomeTurns
  NextMeal = 2
  Tonight = 2
SPECIFICATION Spec
CHECK_DEADLOCK FALSE
INVARIANTS
  BillIsShared
  ItemsSurviveTheLedger
  PairIsConserved
  PaymentsGoWhereTheyShould
  ViewsAgree
  CardsAskForWhatIsOwed
  NothingIsRoundedAway
  APassIsTheRightMoney
