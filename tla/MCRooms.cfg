CONSTANTS
  Amounts = {1}
  Links = {0, 1}
  MaxRows = 1
  MaxChanges = 2
  MaxEvents = 3
  MaxMessages = 4
  MaxCrashes = 1
  SlugNames = {"x", "y", "z"}
  NoteTexts = {"t"}
  MaxPlaces = 2
  MaxMemos = 1
  None = None
  Payloads = {1, 2}
  Changes = {1}
  Pairs = {"ab"}
  Profiles <- TwoProfiles
  Before <- OneMealOnePay
  Names <- FewNames
  Plain <- Tones
  Honorifics = {"anh"}
  MaxMembers = 2
  MaxLookups = 3
  Writings <- SomeTexts
  Venues = {"quan"}
  Rooms <- OnlyTrang
  MaxDirectory = 2
  MaxDishes = 1
  MaxRemembered = 1
  Directories <- FewDirectories
  Ages = {1, 14, 120, 121}
  Visits = {1, 3}
  Prices = {40, 90}
  GateTimes = {659, 670, 700}
  Minute = 660
  MaxSteps = 2
  Lore = {"f", "g"}
  Sites = {1}
  MaxEdits = 3
  MaxMoves = 4
  Agents = {"root", "s1", "s2"}
  Root = "root"
  Delegates <- Cyclic
  Seconds = {3, 6}
  Calls = {1, 3}
  Depths = {3}
  RootDepths = {1, 2}
  Margin = 2
  Floor = 1
  Delay = 1
SPECIFICATION RoomsSpec
CHECK_DEADLOCK FALSE
INVARIANTS
  TurnTellsTheTruth
  SubsStayInTheBudget
  NotesFollowTheirPlace
  MemoryIsWhole
  NothingIsLost
  SuggestionIsSound
  
PROPERTIES
  NothingBehindTheirBacks
  ReadersSeeOneLedger
