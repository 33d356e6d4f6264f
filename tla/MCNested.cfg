CONSTANTS
  Agents = {"root", "s1", "s2"}
  Root = "root"
  Delegates <- Cyclic
  Seconds = {3, 6}
  Calls = {1, 3}
  Depths = {3}
  RootDepths = {3}
  Margin = 2
  Floor = 1
  Delay = 1
SPECIFICATION DelegationSpec
CHECK_DEADLOCK FALSE
INVARIANT TimeIsLeftToAnswer
