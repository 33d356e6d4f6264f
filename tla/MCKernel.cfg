CONSTANTS
  Bodies = {1, 2}
  MaxStarts = 4
  Passing <- AllButOne
  MaxId = 2
  MaxActions = 2
  MaxCards = 2
  MaxEdits = 1
  AgentIds = {a1, a2, a3}
  Spaces = {s1}
  Profiles = {p1}
  MaxLast = 2
  MaxBinds = 1
  Suites = {u1}
  Cases = {k1}
  Contents = {c1, c2}
  Cap = 1
  MaxSpecs = 2
  MaxRuns = 2
  MaxChanges = 2
SPECIFICATION KernelSpec
CHECK_DEADLOCK FALSE
INVARIANTS
  
  
  CardCanBeConfirmed
  
  

  
  
  
