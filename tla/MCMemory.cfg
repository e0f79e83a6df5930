SPECIFICATION Spec
CONSTANTS
  NumPages = 8
  KernelPages = 1
  MaxProcesses = 2
  PageSize = 5
  Header = 2
  Sizes = {1, 3}
  MaxCalls = 5
  TickPoints <- OutsideWindows
INVARIANTS PagesConserved BlocksDisjoint
