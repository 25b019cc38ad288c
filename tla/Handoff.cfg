SPECIFICATION Spec
CONSTANTS
  Starts <- Projects
  Checkers = {"inject", "health"}
  MaxChanges = 3
  MaxVersion = 2
  Sessions = {"s1"}
  MaxPrompts = 2
  Hooks = {"h1", "h2"}
  MaxEvents = 3
  PlanCap = 2
  TotalCap = 2
  FileCap = 2
  NoteCap = 1
  TextCap = 4
  Headings = {"u1", "u2"}
  Bodies = {0, 1}
INVARIANTS FreshIsEarned ContextIsHonest
PROPERTIES EachConcernOnce CarryIsNotLost RegistersNest TurnEnds
CHECK_DEADLOCK FALSE
