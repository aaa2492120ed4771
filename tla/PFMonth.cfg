SPECIFICATION DateSpec
CONSTANTS
  Policies <- MCEndOfMonth
  Span <- MCSpan
  Outage = 2
  Edits = 0
CHECK_DEADLOCK FALSE
INVARIANTS
  EveryMonthFires
