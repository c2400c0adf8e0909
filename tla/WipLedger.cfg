SPECIFICATION Spec
CONSTANTS
  Package = {p, q}
  Copr = {c, d}
  Tag = {t}
  Run = {r}
  CommandLines <- MCCommandLines
  MayTear = FALSE
  None = none
INVARIANTS NeverTrackedAndIgnored
PROPERTIES LeavesOnlyWhenTold ForgottenStaysForgotten DecisionsAreKept LiveTagsAreKept
CHECK_DEADLOCK FALSE
