SPECIFICATION Spec
CONSTANTS
  rust = rust
  epel10 = epel10
  Pkg = {rust}
  Branch = {epel10}
  me = me
  maint = maint
  other = other
  Person = {me, maint, other}
  Asker = me
  Maintainer = maint
  PingMin = 1
  RelengMin = 1
  MaxBugs = 2
  MaxTickets = 1
  MaxActs = 2
  MaxDay = 2
INVARIANT ClosedIsSettled
PROPERTIES NoSecondRequest NeverAskedTwiceOver TicketFollowsItsPing
CHECK_DEADLOCK FALSE
