SPECIFICATION FairSpec
CONSTANTS
  Iface = {eth, vpn}
  Gone = Gone
  Interval = 3
  Short = 1
  Warm = 2
  Never = Never
  NoTick = NoTick
  MaxBytes = 2
  MaxMoved = 2
INVARIANT TypeOK
PROPERTY RatedUnlessLate
PROPERTY RateOfWindow
PROPERTY ReportsKeepComing
PROPERTY StopsOnSignal
CHECK_DEADLOCK FALSE
