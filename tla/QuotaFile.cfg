SPECIFICATION Spec
CONSTANTS
  Procs = {p1, p2}
  Ops = {"reserve_request", "add_usd"}
  Rpd = 3
  MayCrash = TRUE
  MaxDays = 2
INVARIANT QuotaHolds
PROPERTY ImplementsQuota
