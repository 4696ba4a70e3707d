SPECIFICATION SchemaSpec
CONSTANTS
  Suites = {s1}
  Agents = {a1, a2}
  Names = {n1}
  Branches = {main, dev}
  None = None
  MaxRuns = 2
  MaxVersion = 2
  Identities = {1, 2}
INVARIANTS SchemaAgrees MigrationsApply
PROPERTY DowngradeKeepsABaseline
CHECK_DEADLOCK FALSE
