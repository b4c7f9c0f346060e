SPECIFICATION Spec
CONSTANTS
  Route = {r1, r2}
  Price = {1, 2}
  Plan = {pl1}
  Brand = {b1, b2}
  Default <- MCDefault
  Console = {c1}
  MaxOps = 3
  MaxErrors = 1
  MaxCrashes = 1
  Torn = torn
  None = none
  r1 = r1
  pl1 = pl1
  b1 = b1
INVARIANTS
  TypeOK
  AckedIsRevision
  RestartKeeps
  ManifestShowsSettings
  PreviewIsExact
CHECK_DEADLOCK FALSE
