SPECIFICATION MCSpec
CONSTANTS
  Host <- MCHost
  Process <- MCProcess
  Operator <- MCOperator
  Url = {default, other}
  DefaultUrl = default
  Network = {smoke, nile, mainnet}
  Smoke = smoke
  Profiles <- MCProfiles
  MaxKeys = 2
  MaxRuns = 3
  MaxOverlap = 2
  MaxDeaths = 1
  Torn = torn
  Blank = blank
  None = none
  Copied = copied
  default = default
  other = other
  smoke = smoke
  nile = nile
  mainnet = mainnet
INVARIANTS
  TypeOK
  ToldWalletIsKept
  
  ServerMatchesSettings
  FinishedInstallWorks
CHECK_DEADLOCK FALSE
