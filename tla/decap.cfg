CONSTANTS
  Samples <- MCSamples
  OffsetCap = 3
SPECIFICATION DSpec
CHECK_DEADLOCK TRUE
INVARIANTS NoReadPastEnd VerdictMatchesLayout PuntRestoresIp  XdpMatchesLayout HashFollowsFlow
