SPECIFICATION FairConfiguredSpec
CONSTANTS
  Servers = {"alpha", "beta"}
  Elicitations = {e1}
  Backlog = 2
  MaxReports = 3
  None = None
  Worlds <- AllWorlds
  First <- FirstWorlds
  Later <- Found
  Setups <- Sessions
  ProgramIdentity <- Nothing
INVARIANTS NoOrphanedGate OnlyHumansAreAsked StreamFollowsServers NewestNoticesKept
  AuthorityDecidesResume ProxyNeverBypassed EveryServerBuilds
PROPERTY GateCallsReturn
