CONSTANTS
  Size = 2
  Expiry = 3
  MaxTime = 7
  MaxClaims = 5
  Regimes = {"any", "prompt"}
  Nil = Nil
  Calls = {c1, c2, c3}
  Keys = {k1, k2}
  Answers = {value, error}
  Zero = zero
  Files = 3
  Rankings <- ThreeFiles
  Cancelled = Cancelled
  ParserCount = 3
  AuthenticatorCount = 3
  Clients = {a, b}
  Records = {r1, r2}
  Redirects = {r1, r2}
  Requests = {r1, r2}
  None = None
SPECIFICATION CoordinationSpec
INVARIANTS
  WellTyped Occupancy WindowLimit RetryHonoured
  FirstErrorDecides LoadedWhole AnsweredByVerdicts DecidedByAuthenticators AnsweredByOneMux
  NothingLeftOpen GroupGone EntriesKeepPriority FirstRedirectDecides ShutdownHonest
PROPERTIES Memoized NobodyWaitsForever
CHECK_DEADLOCK FALSE
