SPECIFICATION Spec
CONSTANTS
  ta = ta
  tb = tb
  k1 = k1
  usd = usd
  eur = eur
  Tenants = {ta, tb}
  Currencies = {usd, eur}
  Accounts = {1, 2, 3, 4, 5}
  TenantOf <- MCTenantOf
  TypeOf <- MCTypeOf
  CurrencyOf <- MCCurrencyOf
  Posts = {1, 2}
  NoKey = NoKey
  NoEntry = NoEntry
  Opening <- MCOpening
  Drafts <- MCDrafts
  MaxClock = 2
  Closable = {2}
  DayLength = 2
  NoTime = NoTime
  NoOffset = NoOffset
  NoBound = NoBound
  Questions <- MCQuestions
  NoQuestion = NoQuestion
  AnyCurrency = AnyCurrency
  AccountsLimit = 3
  Skew = 1
INVARIANTS
  SheetTornOnlyByPosting
  AuditsTruthful
  HistoryEndsAtBalance
  StatementChains
  PortfolioOfOneMoment
  PagingMissesNothing
PROPERTIES
  ClosedPeriodFinal
CHECK_DEADLOCK FALSE
