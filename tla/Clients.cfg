SPECIFICATION Spec
CONSTANTS
  ta = ta
  usd = usd
  memo = memo
  k1 = k1
  Tenants = {ta}
  Currencies = {usd}
  Accounts = {1, 2}
  TenantOf <- MCTenantOf
  TypeOf <- MCTypeOf
  CurrencyOf <- MCCurrencyOf
  Posts = {1, 2, 3, 4, 5}
  NoKey = NoKey
  NoEntry = NoEntry
  Opening <- MCOpening
  Closable = {2}
  MaxClock = 1
  Tenant = ta
  FormCalls = {1, 2, 3}
  AgentCalls = {4, 5}
  FormRows <- MCFormRows
  ListLimit = 2
  Contents <- MCContents
  Never = Never
INVARIANTS
  RetryPostsOnce
  DryRunHolds
  ListShowsPosted
CHECK_DEADLOCK FALSE
