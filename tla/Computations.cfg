SPECIFICATION Spec
CONSTANTS
  Tenants = {t}
  Currencies = {eur}
  Accounts = {1, 2}
  TenantOf <- MCTenantOf
  TypeOf <- MCTypeOf
  CurrencyOf <- MCCurrencyOf
  DayLength = 2
  NoTime = NoTime
  NoOffset = NoOffset
  NoBound = NoBound
  FirstOf <- MCFirstOf
  Monday = 5
  Charts <- MCCharts
  Precision = 3
  MaxDigits = 9
  Forms <- MCForms
  Upstream <- MCUpstream
  NoJob = NoJob
INVARIANTS
  HistoryIsReference
  DatesAgree
  AmountsArrive
CHECK_DEADLOCK FALSE
