SPECIFICATION Spec
CONSTANTS
  r1 = r1
  r2 = r2
  r3 = r3
  ta = ta
  tb = tb
  k1 = k1
  k2 = k2
  usd = usd
  eur = eur
  Tenants = {ta, tb}
  Currencies = {usd, eur}
  Accounts = {1, 2}
  TenantOf <- MCTenantOf
  TypeOf <- MCTypeOf
  CurrencyOf <- MCCurrencyOf
  Requests = {r1, r2}
  Keys = {k1, k2}
  NoKey = NoKey
  NoCurrency = NoCurrency
  NoInput = NoInput
  NoTxn = NoTxn
  Inputs <- RetryInputs
INVARIANT
  RaceLoserIsAnswered
