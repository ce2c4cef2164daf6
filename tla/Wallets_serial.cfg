CONSTANTS
    Requests = {r1, r2}
    Users = {alice, bob}
    Currencies = {NGN, USD}
    WalletIds = {1, 2, 3, 4}
    Amounts = {1, 2}
    Purchases <- MCPurchases
    Rates <- MCRates
    MaxInteger = 4
    MaxPerUser = 1
    Opening <- MCSignedUp
    Deposits <- MCFunded
    None = None
    alice = alice
    bob = bob
    NGN = NGN
    USD = USD
    EUR = EUR
SPECIFICATION Safety
INVARIANTS BalanceMatchesLedger OneWalletPerCurrency
PROPERTY MovesExactly
