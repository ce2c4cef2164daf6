CONSTANTS
    Requests = {r1, r2}
    Users = {alice}
    Currencies = {NGN, USD, EUR}
    WalletIds = {1, 2, 3, 4}
    Amounts = {2}
    Purchases <- MCFraction
    Rates <- MCRates
    MaxInteger = 4
    MaxPerUser = 2
    Opening <- MCOpening
    Deposits <- MCDeposits
    None = None
    alice = alice
    bob = bob
    NGN = NGN
    USD = USD
    EUR = EUR
SPECIFICATION Spec
INVARIANTS TypeOK BalanceWithinCredits AnswersMatchLedger
PROPERTIES PostsAtomically EveryRequestAnswered
