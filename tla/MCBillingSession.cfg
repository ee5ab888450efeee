SPECIFICATION Spec
CONSTANTS
    Requests = {r1, r2}
    Playground = {r2}
    Forced = {}
    Prefs = {"subscription_only", "wallet_only", "wallet_first", "subscription_first"}
    PreQuotas = {0, 2}
    ActualQuotas = {0, 3}
    FeeQuotas = {0, 1}
    WalletQuota = 4
    SubTotal = 3
    TokenQuota = 4
    TokenUnlimited = FALSE
    TrustQuota = 3
    MaxFaults = 2
    r1 = r1
    r2 = r2
INVARIANTS LedgerMatchesSession ServedIsCharged FailedIsFree 
 
