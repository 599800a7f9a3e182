CONSTANTS
    r1 = r1
    r2 = r2
    Requests = {r1}
    Profiles <- MixedProfiles
    ActualQuotas = {0, 1, 3}
    FeeQuotas = {0, 1}
    InitWallet = 4
    InitToken = 4
    SubTotal = 3
    HasSubscription = TRUE
    WalletOverflow = TRUE
    TrustQuota = 2
    Faults = {"op", "recordSave"}
SPECIFICATION Spec
PROPERTIES
    SettlementIsFinal
    EveryRequestEnds
CHECK_DEADLOCK FALSE
