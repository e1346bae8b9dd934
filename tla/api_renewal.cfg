SPECIFICATION FairSpec
CONSTANTS
    m1 = m1
    Manager = {m1}
    None = None
    Malformed = Malformed
    Serial <- MCSerial
    DefaultCertificateValidity = 1
    DefaultRenewCertificate <- MCRenew
    SecretHasData = TRUE
    UserSecret <- MCUserSecret
    Endpoints <- MCEndpoints
    KeySets <- MCOneKeySet
    Ages <- MCAges
    MaxTime = 1
    Budget <- MCBudget
CHECK_DEADLOCK FALSE
INVARIANT TypeOK
PROPERTY UserSecretUntouched LineageKept LoopKept DueGetsRenewed FailureReported
