SPECIFICATION FairSpec
CONSTANTS
    m1 = m1
    m2 = m2
    Manager = {m1, m2}
    None = None
    Malformed = Malformed
    Serial <- MCSerial
    DefaultCertificateValidity = 1
    DefaultRenewCertificate <- MCRenew
    SecretHasData = FALSE
    UserSecret <- MCUserSecret
    Endpoints <- MCEndpoints
    KeySets <- MCKeySets
    Ages <- MCDueAges
    MaxTime = 0
    Budget <- MCSharedBudget
CHECK_DEADLOCK FALSE
PROPERTY UserSecretAccepted DeletionCompletes
