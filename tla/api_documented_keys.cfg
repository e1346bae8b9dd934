SPECIFICATION FairSpec
CONSTANTS
    m1 = m1
    Manager = {m1}
    None = None
    Malformed = Malformed
    Serial <- MCSerial
    DefaultCertificateValidity = 1
    DefaultRenewCertificate <- MCRenew
    SecretHasData = FALSE
    UserSecret <- MCUserSecret
    Endpoints <- MCEndpoints
    KeySets <- MCDocumentedKeys
    Ages <- MCAges
    MaxTime = 0
    Budget <- MCBudget
CHECK_DEADLOCK FALSE
PROPERTY DocumentedSecretAccepted
