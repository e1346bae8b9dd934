SPECIFICATION FairSpec
CONSTANTS
    n1 = n1
    n2 = n2
    m1 = m1
    Node = {n1, n2}
    Manager = {m1}
    None = None
    Malformed = Malformed
    Serial <- MCSerial
    DefaultCertificateValidity = 1
    DefaultRenewCertificate <- MCRenew
    SecretHasData = TRUE
    MaxTime = 2
    ForeignLife <- MCAgeing
    Budget <- MCRenewalBudget
CHECK_DEADLOCK FALSE
INVARIANT SecretCoherent SuccessIsDurable
PROPERTY LineageKept DueGetsRenewed FailureReported
