SPECIFICATION FairSpec
CONSTANTS
    n1 = n1
    m1 = m1
    m2 = m2
    Node = {n1}
    Manager = {m1, m2}
    None = None
    Malformed = Malformed
    Serial <- MCSerial
    DefaultCertificateValidity = 2
    DefaultRenewCertificate <- MCRenew
    SecretHasData = FALSE
    MaxTime = 0
    ForeignLife <- MCLong
    Budget <- MCLiveBudget
CHECK_DEADLOCK FALSE
PROPERTY NodesGetCertified DeletionCompletes
