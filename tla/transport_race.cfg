SPECIFICATION Spec
CONSTANTS
    n1 = n1
    n2 = n2
    m1 = m1
    m2 = m2
    Node = {n1, n2}
    Manager = {m1, m2}
    None = None
    Malformed = Malformed
    Serial <- MCSerial
    DefaultCertificateValidity = 2
    DefaultRenewCertificate <- MCRenew
    SecretHasData = FALSE
    MaxTime = 0
    ForeignLife <- MCForeign
    Budget <- MCRaceBudget
SYMMETRY MCSymmetry
CHECK_DEADLOCK FALSE
INVARIANT TypeOK SecretCoherent SuccessIsDurable
PROPERTY StaysDeleted LineageKept LoopKept
