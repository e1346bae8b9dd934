SPECIFICATION Spec
CONSTANTS
    n1 = n1
    m1 = m1
    Node = {n1}
    Manager = {m1}
    None = None
    Malformed = Malformed
    Serial <- MCSerial
    DefaultCertificateValidity = 2
    DefaultRenewCertificate <- MCRenew
    SecretHasData = FALSE
    MaxTime = 3
    ForeignLife <- MCForeign
    Budget <- MCOneSecret
CHECK_DEADLOCK FALSE
PROPERTY RenewedBeforeExpiry
