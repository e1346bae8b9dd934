------------------------------ MODULE MCApiTls ------------------------------
(***************************************************************************)
(* Small instances of ApiTls for TLC; time as in MCTransportTls.           *)
(***************************************************************************)
EXTENDS ApiTls

MCRenew == -1

MCSerial == 1..8

Settings(lb, ref, ips) == [loadBalancer |-> lb, ref |-> ref, validIps |-> ips]

\* A name of the user's own, and that of the operator's secret.
MCUserSecret == {"custom", OwnSecret}

\* The operator's certificate, without and with a load balancer whose IPs do
\* not parse; a secret of the user's, under either name.
MCEndpoints ==
    {Settings(FALSE, "custom", FALSE), Settings(TRUE, None, FALSE),
     Settings(TRUE, "custom", TRUE), Settings(TRUE, OwnSecret, TRUE)}

\* What the code asks for, half of it, and what the documentation names.
MCOneKeySet == {{"key.tls", "tls.crt"}}
MCKeySets == MCOneKeySet \union {{"key.tls"}}
MCDocumentedKeys == {{"tls.key", "tls.crt"}}

\* A secret just made, and one that is due once the clock has moved on.
MCAges == {0, 2}

\* One that is due already, for two managers and no clock.
MCDueAges == {0, 3}

MCSharedBudget == [edit |-> 1, outside |-> 1, crash |-> 0, fault |-> 0]

\* One manager that crashes, is not answered and loses an answer once; the
\* user changes his mind once; secrets change from outside twice.
MCBudget == [edit |-> 1, outside |-> 2, crash |-> 1, fault |-> 1]
=============================================================================
