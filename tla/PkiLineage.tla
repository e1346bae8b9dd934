----------------------------- MODULE PkiLineage -----------------------------
(***************************************************************************)
(* What a TLS reconciler promises about the certificates it stores, seen   *)
(* from outside: the nodes that mount the secret trust one CA at a time.   *)
(* As long as that CA stays, a certificate already handed out to a node is *)
(* never changed and never taken away; certificates are only added.  A new *)
(* CA replaces every certificate at once, so no certificate is ever seen   *)
(* beside a CA that did not sign it.                                       *)
(*                                                                         *)
(* This module knows no reconcile loop, cache, clock or failure: it says   *)
(* what the stored secret may do, whoever writes it.                       *)
(***************************************************************************)
EXTENDS Pki

CONSTANT Node   \* the names certificates are issued for

VARIABLE pki    \* None, or the CA with what it signed for each node

Lineage == [ca : CACert, crt : [Node -> LeafCert \union {None}]]

SignedBy(p) == \A n \in Node : p.crt[n] # None => p.crt[n].issuer = p.ca.id

Init == pki = None

\* A PKI appears, whoever made it.
Establish == pki = None /\ pki' \in Lineage /\ SignedBy(pki')

\* Nodes that had no certificate get one from the CA that is there.
Extend ==
    /\ pki # None /\ pki' # None
    /\ pki' \in Lineage /\ SignedBy(pki')
    /\ pki'.ca = pki.ca
    /\ \A n \in Node : pki.crt[n] # None => pki'.crt[n] = pki.crt[n]

\* Another CA takes over, with certificates of its own.
Replace ==
    /\ pki # None /\ pki' # None
    /\ pki' \in Lineage /\ SignedBy(pki')
    /\ pki'.ca.id # pki.ca.id

Remove == pki # None /\ pki' = None

Next == Establish \/ Extend \/ Replace \/ Remove

Spec == Init /\ [][Next]_pki
=============================================================================
