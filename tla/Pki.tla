--------------------------------- MODULE Pki ---------------------------------
(***************************************************************************)
(* The certificates of pkg/pki: a CA, the certificates it issues, the      *)
(* PKCS#12 bundles made of them, and the test that decides on a renewal.   *)
(*                                                                         *)
(* A certificate is what the operator and the properties tell apart: which *)
(* generation it belongs to (id), who signed it (issuer) and when it ends  *)
(* (notAfter).  Key material, subjects and encodings are left out.  Time   *)
(* is a natural number; the unit is a week in the runs.                    *)
(***************************************************************************)
EXTENDS Integers

CONSTANTS
    Serial,                      \* identities of certificate generations
    None,                        \* Go's nil
    DefaultCertificateValidity,  \* life of a certificate the operator issues
    DefaultRenewCertificate      \* added to the clock when a renewal is decided

ASSUME SerialAssumption == Serial \subseteq Nat

ASSUME ValidityAssumption ==
    /\ DefaultCertificateValidity \in Nat \ {0}
    /\ DefaultRenewCertificate \in Int

\* The root of a PKI, a certificate it signed, and a PKCS#12 bundle: the
\* certificate it carries and the CA certificates packed beside it.
CACert == [id : Serial, notAfter : Int]
LeafCert == [id : Serial, issuer : Serial, notAfter : Int]
Pkcs12 == [crt : LeafCert, cas : SUBSET CACert]

ASSUME NoneAssumption == None \notin LeafCert

\* goca.New for either layer: a self-signed root, valid for the default
\* life from the moment it is made.
NewRootCA(serial, time) ==
    [id |-> serial, notAfter |-> time + DefaultCertificateValidity]

\* ca.IssueCertificate as every certificate of the operator uses it: the
\* node, the admin and the API certificate differ only in their subject.
IssueCertificate(ca, serial, time) ==
    [id       |-> serial,
     issuer   |-> ca.id,
     notAfter |-> time + DefaultCertificateValidity]

\* goca.GeneratePkcs12: the certificate with its CA and any CA passed along.
GeneratePkcs12(crt, ca, oldCas) == [crt |-> crt, cas |-> {ca} \union oldCas]

\* crt.NotAfter.Before(time.Now().Add(DefaultRenewCertificate))
NeedRenewCertificate(crt, time) == crt.notAfter < time + DefaultRenewCertificate

\* crt.NotAfter.After(time.Now()): what renewSecret calls "not expired".
NotExpired(crt, time) == crt.notAfter > time
=============================================================================
