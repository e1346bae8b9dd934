--------------------------- MODULE MCTransportTls ---------------------------
(***************************************************************************)
(* Small instances of TransportTls for TLC.  A unit of time is a week, so  *)
(* that DefaultRenewCertificate is one unit; a certificate lives two of    *)
(* them instead of 397 days, which only brings renewals nearer.            *)
(***************************************************************************)
EXTENDS TransportTls, TLC

\* pkg/pki: -time.Hour * 24 * 7
MCRenew == -1

MCSerial == 1..12

\* Interchangeable nodes and managers; for the runs without liveness.
MCSymmetry == Permutations(Node) \union Permutations(Manager)

\* Outside secrets: all good; the admin certificate due; everything due.
Life(ca, leaf, admin, bundled) ==
    [ca |-> ca, node |-> leaf, admin |-> admin, bundled |-> bundled]

MCForeign == {Life(2, 2, 2, TRUE), Life(2, 2, -2, TRUE),
              Life(-2, -2, -2, TRUE), Life(-2, -2, -2, FALSE)}

MCRaceBudget == [scale |-> 1, outside |-> 1, crash |-> 0, fault |-> 0]

\* One manager whose process is ended once, and time to grow old in.
MCRenewalBudget == [scale |-> 1, outside |-> 1, crash |-> 1, fault |-> 0]

\* Outside secrets that grow old: all of an age; a CA that outlives its nodes;
\* and one that does so without a bundle.
MCAgeing == {Life(0, 0, 0, TRUE), Life(4, 0, 4, TRUE), Life(4, 0, 4, FALSE)}

MCLiveBudget == [scale |-> 1, outside |-> 1, crash |-> 1, fault |-> 1]

MCLong == {Life(9, 9, 9, TRUE)}

\* Nothing but the managers at work.
MCQuiet == [scale |-> 0, outside |-> 0, crash |-> 0, fault |-> 0]
MCOneSecret == [MCQuiet EXCEPT !.outside = 1]
MCOneSecretScaled == [MCOneSecret EXCEPT !.scale = 1]
=============================================================================
