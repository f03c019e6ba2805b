---------------------------- MODULE MCCertIssuer ----------------------------
(* Instances of CertIssuer.                                                 *)
EXTENDS CertIssuer, TLC

CONSTANTS p1, p2, d1, d2

Pair(c, k) == [chain |-> c, key |-> k]

\* The second certificate has a key of its own.
TwoKeys == <<1, 2>>

\* Legacy mode, ACME as documented, and two files that are rejected.
Legacy == [acme |-> FALSE, lock_dir |-> "absolute", dns_provider |-> "none"]
Acme == [acme |-> TRUE, lock_dir |-> "absolute", dns_provider |-> "cloudflare"]
AcmeOnly == {Acme}
SomeConfigs ==
    {Legacy, Acme, [Acme EXCEPT !.dns_provider = "none"],
     [Acme EXCEPT !.lock_dir = "relative"]}

\* One domain, or one twice, for two invocations of sync.
TwoProcs == {p1, p2}
Interchangeable == Permutations(TwoProcs)
OneProc == {p1}
OneDomain == {d1}
TwoDomains == {d1, d2}
Once == {<<d1>>}
Lists == {<<>>, <<d1, d2>>, <<d2, d2>>}
FewFiles == {NoPair, Pair(1, 1)}
=============================================================================
