---------------------------- MODULE MCCertWriters ----------------------------
(* Instances of CertWriters: one domain, two syncs and one add.             *)
EXTENDS CertWriters

CONSTANTS p1, p2, d1

Pair(c, k) == [chain |-> c, key |-> k]

\* The second certificate has a key of its own, the third keeps it.
MCKeyOf == <<1, 2, 2>>

\* The damaged pairs come of installations and copies that are cut short.
FewFiles == {NoPair, Pair(1, 1)}

AcmeOnly == {[acme |-> TRUE, lock_dir |-> "absolute", dns_provider |-> "cloudflare"]}
TwoProcs == {p1, p2}
OneDomain == {d1}
Once == {<<d1>>}
=============================================================================
