------------------------------- MODULE MCSync -------------------------------
(* Instances of Sync.                                                       *)
EXTENDS Sync

CONSTANTS b1, b2, p1

MCBodies == {b1, b2}
OneProc == {p1}
ThreeNames == 1..3

\* Repeated syncs towards one desired file: two removals, which a cap of one
\* spreads over two cycles, and an addition or a config to be regenerated.
OneDesired == {<<[name |-> 3, body |-> b2]>>}
SomeLive ==
    {Absent} \cup
    {[n \in Names |-> IF n = 3 THEN x ELSE b1] : x \in {NoFile, Alien, b1}}

\* No name ends in .conf: each comes back from its file name.
AsTheyAre == [n \in Names |-> n]
=============================================================================
