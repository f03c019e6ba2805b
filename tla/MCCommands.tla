----------------------------- MODULE MCCommands -----------------------------
(* Instances of Commands and Deployments: the sets the configurations use. *)
EXTENDS Deployments

CONSTANTS b1, b2, p1, p2

D(n, b) == [name |-> n, body |-> b]
Tree(x, y) == [n \in Names |-> IF n = 1 THEN x ELSE IF n = 2 THEN y ELSE NoFile]

MCBodies == {b1, b2}
TwoNames == 1..2

\* One invocation at a time, every command: two domains, the second rendering
\* rejected by nginx, an operator's own file among the live ones.
OneProc == {p1}
SomeDesired == {<<>>, <<D(1, b1)>>, <<D(2, b2), D(1, b1)>>, <<D(2, b2), D(2, b1)>>}
SomeLive == {Absent, Tree(b1, NoFile), Tree(b1, b1), Tree(Alien, b1)}

\* Repeated syncs towards one desired file: two removals that the cap of one
\* spreads over two cycles, an addition and a regenerated config.
ThreeNames == 1..3
OneDesired == {<<D(3, b2)>>}
ThreeLive ==
    {Absent} \cup
    {[n \in Names |-> IF n = 3 THEN x ELSE b1] : x \in {NoFile, Alien, b1}}

\* Two invocations at a time.
TwoProcs == {p1, p2}
OneName == {1}
OneBody == {b1}
ThatOne == {<<D(1, b1)>>}
OneLive == {[n \in Names |-> b1]}

\* One desired file all along, with a domain to be added, and a certificate
\* that becomes invalid.
BothDesired == {<<D(1, b1), D(2, b1)>>}
FirstLive == {Tree(b1, NoFile)}

\* No name ends in .conf: each comes back from its file name.
AsTheyAre == [n \in Names |-> n]
=============================================================================
