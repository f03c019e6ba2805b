---------------------------- MODULE MCReconcile -----------------------------
(* Three domains and two renderings: more undesired configs than the cap   *)
(* removes at once, a regenerated config, a file naming a domain twice.    *)
EXTENDS Reconcile

CONSTANTS b1, b2

D(n, b) == [name |-> n, body |-> b]

MCNames == 1..3
MCBodies == {b1, b2}
MCDesiredFiles ==
    { <<>>,
      <<D(2, b1)>>,
      <<D(3, b1), D(1, b2)>>,
      <<D(1, b1), D(1, b2)>>,
      <<D(1, b1), D(2, b2), D(3, b1)>> }

\* No name ends in .conf: each comes back from its file name.
AsTheyAre == [n \in Names |-> n]
=============================================================================
