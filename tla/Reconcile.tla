----------------------------- MODULE Reconcile ------------------------------
(***************************************************************************)
(* What repeated syncs promise when none of them fails: one step is one    *)
(* whole cycle of cmd_sync over an existing live directory, while the      *)
(* desired-state file and the certificates may change between cycles.      *)
(***************************************************************************)
EXTENDS Differ

CONSTANT DesiredFiles   \* the desired-state files a caller may pass

ASSUME DesiredAssumption == DesiredFiles \subseteq Seq(DomainInfos)

VARIABLES
    live,        \* the tree in live_dir
    desired,     \* the desired-state file of the next cycle
    pem_valid    \* the domains whose certificate files pass validate_certs

vars == <<live, desired, pem_valid>>

TypeOK ==
    /\ live \in Trees
    /\ desired \in DesiredFiles
    /\ pem_valid \in [Names -> BOOLEAN]

Init == TypeOK

Diff(found) == compute_diff(desired, found, pem_valid)

\* A bug to catch: the live tree is moved away and none takes its place.
Cycle_LosesStaging ==
    /\ \E found \in read_live_configs(live, {}) : has_changes(Diff(found))
    /\ live' = Absent
    /\ UNCHANGED <<desired, pem_valid>>

\* cmd_sync: read, diff, stage, swap and reload, all successful.
Cycle ==
    /\ \E found \in read_live_configs(live, {}) :
         /\ has_changes(Diff(found))
         /\ live' = StagedTree(desired, Diff(found), found)
    /\ UNCHANGED <<desired, pem_valid>>

\* The caller writes another desired-state file.
NewDesired ==
    /\ desired' \in DesiredFiles
    /\ UNCHANGED <<live, pem_valid>>

\* A certificate appears, is damaged or is repaired.
CertChange(n) ==
    /\ pem_valid' = [pem_valid EXCEPT ![n] = ~@]
    /\ UNCHANGED <<live, desired>>

Next ==
    \/ Cycle
    \/ NewDesired
    \/ \E n \in Names : CertChange(n)

\* The caller's scheduler runs sync again and again.
Spec == Init /\ [][Next]_vars /\ WF_vars(Cycle)

-----------------------------------------------------------------------------
Managed(tree) == {n \in Names : tree[n] \in Bodies}
Dropped == Managed(live) \ Managed(live')

\* A cycle takes no config away from a domain that is still desired, not even
\* from one whose certificate does not validate at the moment (differ.rs,
\* "a temporary cert issue must not silently remove a working domain's config").
KeepsDesired == [][Dropped \cap desired_names(desired) = {}]_vars

\* A cycle takes away at most max_removals_per_cycle configs, in name order,
\* and the others it defers are carried forward as they are.
RemovalsCapped ==
    [][/\ Cardinality(Dropped) =< MaxRemovals
       /\ \A n \in Dropped, m \in Managed(live) \ desired_names(desired) :
            m < n => m \in Dropped
       /\ \A m \in Managed(live) \ (Dropped \cup desired_names(desired)) :
            live'[m] = live[m]]_vars

Unique(list) == \A i, j \in DOMAIN list : list[i].name = list[j].name => i = j

\* What sync works towards: every desired domain with a certificate has the
\* config it renders to, and no managed config is left for any other domain,
\* unless the cap defers every removal for ever.
Settled ==
    /\ \A i \in DOMAIN desired :
         pem_valid[desired[i].name] => live[desired[i].name] = desired[i].body
    /\ MaxRemovals > 0 => Managed(live) \subseteq desired_names(desired)

\* Once the desired file (naming each domain once) and the certificates stop
\* changing, repeating sync drains the removals and then stays settled.
Converges ==
    (/\ <>[][UNCHANGED <<desired, pem_valid>>]_vars
     /\ <>[]Unique(desired)) => <>[]Settled
=============================================================================
