--------------------------- MODULE ReconcileProofs ---------------------------
(***************************************************************************)
(* Proofs about Reconcile: what every cycle of sync leaves alone, for any  *)
(* set of domains, any cap and any desired-state files.  Types are kept    *)
(* whatever the names; the rest holds where every name comes back from its *)
(* file name, PlainNames, because a sync takes a live config of any other  *)
(* name for that of another domain.                                        *)
(***************************************************************************)
EXTENDS Reconcile, DifferProofs

\* The diff of a cycle that has read the live configs under their own names.
Plan == Diff(Marked(live))

\* What a cycle computes from a well-typed state, and the tree it stages.
LEMMA CycleStages ==
    ASSUME TypeOK
    PROVE  LET configs == Marked(live)
           IN  /\ desired \in Seq(DomainInfos)
               /\ configs \in ManagedTrees
               /\ Files(configs) = Managed(live)
               /\ \A n \in Managed(live) : configs[n] = live[n]
               /\ Plan \in DiffResults /\ Fits(Plan, desired)
               /\ Plan.to_remove \subseteq Managed(live) \ desired_names(desired)
               /\ Cardinality(Plan.to_remove) =< MaxRemovals
               /\ \A n \in Plan.to_remove, m \in Managed(live) \ desired_names(desired) :
                     m < n => m \in Plan.to_remove
               /\ StagedTree(desired, Plan, configs) \in ManagedTrees
<1> DEFINE configs == Marked(live)
<1>1. live \in Dirs /\ live # Absent
  BY ContentsAssumption DEF TypeOK, Dirs, Trees
<1>2. desired \in Seq(DomainInfos) /\ pem_valid \in [Names -> BOOLEAN]
  BY DesiredAssumption DEF TypeOK
<1>3. configs \in ManagedTrees /\ Files(configs) = Managed(live)
      /\ \A n \in Managed(live) : configs[n] = live[n]
  <2>1. \A n \in Names : n \in Files(configs) <=> n \in Managed(live)
    BY <1>1, LiveConfigs DEF Managed
  <2>2. Files(configs) \subseteq Names /\ Managed(live) \subseteq Names
    BY DEF Files, Managed
  <2> QED  BY <1>1, <2>1, <2>2, LiveConfigs
<1> HIDE DEF configs
<1>4. Plan = compute_diff(desired, configs, pem_valid)
  BY DEF Plan, Diff, configs
<1>5. /\ Plan \in DiffResults /\ Fits(Plan, desired)
      /\ Plan.to_remove \subseteq Managed(live) \ desired_names(desired)
      /\ Cardinality(Plan.to_remove) =< MaxRemovals
      /\ \A n \in Plan.to_remove, m \in Managed(live) \ desired_names(desired) :
            m < n => m \in Plan.to_remove
  BY <1>2, <1>3, <1>4, DiffShape, SeqIsList DEF Fits
<1>6. StagedTree(desired, Plan, configs) \in ManagedTrees
  BY <1>2, <1>3, <1>5, StagedTreeType, SeqIsList
<1> QED  BY <1>2, <1>3, <1>5, <1>6 DEF configs

\* ... which is what every cycle does where the names are plain.
LEMMA PlainCycle ==
    ASSUME PlainNames, TypeOK
    PROVE  /\ read_live_configs(live, {}) = {Marked(live)}
           /\ Cycle => live' = StagedTree(desired, Plan, Marked(live))
<1>1. live \in Dirs
  BY DEF TypeOK, Dirs
<1>2. read_live_configs(live, {}) = {Marked(live)}
  BY <1>1, PlainReads
<1> QED  BY <1>2 DEF Cycle, Plan

\* Every step keeps the types: what is staged is a tree of managed configs.
LEMMA StepTypes == TypeOK /\ [Next]_vars => TypeOK'
<1> SUFFICES ASSUME TypeOK, [Next]_vars PROVE TypeOK'
  OBVIOUS
<1>1. CASE Cycle
  <2>1. PICK found \in read_live_configs(live, {}) :
           live' = StagedTree(desired, Diff(found), found)
    BY <1>1 DEF Cycle
  <2>2. live \in Dirs /\ desired \in Seq(DomainInfos) /\ pem_valid \in [Names -> BOOLEAN]
    BY DesiredAssumption DEF TypeOK, Dirs
  <2>3. found \in ManagedTrees /\ IsList(desired)
    BY <2>2, ReadsOfMarked, SeqIsList
  <2>4. Diff(found) \in DiffResults /\ Fits(Diff(found), desired)
    BY <2>2, <2>3, DiffShape DEF Diff, Fits
  <2>5. live' \in ManagedTrees
    BY <2>1, <2>3, <2>4, StagedTreeType
  <2> QED  BY <1>1, <2>5 DEF Cycle, TypeOK, ManagedTrees, Trees
<1>2. CASE NewDesired
  BY <1>2 DEF NewDesired, TypeOK
<1>3. ASSUME NEW n \in Names, CertChange(n) PROVE TypeOK'
  BY <1>3 DEF CertChange, TypeOK
<1>4. CASE UNCHANGED vars
  BY <1>4 DEF vars, TypeOK
<1> QED  BY <1>1, <1>2, <1>3, <1>4 DEF Next

\* Sync only ever leaves a whole tree in live_dir, whatever list of domains,
\* names given twice included, and whatever cap it is given.
THEOREM TypeCorrect == Spec => []TypeOK
<1>1. Init => TypeOK
  BY DEF Init
<1> QED  BY <1>1, StepTypes, PTL DEF Spec

\* What a cycle drops is what it planned to remove, and every other managed
\* config of a domain that is not desired is carried forward as it is.
LEMMA CycleDrops ==
    ASSUME PlainNames, TypeOK, Cycle
    PROVE  /\ Dropped = Plan.to_remove
           /\ \A n \in Managed(live) \ (Dropped \cup desired_names(desired)) :
                live'[n] = live[n]
<1> DEFINE configs == Marked(live)
           staged == StagedTree(desired, Plan, configs)
<1>1. live' = staged
  BY PlainCycle
<1>2. /\ desired \in Seq(DomainInfos)
      /\ configs \in ManagedTrees
      /\ Files(configs) = Managed(live)
      /\ \A n \in Managed(live) : configs[n] = live[n]
      /\ Plan \in DiffResults /\ Fits(Plan, desired)
      /\ Plan.to_remove \subseteq Managed(live) \ desired_names(desired)
      /\ staged \in ManagedTrees
  BY CycleStages
<1> HIDE DEF configs
<1>3. Files(staged) = Managed(staged)
  <2> HIDE DEF staged
  <2> QED  BY <1>2, ContentsAssumption DEF Files, Managed, ManagedTrees
<1>4. NamesAt(desired, Plan.to_add \cup Plan.to_update) \subseteq desired_names(desired)
  BY <1>2 DEF Fits, desired_names, NamesAt
<1>5. \A n \in Names :
         /\ n \in Files(staged) <=>
               \/ n \in NamesAt(desired, Plan.to_add \cup Plan.to_update)
               \/ n \in Files(configs) \ Plan.to_remove
         /\ n \in Files(configs) \ Plan.to_remove
              /\ n \notin NamesAt(desired, Plan.to_add \cup Plan.to_update)
              => staged[n] = configs[n]
  BY <1>2, StagedTreeKeeps, SeqIsList
<1> HIDE DEF staged
<1>6. Managed(live) \subseteq Names
  BY DEF Managed
<1>7. Dropped = Managed(live) \ Managed(staged)
  BY <1>1 DEF Dropped, Managed
<1>8. \A n \in Managed(live) : n \in Dropped <=> n \in Plan.to_remove
  BY <1>2, <1>3, <1>4, <1>5, <1>6, <1>7
<1>9. Dropped = Plan.to_remove
  BY <1>2, <1>7, <1>8
<1> QED  BY <1>1, <1>2, <1>4, <1>5, <1>6, <1>9

\* Only a cycle drops anything.
LEMMA OnlyCycleDrops ==
    ASSUME [Next]_vars, ~Cycle
    PROVE  live' = live /\ Dropped = {}
  BY DEF Next, NewDesired, CertChange, vars, Dropped, Managed

\* No cycle takes the config of a domain that is still desired (differ.rs, "a
\* temporary cert issue must not silently remove a working domain's config").
THEOREM KeepsDesiredAlways ==
    ASSUME PlainNames
    PROVE  Spec => KeepsDesired
<1>1. ASSUME TypeOK, [Next]_vars
      PROVE  Dropped \cap desired_names(desired) = {}
  <2>1. CASE Cycle
    BY <1>1, <2>1, CycleDrops, CycleStages
  <2>2. CASE ~Cycle
    BY <1>1, <2>2, OnlyCycleDrops
  <2> QED  BY <2>1, <2>2
<1>2. TypeOK /\ [Next]_vars => [Dropped \cap desired_names(desired) = {}]_vars
  BY <1>1
<1> QED  BY <1>2, TypeCorrect, PTL DEF Spec, KeepsDesired

\* Every cycle stays below max_removals_per_cycle, takes the removals in name
\* order, and carries those it defers forward unchanged.
THEOREM RemovalsCappedAlways ==
    ASSUME PlainNames
    PROVE  Spec => RemovalsCapped
<1> DEFINE Capped ==
       /\ Cardinality(Dropped) =< MaxRemovals
       /\ \A n \in Dropped, m \in Managed(live) \ desired_names(desired) :
            m < n => m \in Dropped
       /\ \A m \in Managed(live) \ (Dropped \cup desired_names(desired)) :
            live'[m] = live[m]
<1>1. ASSUME TypeOK, [Next]_vars
      PROVE  Capped
  <2>1. CASE Cycle
    BY <1>1, <2>1, CycleDrops, CycleStages
  <2>2. CASE ~Cycle
    <3>1. live' = live /\ Dropped = {}
      BY <1>1, <2>2, OnlyCycleDrops
    <3>2. Cardinality({}) = 0 /\ 0 =< MaxRemovals
      BY FS_EmptySet, CapAssumption
    <3> QED  BY <3>1, <3>2
  <2> QED  BY <2>1, <2>2
<1>2. TypeOK /\ [Next]_vars => [Capped]_vars
  BY <1>1
<1> HIDE DEF Capped
<1>3. Spec => [][Capped]_vars
  BY <1>2, TypeCorrect, PTL DEF Spec
<1> QED  BY <1>3 DEF RemovalsCapped, Capped

-----------------------------------------------------------------------------
(* What Converges rests on, short of fairness: sync says "no changes" only   *)
(* when there is nothing left to do, and otherwise gets nearer to that.      *)

Undesired == Managed(live) \ desired_names(desired)

\* The removals of a cycle, and that there are some while there can be.
LEMMA CycleRemoves ==
    ASSUME TypeOK
    PROVE  /\ Plan.to_remove = First(Undesired, MaxRemovals)
           /\ MaxRemovals > 0 /\ Undesired # {} => Plan.to_remove # {}
<1>1. Plan = compute_diff(desired, Marked(live), pem_valid)
  BY DEF Plan, Diff
<1>2. Plan.to_remove = First(Files(Marked(live)) \ desired_names(desired),
                             MaxRemovals)
  BY <1>1 DEF compute_diff, to_remove_of
<1>3. Plan.to_remove = First(Undesired, MaxRemovals)
  BY <1>2, CycleStages DEF Undesired
<1>4. Undesired \in SUBSET Names /\ MaxRemovals \in Nat
  BY CapAssumption DEF Undesired, Managed
<1> QED  BY <1>3, <1>4, FirstTakesSome

\* A desired domain that is neither added nor updated has its config already.
LEMMA NothingPending ==
    ASSUME TypeOK, NEW i \in DOMAIN desired, pem_valid[desired[i].name],
           i \notin Plan.to_add \cup Plan.to_update
    PROVE  desired[i].name \in Managed(live) /\ live[desired[i].name] = desired[i].body
<1>1. Plan = compute_diff(desired, Marked(live), pem_valid)
  BY DEF Plan, Diff
<1>2. /\ desired[i].name \in Files(Marked(live))
      /\ Marked(live)[desired[i].name] = desired[i].body
  BY <1>1 DEF compute_diff
<1> QED  BY <1>2, CycleStages

\* Sync reports "no changes" only when every desired domain with a certificate
\* has its config and nothing undesired is left that the cap could let through.
THEOREM QuietOnlyWhenSettled ==
    ASSUME PlainNames
    PROVE  Spec => [](\A found \in read_live_configs(live, {}) :
                        ~has_changes(Diff(found)) => Settled)
<1>1. ASSUME TypeOK, ~has_changes(Plan) PROVE Settled
  <2>1. Plan.to_add = {} /\ Plan.to_update = {} /\ Plan.to_remove = {}
    BY <1>1 DEF has_changes
  <2>2. \A i \in DOMAIN desired :
           pem_valid[desired[i].name] => live[desired[i].name] = desired[i].body
    BY <1>1, <2>1, NothingPending
  <2>3. MaxRemovals > 0 => Managed(live) \subseteq desired_names(desired)
    BY <1>1, <2>1, CycleRemoves DEF Undesired
  <2> QED  BY <2>2, <2>3 DEF Settled
<1> DEFINE Quiet ==
       \A found \in read_live_configs(live, {}) : ~has_changes(Diff(found)) => Settled
<1>2. TypeOK => Quiet
  BY <1>1, PlainCycle DEF Plan
<1> HIDE DEF Quiet
<1>3. Spec => []Quiet
  BY <1>2, TypeCorrect, PTL
<1> QED  BY <1>3 DEF Quiet

\* After a cycle for a file that names each domain once, every desired domain
\* with a certificate has the config it renders to.
LEMMA CycleRenders ==
    ASSUME PlainNames, TypeOK, Cycle, Unique(desired), NEW i \in DOMAIN desired,
           pem_valid[desired[i].name]
    PROVE  live'[desired[i].name] = desired[i].body
<1> DEFINE configs == Marked(live)
           n == desired[i].name
<1>1. /\ desired \in Seq(DomainInfos) /\ IsList(desired)
      /\ Files(configs) = Managed(live) /\ \A m \in Managed(live) : configs[m] = live[m]
      /\ Plan.to_add \in SUBSET DOMAIN desired /\ Plan.to_update \in SUBSET DOMAIN desired
      /\ Plan.to_remove \cap desired_names(desired) = {}
  BY CycleStages, SeqIsList DEF Fits
<1>2. n \in Names /\ n \in desired_names(desired)
  BY <1>1 DEF IsList, DomainInfos, desired_names, NamesAt
<1> HIDE DEF configs
<1>3. live' = StagedTree(desired, Plan, configs)
  BY PlainCycle DEF configs
<1>4. live'[n] = IF n \in NamesAt(desired, Plan.to_update)
                   THEN LastBody(desired, Plan.to_update, n)
                 ELSE IF n \in NamesAt(desired, Plan.to_add)
                   THEN LastBody(desired, Plan.to_add, n)
                 ELSE IF n \in preserved_names(desired, Plan, configs)
                   THEN configs[n]
                 ELSE NoFile
  BY <1>2, <1>3 DEF StagedTree
<1>5. ASSUME NEW positions \in SUBSET DOMAIN desired, n \in NamesAt(desired, positions)
      PROVE  LastBody(desired, positions, n) = desired[i].body
  <2>1. PICK j \in positions :
           desired[j].name = n /\ LastBody(desired, positions, n) = desired[j].body
    BY <1>1, <1>5, LastBodyIsLast
  <2>2. j = i
    BY <2>1 DEF Unique
  <2> QED  BY <2>1, <2>2
<1>6. ASSUME n \notin NamesAt(desired, Plan.to_update), n \notin NamesAt(desired, Plan.to_add)
      PROVE  n \in preserved_names(desired, Plan, configs) /\ configs[n] = desired[i].body
  <2>1. i \notin Plan.to_add \cup Plan.to_update
    BY <1>6 DEF NamesAt
  <2>2. n \in Managed(live) /\ live[n] = desired[i].body
    BY <2>1, NothingPending
  <2> QED  BY <1>1, <1>2, <1>6, <2>2 DEF preserved_names
<1> QED  BY <1>1, <1>4, <1>5, <1>6

\* What a cycle leaves undesired is what was undesired and is not removed yet.
LEMMA CycleDrains ==
    ASSUME PlainNames, TypeOK, Cycle
    PROVE  Undesired' = Undesired \ Plan.to_remove
<1> DEFINE configs == Marked(live)
           staged == StagedTree(desired, Plan, configs)
<1>1. live' = staged /\ desired' = desired
  BY PlainCycle DEF Cycle
<1>2. /\ IsList(desired) /\ configs \in ManagedTrees
      /\ Files(configs) = Managed(live)
      /\ Plan \in DiffResults /\ Fits(Plan, desired)
      /\ staged \in ManagedTrees
  BY CycleStages, SeqIsList
<1> HIDE DEF configs
<1>3. \A n \in Names : n \in Files(staged) <=>
         \/ n \in NamesAt(desired, Plan.to_add \cup Plan.to_update)
         \/ n \in Files(configs) \ Plan.to_remove
  BY <1>2, StagedTreeKeeps
<1>4. NamesAt(desired, Plan.to_add \cup Plan.to_update) \subseteq desired_names(desired)
  BY <1>2 DEF Fits, desired_names, NamesAt
<1> HIDE DEF staged
<1>5. Managed(staged) = Files(staged)
  BY <1>2, ContentsAssumption DEF Files, Managed, ManagedTrees
<1>6. Managed(live') = Managed(staged) /\ desired_names(desired') = desired_names(desired)
  BY <1>1
<1>7. Undesired' = Managed(staged) \ desired_names(desired)
  BY <1>6 DEF Undesired, Managed
<1>8. Managed(staged) \subseteq Names /\ Managed(live) \subseteq Names
  BY DEF Managed
<1> QED  BY <1>2, <1>3, <1>4, <1>5, <1>7, <1>8 DEF Undesired

\* One cycle is enough for everything but the removals, and each cycle takes at
\* least one of those as long as there are any and the cap is not 0: a list of
\* desired domains that does not change is reached after finitely many cycles.
THEOREM CyclesGetNearer ==
    ASSUME PlainNames
    PROVE  Spec => [][Cycle /\ Unique(desired) =>
            /\ \A i \in DOMAIN desired :
                 pem_valid[desired[i].name] => live'[desired[i].name] = desired[i].body
            /\ Undesired' \subseteq Undesired
            /\ MaxRemovals > 0 /\ Undesired # {} => Undesired' # Undesired]_vars
<1> DEFINE Nearer ==
       Cycle /\ Unique(desired) =>
          /\ \A i \in DOMAIN desired :
               pem_valid[desired[i].name] => live'[desired[i].name] = desired[i].body
          /\ Undesired' \subseteq Undesired
          /\ MaxRemovals > 0 /\ Undesired # {} => Undesired' # Undesired
<1>1. ASSUME TypeOK PROVE Nearer
  <2> SUFFICES ASSUME Cycle, Unique(desired) PROVE Nearer
    OBVIOUS
  <2>1. \A i \in DOMAIN desired :
           pem_valid[desired[i].name] => live'[desired[i].name] = desired[i].body
    BY <1>1, CycleRenders
  <2>2. Undesired' = Undesired \ Plan.to_remove /\ Plan.to_remove \subseteq Undesired
    BY <1>1, CycleDrains, CycleStages DEF Undesired
  <2>3. MaxRemovals > 0 /\ Undesired # {} => Plan.to_remove # {}
    BY <1>1, CycleRemoves
  <2> HIDE DEF Undesired
  <2>4. MaxRemovals > 0 /\ Undesired # {} => Undesired' # Undesired
    BY <2>2, <2>3
  <2> QED  BY <2>1, <2>2, <2>4
<1>2. TypeOK => [Nearer]_vars
  BY <1>1
<1> HIDE DEF Nearer
<1>3. Spec => [][Nearer]_vars
  BY <1>2, TypeCorrect, PTL
<1> QED  BY <1>3 DEF Nearer
=============================================================================
