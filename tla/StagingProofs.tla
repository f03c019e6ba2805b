---------------------------- MODULE StagingProofs ----------------------------
(***************************************************************************)
(* Proofs about what a deployment builds: that the loops of                *)
(* build_staging_dir add up to the tree the diff asks for, and what that   *)
(* tree may lack of the generation it replaces.                            *)
(***************************************************************************)
EXTENDS CommandsProofs, DifferProofs

-----------------------------------------------------------------------------
(* The tree half-way: what the loops have written so far.                   *)

\* The staging directory when the names in keep have been carried forward and
\* the positions in add and in update have been written, in this order.
Filled(list, update, add, keep, configs) ==
    [n \in Names |->
        IF n \in NamesAt(list, update) THEN LastBody(list, update, n)
        ELSE IF n \in NamesAt(list, add) THEN LastBody(list, add, n)
        ELSE IF n \in keep THEN configs[n]
        ELSE NoFile]

\* One write to the staging directory.
Put(tree, n, body) == [tree EXCEPT ![n] = body]

\* A loop that reaches position i, after all those of `done`, makes its body the
\* last one for its name, and leaves that of every other name.
LEMMA NextBody ==
    ASSUME NEW list \in Seq(DomainInfos), NEW done \in SUBSET DOMAIN list,
           NEW i \in DOMAIN list, \A j \in done : j < i
    PROVE  /\ NamesAt(list, done \cup {i}) = NamesAt(list, done) \cup {list[i].name}
           /\ \A n \in NamesAt(list, done \cup {i}) :
                 LastBody(list, done \cup {i}, n) =
                    IF n = list[i].name THEN list[i].body ELSE LastBody(list, done, n)
<1>1. NamesAt(list, done \cup {i}) = NamesAt(list, done) \cup {list[i].name}
  BY DEF NamesAt
<1>2. ASSUME NEW n \in NamesAt(list, done \cup {i}), n # list[i].name
      PROVE  LastBody(list, done \cup {i}, n) = LastBody(list, done, n)
  <2>1. {j \in done \cup {i} : list[j].name = n} = {j \in done : list[j].name = n}
    BY <1>2
  <2> QED  BY <2>1 DEF LastBody
<1>3. LastBody(list, done \cup {i}, list[i].name) = list[i].body
  <2>1. done \cup {i} \in SUBSET DOMAIN list /\ done \cup {i} \in SUBSET Nat
    OBVIOUS
  <2>2. list[i].name \in NamesAt(list, done \cup {i})
    BY <1>1
  <2>3. PICK k \in done \cup {i} :
           /\ \A j \in done \cup {i} : list[j].name = list[i].name => j =< k
           /\ LastBody(list, done \cup {i}, list[i].name) = list[k].body
    BY <2>1, <2>2, LastBodyIsLast, SeqIsList
  <2>4. i =< k /\ (k = i \/ k < i)
    BY <2>3
  <2>5. k = i
    BY <2>1, <2>4
  <2> QED  BY <2>3, <2>5
<1> QED  BY <1>1, <1>2, <1>3

\* One turn of the first loop carries one live config forward.
LEMMA FillKept ==
    ASSUME NEW list, NEW keep \in SUBSET Names, NEW n \in Names, NEW configs
    PROVE  Filled(list, {}, {}, keep \cup {n}, configs) =
              Put(Filled(list, {}, {}, keep, configs), n, configs[n])
  BY DEF Filled, NamesAt, Put

\* One turn of the second writes one added domain, over what is there.
LEMMA FillAdded ==
    ASSUME NEW list \in Seq(DomainInfos), NEW add \in SUBSET DOMAIN list,
           NEW i \in DOMAIN list, \A j \in add : j < i, NEW keep, NEW configs
    PROVE  Filled(list, {}, add \cup {i}, keep, configs) =
              Put(Filled(list, {}, add, keep, configs), list[i].name, list[i].body)
<1>1. list[i].name \in Names
  <2>1. list[i] \in DomainInfos
    OBVIOUS
  <2> QED  BY <2>1 DEF DomainInfos
<1>2. NamesAt(list, {}) = {}
  BY DEF NamesAt
<1>3. /\ NamesAt(list, add \cup {i}) = NamesAt(list, add) \cup {list[i].name}
      /\ \A n \in NamesAt(list, add \cup {i}) :
            LastBody(list, add \cup {i}, n) =
               IF n = list[i].name THEN list[i].body ELSE LastBody(list, add, n)
  BY NextBody
<1> QED  BY <1>1, <1>2, <1>3 DEF Filled, Put

\* One turn of the third writes one updated domain, over what is there.
LEMMA FillUpdated ==
    ASSUME NEW list \in Seq(DomainInfos), NEW update \in SUBSET DOMAIN list,
           NEW i \in DOMAIN list, \A j \in update : j < i,
           NEW add, NEW keep, NEW configs
    PROVE  Filled(list, update \cup {i}, add, keep, configs) =
              Put(Filled(list, update, add, keep, configs), list[i].name, list[i].body)
<1>1. list[i].name \in Names
  <2>1. list[i] \in DomainInfos
    OBVIOUS
  <2> QED  BY <2>1 DEF DomainInfos
<1>2. /\ NamesAt(list, update \cup {i}) = NamesAt(list, update) \cup {list[i].name}
      /\ \A n \in NamesAt(list, update \cup {i}) :
            LastBody(list, update \cup {i}, n) =
               IF n = list[i].name THEN list[i].body ELSE LastBody(list, update, n)
  BY NextBody
<1> QED  BY <1>1, <1>2 DEF Filled, Put

-----------------------------------------------------------------------------
(* The inductive invariant.                                                 *)

Building == {"clear", "clearing", "mkdir", "write", "test"}
Swapping == {"drop_prev", "dropping_prev", "swap_out", "swap_in", "reload"}

\* Only sync, up and down read and deploy, and up and down for one domain.
CommandFits ==
    \A p \in Procs :
       pc[p] \in {"read", "diff"} \cup Building \cup Swapping =>
          /\ cmd[p] \in {"sync", "up", "down"}
          /\ cmd[p] \in {"up", "down"} => Len(desired[p]) = 1
          /\ pc[p] = "diff" => cmd[p] = "sync"

\* The DiffResult of the command, in terms of the live configs it has read.
DiffFits ==
    \A p \in Procs :
       pc[p] \in Building \cup Swapping =>
          /\ Fits(diff[p], desired[p])
          /\ cmd[p] = "sync" =>
                /\ diff[p].to_remove \cap desired_names(desired[p]) = {}
                /\ Cardinality(diff[p].to_remove) =< MaxRemovals
                /\ diff[p].to_remove \subseteq Files(snap[p])
          /\ cmd[p] = "up" => diff[p].to_remove = {}
          /\ cmd[p] = "down" =>
                /\ diff[p].to_add = {} /\ diff[p].to_update = {}
                /\ diff[p].to_remove = desired_names(desired[p])
                /\ diff[p].to_remove \subseteq Files(snap[p])

Carried(p) == preserved_names(desired[p], diff[p], snap[p]) \ left[p].keep
Added(p) == diff[p].to_add \ left[p].add
Updated(p) == diff[p].to_update \ left[p].update

\* The three loops run one after the other, each over its positions in order,
\* into a directory that was empty.
LoopsInOrder ==
    \A p \in Procs :
       /\ pc[p] = "mkdir" => fs.staging = Absent
       /\ pc[p] = "write" =>
             /\ left[p].keep \subseteq preserved_names(desired[p], diff[p], snap[p])
             /\ left[p].add \subseteq diff[p].to_add
             /\ left[p].update \subseteq diff[p].to_update
             /\ left[p].keep # {} => Added(p) = {} /\ Updated(p) = {}
             /\ left[p].add # {} => Updated(p) = {}
             /\ \A i \in Added(p), j \in left[p].add : i < j
             /\ \A i \in Updated(p), j \in left[p].update : i < j
             /\ fs.staging = Filled(desired[p], Updated(p), Added(p), Carried(p), snap[p])

\* What was tested is what was to be built.
TestedAsPlanned ==
    \A p \in Procs :
       pc[p] \in Swapping => tested[p] = StagedTree(desired[p], diff[p], snap[p])

Staging ==
    CommandFits /\ DiffFits /\ LoopsInOrder /\ StagedAsPlanned /\ TestedAsPlanned

-----------------------------------------------------------------------------
(* Every step keeps it.                                                     *)

\* A command that has ended has nothing staged to answer for.
LEMMA ExitStaged ==
    ASSUME Typed, NEW p \in Procs, Alone(p), NEW how, Exit(p, how)
    PROVE  Staging'
<1>1. \A q \in Procs : pc'[q] = "idle"
  BY DEF Typed, ControlOK, Exit, Alone
<1> QED
  BY <1>1 DEF Staging, CommandFits, DiffFits, LoopsInOrder, StagedAsPlanned,
              TestedAsPlanned, Building, Swapping

\* A step that leaves the plan alone, and the writes and the staging directory
\* unless the loops are not running, keeps the invariant.
LEMMA SamePlanStaged ==
    ASSUME Typed, Staging, NEW p \in Procs, Alone(p),
           UNCHANGED <<plan, seen, tested>>, pc' \in [Procs -> AllPCs],
           \/ pc'[p] \in {"idle", "discard", "discarding", "drop_live",
                          "dropping_live", "restore", "reload_restored"}
           \/ pc[p] \in Building /\ pc'[p] \in {"clear", "clearing"}
           \/ pc[p] \in Building /\ pc'[p] = "mkdir" /\ fs'.staging = Absent
           \/ pc[p] \in Swapping /\ pc'[p] \in Swapping
    PROVE  Staging'
<1> USE DEF Alone, Staging, Building, Swapping
<1>1. CommandFits'
  BY DEF CommandFits, plan
<1>2. DiffFits'
  BY DEF DiffFits, plan
<1>3. LoopsInOrder' /\ StagedAsPlanned'
  BY DEF LoopsInOrder, StagedAsPlanned, plan
<1>4. TestedAsPlanned'
  BY DEF TestedAsPlanned, plan
<1> QED  BY <1>1, <1>2, <1>3, <1>4

\* remove_dir_all: the directory that is filled next was removed before.
LEMMA RemovalStaged ==
    ASSUME Typed, Staging, NEW p \in Procs, Alone(p), Removal(p)
    PROVE  Staging'
<1>1. PICK at \in DOMAIN Target :
         \/ NothingToRemove(p, at) \/ List(p, at) \/ Unlink(p, at)
         \/ Rmdir(p, at) \/ RmdirFails(p, at)
  BY DEF Removal
<1>2. pc' \in [Procs -> AllPCs]
  BY RemovalTypes DEF Typed, ControlOK
<1>3. CASE NothingToRemove(p, at) \/ List(p, at) \/ Unlink(p, at) \/ Rmdir(p, at)
  <2>1. UNCHANGED <<plan, seen, tested>>
    BY <1>3 DEF NothingToRemove, List, Unlink, Rmdir
  <2>2. /\ at \in {"clear", "discard", "drop_prev", "drop_live"}
        /\ pc[p] \in {at, Unlinking[at]}
        /\ pc'[p] = Unlinking[at] \/ (at \in DOMAIN Cleared /\ pc'[p] = Cleared[at])
    BY <1>3 DEF NothingToRemove, List, Unlink, Rmdir, Goto, Target, Typed, ControlOK
  <2>3. pc'[p] = "mkdir" => fs'.staging = Absent
    BY <1>3, <2>2 DEF NothingToRemove, List, Unlink, Rmdir, Goto, Target, Cleared,
                      Unlinking, Typed, ControlOK, DiskOK, Places
  <2>4. \/ pc'[p] \in {"discarding", "dropping_live", "restore"}
        \/ pc[p] \in Building /\ pc'[p] \in {"clearing", "mkdir"}
        \/ pc[p] \in Swapping /\ pc'[p] \in Swapping
    BY <2>2 DEF Cleared, Unlinking, Building, Swapping
  <2> QED  BY <1>2, <2>1, <2>3, <2>4, SamePlanStaged
<1>4. CASE RmdirFails(p, at)
  BY <1>4, ExitStaged DEF RmdirFails
<1> QED  BY <1>1, <1>3, <1>4

\* The loops of build_staging_dir write what the invariant says they do.
LEMMA BuildStaged ==
    ASSUME Typed, Staging, NEW p \in Procs, Alone(p),
           Mkdir(p) \/ WriteKept(p) \/ WriteAdded(p) \/ WriteUpdated(p)
             \/ WriteFails(p) \/ Built(p)
    PROVE  Staging'
<1> USE DEF Alone, Staging, Building, Swapping
<1> DEFINE kept == preserved_names(desired[p], diff[p], snap[p])
<1>1. pc' \in [Procs -> AllPCs]
  BY BuildTypes DEF Typed, ControlOK
<1>2. /\ pc[p] \in {"mkdir", "write", "test"} => Fits(diff[p], desired[p])
      /\ desired[p] \in Seq(DomainInfos) /\ kept \in SUBSET Names
      /\ left[p] \in Writes
  BY DEF DiffFits, Typed, ControlOK, PlanOK, preserved_names, Files
<1>3. ASSUME UNCHANGED <<plan, seen, tested>>, pc'[p] \in {"write", "test"},
             pc[p] \in {"mkdir", "write"}
      PROVE  CommandFits' /\ DiffFits' /\ TestedAsPlanned'
  BY <1>3 DEF CommandFits, DiffFits, TestedAsPlanned, plan
<1>4. CASE Mkdir(p)
  <2>1. /\ UNCHANGED <<plan, seen, tested>> /\ pc[p] = "mkdir" /\ pc'[p] = "write"
        /\ fs.staging = Absent /\ fs'.staging = EmptyTree
        /\ left'[p] = [keep |-> kept, add |-> diff[p].to_add, update |-> diff[p].to_update]
    BY <1>4 DEF Mkdir, Goto, LoopsInOrder, Included, Typed, ControlOK, DiskOK, PlanOK,
                Places
  <2>2. EmptyTree = Filled(desired[p], {}, {}, {}, snap[p])
    BY DEF EmptyTree, Filled, NamesAt
  <2>3. Carried(p)' = {} /\ Added(p)' = {} /\ Updated(p)' = {}
    BY <2>1 DEF Carried, Added, Updated, plan
  <2>4. /\ left'[p].keep = kept /\ left'[p].add = diff[p].to_add
        /\ left'[p].update = diff[p].to_update
        /\ UNCHANGED <<desired, diff, snap>>
    BY <2>1 DEF plan
  <2>5. fs'.staging = Filled(desired[p], Updated(p)', Added(p)', Carried(p)', snap[p])
    BY <2>1, <2>2, <2>3
  <2>6. LoopsInOrder'
    BY <2>1, <2>3, <2>4, <2>5 DEF LoopsInOrder
  <2> QED  BY <1>3, <2>1, <2>6 DEF StagedAsPlanned
<1>5. ASSUME NEW n, NEW body, NEW rest, Write(p, n, body, rest)
      PROVE  /\ UNCHANGED <<plan, seen, tested>> /\ pc[p] = "write" /\ pc'[p] = "write"
             /\ left'[p] = rest
             /\ fs'.staging = Put(fs.staging, n, body)
  BY <1>5 DEF Write, Typed, DiskOK, PlanOK, Places, Put
<1>6. pc[p] = "write" =>
         /\ left[p].keep \subseteq kept
         /\ left[p].add \subseteq diff[p].to_add
         /\ left[p].update \subseteq diff[p].to_update
         /\ left[p].keep # {} => Added(p) = {} /\ Updated(p) = {}
         /\ left[p].add # {} => Updated(p) = {}
         /\ \A i \in Added(p), j \in left[p].add : i < j
         /\ \A i \in Updated(p), j \in left[p].update : i < j
         /\ fs.staging = Filled(desired[p], Updated(p), Added(p), Carried(p), snap[p])
         /\ Added(p) \in SUBSET DOMAIN desired[p]
         /\ Updated(p) \in SUBSET DOMAIN desired[p]
         /\ left[p].add \in SUBSET DOMAIN desired[p]
         /\ left[p].update \in SUBSET DOMAIN desired[p]
  BY <1>2 DEF LoopsInOrder, Fits, Added, Updated
<1>7. CASE WriteKept(p)
  <2>1. PICK n \in left[p].keep :
           Write(p, n, snap[p][n], [left[p] EXCEPT !.keep = @ \ {n}])
    BY <1>7 DEF WriteKept
  <2>2. /\ UNCHANGED <<plan, seen, tested>> /\ pc[p] = "write" /\ pc'[p] = "write"
        /\ left'[p] = [left[p] EXCEPT !.keep = @ \ {n}]
        /\ fs'.staging = Put(fs.staging, n, snap[p][n])
    BY <1>5, <2>1
  <2>3. /\ left'[p].keep = left[p].keep \ {n}
        /\ left'[p].add = left[p].add /\ left'[p].update = left[p].update
    BY <1>2, <2>2 DEF Writes
  <2>4. Added(p) = {} /\ Updated(p) = {}
    BY <1>6, <2>1, <2>2
  <2>5. /\ Added(p)' = {} /\ Updated(p)' = {} /\ Carried(p)' = Carried(p) \cup {n}
        /\ Carried(p) \in SUBSET Names /\ n \in Names
    BY <1>2, <1>6, <2>1, <2>2, <2>3, <2>4 DEF Added, Updated, Carried, plan
  <2>6. fs'.staging = Filled(desired[p], {}, {}, Carried(p) \cup {n}, snap[p])
    <3>1. Filled(desired[p], {}, {}, Carried(p) \cup {n}, snap[p]) =
             Put(Filled(desired[p], {}, {}, Carried(p), snap[p]), n, snap[p][n])
      BY <2>5, FillKept
    <3> QED  BY <1>6, <2>2, <2>4, <3>1
  <2>7. LoopsInOrder'
    BY <1>6, <2>2, <2>3, <2>5, <2>6 DEF LoopsInOrder, plan
  <2> QED  BY <1>3, <2>2, <2>7 DEF StagedAsPlanned
<1>8. CASE WriteAdded(p)
  <2>1. left[p].keep = {} /\ \E i \in left[p].add :
           /\ \A j \in left[p].add : i =< j
           /\ Write(p, desired[p][i].name, desired[p][i].body,
                    [left[p] EXCEPT !.add = @ \ {i}])
    BY <1>8 DEF WriteAdded
  <2>2. PICK i \in left[p].add :
           /\ \A j \in left[p].add : i =< j
           /\ Write(p, desired[p][i].name, desired[p][i].body,
                    [left[p] EXCEPT !.add = @ \ {i}])
    BY <2>1
  <2>3. /\ UNCHANGED <<plan, seen, tested>> /\ pc[p] = "write" /\ pc'[p] = "write"
        /\ left'[p] = [left[p] EXCEPT !.add = @ \ {i}]
        /\ fs'.staging = Put(fs.staging, desired[p][i].name, desired[p][i].body)
    BY <1>5, <2>2
  <2>4. /\ left'[p].keep = left[p].keep /\ left'[p].add = left[p].add \ {i}
        /\ left'[p].update = left[p].update
    BY <1>2, <2>3 DEF Writes
  <2>5. Updated(p) = {} /\ i \in DOMAIN desired[p] /\ \A k \in Added(p) : k < i
    BY <1>6, <2>2, <2>3
  <2>6. /\ Added(p)' = Added(p) \cup {i} /\ Updated(p)' = {}
        /\ Carried(p)' = Carried(p)
    BY <1>6, <2>2, <2>3, <2>4, <2>5 DEF Added, Updated, Carried, plan
  <2>7. fs'.staging = Filled(desired[p], {}, Added(p) \cup {i}, Carried(p), snap[p])
    <3>1. Filled(desired[p], {}, Added(p) \cup {i}, Carried(p), snap[p]) =
             Put(Filled(desired[p], {}, Added(p), Carried(p), snap[p]),
                 desired[p][i].name, desired[p][i].body)
      <4>1. /\ desired[p] \in Seq(DomainInfos) /\ Added(p) \in SUBSET DOMAIN desired[p]
            /\ i \in DOMAIN desired[p] /\ \A k \in Added(p) : k < i
        BY <1>2, <1>6, <2>3, <2>5
      <4> QED  BY <4>1, FillAdded
    <3> QED  BY <1>6, <2>3, <2>5, <3>1
  <2>8. \A k \in Added(p) \cup {i}, j \in left[p].add \ {i} : k < j
    <3>1. \A j \in left[p].add : j \in Nat
      BY <1>2 DEF Writes
    <3>2. \A j \in left[p].add \ {i} : i < j
      BY <2>2, <3>1
    <3> QED  BY <1>6, <2>3, <3>2
  <2>9. LoopsInOrder'
    BY <1>6, <2>1, <2>3, <2>4, <2>6, <2>7, <2>8 DEF LoopsInOrder, plan
  <2> QED  BY <1>3, <2>3, <2>9 DEF StagedAsPlanned
<1>9. CASE WriteUpdated(p)
  <2>1. /\ left[p].keep = {} /\ left[p].add = {}
        /\ \E i \in left[p].update :
              /\ \A j \in left[p].update : i =< j
              /\ Write(p, desired[p][i].name, desired[p][i].body,
                       [left[p] EXCEPT !.update = @ \ {i}])
    BY <1>9 DEF WriteUpdated
  <2>2. PICK i \in left[p].update :
           /\ \A j \in left[p].update : i =< j
           /\ Write(p, desired[p][i].name, desired[p][i].body,
                    [left[p] EXCEPT !.update = @ \ {i}])
    BY <2>1
  <2>3. /\ UNCHANGED <<plan, seen, tested>> /\ pc[p] = "write" /\ pc'[p] = "write"
        /\ left'[p] = [left[p] EXCEPT !.update = @ \ {i}]
        /\ fs'.staging = Put(fs.staging, desired[p][i].name, desired[p][i].body)
    BY <1>5, <2>2
  <2>4. /\ left'[p].keep = left[p].keep /\ left'[p].add = left[p].add
        /\ left'[p].update = left[p].update \ {i}
    BY <1>2, <2>3 DEF Writes
  <2>5. i \in DOMAIN desired[p] /\ \A k \in Updated(p) : k < i
    BY <1>6, <2>2, <2>3
  <2>6. /\ Added(p)' = Added(p) /\ Updated(p)' = Updated(p) \cup {i}
        /\ Carried(p)' = Carried(p)
    BY <1>6, <2>2, <2>3, <2>4, <2>5 DEF Added, Updated, Carried, plan
  <2>7. fs'.staging =
           Filled(desired[p], Updated(p) \cup {i}, Added(p), Carried(p), snap[p])
    <3>1. Filled(desired[p], Updated(p) \cup {i}, Added(p), Carried(p), snap[p]) =
             Put(Filled(desired[p], Updated(p), Added(p), Carried(p), snap[p]),
                 desired[p][i].name, desired[p][i].body)
      <4>1. /\ desired[p] \in Seq(DomainInfos) /\ Updated(p) \in SUBSET DOMAIN desired[p]
            /\ i \in DOMAIN desired[p] /\ \A k \in Updated(p) : k < i
        BY <1>2, <1>6, <2>3, <2>5
      <4> QED  BY <4>1, FillUpdated
    <3> QED  BY <1>6, <2>3, <3>1
  <2>8. \A k \in Updated(p) \cup {i}, j \in left[p].update \ {i} : k < j
    <3>1. \A j \in left[p].update : j \in Nat
      BY <1>2 DEF Writes
    <3>2. \A j \in left[p].update \ {i} : i < j
      BY <2>2, <3>1
    <3> QED  BY <1>6, <2>3, <3>2
  <2>9. LoopsInOrder'
    BY <1>6, <2>1, <2>3, <2>4, <2>6, <2>7, <2>8 DEF LoopsInOrder, plan
  <2> QED  BY <1>3, <2>3, <2>9 DEF StagedAsPlanned
<1>10. CASE WriteFails(p)
  BY <1>10, ExitStaged DEF WriteFails
<1>11. CASE Built(p)
  <2>1. /\ UNCHANGED <<plan, seen, tested, fs>> /\ pc[p] = "write" /\ pc'[p] = "test"
        /\ left[p] = NoWrites
    BY <1>11 DEF Built, Goto, Typed, ControlOK
  <2>2. Added(p) = diff[p].to_add /\ Updated(p) = diff[p].to_update /\ Carried(p) = kept
    BY <2>1 DEF NoWrites, Added, Updated, Carried
  <2>3. fs.staging = Filled(desired[p], diff[p].to_update, diff[p].to_add, kept, snap[p])
    BY <1>6, <2>1, <2>2
  <2>4. fs.staging = StagedTree(desired[p], diff[p], snap[p])
    BY <2>3 DEF Filled, StagedTree
  <2>5. LoopsInOrder' /\ StagedAsPlanned'
    BY <2>1, <2>4 DEF LoopsInOrder, StagedAsPlanned, plan
  <2> QED  BY <1>3, <2>1, <2>5
<1> QED  BY <1>4, <1>7, <1>8, <1>9, <1>10, <1>11

\* Testing and swapping work on what was built; after a reload that was refused
\* nothing of it is looked at again.
LEMMA DeployStaged ==
    ASSUME Typed, Deploying, Staging, NEW p \in Procs, Alone(p),
           \/ TestPasses(p) \/ TestFails(p) \/ Discarded(p) \/ LeftStaging(p)
           \/ SwapOut(p) \/ SwapIn(p) \/ SwapFails(p)
           \/ Reload(p) \/ ReloadFails(p)
           \/ Restore(p) \/ RestoreFails(p) \/ ReloadRestored(p)
           \/ Interrupted(p)
    PROVE  Staging'
<1>1. pc' \in [Procs -> AllPCs]
  BY DeployTypes DEF Typed, ControlOK
<1>2. CASE TestPasses(p)
  <2> USE DEF Alone, Staging, Building, Swapping
  <2>1. /\ pc[p] = "test" /\ pc'[p] = "drop_prev"
        /\ UNCHANGED <<plan, seen, fs>> /\ tested'[p] = Included(fs.staging)
    BY <1>2 DEF TestPasses, Goto, Typed, ControlOK
  <2>2. tested'[p] = StagedTree(desired[p], diff[p], snap[p])
    BY <2>1 DEF Included, Deploying, SwapReady, StagedAsPlanned
  <2>3. CommandFits' /\ DiffFits'
    BY <2>1 DEF CommandFits, DiffFits, plan
  <2>4. LoopsInOrder' /\ StagedAsPlanned' /\ TestedAsPlanned'
    BY <2>1, <2>2 DEF LoopsInOrder, StagedAsPlanned, TestedAsPlanned, plan
  <2> QED  BY <2>3, <2>4
<1>3. CASE TestFails(p) \/ SwapOut(p) \/ SwapIn(p) \/ ReloadFails(p) \/ Restore(p)
  <2>1. UNCHANGED <<plan, seen, tested>>
    BY <1>3 DEF TestFails, SwapOut, SwapIn, ReloadFails, Restore
  <2>2. \/ pc'[p] \in {"discard", "drop_live", "reload_restored"}
        \/ pc[p] \in Swapping /\ pc'[p] \in Swapping
    BY <1>3 DEF TestFails, SwapOut, SwapIn, ReloadFails, Restore, Goto, Swapping,
                Typed, ControlOK
  <2> QED  BY <1>1, <2>1, <2>2, SamePlanStaged
<1>4. CASE \/ Discarded(p) \/ LeftStaging(p) \/ SwapFails(p) \/ Reload(p)
           \/ RestoreFails(p) \/ ReloadRestored(p) \/ Interrupted(p)
  BY <1>4, ExitStaged
  DEF Discarded, LeftStaging, SwapFails, Reload, RestoreFails, ReloadRestored, Interrupted
<1> QED  BY <1>2, <1>3, <1>4

\* up, down and sync hand a diff to the build that fits what they have read.
LEMMA CommandStaged ==
    ASSUME Typed, Deploying, Staging, NEW p \in Procs, Alone(p),
           \/ Begin(p)
           \/ SyncRead(p) \/ UpRead(p) \/ DownRead(p) \/ DownNotLive(p)
           \/ SyncDiff(p) \/ SyncNoChanges(p)
           \/ AddCopyChain(p) \/ AddCopyKey(p) \/ AddConf(p)
           \/ AddCopyTorn(p) \/ AddConfTorn(p)
    PROVE  Staging'
<1> USE DEF Alone, Staging, Building, Swapping
<1>1. ASSUME NEW c, NEW list, NEW at \in {"read", "copy_chain", "drop_live"},
             Start(p, c, list, at),
             at = "read" => /\ c \in {"sync", "up", "down"}
                            /\ c \in {"up", "down"} => Len(list) = 1
      PROVE  Staging'
  <2>1. pc'[p] = at /\ cmd'[p] = c /\ desired'[p] = list
    BY <1>1 DEF Start, Goto, Typed, ControlOK
  <2>2. CommandFits'
    BY <1>1, <2>1 DEF CommandFits
  <2> QED
    BY <1>1, <2>1, <2>2 DEF DiffFits, LoopsInOrder, StagedAsPlanned, TestedAsPlanned
<1>2. \A n : Len(<<InUse(n)>>) = 1
  OBVIOUS
<1>3. CASE StartSync(p) \/ StartUp(p) \/ StartDown(p) \/ StartAdd(p) \/ StartRollback(p)
  BY <1>1, <1>2, <1>3 DEF StartSync, StartUp, StartDown, StartAdd, StartRollback
<1>4. CASE Remove(p)
  <2>1. pc[p] = "idle" /\ UNCHANGED pc
    BY <1>4 DEF Remove
  <2> QED
    BY <2>1 DEF CommandFits, DiffFits, LoopsInOrder, StagedAsPlanned, TestedAsPlanned
<1>5. ASSUME NEW to \in {"diff", "clear"}, NEW found, ReadLive(p, to, found),
             to = "diff" => cmd[p] = "sync"
      PROVE  /\ pc[p] = "read" /\ pc'[p] = to /\ UNCHANGED <<cmd, desired>>
             /\ snap'[p] = found
             /\ CommandFits' /\ LoopsInOrder' /\ StagedAsPlanned' /\ TestedAsPlanned'
  <2>1. /\ pc[p] = "read" /\ pc'[p] = to /\ UNCHANGED <<cmd, desired>>
        /\ snap'[p] = found
    BY <1>5 DEF ReadLive, Goto, Typed, ControlOK, PlanOK
  <2> QED
    BY <1>5, <2>1 DEF CommandFits, LoopsInOrder, StagedAsPlanned, TestedAsPlanned
<1>6. CASE SyncRead(p)
  BY <1>5, <1>6 DEF SyncRead, DiffFits
<1>7. ASSUME cmd[p] \in {"up", "down"}, pc[p] = "read"
      PROVE  /\ DOMAIN desired[p] = {1}
             /\ desired_names(desired[p]) = {desired[p][1].name}
  <2>1. Len(desired[p]) = 1 /\ desired[p] \in Seq(DomainInfos)
    BY <1>7 DEF CommandFits, Typed, ControlOK
  <2>2. DOMAIN desired[p] = {1}
    BY <2>1
  <2> QED  BY <2>2 DEF desired_names, NamesAt
<1>8. CASE UpRead(p)
  <2>1. PICK found \in Readings :
        /\ cmd[p] = "up" /\ ReadLive(p, "clear", found)
        /\ diff'[p].to_add \cup diff'[p].to_update \subseteq {1}
        /\ diff'[p].to_remove = {}
    BY <1>8 DEF UpRead, Typed, PlanOK
  <2>2. DiffFits'
    BY <1>5, <1>7, <2>1 DEF DiffFits, Fits
  <2> QED  BY <1>5, <2>1, <2>2
<1>9. CASE DownRead(p)
  <2>1. PICK found \in Readings :
        /\ cmd[p] = "down" /\ ReadLive(p, "clear", found)
        /\ diff'[p].to_add = {} /\ diff'[p].to_update = {}
        /\ diff'[p].to_remove = {desired[p][1].name}
        /\ desired[p][1].name \in Files(found)
    BY <1>9 DEF DownRead, Typed, PlanOK, NoDiff
  <2>2. /\ pc[p] = "read" /\ pc'[p] = "clear" /\ UNCHANGED <<cmd, desired>>
        /\ snap'[p] = found
    BY <1>5, <2>1
  <2>3. desired_names(desired[p]) = {desired[p][1].name}
    BY <1>7, <2>1, <2>2
  <2>4. \A q \in Procs : q = p
    BY DEF Alone
  <2>5. DiffFits'
    BY <2>1, <2>2, <2>3, <2>4 DEF DiffFits, Fits
  <2> QED  BY <1>5, <2>1, <2>5
<1>10. CASE SyncDiff(p)
  <2> DEFINE d == compute_diff(desired[p], snap[p], pem_valid)
  <2>1. /\ pc[p] = "diff" /\ pc'[p] = "clear" /\ diff'[p] = d
        /\ UNCHANGED <<cmd, desired, snap, seen, fs, left, tested>>
    BY <1>10 DEF SyncDiff, Goto, Typed, ControlOK, PlanOK
  <2>2. desired[p] \in Seq(DomainInfos) /\ snap[p] \in ManagedTrees
        /\ pem_valid \in [Names -> BOOLEAN]
    BY DEF Typed, ControlOK, PlanOK, pem_valid
  <2> HIDE DEF d
  <2>3. /\ Fits(d, desired[p])
        /\ d.to_remove \subseteq Files(snap[p]) \ desired_names(desired[p])
        /\ Cardinality(d.to_remove) =< MaxRemovals
    BY <2>2, DiffShape, SeqIsList DEF d, Fits
  <2>4. cmd[p] = "sync"
    BY <2>1 DEF CommandFits
  <2>5. DiffFits'
    BY <2>1, <2>3, <2>4 DEF DiffFits
  <2> QED
    BY <2>1, <2>5 DEF CommandFits, LoopsInOrder, StagedAsPlanned, TestedAsPlanned
<1>11. CASE AddCopyChain(p) \/ AddCopyKey(p)
  <2>1. pc'[p] \in {"copy_key", "write_conf"}
    BY <1>11 DEF AddCopyChain, AddCopyKey, Goto, Typed, ControlOK
  <2> QED
    BY <2>1 DEF CommandFits, DiffFits, LoopsInOrder, StagedAsPlanned, TestedAsPlanned
<1>12. CASE \/ DownNotLive(p) \/ SyncNoChanges(p) \/ AddConf(p)
            \/ AddCopyTorn(p) \/ AddConfTorn(p)
  BY <1>12, ExitStaged DEF DownNotLive, SyncNoChanges, AddConf, AddCopyTorn, AddConfTorn
<1> QED  BY <1>3, <1>4, <1>5, <1>6, <1>8, <1>9, <1>10, <1>11, <1>12 DEF Begin

\* Every step of a command keeps the invariant, when it is the only one.
LEMMA CommandKeepsStaging ==
    ASSUME Typed, Deploying, Staging, NEW p \in Procs, Alone(p),
           Begin(p) \/ Step(p) \/ Cut(p)
    PROVE  Staging'
  BY CommandStaged, RemovalStaged, BuildStaged, DeployStaged DEF Step, StagerStep, Cut

\* With one invocation at a time, every step keeps the invariant.
LEMMA StepStaged ==
    ASSUME OneAtATime, Typed, Deploying, Staging, [Next]_vars
    PROVE  Staging'
<1>1. ASSUME NEW p \in Procs, Begin(p) \/ Step(p) \/ Cut(p) PROVE Staging'
  <2>1. Alone(p)
    BY DEF OneAtATime, Alone
  <2> QED  BY <1>1, <2>1, CommandKeepsStaging
<1>2. CASE UNCHANGED <<fs, pc, plan, left, seen, tested>>
  BY <1>2 DEF plan, Staging, CommandFits, DiffFits, LoopsInOrder, StagedAsPlanned,
     TestedAsPlanned, Carried, Added, Updated
<1>3. ASSUME NEW n \in Volatile, CertChange(n) PROVE Staging'
  BY <1>2, <1>3 DEF CertChange
<1>4. CASE UNCHANGED vars
  BY <1>2, <1>4 DEF vars, plan
<1> QED  BY <1>1, <1>3, <1>4 DEF Next

\* The invariant holds in every state, with one invocation at a time.
LEMMA StagingAlways ==
    ASSUME OneAtATime
    PROVE  Spec => []Staging
<1>1. Init => Staging
  BY DEF Init, Staging, CommandFits, DiffFits, LoopsInOrder, StagedAsPlanned,
         TestedAsPlanned, Building, Swapping
<1> QED  BY <1>1, StepStaged, TypedAlways, DeployingAlways, PTL DEF Spec

\* With one invocation at a time, whatever a killed run has left in the staging
\* directory, what nginx -t sees is exactly the tree the diff asks for.
THEOREM StagedAsPlannedAlways ==
    ASSUME OneAtATime
    PROVE  Spec => []StagedAsPlanned
  BY StagingAlways, PTL DEF Staging

\* What the tree that was tested lacks of the one it replaces, in a state in
\* which the invariants hold.
LEMMA LossesOfTested ==
    ASSUME Typed, Deploying, Staging
    PROVE  LossesBounded
<1> SUFFICES ASSUME NEW p \in Procs, pc[p] = "reload"
             PROVE  LET lost == Files(snap[p]) \ Managed(fs.live)
                    IN  IF cmd[p] = "sync"
                          THEN /\ lost \cap desired_names(desired[p]) = {}
                               /\ Cardinality(lost) =< MaxRemovals
                          ELSE /\ lost = IF cmd[p] = "down"
                                           THEN desired_names(desired[p]) ELSE {}
                               /\ \A n \in Files(snap[p]) \ desired_names(desired[p]) :
                                    fs.live[n] = snap[p][n]
  BY DEF LossesBounded
<1> DEFINE d == diff[p]
           staged == StagedTree(desired[p], d, snap[p])
           lost == Files(snap[p]) \ Managed(fs.live)
<1>1. /\ desired[p] \in Seq(DomainInfos) /\ d \in DiffResults
      /\ snap[p] \in ManagedTrees /\ seen[p] \in Dirs
  BY DEF Typed, ControlOK, PlanOK
<1>2. /\ Fits(d, desired[p])
      /\ cmd[p] = "sync" =>
            /\ d.to_remove \cap desired_names(desired[p]) = {}
            /\ Cardinality(d.to_remove) =< MaxRemovals
            /\ d.to_remove \subseteq Files(snap[p])
      /\ cmd[p] = "up" => d.to_remove = {}
      /\ cmd[p] = "down" =>
            /\ d.to_add = {} /\ d.to_update = {}
            /\ d.to_remove = desired_names(desired[p])
            /\ d.to_remove \subseteq Files(snap[p])
      /\ cmd[p] \in {"sync", "up", "down"}
  BY DEF Staging, DiffFits, CommandFits, Building, Swapping
<1>3. fs.live = staged
  BY DEF Deploying, OnlyTestedSwappedIn, Staging, TestedAsPlanned, Swapping
<1>4. staged \in ManagedTrees
  BY <1>1, <1>2, StagedTreeType, SeqIsList
<1>4a. IsList(desired[p])
  BY <1>1, SeqIsList
<1> HIDE DEF d, staged
<1>5. Managed(fs.live) = Files(staged)
  BY <1>3, <1>4, ContentsAssumption DEF Managed, ManagedTrees, Files, Marked
<1>7. \A n \in Names :
         /\ n \in Files(staged) <=>
               \/ n \in NamesAt(desired[p], d.to_add \cup d.to_update)
               \/ n \in Files(snap[p]) \ d.to_remove
         /\ n \in Files(snap[p]) \ d.to_remove
              /\ n \notin NamesAt(desired[p], d.to_add \cup d.to_update)
              => staged[n] = snap[p][n]
  BY <1>1, <1>2, <1>4a, StagedTreeKeeps DEF staged
<1>8. NamesAt(desired[p], d.to_add \cup d.to_update) \subseteq desired_names(desired[p])
  BY <1>2 DEF Fits, desired_names, NamesAt
<1>9. Files(snap[p]) \subseteq Names /\ d.to_remove \subseteq Names
  BY <1>1 DEF Files, DiffResults
<1>10. lost = {n \in Files(snap[p]) : n \in d.to_remove
                 /\ n \notin NamesAt(desired[p], d.to_add \cup d.to_update)}
  BY <1>5, <1>7, <1>9
<1> HIDE DEF lost
<1>11. CASE cmd[p] = "sync"
  <2>1. lost = d.to_remove
    BY <1>2, <1>8, <1>10, <1>11
  <2> QED  BY <1>2, <1>11, <2>1 DEF lost
<1>12. \A n \in Files(snap[p]) \ desired_names(desired[p]) :
          n \notin d.to_remove => fs.live[n] = snap[p][n]
  BY <1>3, <1>7, <1>8, <1>9
<1>13. CASE cmd[p] = "up"
  BY <1>2, <1>10, <1>12, <1>13 DEF lost
<1>14. CASE cmd[p] = "down"
  <2>1. NamesAt(desired[p], d.to_add \cup d.to_update) = {}
    BY <1>2, <1>14 DEF NamesAt
  <2>2. lost = desired_names(desired[p])
    BY <1>2, <1>10, <1>14, <2>1
  <2> QED  BY <1>2, <1>12, <1>14, <2>2 DEF lost
<1> QED  BY <1>2, <1>11, <1>13, <1>14

\* With one invocation at a time, a new generation lacks at most
\* max_removals_per_cycle of the configs that were read and none of a desired
\* domain after a sync, and after up and down nothing but the domain they name,
\* whatever could not be read and whatever names were found for the rest.
THEOREM LossesBoundedAlways ==
    ASSUME OneAtATime
    PROVE  Spec => []LossesBounded
  BY LossesOfTested, TypedAlways, DeployingAlways, StagingAlways, PTL
=============================================================================
