--------------------------- MODULE CommandsProofs ---------------------------
(***************************************************************************)
(* Proofs about Commands, for every set of domains, renderings, processes  *)
(* and desired files, and for any bound on the faults.                     *)
(***************************************************************************)
EXTENDS Commands, TLAPS

-----------------------------------------------------------------------------
(* Type correctness.                                                        *)

\* What a process that exits leaves in its own variables has the right type
\* (every error path and every return of main.rs).
LEMMA ExitTypes ==
    ASSUME Typed, NEW p \in Procs, NEW how \in AllOutcomes, Exit(p, how)
    PROVE  ControlOK' /\ PlanOK'
<1>1. EmptyTree \in ManagedTrees /\ NoDiff \in DiffResults /\ NoWrites \in Writes
  BY DEF EmptyTree, ManagedTrees, NoDiff, DiffResults, NoWrites, Writes
<1>2. Absent \in Dirs /\ "idle" \in AllPCs /\ <<>> \in Seq(DomainInfos)
  BY DEF Dirs, PCs, AllPCs
<1>3. ControlOK'
  BY <1>2 DEF Typed, ControlOK, Exit, AllCmds
<1>4. PlanOK'
  BY <1>1 DEF Typed, PlanOK, ControlOK, Exit
<1> QED  BY <1>3, <1>4

\* What read_live_configs finds, and what an include brings in, are trees.
LEMMA LiveConfigsType ==
    ASSUME NEW dir \in Dirs
    PROVE  /\ Marked(dir) \in ManagedTrees
           /\ \A skipped : read_live_configs(dir, skipped) \subseteq ManagedTrees
           /\ Included(dir) \in Trees
<1>1. Marked(dir) \in ManagedTrees
  BY DEF Marked, ManagedTrees
<1>2. \A f \in Files(Marked(dir)) : Marked(dir)[f] \in Bodies
  BY <1>1 DEF Files, ManagedTrees
<1>3. ASSUME NEW skipped, NEW found \in read_live_configs(dir, skipped)
      PROVE  found \in ManagedTrees
  BY <1>2 DEF read_live_configs, ManagedTrees
<1>4. Included(dir) \in Trees
  BY DEF Dirs, Trees, Included, EmptyTree
<1> QED  BY <1>1, <1>3, <1>4

\* A rename leaves the three directories what they are, trees or absent.
LEMMA MoveTypes ==
    ASSUME DiskOK, NEW from \in Places, NEW to \in Places, Move(from, to)
    PROVE  fs' \in [Places -> Dirs]
  BY DEF DiskOK, Move, Dirs

\* The first state has the types.
LEMMA InitTypes == Init => Typed
<1> SUFFICES ASSUME Init PROVE Typed
  OBVIOUS
<1>1. EmptyTree \in ManagedTrees /\ NoDiff \in DiffResults /\ NoWrites \in Writes
  BY DEF EmptyTree, ManagedTrees, NoDiff, DiffResults, NoWrites, Writes
<1>2. PICK dir \in InitialLive :
         /\ fs = [live |-> dir, staging |-> Absent, prev |-> Absent]
         /\ running = Included(dir)
  BY DEF Init
<1>3. DiskOK
  <2>1. certs \in [Names -> CertStates]
    BY CmdsAssumption DEF Init
  <2> QED  BY <1>2, <2>1, LiveConfigsType, CmdsAssumption, FaultsAssumption
           DEF DiskOK, Init, Places, Dirs
<1>4. ControlOK
  BY DEF Init, ControlOK, Dirs, PCs, AllPCs, Outcomes, AllOutcomes, AllCmds
<1>5. PlanOK
  BY <1>1 DEF Init, PlanOK
<1> QED  BY <1>3, <1>4, <1>5 DEF Typed

\* A step of a removal keeps the types: it shrinks or removes a directory.
LEMMA RemovalTypes ==
    ASSUME Typed, NEW p \in Procs, Removal(p)
    PROVE  Typed'
<1> USE DEF Typed
<1>1. PICK at \in DOMAIN Target :
         \/ NothingToRemove(p, at) \/ List(p, at) \/ Unlink(p, at)
         \/ Rmdir(p, at) \/ RmdirFails(p, at)
  BY DEF Removal
<1>2. /\ Target[at] \in Places
      /\ at \in DOMAIN Cleared => Cleared[at] \in {"mkdir", "swap_out", "restore"}
      /\ at \in DOMAIN Unlinking
      /\ Unlinking[at] \in {"clearing", "discarding", "dropping_prev", "dropping_live"}
      /\ Cleared[at] = "mkdir" /\ at \in DOMAIN Cleared => at = "clear"
      /\ Unlinking[at] = "clearing" <=> at = "clear"
  BY DEF Target, Cleared, Unlinking, Places
<1>3. CASE NothingToRemove(p, at)
  <2>1. DiskOK' /\ ControlOK'
    BY <1>2, <1>3 DEF NothingToRemove, Goto, plan, DiskOK, ControlOK, PCs, AllPCs
  <2>2. PlanOK'
    BY <1>2, <1>3 DEF NothingToRemove, Goto, plan, PlanOK, ControlOK
  <2> QED  BY <2>1, <2>2
<1>4. CASE List(p, at)
  <2>1. DiskOK' /\ ControlOK'
    BY <1>2, <1>4 DEF List, Goto, plan, DiskOK, ControlOK, PCs, AllPCs, Files
  <2>2. PlanOK'
    BY <1>2, <1>4 DEF List, Goto, plan, PlanOK, ControlOK
  <2> QED  BY <2>1, <2>2
<1>5. CASE Unlink(p, at)
  <2>1. fs' \in [Places -> Dirs]
    BY <1>2, <1>5 DEF Unlink, DiskOK, Dirs, Trees, ControlOK
  <2>2. DiskOK' /\ ControlOK'
    BY <2>1, <1>5 DEF Unlink, plan, DiskOK, ControlOK
  <2>3. PlanOK'
    BY <1>5 DEF Unlink, plan, PlanOK
  <2> QED  BY <2>2, <2>3
<1>6. CASE Rmdir(p, at)
  <2>1. DiskOK' /\ ControlOK'
    BY <1>2, <1>6 DEF Rmdir, Goto, plan, DiskOK, ControlOK, PCs, AllPCs, Dirs
  <2>2. PlanOK'
    BY <1>2, <1>6 DEF Rmdir, Goto, plan, PlanOK, ControlOK
  <2> QED  BY <2>1, <2>2
<1>7. CASE RmdirFails(p, at)
  <2>1. DiskOK'
    BY <1>7 DEF RmdirFails, DiskOK
  <2> QED  BY <2>1, <1>7, ExitTypes DEF RmdirFails, Outcomes, AllOutcomes
<1> QED  BY <1>1, <1>3, <1>4, <1>5, <1>6, <1>7

\* One turn of a loop of build_staging_dir writes a rendering of a domain and
\* leaves that much less to write.
LEMMA WriteOfTypes ==
    ASSUME Typed, NEW p \in Procs, WriteKept(p) \/ WriteAdded(p) \/ WriteUpdated(p)
    PROVE  \E n \in Names, body \in Bodies, rest \in Writes :
              /\ Write(p, n, body, rest)
              /\ rest.keep \subseteq left[p].keep
              /\ rest.add \subseteq left[p].add
              /\ rest.update \subseteq left[p].update
<1> USE DEF Typed
<1>1. CASE WriteKept(p)
  <2>1. PICK n \in left[p].keep :
           Write(p, n, snap[p][n], [left[p] EXCEPT !.keep = @ \ {n}])
    BY <1>1 DEF WriteKept
  <2>2. n \in Names /\ snap[p][n] \in Bodies
    BY <2>1 DEF PlanOK, Write, Files, ManagedTrees
  <2>3. [left[p] EXCEPT !.keep = @ \ {n}] \in Writes
    BY <2>1 DEF PlanOK, Writes
  <2> QED  BY <2>1, <2>2, <2>3 DEF PlanOK, Writes
<1>2. CASE WriteAdded(p)
  <2>1. PICK i \in left[p].add :
           Write(p, desired[p][i].name, desired[p][i].body,
                 [left[p] EXCEPT !.add = @ \ {i}])
    BY <1>2 DEF WriteAdded
  <2>2. desired[p][i] \in DomainInfos
    BY <2>1 DEF PlanOK, ControlOK, Write
  <2>3. [left[p] EXCEPT !.add = @ \ {i}] \in Writes
    BY <2>1 DEF PlanOK, Writes
  <2> QED  BY <2>1, <2>2, <2>3 DEF PlanOK, Writes, DomainInfos
<1>3. CASE WriteUpdated(p)
  <2>1. PICK i \in left[p].update :
           Write(p, desired[p][i].name, desired[p][i].body,
                 [left[p] EXCEPT !.update = @ \ {i}])
    BY <1>3 DEF WriteUpdated
  <2>2. desired[p][i] \in DomainInfos
    BY <2>1 DEF PlanOK, ControlOK, Write
  <2>3. [left[p] EXCEPT !.update = @ \ {i}] \in Writes
    BY <2>1 DEF PlanOK, Writes
  <2> QED  BY <2>1, <2>2, <2>3 DEF PlanOK, Writes, DomainInfos
<1> QED  BY <1>1, <1>2, <1>3

\* Building the staging directory keeps the types.
LEMMA BuildTypes ==
    ASSUME Typed, NEW p \in Procs,
           Mkdir(p) \/ WriteKept(p) \/ WriteAdded(p) \/ WriteUpdated(p)
             \/ WriteFails(p) \/ Built(p)
    PROVE  Typed'
<1> USE DEF Typed
<1>1. CASE Mkdir(p)
  <2>1. ControlOK'
    BY <1>1 DEF Mkdir, Goto, plan, ControlOK, PCs, AllPCs
  <2>2. fs' \in [Places -> Dirs]
    BY <1>1, LiveConfigsType DEF Mkdir, DiskOK, Dirs, Places
  <2>3. DiskOK'
    BY <2>2, <1>1 DEF Mkdir, DiskOK
  <2>4. preserved_names(desired[p], diff[p], snap[p]) \subseteq Files(snap[p])
    BY DEF preserved_names
  <2>5. PlanOK'
    BY <2>4, <1>1 DEF Mkdir, Goto, plan, PlanOK, ControlOK, Writes, DiffResults, Files
  <2> QED  BY <2>1, <2>3, <2>5
<1>2. ASSUME NEW n \in Names, NEW body \in Bodies, NEW rest \in Writes,
             Write(p, n, body, rest),
             rest.keep \subseteq left[p].keep, rest.add \subseteq left[p].add,
             rest.update \subseteq left[p].update
      PROVE  Typed'
  <2>1. fs' \in [Places -> Dirs]
    BY <1>2 DEF Write, DiskOK, Dirs, Trees, Places
  <2>2. DiskOK' /\ ControlOK'
    BY <2>1, <1>2 DEF Write, plan, DiskOK, ControlOK
  <2>3. PlanOK'
    BY <1>2 DEF Write, plan, PlanOK
  <2> QED  BY <2>2, <2>3
<1>3. CASE WriteKept(p) \/ WriteAdded(p) \/ WriteUpdated(p)
  BY <1>2, <1>3, WriteOfTypes
<1>4. CASE WriteFails(p)
  BY <1>4, ExitTypes DEF WriteFails, DiskOK, Outcomes, AllOutcomes
<1>5. CASE Built(p)
  BY <1>5 DEF Built, Goto, plan, DiskOK, ControlOK, PlanOK, PCs, AllPCs
<1> QED  BY <1>1, <1>3, <1>4, <1>5

\* Testing, swapping, reloading and rolling back keep the types.
LEMMA DeployTypes ==
    ASSUME Typed, NEW p \in Procs,
           \/ TestPasses(p) \/ TestFails(p) \/ Discarded(p) \/ LeftStaging(p)
           \/ SwapOut(p) \/ SwapIn(p) \/ SwapFails(p)
           \/ Reload(p) \/ ReloadFails(p)
           \/ Restore(p) \/ RestoreFails(p) \/ ReloadRestored(p)
           \/ Interrupted(p)
    PROVE  Typed'
<1> USE DEF Typed
<1> DEFINE Moves == fs' \in [Places -> Dirs]
<1>1. CASE TestPasses(p)
  <2>1. Included(fs.staging) \in Dirs
    BY LiveConfigsType DEF DiskOK, Places, Dirs
  <2> QED  BY <2>1, <1>1 DEF TestPasses, Goto, plan, DiskOK, ControlOK, PlanOK, PCs, AllPCs
<1>2. CASE TestFails(p)
  <2>1. faults' \in 0..MaxFaults
    BY <1>2, FaultsAssumption DEF TestFails, Fault, DiskOK
  <2> QED  BY <2>1, <1>2 DEF TestFails, Goto, plan, DiskOK, ControlOK, PlanOK, PCs, AllPCs
<1>3. CASE Discarded(p)
  <2>1. DiskOK'
    BY <1>3 DEF Discarded, DiskOK, Dirs, Places
  <2> QED  BY <2>1, <1>3, ExitTypes DEF Discarded, Outcomes, AllOutcomes
<1>4. CASE LeftStaging(p)
  <2>1. DiskOK'
    BY <1>4, FaultsAssumption DEF LeftStaging, Fault, DiskOK
  <2> QED  BY <2>1, <1>4, ExitTypes DEF LeftStaging, Outcomes, AllOutcomes
<1>5. CASE SwapOut(p)
  <2>1. Moves
    BY <1>5, MoveTypes DEF SwapOut, DiskOK, Places
  <2> QED  BY <2>1, <1>5 DEF SwapOut, Goto, plan, DiskOK, ControlOK, PlanOK, PCs, AllPCs
<1>6. CASE SwapIn(p)
  <2>1. Moves
    BY <1>6, MoveTypes DEF SwapIn, Places
  <2> QED  BY <2>1, <1>6 DEF SwapIn, Goto, plan, DiskOK, ControlOK, PlanOK, PCs, AllPCs
<1>7. CASE SwapFails(p)
  BY <1>7, ExitTypes DEF SwapFails, DiskOK, Outcomes, AllOutcomes
<1>8. ASSUME ReloadWorks \/ ReloadRefused, fs' = fs, certs' = certs
      PROVE  DiskOK'
  BY <1>8, LiveConfigsType, FaultsAssumption
  DEF ReloadWorks, ReloadRefused, Fault, DiskOK, Places
<1>9. CASE Reload(p)
  <2>1. DiskOK'
    BY <1>8, <1>9 DEF Reload
  <2> QED  BY <2>1, <1>9, ExitTypes DEF Reload, Outcomes, AllOutcomes
<1>10. CASE ReloadFails(p)
  <2>1. DiskOK'
    BY <1>8, <1>10 DEF ReloadFails
  <2> QED  BY <2>1, <1>10 DEF ReloadFails, Goto, plan, ControlOK, PlanOK, PCs, AllPCs
<1>11. CASE Restore(p)
  <2>1. Moves
    BY <1>11, MoveTypes DEF Restore, Places
  <2> QED  BY <2>1, <1>11 DEF Restore, Goto, plan, DiskOK, ControlOK, PlanOK, PCs, AllPCs
<1>12. CASE RestoreFails(p)
  BY <1>12, ExitTypes DEF RestoreFails, DiskOK, Outcomes, AllOutcomes
<1>13. CASE ReloadRestored(p)
  <2>1. DiskOK'
    BY <1>8, <1>13 DEF ReloadRestored
  <2>2. \E how \in AllOutcomes : Exit(p, how)
    BY <1>13 DEF ReloadRestored, Outcomes, AllOutcomes
  <2> QED  BY <2>1, <2>2, ExitTypes
<1>14. CASE Interrupted(p)
  <2>1. DiskOK'
    BY <1>14, FaultsAssumption DEF Interrupted, Fault, DiskOK
  <2> QED  BY <2>1, <1>14, ExitTypes DEF Interrupted, Outcomes, AllOutcomes
<1> QED  BY <1>1, <1>2, <1>3, <1>4, <1>5, <1>6, <1>7, <1>9, <1>10, <1>11, <1>12,
            <1>13, <1>14

\* Starting a command keeps the types.
LEMMA BeginTypes ==
    ASSUME Typed, NEW p \in Procs, Begin(p)
    PROVE  Typed'
<1> USE DEF Typed
<1>1. ASSUME NEW c \in AllCmds, NEW list \in Seq(DomainInfos),
             NEW at \in {"read", "drop_live", "copy_chain"}, Start(p, c, list, at),
             c \in {"up", "down", "add"} => list # <<>>,
             at = "copy_chain" => c = "add",
             seen' \in [Procs -> Dirs]
      PROVE  Typed'
  <2>1. DiskOK' /\ ControlOK'
    BY <1>1 DEF Start, Goto, DiskOK, ControlOK, PCs, AllPCs, Outcomes, AllOutcomes
  <2>2. PlanOK'
    BY <1>1 DEF Start, Goto, PlanOK, ControlOK
  <2> QED  BY <2>1, <2>2
<1>2. \A n \in Names : <<InUse(n)>> \in Seq(DomainInfos) /\ <<InUse(n)>> # <<>>
  BY CmdsAssumption DEF InUse, DomainInfos
<1>3. seen' = seen => seen' \in [Procs -> Dirs]
  BY DEF ControlOK
<1>4. CASE StartSync(p)
  <2>1. PICK list \in DesiredFiles : Start(p, "sync", list, "read") /\ UNCHANGED seen
    BY <1>4 DEF StartSync
  <2> QED  BY <1>1, <1>3, <2>1, CmdsAssumption DEF AllCmds
<1>5. CASE StartUp(p)
  <2>1. PICK n \in Names : Start(p, "up", <<InUse(n)>>, "read") /\ UNCHANGED seen
    BY <1>5 DEF StartUp
  <2> QED  BY <1>1, <1>2, <1>3, <2>1 DEF AllCmds
<1>6. CASE StartDown(p)
  <2>1. PICK n \in Names : Start(p, "down", <<InUse(n)>>, "read") /\ UNCHANGED seen
    BY <1>6 DEF StartDown
  <2> QED  BY <1>1, <1>2, <1>3, <2>1 DEF AllCmds
<1>7. CASE StartRollback(p)
  <2>1. seen' \in [Procs -> Dirs]
    BY <1>7 DEF StartRollback, ControlOK, DiskOK, Places
  <2>2. <<>> \in Seq(DomainInfos)
    OBVIOUS
  <2> QED  BY <1>1, <1>7, <2>1, <2>2 DEF StartRollback, AllCmds
<1>8. CASE StartAdd(p)
  <2>1. PICK info \in DomainInfos : Start(p, "add", <<info>>, "copy_chain") /\ UNCHANGED seen
    BY <1>8, CmdsAssumption DEF StartAdd, DomainInfos
  <2>2. <<info>> \in Seq(DomainInfos) /\ <<info>> # <<>>
    OBVIOUS
  <2> QED  BY <1>1, <1>3, <2>1, <2>2 DEF AllCmds
<1>9. CASE Remove(p)
  <2>1. fs' \in [Places -> Dirs]
    BY <1>9 DEF Remove, DiskOK, Places, Dirs, Trees, Files
  <2>2. DiskOK' /\ ControlOK'
    BY <2>1, <1>9 DEF Remove, plan, DiskOK, ControlOK, Outcomes, AllOutcomes
  <2>3. PlanOK'
    BY <1>9 DEF Remove, plan, PlanOK
  <2> QED  BY <2>2, <2>3
<1> QED  BY <1>4, <1>5, <1>6, <1>7, <1>8, <1>9 DEF Begin

\* The steps of main.rs around stage_and_swap keep the types.
LEMMA CommandTypes ==
    ASSUME Typed, NEW p \in Procs,
           \/ SyncRead(p) \/ UpRead(p) \/ DownRead(p) \/ DownNotLive(p)
           \/ SyncDiff(p) \/ SyncNoChanges(p)
           \/ AddCopyChain(p) \/ AddCopyKey(p) \/ AddConf(p)
           \/ AddCopyTorn(p) \/ AddConfTorn(p)
    PROVE  Typed'
<1> USE DEF Typed
<1>0. fs.live \in Dirs /\ Readings \subseteq ManagedTrees
  BY LiveConfigsType DEF DiskOK, Places, Readings
<1>1. ASSUME NEW to \in {"diff", "clear"}, NEW found \in Readings,
             ReadLive(p, to, found), diff' \in [Procs -> DiffResults],
             to = "clear" => diff'[p].to_add \cup diff'[p].to_update \subseteq DOMAIN desired[p],
             \A q \in Procs \ {p} : diff'[q] = diff[q]
      PROVE  Typed'
  <2>1. faults' \in 0..MaxFaults
    BY <1>1, FaultsAssumption DEF ReadLive, WarnsIfPartial, Fault, DiskOK
  <2>2. DiskOK' /\ ControlOK'
    BY <1>0, <1>1, <2>1 DEF ReadLive, Goto, DiskOK, ControlOK, PCs, AllPCs
  <2>3. PlanOK'
    BY <1>0, <1>1 DEF ReadLive, Goto, PlanOK, ControlOK
  <2> QED  BY <2>2, <2>3
<1>2. CASE SyncRead(p)
  BY <1>1, <1>2 DEF SyncRead, PlanOK
<1>3. CASE UpRead(p)
  <2>1. 1 \in DOMAIN desired[p]
    BY <1>3 DEF UpRead, ControlOK
  <2>0. PICK found \in Readings :
           LET is_live == desired[p][1].name \in Files(found)
           IN  /\ ReadLive(p, "clear", found)
               /\ diff' = [diff EXCEPT ![p] =
                             [to_add    |-> IF is_live THEN {} ELSE {1},
                              to_update |-> IF is_live THEN {1} ELSE {},
                              to_remove |-> {}]]
    BY <1>3 DEF UpRead
  <2> DEFINE is_live == desired[p][1].name \in Files(found)
             d == [to_add    |-> IF is_live THEN {} ELSE {1},
                   to_update |-> IF is_live THEN {1} ELSE {}, to_remove |-> {}]
  <2>2. ReadLive(p, "clear", found) /\ diff' = [diff EXCEPT ![p] = d]
    BY <2>0
  <2>3. d \in DiffResults /\ d.to_add \cup d.to_update \subseteq {1}
    BY DEF DiffResults
  <2> HIDE DEF d
  <2> QED  BY <1>1, <2>1, <2>2, <2>3 DEF PlanOK
<1>4. CASE DownRead(p)
  <2> DEFINE d == [NoDiff EXCEPT !.to_remove = {desired[p][1].name}]
  <2>0. PICK found \in Readings :
           desired[p][1].name \in Files(found) /\ ReadLive(p, "clear", found)
    BY <1>4 DEF DownRead
  <2>1. desired[p][1].name \in Names
    BY <2>0 DEF Files
  <2>2. ReadLive(p, "clear", found) /\ diff' = [diff EXCEPT ![p] = d]
    BY <1>4, <2>0 DEF DownRead
  <2>3. d \in DiffResults /\ d.to_add \cup d.to_update = {}
    BY <2>1 DEF DiffResults, NoDiff
  <2> HIDE DEF d
  <2> QED  BY <1>1, <2>2, <2>3 DEF PlanOK
<1>5. CASE DownNotLive(p)
  <2>1. faults' \in 0..MaxFaults
    BY <1>5, FaultsAssumption DEF DownNotLive, WarnsIfPartial, Fault, DiskOK
  <2> QED  BY <1>5, <2>1, ExitTypes DEF DownNotLive, DiskOK, Outcomes, AllOutcomes
<1>6. CASE SyncDiff(p)
  <2> DEFINE d == compute_diff(desired[p], snap[p], pem_valid)
  <2>1. d \in DiffResults /\ d.to_add \cup d.to_update \subseteq DOMAIN desired[p]
    <3>1. DOMAIN desired[p] \subseteq Nat
      BY DEF ControlOK
    <3> QED  BY <3>1 DEF compute_diff, DiffResults, to_remove_of, First, Files
  <2>2. diff' = [diff EXCEPT ![p] = d] /\ Goto(p, "diff", "clear")
    BY <1>6 DEF SyncDiff
  <2> HIDE DEF d
  <2>3. DiskOK' /\ ControlOK'
    BY <1>6 DEF SyncDiff, Goto, DiskOK, ControlOK, PCs, AllPCs
  <2>4. PlanOK'
    BY <1>6, <2>1, <2>2 DEF SyncDiff, Goto, PlanOK, ControlOK
  <2> QED  BY <2>3, <2>4
<1>7. CASE SyncNoChanges(p)
  BY <1>7, ExitTypes DEF SyncNoChanges, DiskOK, Outcomes, AllOutcomes
<1>8. ASSUME NEW n, NEW states \in SUBSET CertStates, SetCert(n, states)
      PROVE  certs' \in [Names -> CertStates]
  BY <1>8 DEF SetCert, DiskOK
<1>9. CASE AddCopyChain(p)
  <2>1. certs' \in [Names -> CertStates]
    BY <1>9, <1>8 DEF AddCopyChain, CertStates
  <2> QED  BY <1>9, <2>1 DEF AddCopyChain, Goto, plan, DiskOK, ControlOK, PlanOK, PCs, AllPCs
<1>10. CASE AddCopyKey(p)
  <2>1. certs' \in [Names -> CertStates]
    BY <1>10, <1>8 DEF AddCopyKey, CertStates
  <2> QED  BY <1>10, <2>1 DEF AddCopyKey, Goto, plan, DiskOK, ControlOK, PlanOK, PCs, AllPCs
<1>11. CASE AddCopyTorn(p)
  <2>1. certs' \in [Names -> CertStates]
    BY <1>11, <1>8 DEF AddCopyTorn, CertStates
  <2>2. DiskOK'
    BY <2>1, <1>11, FaultsAssumption DEF AddCopyTorn, Fault, DiskOK
  <2> QED  BY <2>2, <1>11, ExitTypes DEF AddCopyTorn, Outcomes, AllOutcomes
<1>12. ASSUME NEW n, NEW body \in Bodies \cup {Alien},
              fs' = [fs EXCEPT !.live = [Included(@) EXCEPT ![n] = body]]
       PROVE  fs' \in [Places -> Dirs]
  <2>1. [Included(fs.live) EXCEPT ![n] = body] \in Dirs
    BY LiveConfigsType DEF DiskOK, Places, Dirs, Trees
  <2> QED  BY <1>12, <2>1 DEF DiskOK
<1>13. CASE AddConf(p)
  <2>1. desired[p] \in Seq(DomainInfos) /\ desired[p] # <<>>
    BY <1>13 DEF AddConf, ControlOK
  <2>2. desired[p][1] \in DomainInfos
    BY <2>1
  <2>3. desired[p][1].body \in Bodies
    BY <2>2 DEF DomainInfos
  <2>4. fs' \in [Places -> Dirs]
    BY <2>3, <1>12, <1>13 DEF AddConf
  <2>5. DiskOK'
    BY <2>4, <1>13 DEF AddConf, DiskOK
  <2> QED  BY <2>5, <1>13, ExitTypes DEF AddConf, Outcomes, AllOutcomes
<1>14. CASE AddConfTorn(p)
  <2>1. fs' \in [Places -> Dirs]
    BY <1>12, <1>14 DEF AddConfTorn
  <2>2. DiskOK'
    BY <2>1, <1>14, FaultsAssumption DEF AddConfTorn, Fault, DiskOK
  <2> QED  BY <2>2, <1>14, ExitTypes DEF AddConfTorn, Outcomes, AllOutcomes
<1> QED  BY <1>2, <1>3, <1>4, <1>5, <1>6, <1>7, <1>9, <1>10, <1>11, <1>13, <1>14

\* Certificates that others replace disturb no type.
LEMMA CertTypes ==
    ASSUME Typed, NEW n \in Volatile, CertChange(n)
    PROVE  Typed'
<1>1. certs' \in [Names -> CertStates]
  BY DEF Typed, DiskOK, CertChange, SetCert
<1> QED  BY <1>1 DEF Typed, DiskOK, ControlOK, PlanOK, CertChange, plan

\* Every step keeps the types.
LEMMA StepTypes == Typed /\ [Next]_vars => Typed'
<1> SUFFICES ASSUME Typed, [Next]_vars PROVE Typed'
  OBVIOUS
<1>1. ASSUME NEW p \in Procs, Begin(p) \/ Step(p) \/ Cut(p) PROVE Typed'
  BY <1>1, BeginTypes, CommandTypes, RemovalTypes, BuildTypes, DeployTypes
  DEF Step, StagerStep, Cut
<1>2. ASSUME NEW n \in Volatile, CertChange(n) PROVE Typed'
  BY <1>2, CertTypes
<1>3. CASE UNCHANGED vars
  BY <1>3 DEF vars, plan, Typed, DiskOK, ControlOK, PlanOK
<1> QED  BY <1>1, <1>2, <1>3 DEF Next

\* The types hold of every reachable state.
LEMMA TypedAlways == Spec => []Typed
  BY InitTypes, StepTypes, PTL DEF Spec

\* No command gets to a step that only a sync with ACME work has, or ends the
\* way only that one can end.
LEMMA ProcessWithoutAcme ==
    ASSUME Typed, NEW p \in Procs, Begin(p) \/ Step(p) \/ Cut(p)
    PROVE  /\ pc'[p] = pc[p] \/ pc'[p] \in PCs
           /\ outcome'[p] = outcome[p] \/ outcome'[p] \in Outcomes
           /\ \A q \in Procs \ {p} : pc'[q] = pc[q] /\ outcome'[q] = outcome[q]
<1> USE DEF Typed, ControlOK
<1>1. ASSUME NEW how \in Outcomes, Exit(p, how)
      PROVE  /\ pc'[p] \in PCs /\ outcome'[p] \in Outcomes
             /\ \A q \in Procs \ {p} : pc'[q] = pc[q] /\ outcome'[q] = outcome[q]
  BY <1>1 DEF Exit, PCs
<1>2. CASE Begin(p)
  BY <1>2 DEF Begin, StartSync, StartUp, StartDown, StartRollback, StartAdd, Remove,
              Start, Goto, PCs, Outcomes
<1>3. CASE Removal(p)
  <2>1. PICK at \in DOMAIN Target :
           \/ NothingToRemove(p, at) \/ List(p, at) \/ Unlink(p, at)
           \/ Rmdir(p, at) \/ RmdirFails(p, at)
    BY <1>3 DEF Removal
  <2>2. CASE RmdirFails(p, at)
    BY <2>2, <1>1 DEF RmdirFails, Outcomes
  <2> QED
    BY <2>1, <2>2 DEF NothingToRemove, List, Unlink, Rmdir, Goto, Target, Unlinking,
                      Cleared, PCs
<1>4. CASE \/ SyncRead(p) \/ UpRead(p) \/ DownRead(p) \/ SyncDiff(p)
           \/ AddCopyChain(p) \/ AddCopyKey(p)
           \/ Mkdir(p) \/ WriteKept(p) \/ WriteAdded(p) \/ WriteUpdated(p) \/ Built(p)
           \/ TestPasses(p) \/ TestFails(p) \/ SwapOut(p) \/ SwapIn(p)
           \/ ReloadFails(p) \/ Restore(p)
  BY <1>4 DEF SyncRead, UpRead, DownRead, ReadLive, SyncDiff, AddCopyChain, AddCopyKey,
     Mkdir, WriteKept, WriteAdded, WriteUpdated, Write, Built, TestPasses, TestFails,
     SwapOut, SwapIn, ReloadFails, Restore, Goto, PCs
<1>5. CASE \/ DownNotLive(p) \/ SyncNoChanges(p) \/ AddConf(p) \/ AddCopyTorn(p)
           \/ AddConfTorn(p) \/ WriteFails(p) \/ Discarded(p) \/ LeftStaging(p)
           \/ SwapFails(p) \/ Reload(p) \/ RestoreFails(p) \/ ReloadRestored(p)
           \/ Interrupted(p)
  <2>1. \E how \in Outcomes : Exit(p, how)
    BY <1>5 DEF DownNotLive, SyncNoChanges, AddConf, AddCopyTorn, AddConfTorn,
       WriteFails, Discarded, LeftStaging, SwapFails, Reload, RestoreFails,
       ReloadRestored, Interrupted, Outcomes
  <2> QED  BY <2>1, <1>1
<1> QED  BY <1>2, <1>3, <1>4, <1>5 DEF Step, StagerStep, Cut

\* Every reachable state is well typed: the directories hold only contents a
\* config can have, no build writes what it has neither been asked for nor found
\* in the live directory, and no process is at a step of another command.
THEOREM TypeCorrect == Spec => []TypeOK
<1>1. Init => WithoutAcme
  BY DEF Init, WithoutAcme, PCs, Outcomes
<1>2. Typed /\ WithoutAcme /\ [Next]_vars => WithoutAcme'
  <2> SUFFICES ASSUME Typed, WithoutAcme, [Next]_vars PROVE WithoutAcme'
    OBVIOUS
  <2>1. CASE \E p \in Procs : Begin(p) \/ Step(p) \/ Cut(p)
    BY <2>1, ProcessWithoutAcme DEF WithoutAcme
  <2>2. CASE \E n \in Volatile : CertChange(n)
    BY <2>2 DEF CertChange, WithoutAcme
  <2>3. CASE UNCHANGED vars
    BY <2>3 DEF vars, WithoutAcme
  <2> QED  BY <2>1, <2>2, <2>3 DEF Next
<1> QED  BY <1>1, <1>2, TypedAlways, PTL DEF Spec, TypeOK

-----------------------------------------------------------------------------
(* What one invocation at a time guarantees.  The three properties need one *)
(* another: that the old generation is in prev after the swap rests on live *)
(* being untouched before it, that the tested tree is the one that goes     *)
(* live on staging being there while it is tested.                          *)

Deploying == LiveUntouched /\ OnlyTestedSwappedIn /\ OldGenerationKept /\ SwapReady

Alone(p) == \A q \in Procs : q = p

\* A command that has ended owes nothing.
LEMMA ExitSafe ==
    ASSUME Typed, NEW p \in Procs, Alone(p), NEW how, Exit(p, how)
    PROVE  Deploying'
<1>1. \A q \in Procs : pc'[q] = "idle"
  BY DEF Typed, ControlOK, Exit, Alone
<1> QED
  BY <1>1 DEF Deploying, LiveUntouched, OnlyTestedSwappedIn, OldGenerationKept, SwapReady

\* remove_dir_all clears staging, prev or live only where the deployment no longer
\* counts on it.
LEMMA RemovalSafe ==
    ASSUME Typed, Deploying, NEW p \in Procs, Alone(p), Removal(p)
    PROVE  Deploying'
<1> USE DEF Typed, DiskOK, ControlOK, Deploying, Alone
<1>1. PICK at \in DOMAIN Target :
         \/ NothingToRemove(p, at) \/ List(p, at) \/ Unlink(p, at)
         \/ Rmdir(p, at) \/ RmdirFails(p, at)
  BY DEF Removal
<1>2. CASE NothingToRemove(p, at)
  BY <1>2 DEF NothingToRemove, Goto, plan, Target, Cleared,
              LiveUntouched, OnlyTestedSwappedIn, OldGenerationKept, SwapReady
<1>3. CASE List(p, at)
  BY <1>3 DEF List, Goto, plan, Target, Unlinking,
              LiveUntouched, OnlyTestedSwappedIn, OldGenerationKept, SwapReady
<1>4. CASE Unlink(p, at)
  BY <1>4 DEF Unlink, plan, Target, Unlinking, Places,
              LiveUntouched, OnlyTestedSwappedIn, OldGenerationKept, SwapReady
<1>5. CASE Rmdir(p, at)
  BY <1>5 DEF Rmdir, Goto, plan, Target, Unlinking, Cleared, Places,
              LiveUntouched, OnlyTestedSwappedIn, OldGenerationKept, SwapReady
<1>6. CASE RmdirFails(p, at)
  BY <1>6, ExitSafe DEF RmdirFails
<1> QED  BY <1>1, <1>2, <1>3, <1>4, <1>5, <1>6

\* build_staging_dir writes to staging only.
LEMMA BuildSafe ==
    ASSUME Typed, Deploying, NEW p \in Procs, Alone(p),
           Mkdir(p) \/ WriteKept(p) \/ WriteAdded(p) \/ WriteUpdated(p)
             \/ WriteFails(p) \/ Built(p)
    PROVE  Deploying'
<1> USE DEF Typed, DiskOK, ControlOK, Deploying, Alone
<1>1. CASE Mkdir(p)
  <2>1. Included(fs.staging) # Absent
    BY ContentsAssumption DEF Included, EmptyTree
  <2>2. /\ fs'.staging = Included(fs.staging)
        /\ fs'.live = fs.live /\ fs'.prev = fs.prev
    BY <1>1 DEF Mkdir, Places
  <2> QED
    BY <1>1, <2>1, <2>2 DEF Mkdir, Goto, plan,
       LiveUntouched, OnlyTestedSwappedIn, OldGenerationKept, SwapReady
<1>2. ASSUME NEW n \in Names, NEW body \in Bodies, NEW rest, Write(p, n, body, rest)
      PROVE  Deploying'
  <2>1. [fs.staging EXCEPT ![n] = body] # Absent
    BY <1>2, ContentsAssumption DEF Write, Places, Dirs, Trees
  <2> QED
    BY <1>2, <2>1 DEF Write, plan, Places,
       LiveUntouched, OnlyTestedSwappedIn, OldGenerationKept, SwapReady
<1>3. CASE WriteKept(p) \/ WriteAdded(p) \/ WriteUpdated(p)
  BY <1>2, <1>3, WriteOfTypes
<1>4. CASE WriteFails(p)
  BY <1>4, ExitSafe DEF WriteFails
<1>5. CASE Built(p)
  BY <1>5 DEF Built, Goto, plan,
              LiveUntouched, OnlyTestedSwappedIn, OldGenerationKept, SwapReady
<1> QED  BY <1>1, <1>3, <1>4, <1>5

\* Testing, swapping, reloading and rolling back keep the invariant: the test
\* establishes what the swap relies on, the renames carry it along.
LEMMA DeploySafe ==
    ASSUME Typed, Deploying, NEW p \in Procs, Alone(p),
           \/ TestPasses(p) \/ TestFails(p) \/ Discarded(p) \/ LeftStaging(p)
           \/ SwapOut(p) \/ SwapIn(p) \/ SwapFails(p)
           \/ Reload(p) \/ ReloadFails(p)
           \/ Restore(p) \/ RestoreFails(p) \/ ReloadRestored(p)
           \/ Interrupted(p)
    PROVE  Deploying'
<1> USE DEF Typed, DiskOK, ControlOK, Deploying, Alone
<1>1. CASE TestPasses(p)
  <2>1. Included(fs.staging) = fs.staging /\ fs.staging # Absent
    BY <1>1 DEF TestPasses, Goto, Included, SwapReady
  <2> QED
    BY <1>1, <2>1 DEF TestPasses, Goto, plan,
       LiveUntouched, OnlyTestedSwappedIn, OldGenerationKept, SwapReady
<1>2. CASE TestFails(p)
  BY <1>2 DEF TestFails, Goto, plan,
              LiveUntouched, OnlyTestedSwappedIn, OldGenerationKept, SwapReady
<1>3. CASE SwapOut(p)
  <2>1. /\ fs.live = seen[p] /\ fs.staging = tested[p] /\ fs.prev = Absent
        /\ tested[p] # Absent
    BY <1>3 DEF SwapOut, Goto, LiveUntouched, OnlyTestedSwappedIn, SwapReady
  <2>2. fs'.prev = seen[p] /\ fs'.staging = tested[p]
    BY <1>3, <2>1 DEF SwapOut, Move, Places
  <2> QED
    BY <1>3, <2>1, <2>2 DEF SwapOut, Goto, plan,
       LiveUntouched, OnlyTestedSwappedIn, OldGenerationKept, SwapReady
<1>4. CASE SwapIn(p)
  <2>1. fs.prev = seen[p] /\ fs.staging = tested[p]
    BY <1>4 DEF SwapIn, Goto, OnlyTestedSwappedIn, OldGenerationKept
  <2>2. fs'.prev = seen[p] /\ fs'.live = tested[p]
    BY <1>4, <2>1 DEF SwapIn, Move, Places
  <2> QED
    BY <1>4, <2>2 DEF SwapIn, Goto, plan,
       LiveUntouched, OnlyTestedSwappedIn, OldGenerationKept, SwapReady
<1>5. CASE ReloadFails(p)
  BY <1>5 DEF ReloadFails, Goto, plan,
              LiveUntouched, OnlyTestedSwappedIn, OldGenerationKept, SwapReady
<1>6. CASE Restore(p)
  <2>1. fs.prev = seen[p]
    BY <1>6 DEF Restore, Goto, OldGenerationKept
  <2>2. fs'.live = seen[p]
    BY <1>6, <2>1 DEF Restore, Move, Places
  <2> QED
    BY <1>6, <2>2 DEF Restore, Goto, plan,
       LiveUntouched, OnlyTestedSwappedIn, OldGenerationKept, SwapReady
<1>7. CASE \/ Discarded(p) \/ LeftStaging(p) \/ SwapFails(p) \/ Reload(p)
           \/ RestoreFails(p) \/ ReloadRestored(p) \/ Interrupted(p)
  BY <1>7, ExitSafe
  DEF Discarded, LeftStaging, SwapFails, Reload, RestoreFails, ReloadRestored, Interrupted
<1> QED  BY <1>1, <1>2, <1>3, <1>4, <1>5, <1>6, <1>7

\* Starting a command and the steps of main.rs keep the invariant.
LEMMA CommandSafe ==
    ASSUME Typed, Deploying, NEW p \in Procs, Alone(p),
           \/ Begin(p)
           \/ SyncRead(p) \/ UpRead(p) \/ DownRead(p) \/ DownNotLive(p)
           \/ SyncDiff(p) \/ SyncNoChanges(p)
           \/ AddCopyChain(p) \/ AddCopyKey(p) \/ AddConf(p)
           \/ AddCopyTorn(p) \/ AddConfTorn(p)
    PROVE  Deploying'
<1> USE DEF Typed, DiskOK, ControlOK, Deploying, Alone
<1>1. ASSUME NEW c, NEW list, NEW at \in {"read", "copy_chain"}, Start(p, c, list, at)
      PROVE  Deploying'
  BY <1>1 DEF Start, Goto,
     LiveUntouched, OnlyTestedSwappedIn, OldGenerationKept, SwapReady
<1>2. CASE StartSync(p) \/ StartUp(p) \/ StartDown(p) \/ StartAdd(p)
  BY <1>1, <1>2 DEF StartSync, StartUp, StartDown, StartAdd
<1>3. CASE StartRollback(p)
  BY <1>3 DEF StartRollback, Start, Goto,
     LiveUntouched, OnlyTestedSwappedIn, OldGenerationKept, SwapReady
<1>4. CASE Remove(p)
  BY <1>4 DEF Remove, plan,
     LiveUntouched, OnlyTestedSwappedIn, OldGenerationKept, SwapReady
<1>5. ASSUME NEW to \in {"diff", "clear"}, NEW found, ReadLive(p, to, found)
      PROVE  Deploying'
  BY <1>5 DEF ReadLive, Goto, Places,
     LiveUntouched, OnlyTestedSwappedIn, OldGenerationKept, SwapReady
<1>6. CASE SyncRead(p) \/ UpRead(p) \/ DownRead(p)
  BY <1>5, <1>6 DEF SyncRead, UpRead, DownRead
<1>7. CASE SyncDiff(p)
  BY <1>7 DEF SyncDiff, Goto,
     LiveUntouched, OnlyTestedSwappedIn, OldGenerationKept, SwapReady
<1>8. CASE AddCopyChain(p) \/ AddCopyKey(p)
  BY <1>8 DEF AddCopyChain, AddCopyKey, Goto, plan,
     LiveUntouched, OnlyTestedSwappedIn, OldGenerationKept, SwapReady
<1>9. CASE \/ DownNotLive(p) \/ SyncNoChanges(p) \/ AddConf(p)
           \/ AddCopyTorn(p) \/ AddConfTorn(p)
  BY <1>9, ExitSafe DEF DownNotLive, SyncNoChanges, AddConf, AddCopyTorn, AddConfTorn
<1> QED  BY <1>2, <1>3, <1>4, <1>6, <1>7, <1>8, <1>9 DEF Begin

\* The first state satisfies the invariant: nobody is deploying.
LEMMA InitSafe == Init => Deploying
  BY DEF Init, Deploying, LiveUntouched, OnlyTestedSwappedIn, OldGenerationKept, SwapReady

\* With one invocation at a time, every step keeps the invariant.
LEMMA StepSafe ==
    ASSUME OneAtATime, Typed, Deploying, [Next]_vars
    PROVE  Deploying'
<1>1. ASSUME NEW p \in Procs, Begin(p) \/ Step(p) \/ Cut(p) PROVE Deploying'
  <2>1. Alone(p)
    BY DEF OneAtATime, Alone
  <2> QED
    BY <1>1, <2>1, CommandSafe, RemovalSafe, BuildSafe, DeploySafe
    DEF Step, StagerStep, Cut
<1>2. ASSUME NEW n \in Volatile, CertChange(n) PROVE Deploying'
  BY <1>2 DEF CertChange, plan, Deploying,
     LiveUntouched, OnlyTestedSwappedIn, OldGenerationKept, SwapReady
<1>3. CASE UNCHANGED vars
  BY <1>3 DEF vars, plan, Deploying,
     LiveUntouched, OnlyTestedSwappedIn, OldGenerationKept, SwapReady
<1> QED  BY <1>1, <1>2, <1>3 DEF Next

\* The invariant holds in every state, with one invocation at a time.
LEMMA DeployingAlways ==
    ASSUME OneAtATime
    PROVE  Spec => []Deploying
  BY TypedAlways, InitSafe, StepSafe, PTL DEF Spec

\* With one invocation at a time, killed or failing wherever it may be, no
\* command touches the live directory before its swap (stage_and_swap's
\* "live config is unchanged").
THEOREM LiveUntouchedAlways ==
    ASSUME OneAtATime
    PROVE  Spec => []LiveUntouched
  BY DeployingAlways, PTL DEF Deploying

\* With one invocation at a time, the tree that a deployment swaps in is the
\* one nginx -t accepted for it.
THEOREM OnlyTestedGoesLive ==
    ASSUME OneAtATime
    PROVE  Spec => []OnlyTestedSwappedIn
  BY DeployingAlways, PTL DEF Deploying

\* With one invocation at a time, the generation a deployment replaces stays
\* complete on disk until the deployment has ended.
THEOREM OldGenerationNeverLost ==
    ASSUME OneAtATime
    PROVE  Spec => []OldGenerationKept
  BY DeployingAlways, PTL DEF Deploying

\* With one invocation at a time, no step of a deployment finds a directory
\* gone that it works on, or prev in the way of the renames of atomic_swap.
THEOREM SwapReadyAlways ==
    ASSUME OneAtATime
    PROVE  Spec => []SwapReady
  BY DeployingAlways, PTL DEF Deploying

\* Only the reload and an interruption leave "reload", likewise after a restore.
LEMMA LeavingReload ==
    ASSUME Typed, NEW p \in Procs, Begin(p) \/ Step(p) \/ Cut(p)
    PROVE  /\ pc[p] = "reload" => Reload(p) \/ ReloadFails(p) \/ Interrupted(p)
           /\ pc[p] = "reload_restored" => ReloadRestored(p) \/ Interrupted(p)
<1>1. CASE Begin(p)
  BY <1>1 DEF Begin, StartSync, StartUp, StartDown, StartRollback, StartAdd, Remove,
              Start, Goto
<1>2. CASE Removal(p)
  BY <1>2 DEF Removal, NothingToRemove, List, Unlink, Rmdir, RmdirFails, Goto,
              Target, Unlinking, Cleared
<1>3. CASE Step(p)
  BY <1>2, <1>3 DEF Step, SyncRead, UpRead, DownRead, DownNotLive, SyncDiff, SyncNoChanges,
     ReadLive, AddCopyChain, AddCopyKey, AddConf, StagerStep, Mkdir, WriteKept, WriteAdded,
     WriteUpdated, Write, WriteFails, Built, TestPasses, TestFails, Discarded, SwapOut,
     SwapIn, SwapFails, Restore, RestoreFails, ReloadFails, Reload, ReloadRestored, Goto
<1>4. CASE Cut(p)
  BY <1>4 DEF Cut, LeftStaging, AddCopyTorn, AddConfTorn
<1> QED  BY <1>1, <1>3, <1>4

\* With one invocation at a time, success means that nginx serves the tree
\* that was tested, or the generation that was to be restored.
THEOREM SuccessServes ==
    ASSUME OneAtATime
    PROVE  Spec => SuccessIsServed
<1> DEFINE Served ==
       \A p \in Procs :
          /\ pc[p] = "reload" /\ outcome'[p] = "success" /\ pc'[p] = "idle"
               => running' = tested[p]
          /\ pc[p] = "reload_restored" /\ outcome'[p] = "success" /\ pc'[p] = "idle"
               => running' = Included(seen[p])
<1>1. ASSUME Typed, Deploying, Next
      PROVE  Served
  <2> SUFFICES ASSUME NEW p \in Procs, outcome'[p] = "success", pc'[p] = "idle",
                      pc[p] \in {"reload", "reload_restored"}
               PROVE  /\ pc[p] = "reload" => running' = tested[p]
                      /\ pc[p] = "reload_restored" => running' = Included(seen[p])
    OBVIOUS
  <2>1. ASSUME Begin(p) \/ Step(p) \/ Cut(p)
        PROVE  \/ pc[p] = "reload" /\ Reload(p)
               \/ pc[p] = "reload_restored" /\ ReloadRestored(p)
    <3>1. ~ReloadFails(p)
      BY <1>1 DEF ReloadFails, Goto, Typed, ControlOK
    <3>2. ~Interrupted(p)
      BY <1>1 DEF Interrupted, Exit, Typed, ControlOK
    <3> QED  BY <1>1, <2>1, <3>1, <3>2, LeavingReload
  <2>2. ASSUME NEW n \in Volatile, CertChange(n) PROVE FALSE
    BY <2>2 DEF CertChange
  <2>3. CASE pc[p] = "reload" /\ Reload(p)
    <3>1. fs.live = tested[p] /\ tested[p] # Absent
      BY <1>1, <2>3 DEF Deploying, OnlyTestedSwappedIn, SwapReady
    <3> QED  BY <2>3, <3>1 DEF Reload, ReloadWorks, Included
  <2>4. CASE pc[p] = "reload_restored" /\ ReloadRestored(p)
    <3>1. fs.live = seen[p]
      BY <1>1, <2>4 DEF Deploying, OldGenerationKept
    <3>2. ReloadWorks
      BY <1>1, <2>4 DEF ReloadRestored, ReloadRefused, Exit, Typed, ControlOK
    <3> QED  BY <2>4, <3>1, <3>2 DEF ReloadWorks
  <2>5. \E q \in Procs : Begin(q) \/ Step(q) \/ Cut(q)
    BY <1>1, <2>2 DEF Next
  <2> QED  BY <2>1, <2>3, <2>4, <2>5 DEF OneAtATime
<1>2. Typed /\ Deploying /\ [Next]_vars => [Served]_vars
  BY <1>1
<1>3. SuccessIsServed <=> [][Served]_vars
  BY DEF SuccessIsServed
<1> QED  BY <1>2, <1>3, TypedAlways, DeployingAlways, PTL DEF Spec
=============================================================================
