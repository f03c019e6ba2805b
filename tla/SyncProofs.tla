----------------------------- MODULE SyncProofs -----------------------------
(***************************************************************************)
(* Proofs about Sync, on the lemmas about Commands: what the ACME loop and *)
(* the reload matrix add to the deployment disturbs nothing of it, for any *)
(* domains, lists, caps and bounds.                                        *)
(***************************************************************************)
EXTENDS Sync, DeploymentsProofs

\* A process between two commands has no report left of the last one, and no
\* command but sync gets to the ACME work.
AcmeOfSync ==
    \A p \in Procs :
       /\ pc[p] = "idle" => material[p] = {}
       /\ pc[p] \in AllPCs \ PCs => cmd[p] = "sync"

\* What the ACME work of a sync remembers, by itself.
AcmeOK ==
    /\ todo \in [Procs -> Seq(Names)]
    /\ material \in [Procs -> SUBSET Names]
    /\ outdated \subseteq Names
    /\ \A p \in Procs :
         /\ pc[p] \in {"rename_chain", "rename_key"} => todo[p] # <<>>
         /\ material[p] # {} => cmd[p] = "sync"

\* The type invariant in two parts: that of the deployment and that of the ACME
\* work.
LEMMA SyncParts == SyncTypeOK <=> Typed /\ AcmeOK
  BY DEF SyncTypeOK, AcmeOK

\* The first domain of what remains of the loop, and the rest of it.
LEMMA HeadTail ==
    ASSUME AcmeOK, NEW p \in Procs, todo[p] # <<>>
    PROVE  Head(todo[p]) \in Names /\ Tail(todo[p]) \in Seq(Names)
<1>1. todo[p] \in Seq(Names)
  BY DEF AcmeOK
<1> QED  BY <1>1

\* Where a command of Commands takes a process: on with the same command, to its
\* end, or to a start.
LEMMA CommandGoesOn ==
    ASSUME Typed, NEW p \in Procs, Step(p) \/ LeftStaging(p) \/ Interrupted(p)
    PROVE  /\ \A q \in Procs \ {p} : pc'[q] = pc[q] /\ cmd'[q] = cmd[q]
           /\ \/ cmd'[p] = cmd[p]
              \/ pc'[p] = "idle"
           /\ pc'[p] = pc[p] \/ pc'[p] \in PCs
<1> USE DEF Typed, ControlOK
<1>1. pc'[p] = pc[p] \/ pc'[p] \in PCs
  BY ProcessWithoutAcme DEF Cut
<1>2. \A q \in Procs \ {p} : pc'[q] = pc[q]
  BY ProcessWithoutAcme DEF Cut
<1>3. ASSUME NEW how, Exit(p, how)
      PROVE  pc'[p] = "idle" /\ \A q \in Procs \ {p} : cmd'[q] = cmd[q]
  BY <1>3 DEF Exit
<1>4. CASE \/ DownNotLive(p) \/ SyncNoChanges(p) \/ AddConf(p) \/ WriteFails(p)
           \/ Discarded(p) \/ LeftStaging(p) \/ SwapFails(p) \/ Reload(p)
           \/ RestoreFails(p) \/ ReloadRestored(p) \/ Interrupted(p)
  BY <1>1, <1>2, <1>3, <1>4 DEF DownNotLive, SyncNoChanges, AddConf, WriteFails,
     Discarded, LeftStaging, SwapFails, Reload, RestoreFails, ReloadRestored, Interrupted
<1>5. CASE Removal(p)
  BY <1>1, <1>2, <1>3, <1>5 DEF Removal, NothingToRemove, List, Unlink, Rmdir,
     RmdirFails, plan
<1>6. CASE \/ SyncRead(p) \/ UpRead(p) \/ DownRead(p) \/ SyncDiff(p)
           \/ AddCopyChain(p) \/ AddCopyKey(p)
           \/ Mkdir(p) \/ WriteKept(p) \/ WriteAdded(p) \/ WriteUpdated(p) \/ Built(p)
           \/ TestPasses(p) \/ TestFails(p) \/ SwapOut(p) \/ SwapIn(p)
           \/ ReloadFails(p) \/ Restore(p)
  BY <1>1, <1>2, <1>6 DEF SyncRead, UpRead, DownRead, ReadLive, SyncDiff, AddCopyChain,
     AddCopyKey, Mkdir, WriteKept, WriteAdded, WriteUpdated, Write, Built, TestPasses,
     TestFails, SwapOut, SwapIn, ReloadFails, Restore, plan
<1> QED  BY <1>4, <1>5, <1>6 DEF Step, StagerStep

-----------------------------------------------------------------------------
(* Type correctness.                                                        *)

\* The ACME loop replaces certificate files and moves on; it leaves every
\* directory, plan and outcome as it is.
LEMMA EnsureTypes ==
    ASSUME Typed, AcmeOK, AcmeOfSync, NEW p \in Procs, EnsureCerts(p)
    PROVE  Typed' /\ AcmeOK' /\ AcmeOfSync'
<1> USE DEF Typed, DiskOK, ControlOK, PlanOK, AcmeOK
<1>1. todo[p] # <<>> => Head(todo[p]) \in Names /\ Tail(todo[p]) \in Seq(Names)
  BY HeadTail
<1>2. CASE Existing(p)
  BY <1>1, <1>2 DEF Existing, Ensuring, NextDomain, vars, plan, AcmeOfSync
<1>3. CASE Failed(p)
  <2>1. faults' \in 0..MaxFaults
    BY <1>3, FaultsAssumption DEF Failed, Fault
  <2> QED  BY <1>1, <1>3, <2>1 DEF Failed, Ensuring, NextDomain, plan, AcmeOfSync
<1>4. CASE Issue(p)
  BY <1>4 DEF Issue, Ensuring, Goto, acme, plan, AllPCs, PCs, AcmeOfSync
<1>5. CASE RenameChain(p)
  <2>1. pc[p] = "rename_chain" /\ Head(todo[p]) \in Names
    BY <1>1, <1>5 DEF RenameChain, Goto
  <2>2. certs' \in [Names -> CertStates]
    BY <1>5 DEF RenameChain, SetCert, CertStates
  <2> QED  BY <1>5, <2>1, <2>2 DEF RenameChain, Goto, plan, AllPCs, PCs, AcmeOfSync
<1>6. CASE RenameKey(p)
  <2>1. /\ pc[p] = "rename_key" /\ cmd[p] = "sync"
        /\ Head(todo[p]) \in Names /\ Tail(todo[p]) \in Seq(Names)
    BY <1>1, <1>6 DEF RenameKey, Goto, AcmeOfSync, AllPCs, PCs
  <2>2. certs' \in [Names -> CertStates]
    BY <1>6 DEF RenameKey, SetCert, CertStates
  <2> QED  BY <1>6, <2>1, <2>2 DEF RenameKey, Goto, NextDomain, plan, AllPCs, PCs, AcmeOfSync
<1>7. CASE RenameFails(p)
  <2>1. /\ pc[p] \in {"rename_chain", "rename_key"}
        /\ Tail(todo[p]) \in Seq(Names)
    BY <1>1, <1>7 DEF RenameFails, Goto
  <2>2. faults' \in 0..MaxFaults
    BY <1>7, FaultsAssumption DEF RenameFails, Fault
  <2> QED  BY <1>7, <2>1, <2>2 DEF RenameFails, Goto, NextDomain, plan, AllPCs, PCs, AcmeOfSync
<1> QED  BY <1>2, <1>3, <1>4, <1>5, <1>6, <1>7 DEF EnsureCerts

\* The command ends: what it remembers of the ACME work goes, too.
LEMMA ForgetTypes ==
    ASSUME Typed, AcmeOK, AcmeOfSync, NEW p \in Procs, Forget(p),
           outdated' \subseteq Names, pc'[p] = "idle",
           \A q \in Procs \ {p} : pc'[q] = pc[q] /\ cmd'[q] = cmd[q]
    PROVE  AcmeOK' /\ AcmeOfSync'
<1>1. <<>> \in Seq(Names)
  OBVIOUS
<1>2. todo' \in [Procs -> Seq(Names)] /\ material' \in [Procs -> SUBSET Names]
      /\ material'[p] = {}
      /\ \A q \in Procs \ {p} : todo'[q] = todo[q] /\ material'[q] = material[q]
  BY <1>1 DEF Forget, AcmeOK
<1> QED  BY <1>2 DEF AcmeOK, AcmeOfSync, AllPCs, PCs

\* The reload matrix: a reload touches no file.
LEMMA MatrixTypes ==
    ASSUME Typed, AcmeOK, AcmeOfSync, NEW p \in Procs,
           CertReloadDue(p) \/ CertReload(p) \/ CertReloadFails(p)
    PROVE  Typed' /\ AcmeOK' /\ AcmeOfSync'
<1>1. CASE CertReloadDue(p)
  <2>1. /\ pc' \in [Procs -> AllPCs] /\ pc'[p] \in {"no_changes", "test_failed"}
        /\ \A q \in Procs \ {p} : pc'[q] = pc[q]
        /\ cmd[p] = "sync"
    BY <1>1 DEF CertReloadDue, Goto, Typed, ControlOK, AllPCs
  <2>2. fs' \in [Places -> Dirs]
    BY <1>1 DEF CertReloadDue, Typed, DiskOK, Dirs, Places
  <2>3. faults' \in 0..MaxFaults
    BY <1>1, FaultsAssumption DEF CertReloadDue, Fault, Typed, DiskOK
  <2>4. doomed' \in [Procs -> SUBSET Names]
    BY <1>1 DEF CertReloadDue, Typed, ControlOK
  <2>5. UNCHANGED <<certs, running, cmd, desired, snap, diff, left, outcome, seen,
                    tested, todo, material, outdated>>
    BY <1>1 DEF CertReloadDue, plan, acme
  <2>6. Typed'
    BY <2>1, <2>2, <2>3, <2>4, <2>5 DEF Typed, DiskOK, ControlOK, PlanOK
  <2>7. AcmeOK' /\ AcmeOfSync'
    BY <2>1, <2>5 DEF AcmeOK, AcmeOfSync
  <2> QED  BY <2>6, <2>7
<1>2. CASE CertReload(p) \/ CertReloadFails(p)
  <2>1. PICK how \in AllOutcomes : Exit(p, how)
    BY <1>2 DEF CertReload, CertReloadFails, AllOutcomes
  <2>2. DiskOK'
    BY <1>2, LiveConfigsType, FaultsAssumption
    DEF CertReload, CertReloadFails, ReloadWorks, ReloadRefused, Fault, Typed, DiskOK, Places
  <2>3. Typed'
    BY <2>1, <2>2, ExitTypes DEF Typed
  <2>4. pc'[p] = "idle" /\ \A q \in Procs \ {p} : pc'[q] = pc[q] /\ cmd'[q] = cmd[q]
    BY <2>1 DEF Exit, Typed, ControlOK
  <2>5. Forget(p) /\ outdated' \subseteq Names
    BY <1>2 DEF CertReload, CertReloadFails, AcmeOK
  <2> QED  BY <2>3, <2>4, <2>5, ForgetTypes
<1> QED  BY <1>1, <1>2

\* The deployment, as Commands has it.
LEMMA SyncDeployTypes ==
    ASSUME Typed, AcmeOK, AcmeOfSync, NEW p \in Procs, Deploy(p) \/ Killed(p)
    PROVE  Typed' /\ AcmeOK' /\ AcmeOfSync'
<1>1. Step(p) \/ LeftStaging(p) \/ Interrupted(p)
  BY DEF Deploy, Killed
<1>2. Typed'
  BY <1>1, CommandTypes, RemovalTypes, BuildTypes, DeployTypes DEF Step, StagerStep
<1>3. /\ \A q \in Procs \ {p} : pc'[q] = pc[q] /\ cmd'[q] = cmd[q]
      /\ cmd'[p] = cmd[p] \/ pc'[p] = "idle"
      /\ pc'[p] = pc[p] \/ pc'[p] \in PCs
  BY <1>1, CommandGoesOn
<1>4. outdated' \subseteq Names
  BY DEF Deploy, Killed, AcmeOK
<1>5. CASE Forget(p) /\ pc'[p] = "idle"
  BY <1>2, <1>3, <1>4, <1>5, ForgetTypes
<1>6. CASE UNCHANGED <<todo, material>> /\ pc'[p] # "idle"
  BY <1>2, <1>3, <1>4, <1>6 DEF AcmeOK, AcmeOfSync, AllPCs, PCs
<1>7. Killed(p) => Forget(p) /\ pc'[p] = "idle"
  BY DEF Killed, Interrupted, Exit, Typed, ControlOK
<1>8. Deploy(p) => \/ Forget(p) /\ pc'[p] = "idle"
                   \/ UNCHANGED <<todo, material>> /\ pc'[p] # "idle"
  BY DEF Deploy
<1> QED  BY <1>2, <1>5, <1>6, <1>7, <1>8

\* A command starts: the list of the loop has the names of its file.
LEMMA BeginSyncTypes ==
    ASSUME Typed, AcmeOK, AcmeOfSync, NEW p \in Procs, BeginSync(p)
    PROVE  Typed' /\ AcmeOK' /\ AcmeOfSync'
<1>1. Typed'
  BY BeginTypes DEF BeginSync
<1>2. /\ pc[p] = "idle"
      /\ pc'[p] = pc[p] \/ pc'[p] \in PCs
      /\ \A q \in Procs \ {p} : pc'[q] = pc[q]
  BY ProcessWithoutAcme DEF BeginSync, Begin, StartSync, StartUp, StartDown,
     StartRollback, StartAdd, Remove, Start, Goto
<1>3. \A q \in Procs \ {p} : cmd'[q] = cmd[q]
  BY DEF BeginSync, Begin, StartSync, StartUp, StartDown, StartRollback, StartAdd,
     Remove, Start, plan, Typed, ControlOK
<1> DEFINE names == [i \in DOMAIN desired'[p] |-> desired'[p][i].name]
<1>4. names \in Seq(Names)
  <2>1. desired'[p] \in Seq(DomainInfos)
    BY <1>1 DEF Typed, ControlOK
  <2>2. \A i \in DOMAIN desired'[p] : desired'[p][i].name \in Names
    <3>1. \A i \in DOMAIN desired'[p] : desired'[p][i] \in DomainInfos
      BY <2>1
    <3> QED  BY <3>1 DEF DomainInfos
  <2>3. DOMAIN desired'[p] = 1..Len(desired'[p]) /\ Len(desired'[p]) \in Nat
    BY <2>1
  <2> QED  BY <2>2, <2>3
<1> HIDE DEF names
<1>5. todo' \in [Procs -> Seq(Names)]
      /\ \A q \in Procs \ {p} : todo'[q] = todo[q]
  <2>1. todo' = [todo EXCEPT ![p] = IF cmd'[p] = "sync" THEN names ELSE <<>>]
    BY DEF BeginSync, names
  <2>2. <<>> \in Seq(Names)
    OBVIOUS
  <2> QED  BY <1>4, <2>1, <2>2 DEF AcmeOK
<1>6. UNCHANGED <<material, outdated>> /\ material[p] = {}
  BY <1>2 DEF BeginSync, AcmeOfSync
<1>7. AcmeOK' /\ AcmeOfSync'
  BY <1>2, <1>3, <1>5, <1>6 DEF AcmeOK, AcmeOfSync, PCs, AllPCs
<1> QED  BY <1>1, <1>7

\* Every step of a sync with ACME work keeps the types of both.
LEMMA SyncTypes == Typed /\ AcmeOK /\ AcmeOfSync /\ [NextSync]_syncVars
                      => Typed' /\ AcmeOK' /\ AcmeOfSync'
<1> SUFFICES ASSUME Typed, AcmeOK, AcmeOfSync, [NextSync]_syncVars
             PROVE  Typed' /\ AcmeOK' /\ AcmeOfSync'
  OBVIOUS
<1>1. CASE UNCHANGED syncVars
  BY <1>1 DEF syncVars, vars, acme, Typed, DiskOK, ControlOK, PlanOK, AcmeOK, AcmeOfSync
<1>2. ASSUME NEW p \in Procs, BeginSync(p) \/ SyncStep(p) \/ Killed(p)
      PROVE  Typed' /\ AcmeOK' /\ AcmeOfSync'
  BY <1>2, BeginSyncTypes, EnsureTypes, MatrixTypes, SyncDeployTypes DEF SyncStep
<1> QED  BY <1>1, <1>2 DEF NextSync

\* No command runs and no certificate is replaced to begin with.
LEMMA SyncInit == InitSync => Typed /\ AcmeOK /\ AcmeOfSync
<1>1. <<>> \in Seq(Names)
  OBVIOUS
<1> QED  BY <1>1, InitTypes DEF InitSync, Init, AcmeOK, AcmeOfSync, AllPCs, PCs

\* A sync with ACME work keeps to the types of Commands at every step of the
\* loop and of the reload matrix; it replaces certificates of desired domains
\* only, and no other command has a report to reload for.
THEOREM SyncTypeCorrect == SpecSync => []SyncTypeOK
  BY SyncInit, SyncTypes, SyncParts, PTL DEF SpecSync

-----------------------------------------------------------------------------
(* The deployment of a sync with ACME work, one invocation at a time.       *)

\* The ACME loop is over before the live directory is read, and the reload matrix
\* comes when staging is of no use any more.
LEMMA AcmeSafe ==
    ASSUME Typed, Deploying, CertReloadOfLive, NEW p \in Procs, Alone(p),
           EnsureCerts(p) \/ CertReloadDue(p) \/ CertReload(p) \/ CertReloadFails(p)
    PROVE  Deploying' /\ CertReloadOfLive'
<1> USE DEF Typed, DiskOK, ControlOK, Alone
<1>1. CASE Existing(p)
  BY <1>1 DEF Existing, vars, plan, Deploying, LiveUntouched, OnlyTestedSwappedIn,
              OldGenerationKept, SwapReady, CertReloadOfLive
<1>2. CASE Failed(p) \/ Issue(p) \/ RenameChain(p) \/ RenameKey(p) \/ RenameFails(p)
  <2>1. \A q \in Procs : pc'[q] \in {"read", "rename_chain", "rename_key"}
    BY <1>2 DEF Failed, Ensuring, Issue, RenameChain, RenameKey, RenameFails, Goto
  <2> QED
    BY <2>1 DEF Deploying, LiveUntouched, OnlyTestedSwappedIn, OldGenerationKept,
                SwapReady, CertReloadOfLive
<1>3. CASE CertReloadDue(p)
  <2>1. pc[p] \in {"diff", "discard", "discarding"}
    BY <1>3 DEF CertReloadDue, Goto
  <2>2. fs.live = seen[p]
    BY <2>1 DEF Deploying, LiveUntouched
  <2>3. fs'.live = fs.live /\ seen' = seen
    BY <1>3 DEF CertReloadDue, Places
  <2>4. \A q \in Procs : pc'[q] \in {"no_changes", "test_failed"} /\ q = p
    BY <1>3 DEF CertReloadDue, Goto
  <2> QED
    BY <2>2, <2>3, <2>4 DEF Deploying, LiveUntouched, OnlyTestedSwappedIn,
                OldGenerationKept, SwapReady, CertReloadOfLive
<1>4. CASE CertReload(p) \/ CertReloadFails(p)
  <2>1. \E how \in AllOutcomes : Exit(p, how)
    BY <1>4 DEF CertReload, CertReloadFails, AllOutcomes
  <2>2. \A q \in Procs : pc'[q] = "idle"
    BY <2>1 DEF Exit
  <2> QED  BY <2>1, <2>2, ExitSafe DEF CertReloadOfLive
<1> QED  BY <1>1, <1>2, <1>3, <1>4 DEF EnsureCerts

\* Every step keeps what a deployment rests on, and the reload that is forced for
\* certificates finds the live directory the sync has read.
LEMMA SyncSafe ==
    ASSUME OneAtATime, Typed, Deploying, CertReloadOfLive, [NextSync]_syncVars
    PROVE  Deploying' /\ CertReloadOfLive'
<1>1. CASE UNCHANGED syncVars
  BY <1>1 DEF syncVars, vars, plan, Deploying, LiveUntouched, OnlyTestedSwappedIn,
              OldGenerationKept, SwapReady, CertReloadOfLive
<1>2. ASSUME NEW p \in Procs, BeginSync(p) \/ SyncStep(p) \/ Killed(p)
      PROVE  Deploying' /\ CertReloadOfLive'
  <2>1. Alone(p)
    BY DEF OneAtATime, Alone
  <2>2. CASE Begin(p) \/ Step(p) \/ LeftStaging(p) \/ Interrupted(p)
    <3>1. Deploying'
      BY <2>1, <2>2, CommandSafe, RemovalSafe, BuildSafe, DeploySafe DEF Step, StagerStep
    <3>2. pc'[p] = pc[p] \/ pc'[p] \in PCs
      BY <2>2, ProcessWithoutAcme DEF Cut
    <3>3. pc[p] \notin {"no_changes", "test_failed"}
          \/ Interrupted(p)
      BY <2>2 DEF Begin, StartSync, StartUp, StartDown, StartRollback, StartAdd, Remove,
         Start, Goto, Step, SyncRead, UpRead, DownRead, ReadLive, DownNotLive, SyncDiff,
         SyncNoChanges, AddCopyChain, AddCopyKey, AddConf, StagerStep, Removal,
         NothingToRemove, List, Unlink, Rmdir, RmdirFails, Target, Unlinking, Cleared,
         Mkdir, WriteKept, WriteAdded, WriteUpdated, Write, WriteFails, Built, TestPasses,
         TestFails, Discarded, LeftStaging, SwapOut, SwapIn, SwapFails, Reload,
         ReloadFails, Restore, RestoreFails, ReloadRestored
    <3>4. Interrupted(p) => pc'[p] = "idle"
      BY DEF Interrupted, Exit, Typed, ControlOK
    <3>5. pc'[p] \notin {"no_changes", "test_failed"}
      BY <3>2, <3>3, <3>4 DEF PCs
    <3> QED  BY <2>1, <3>1, <3>5 DEF Alone, CertReloadOfLive
  <2> QED  BY <1>2, <2>1, <2>2, AcmeSafe DEF BeginSync, SyncStep, Deploy, Killed
<1> QED  BY <1>1, <1>2 DEF NextSync

\* Both hold of every reachable state when one invocation runs at a time.
LEMMA SyncDeployingAlways ==
    ASSUME OneAtATime
    PROVE  SpecSync => [](Deploying /\ CertReloadOfLive)
<1>1. InitSync => Deploying /\ CertReloadOfLive
  BY InitSafe DEF InitSync, Init, CertReloadOfLive
<1>2. SpecSync => []Typed
  BY SyncTypeCorrect, SyncParts, PTL
<1>3. Typed /\ Deploying /\ CertReloadOfLive /\ [NextSync]_syncVars
         => Deploying' /\ CertReloadOfLive'
  BY SyncSafe
<1> QED  BY <1>1, <1>2, <1>3, PTL DEF SpecSync

\* With one invocation at a time, a sync that is left with nothing but new
\* certificates reloads nginx with the live directory it has read.
THEOREM CertReloadOfLiveAlways ==
    ASSUME OneAtATime
    PROVE  SpecSync => []CertReloadOfLive
  BY SyncDeployingAlways, PTL

\* Certificates that a sync replaces before it deploys cost the deployment none
\* of its guarantees: live is untouched until the swap, only the tested tree
\* goes live, the old generation is kept until the end.
THEOREM DeployingWithAcme ==
    ASSUME OneAtATime
    PROVE  SpecSync => [](LiveUntouched /\ OnlyTestedSwappedIn /\ OldGenerationKept
                             /\ SwapReady)
  BY SyncDeployingAlways, PTL DEF Deploying

-----------------------------------------------------------------------------
(* The whole of cmd_sync against what is planned and what is promised.      *)

\* The ACME work and the reload matrix come before the read and after the test:
\* they are no part of a build, and all that shows of them in the directories of
\* generations is a reload of the current one.
LEMMA AcmeStaged ==
    ASSUME Typed, AcmeOfSync, Staging, NEW p \in Procs, Alone(p),
           EnsureCerts(p) \/ CertReloadDue(p) \/ CertReload(p) \/ CertReloadFails(p)
    PROVE  Staging' /\ TestedLoads'
<1> USE DEF Typed, ControlOK, Alone
<1> DEFINE out == {"idle", "rename_chain", "rename_key", "no_changes", "test_failed"}
<1>1. ASSUME pc'[p] \in out PROVE Staging' /\ TestedLoads'
  BY <1>1 DEF Staging, CommandFits, DiffFits, LoopsInOrder, StagedAsPlanned,
              TestedAsPlanned, TestedLoads, Building, Swapping
<1>2. ASSUME pc'[p] = "read", cmd'[p] = "sync" PROVE Staging' /\ TestedLoads'
  BY <1>2 DEF Staging, CommandFits, DiffFits, LoopsInOrder, StagedAsPlanned,
              TestedAsPlanned, TestedLoads, Building, Swapping
<1>3. CASE Existing(p) \/ Failed(p) \/ RenameKey(p) \/ RenameFails(p)
  <2>1. pc'[p] = "read" /\ cmd' = cmd
    BY <1>3 DEF Existing, Failed, Ensuring, RenameKey, RenameFails, Goto, vars, plan
  <2>2. cmd[p] = "sync"
    BY <1>3 DEF Existing, Failed, Ensuring, RenameKey, RenameFails, Goto, AcmeOfSync,
                PCs, AllPCs
  <2> QED  BY <1>2, <2>1, <2>2
<1>4. CASE Issue(p) \/ RenameChain(p) \/ CertReloadDue(p)
  <2>1. pc'[p] \in out
    BY <1>4 DEF Issue, RenameChain, CertReloadDue, Goto
  <2> QED  BY <1>1, <2>1
<1>5. CASE CertReload(p) \/ CertReloadFails(p)
  <2>1. pc'[p] \in out
    BY <1>5 DEF CertReload, CertReloadFails, Exit
  <2> QED  BY <1>1, <2>1
<1> QED  BY <1>3, <1>4, <1>5 DEF EnsureCerts

\* ... a step of Generations or none that shows.
LEMMA AcmeMapsTo ==
    ASSUME Typed, NEW p \in Procs, Alone(p),
           EnsureCerts(p) \/ CertReloadDue(p) \/ CertReload(p) \/ CertReloadFails(p)
    PROVE  [Generation!Next]_(Generation!state)
<1> USE DEF Typed, DiskOK, ControlOK
<1>1. CASE Existing(p)
  BY <1>1, Invisible DEF Existing, vars, Exchanging
<1>2. CASE Failed(p) \/ Issue(p) \/ RenameChain(p) \/ RenameKey(p) \/ RenameFails(p)
  <2>1. /\ UNCHANGED <<fs, running>>
        /\ pc[p] \in {"read", "rename_chain", "rename_key"}
        /\ pc'[p] \in {"read", "rename_chain", "rename_key"}
    BY <1>2 DEF Failed, Ensuring, Issue, RenameChain, RenameKey, RenameFails, Goto
  <2> QED  BY <2>1, Invisible DEF Exchanging
<1>3. CASE CertReloadDue(p)
  <2>1. /\ UNCHANGED running /\ fs'.live = fs.live /\ fs'.prev = fs.prev
        /\ pc[p] \in {"diff", "discard", "discarding"}
        /\ pc'[p] \in {"no_changes", "test_failed"}
    BY <1>3 DEF CertReloadDue, Goto, Places
  <2> QED  BY <2>1, Invisible DEF Exchanging
<1>4. CASE CertReload(p)
  <2>1. /\ pc[p] \in {"no_changes", "test_failed"} /\ pc'[p] = "idle"
        /\ UNCHANGED fs /\ Accepts(fs.live) /\ running' = Included(fs.live)
        /\ fs.live \in Dirs
    BY <1>4 DEF CertReload, ReloadWorks, Exit, Places
  <2>2. Generation!Loadable(fs.live)
    BY <2>1, AcceptedLoads DEF Generation!Loadable, Included
  <2>3. running' = Generation!Loaded(fs.live)
    BY <2>1 DEF Included, Generation!Loaded, EmptyTree, Generation!EmptyTree
  <2>4. Generation!Load
    BY <2>1, <2>2, <2>3, View DEF Generation!Load, Exchanging
  <2> QED  BY <2>4 DEF Generation!Next
<1>5. CASE CertReloadFails(p)
  <2>1. UNCHANGED <<fs, running>> /\ pc'[p] = "idle"
    BY <1>5 DEF CertReloadFails, ReloadRefused, Exit
  <2> QED  BY <2>1, EndingMaps
<1> QED  BY <1>1, <1>2, <1>3, <1>4, <1>5 DEF EnsureCerts

\* Each step of cmd_sync is one of the ACME work or one that Commands has.
LEMMA SyncSteps ==
    ASSUME NEW p \in Procs, BeginSync(p) \/ SyncStep(p) \/ Killed(p)
    PROVE  \/ EnsureCerts(p) \/ CertReloadDue(p) \/ CertReload(p) \/ CertReloadFails(p)
           \/ Begin(p) \/ Step(p) \/ Cut(p)
  BY DEF BeginSync, SyncStep, Deploy, Killed, Cut

\* The build of a sync with ACME work does what is planned, one invocation at a
\* time, and what it swaps in can be loaded.
LEMMA SyncStagingAlways ==
    ASSUME OneAtATime
    PROVE  SpecSync => [](Typed /\ Deploying /\ Staging /\ TestedLoads)
<1>1. InitSync => Staging /\ TestedLoads
  BY DEF InitSync, Init, Staging, CommandFits, DiffFits, LoopsInOrder, StagedAsPlanned,
         TestedAsPlanned, TestedLoads, Building, Swapping
<1>2. ASSUME Typed, AcmeOfSync, Deploying, Staging, TestedLoads, [NextSync]_syncVars
      PROVE  Staging' /\ TestedLoads'
  <2>1. ASSUME NEW p \in Procs, BeginSync(p) \/ SyncStep(p) \/ Killed(p)
        PROVE  Staging' /\ TestedLoads'
    <3>1. Alone(p)
      BY DEF OneAtATime, Alone
    <3> QED
      BY <1>2, <2>1, <3>1, SyncSteps, AcmeStaged, CommandKeepsStaging, CommandKeepsLoads
  <2>2. CASE UNCHANGED syncVars
    BY <1>2, <2>2 DEF syncVars, vars, plan, Staging, CommandFits, DiffFits, LoopsInOrder,
       StagedAsPlanned, TestedAsPlanned, Carried, Added, Updated, TestedLoads
  <2> QED  BY <1>2, <2>1, <2>2 DEF NextSync
<1>3. Typed /\ AcmeOK /\ AcmeOfSync /\ [NextSync]_syncVars
         => Typed' /\ AcmeOK' /\ AcmeOfSync'
  BY SyncTypes
<1>4. InitSync => Typed /\ AcmeOK /\ AcmeOfSync
  BY SyncInit
<1> QED  BY <1>1, <1>2, <1>3, <1>4, SyncDeployingAlways, PTL DEF SpecSync

\* With one invocation at a time, a sync that has replaced certificates tests the
\* tree its diff asks for, and of the configs it has read the new generation lacks
\* none of a desired domain and at most max_removals_per_cycle others: neither the
\* certificates nor the reloads made for them come between plan and generation.
THEOREM PlannedWithAcme ==
    ASSUME OneAtATime
    PROVE  SpecSync => [](StagedAsPlanned /\ LossesBounded)
<1>1. Staging => StagedAsPlanned
  BY DEF Staging
<1> QED  BY <1>1, LossesOfTested, SyncStagingAlways, PTL

\* With one invocation at a time, the whole of cmd_sync looks like Generations:
\* whatever fails, nginx loads whole accepted generations only, also when it is
\* reloaded for certificates, and the generation before is whole until then.
THEOREM SyncIsAtomic ==
    ASSUME OneAtATime
    PROVE  SpecSync => ImplementsGenerations
<1>1. ASSUME Typed, Deploying, Staging, TestedLoads, [NextSync]_syncVars
      PROVE  [Generation!Next]_(Generation!state)
  <2>1. ASSUME NEW p \in Procs, BeginSync(p) \/ SyncStep(p) \/ Killed(p)
        PROVE  [Generation!Next]_(Generation!state)
    <3>1. Alone(p)
      BY DEF OneAtATime, Alone
    <3> QED  BY <1>1, <2>1, <3>1, SyncSteps, AcmeMapsTo, CommandMapsTo
  <2>2. CASE UNCHANGED syncVars
    BY <2>2 DEF syncVars, vars, Generation!state, InExchange
  <2> QED  BY <1>1, <2>1, <2>2 DEF NextSync
<1>2. InitSync => Generation!Init
  BY InitMaps DEF InitSync
<1> QED
  BY <1>1, <1>2, SyncStagingAlways, PTL DEF SpecSync, ImplementsGenerations, Generation!Spec

-----------------------------------------------------------------------------
(* What a sync has nginx load, with any number of invocations.              *)

\* The steps with which a deploying sync exits with 0: a reload that loads every
\* certificate, or a diff without changes after a loop without new certificates.
LEMMA SyncSucceeds ==
    ASSUME Typed, NEW p \in Procs, Deploy(p), cmd[p] = "sync",
           pc[p] # "idle", pc'[p] = "idle",
           outcome'[p] \in {"success", "no_changes", "cert_only_reloaded"}
    PROVE  material[p] \cap outdated' = {}
<1> USE DEF Typed, ControlOK
<1>1. ASSUME NEW how, Exit(p, how) PROVE outcome'[p] = how
  BY <1>1 DEF Exit
<1>2. CASE Reload(p)
  <2>1. Reloads(p)
    BY <1>2 DEF Reload, ReloadWorks, Reloads
  <2> QED  BY <2>1 DEF Deploy
<1>3. CASE SyncNoChanges(p)
  <2>1. outcome'[p] = "no_changes"
    BY <1>3, <1>1 DEF SyncNoChanges
  <2> QED  BY <2>1 DEF Deploy, material_change
<1>4. ASSUME \/ DownNotLive(p) \/ AddConf(p) \/ WriteFails(p) \/ Discarded(p)
             \/ LeftStaging(p) \/ SwapFails(p) \/ RestoreFails(p) \/ ReloadRestored(p)
      PROVE  FALSE
  BY <1>1, <1>4 DEF DownNotLive, AddConf, WriteFails, Discarded, LeftStaging,
     SwapFails, RestoreFails, ReloadRestored
<1>5. ASSUME Removal(p) PROVE FALSE
  BY <1>1, <1>5 DEF Removal, NothingToRemove, List, Unlink, Rmdir, RmdirFails, Goto,
     Target, Unlinking, Cleared
<1>6. ASSUME \/ SyncRead(p) \/ UpRead(p) \/ DownRead(p) \/ SyncDiff(p)
             \/ AddCopyChain(p) \/ AddCopyKey(p)
             \/ Mkdir(p) \/ WriteKept(p) \/ WriteAdded(p) \/ WriteUpdated(p) \/ Built(p)
             \/ TestPasses(p) \/ TestFails(p) \/ SwapOut(p) \/ SwapIn(p)
             \/ ReloadFails(p) \/ Restore(p)
      PROVE  FALSE
  BY <1>6 DEF SyncRead, UpRead, DownRead, ReadLive, SyncDiff, AddCopyChain, AddCopyKey,
     Mkdir, WriteKept, WriteAdded, WriteUpdated, Write, Built, TestPasses, TestFails,
     SwapOut, SwapIn, ReloadFails, Restore, Goto
<1>7. Step(p) \/ LeftStaging(p)
  BY DEF Deploy
<1> QED  BY <1>2, <1>3, <1>4, <1>5, <1>6, <1>7 DEF Step, StagerStep

\* Whatever else runs at the same time, and however the deployment goes: a sync
\* that exits with 0 has had nginx load every certificate it has installed.
THEOREM CertsServedAlways == SpecSync => CertsServed
<1>1. ASSUME Typed, [NextSync]_syncVars, NEW p \in Procs,
             pc[p] # "idle", pc'[p] = "idle", cmd[p] = "sync",
             outcome'[p] \in {"success", "no_changes", "cert_only_reloaded"}
      PROVE  material[p] \cap outdated' = {}
  <2>1. ~UNCHANGED syncVars
    BY <1>1 DEF syncVars, vars
  <2>2. PICK q \in Procs : BeginSync(q) \/ SyncStep(q) \/ Killed(q)
    BY <1>1, <2>1 DEF NextSync
  <2>3. q = p
    <3>1. ASSUME q # p PROVE pc'[p] = pc[p]
      <4>1. CASE BeginSync(q) \/ Deploy(q) \/ Killed(q)
        BY <1>1, <3>1, <4>1, ProcessWithoutAcme DEF BeginSync, Deploy, Killed, Cut
      <4>2. CASE EnsureCerts(q) \/ CertReloadDue(q) \/ CertReload(q) \/ CertReloadFails(q)
        BY <1>1, <3>1, <4>2 DEF EnsureCerts, Existing, Failed, Issue, RenameChain,
           RenameKey, RenameFails, CertReloadDue, CertReload, CertReloadFails, Goto,
           Exit, vars, Typed, ControlOK
      <4> QED  BY <2>2, <4>1, <4>2 DEF SyncStep
    <3> QED  BY <1>1, <3>1
  <2>4. CASE Deploy(p)
    BY <1>1, <2>4, SyncSucceeds
  <2>5. CASE CertReload(p)
    BY <2>5 DEF CertReload
  <2>6. CASE CertReloadFails(p) \/ Killed(p)
    <3>1. outcome'[p] \in {"cert_reload_failed", "test_failed_cert_reload_failed", "error"}
      BY <1>1, <2>6 DEF CertReloadFails, Killed, Interrupted, Exit, Typed, ControlOK
    <3> QED  BY <1>1, <3>1
  <2>7. CASE EnsureCerts(p) \/ CertReloadDue(p)
    BY <1>1, <2>7 DEF EnsureCerts, Existing, Failed, Ensuring, Issue, RenameChain,
       RenameKey, RenameFails, CertReloadDue, Goto, vars, Typed, ControlOK
  <2>8. CASE BeginSync(p)
    BY <1>1, <2>8 DEF BeginSync, Begin, StartSync, StartUp, StartDown, StartRollback,
       StartAdd, Remove, Start, Goto
  <2> QED  BY <2>2, <2>3, <2>4, <2>5, <2>6, <2>7, <2>8 DEF SyncStep
<1>2. Typed /\ [NextSync]_syncVars =>
        [\A p \in Procs :
           /\ pc[p] # "idle" /\ pc'[p] = "idle" /\ cmd[p] = "sync"
           /\ outcome'[p] \in {"success", "no_changes", "cert_only_reloaded"}
           => material[p] \cap outdated' = {}]_syncVars
  BY <1>1
<1>3. SpecSync => []Typed
  BY SyncTypeCorrect, SyncParts, PTL
<1> QED  BY <1>2, <1>3, PTL DEF SpecSync, CertsServed
=============================================================================
