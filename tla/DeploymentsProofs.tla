-------------------------- MODULE DeploymentsProofs --------------------------
(***************************************************************************)
(* The refinement of Generations, step by step: with one invocation at a   *)
(* time, what the system calls of Commands and Stager do to the            *)
(* directories looks like whole generations being exchanged.               *)
(***************************************************************************)
EXTENDS Deployments, StagingProofs

Exchanging == {"swap_in", "drop_live", "dropping_live", "restore"}

\* What is swapped in was accepted by nginx, whatever the certificates have
\* become since then.
TestedLoads ==
    \A p \in Procs :
       pc[p] \in Swapping => \A n \in Names : tested[p][n] \notin Broken

-----------------------------------------------------------------------------
\* Whichever way nginx.conf brings live in, a test that passes says that nginx
\* accepts every config in staging.
LEMMA TestConfAccepts ==
    ASSUME NEW form, TestConfPasses(form)
    PROVE  Accepts(fs.staging)
  BY DEF TestConfPasses, Accepts

\* A tree that nginx accepts has no rendering in it that nginx rejects.
LEMMA AcceptedLoads ==
    ASSUME NEW dir \in Dirs, Accepts(dir)
    PROVE  \A n \in Names : Included(dir)[n] \notin Broken
  BY BrokenAssumption DEF Accepts

\* What was tested goes on to be loadable, whatever the process does next.
LEMMA CommandKeepsLoads ==
    ASSUME Typed, TestedLoads, NEW p \in Procs, Alone(p), Begin(p) \/ Step(p) \/ Cut(p)
    PROVE  TestedLoads'
<1>1. \A q \in Procs : q = p
  BY DEF Alone
<1>2. ASSUME pc'[p] \notin Swapping PROVE TestedLoads'
  BY <1>1, <1>2 DEF TestedLoads
<1>3. ASSUME UNCHANGED tested, pc[p] \in Swapping PROVE TestedLoads'
  BY <1>1, <1>3 DEF TestedLoads
<1>4. CASE TestPasses(p)
  <2>1. tested'[p] = Included(fs.staging) /\ Accepts(fs.staging)
        /\ fs.staging \in Dirs
    BY <1>4, TestConfAccepts DEF TestPasses, Typed, DiskOK, ControlOK, Places
  <2> QED  BY <1>1, <2>1, AcceptedLoads DEF TestedLoads
<1>5. CASE Begin(p)
  <2>1. pc'[p] \in {"read", "drop_live", "copy_chain", "idle"}
    BY <1>5 DEF Begin, StartSync, StartUp, StartDown, StartRollback, StartAdd,
       Remove, Start, Goto, Typed, ControlOK
  <2> QED  BY <1>2, <2>1 DEF Swapping
<1>6. CASE Removal(p)
  <2>1. \/ pc'[p] \notin Swapping
        \/ UNCHANGED tested /\ pc[p] \in Swapping
    BY <1>6 DEF Removal, NothingToRemove, List, Unlink, Rmdir, RmdirFails, Goto,
       Exit, Target, Cleared, Unlinking, Swapping, Typed, ControlOK
  <2> QED  BY <1>2, <1>3, <2>1
<1>7. CASE SwapOut(p) \/ SwapIn(p)
  <2>1. UNCHANGED tested /\ pc[p] \in Swapping
    BY <1>7 DEF SwapOut, SwapIn, Goto, Swapping
  <2> QED  BY <1>3, <2>1
<1>8. CASE \/ SyncRead(p) \/ UpRead(p) \/ DownRead(p) \/ SyncDiff(p)
           \/ AddCopyChain(p) \/ AddCopyKey(p) \/ Mkdir(p)
           \/ WriteKept(p) \/ WriteAdded(p) \/ WriteUpdated(p) \/ Built(p)
           \/ TestFails(p) \/ ReloadFails(p) \/ Restore(p)
  <2>1. pc'[p] \in {"diff", "clear", "copy_key", "write_conf", "write", "test",
                    "discard", "drop_live", "reload_restored"}
    BY <1>8 DEF SyncRead, UpRead, DownRead, ReadLive, SyncDiff, AddCopyChain,
       AddCopyKey, Mkdir, WriteKept, WriteAdded, WriteUpdated, Write, Built,
       TestFails, ReloadFails, Restore, Goto, Typed, ControlOK
  <2> QED  BY <1>2, <2>1 DEF Swapping
<1>9. ASSUME NEW how, Exit(p, how) PROVE TestedLoads'
  <2>1. pc'[p] = "idle"
    BY <1>9 DEF Exit, Typed, ControlOK
  <2> QED  BY <1>2, <2>1 DEF Swapping
<1>10. CASE \/ DownNotLive(p) \/ SyncNoChanges(p) \/ AddConf(p) \/ WriteFails(p)
            \/ Discarded(p) \/ SwapFails(p) \/ Reload(p) \/ RestoreFails(p)
            \/ ReloadRestored(p) \/ Cut(p)
  BY <1>9, <1>10 DEF DownNotLive, SyncNoChanges, AddConf, WriteFails, Discarded,
     SwapFails, Reload, RestoreFails, ReloadRestored, Cut, Interrupted, LeftStaging,
     AddCopyTorn, AddConfTorn
<1> QED  BY <1>4, <1>5, <1>6, <1>7, <1>8, <1>10 DEF Step, StagerStep

\* With one invocation at a time, what was tested goes on to be loadable.
LEMMA TestedLoadsAlways ==
    ASSUME OneAtATime
    PROVE  Spec => []TestedLoads
<1>1. Init => TestedLoads
  BY DEF Init, TestedLoads, Swapping
<1>2. ASSUME Typed, TestedLoads, [Next]_vars
      PROVE  TestedLoads'
  <2>1. ASSUME NEW p \in Procs, Begin(p) \/ Step(p) \/ Cut(p)
        PROVE  TestedLoads'
    <3>1. Alone(p)
      BY DEF OneAtATime, Alone
    <3> QED  BY <1>2, <2>1, <3>1, CommandKeepsLoads
  <2>2. CASE UNCHANGED <<pc, tested>>
    BY <1>2, <2>2 DEF TestedLoads
  <2>3. ASSUME NEW n \in Volatile, CertChange(n) PROVE TestedLoads'
    BY <2>2, <2>3 DEF CertChange
  <2>4. CASE UNCHANGED vars
    BY <2>2, <2>4 DEF vars
  <2> QED  BY <1>2, <2>1, <2>3, <2>4 DEF Next
<1> QED  BY <1>1, <1>2, TypedAlways, PTL DEF Spec

-----------------------------------------------------------------------------
(* The mapping, seen from the one process there is.                         *)

\* Whether an exchange is going on and whether a reload is to come depend on
\* where that process is.
LEMMA View ==
    ASSUME NEW p \in Procs, Alone(p)
    PROVE  /\ InExchange <=> pc[p] \in Exchanging
           /\ InExchange' <=> pc'[p] \in Exchanging
           /\ (\E q \in Procs : pc[q] = "reload") <=> pc[p] = "reload"
           /\ (\E q \in Procs : pc'[q] = "reload") <=> pc'[p] = "reload"
  BY DEF InExchange, Exchanging, Alone

\* A step that leaves live, prev and nginx alone and begins or ends neither an
\* exchange nor a reload is invisible.
LEMMA Invisible ==
    ASSUME NEW p \in Procs, Alone(p), UNCHANGED running,
           fs'.live = fs.live, fs'.prev = fs.prev,
           pc[p] \in Exchanging <=> pc'[p] \in Exchanging,
           pc[p] = "reload" <=> pc'[p] = "reload"
    PROVE  UNCHANGED Generation!state
  BY View DEF Generation!state

\* Where a command ends, however it ends: in the middle of an exchange it is an
\* interruption, before its reload the new generation stays, anywhere else
\* nothing happens.
LEMMA EndingMaps ==
    ASSUME Typed, NEW p \in Procs, Alone(p), UNCHANGED running,
           fs'.live = fs.live, fs'.prev = fs.prev, pc'[p] = "idle"
    PROVE  [Generation!Next]_(Generation!state)
<1>1. fs.live \in Dirs
  BY DEF Typed, DiskOK, Places
<1>2. CASE pc[p] \in Exchanging
  <2>1. Generation!Interrupt
    <3>1. fs.live \in Generation!Dirs
      BY <1>1 DEF Dirs, Trees, Generation!Dirs, Generation!Trees
    <3> QED  BY <1>2, <3>1, View DEF Generation!Interrupt, Exchanging
  <2> QED  BY <2>1 DEF Generation!Next
<1>3. CASE pc[p] = "reload"
  <2>1. Generation!Settle
    BY <1>3, View DEF Generation!Settle, Exchanging
  <2> QED  BY <2>1 DEF Generation!Next
<1>4. CASE pc[p] \notin Exchanging /\ pc[p] # "reload"
  <2>1. UNCHANGED Generation!state
    BY <1>4, Invisible DEF Exchanging
  <2> QED  BY <2>1
<1> QED  BY <1>2, <1>3, <1>4

-----------------------------------------------------------------------------
(* The steps.                                                               *)

\* Starting a command is invisible, but a rollback undoes a generation at once,
\* before it has removed anything, and remove edits the current one.
LEMMA BeginMaps ==
    ASSUME Typed, NEW p \in Procs, Alone(p), Begin(p)
    PROVE  [Generation!Next]_(Generation!state)
<1> USE DEF Typed, DiskOK, ControlOK
<1>1. ASSUME NEW c, NEW list, NEW at \in {"read", "copy_chain"}, Start(p, c, list, at)
      PROVE  UNCHANGED Generation!state
  BY <1>1, Invisible DEF Start, Goto, Exchanging
<1>2. CASE StartSync(p) \/ StartUp(p) \/ StartDown(p) \/ StartAdd(p)
  BY <1>1, <1>2 DEF StartSync, StartUp, StartDown, StartAdd
<1>3. CASE StartRollback(p)
  <2>1. /\ fs.prev # Absent /\ UNCHANGED <<fs, running>>
        /\ pc[p] = "idle" /\ pc'[p] = "drop_live"
    BY <1>3 DEF StartRollback, Start, Goto
  <2>2. Generation!Undo
    BY <2>1, View DEF Generation!Undo, Exchanging
  <2> QED  BY <2>2 DEF Generation!Next
<1>4. CASE Remove(p)
  <2>1. /\ pc[p] = "idle" /\ UNCHANGED <<pc, running>> /\ fs.live # Absent
        /\ fs.live \in Trees
    BY <1>4 DEF Remove, Dirs, Places
  <2>2. PICK n \in Files(fs.live) : fs' = [fs EXCEPT !.live[n] = NoFile]
    BY <1>4 DEF Remove
  <2>3. /\ n \in Names /\ fs'.live \in Trees /\ fs'.prev = fs.prev
        /\ \A m \in Names \ {n} : fs'.live[m] = fs.live[m]
    BY <2>1, <2>2 DEF Files, Trees, Places
  <2>4. Generation!Edit(n)
    BY <2>1, <2>3, View DEF Generation!Edit, Generation!Loaded, Generation!Trees, Trees,
                            Exchanging
  <2> QED  BY <2>3, <2>4 DEF Generation!Next
<1> QED  BY <1>2, <1>3, <1>4 DEF Begin

\* add writes the current generation in place; nothing else of main.rs shows.
LEMMA CommandMaps ==
    ASSUME Typed, NEW p \in Procs, Alone(p),
           \/ SyncRead(p) \/ UpRead(p) \/ DownRead(p) \/ DownNotLive(p)
           \/ SyncDiff(p) \/ SyncNoChanges(p)
           \/ AddCopyChain(p) \/ AddCopyKey(p) \/ AddConf(p)
           \/ AddCopyTorn(p) \/ AddConfTorn(p)
    PROVE  [Generation!Next]_(Generation!state)
<1> USE DEF Typed, DiskOK, ControlOK
<1>1. CASE \/ SyncRead(p) \/ UpRead(p) \/ DownRead(p) \/ SyncDiff(p)
           \/ AddCopyChain(p) \/ AddCopyKey(p)
  <2>1. /\ UNCHANGED <<fs, running>>
        /\ pc[p] \in {"read", "diff", "copy_chain", "copy_key"}
        /\ pc'[p] \in {"diff", "clear", "copy_key", "write_conf"}
    BY <1>1 DEF SyncRead, UpRead, DownRead, ReadLive, SyncDiff, AddCopyChain, AddCopyKey,
                Goto
  <2> QED  BY <2>1, Invisible DEF Exchanging
<1>2. CASE DownNotLive(p) \/ SyncNoChanges(p) \/ AddCopyTorn(p)
  <2>1. UNCHANGED <<fs, running>> /\ pc'[p] = "idle"
    BY <1>2 DEF DownNotLive, SyncNoChanges, AddCopyTorn, Exit
  <2> QED  BY <2>1, EndingMaps
<1>3. ASSUME NEW n \in Names, NEW body \in Bodies \cup {Alien},
             fs' = [fs EXCEPT !.live = [Included(@) EXCEPT ![n] = body]],
             pc[p] = "write_conf", pc'[p] = "idle", UNCHANGED running
      PROVE  Generation!Edit(n)
  <2>1. fs.live \in Dirs /\ Included(fs.live) \in Trees
    BY LiveConfigsType DEF Places
  <2>2. /\ fs'.live \in Trees /\ fs'.prev = fs.prev
        /\ \A m \in Names \ {n} : fs'.live[m] = Included(fs.live)[m]
    BY <1>3, <2>1 DEF Trees, Places
  <2>3. Included(fs.live) = Generation!Loaded(fs.live)
    BY DEF Included, Generation!Loaded, EmptyTree, Generation!EmptyTree
  <2> QED
    BY <1>3, <2>2, <2>3, View DEF Generation!Edit, Generation!Trees, Trees, Exchanging
<1>4. CASE AddConf(p) \/ AddConfTorn(p)
  <2>1. desired[p] \in Seq(DomainInfos) /\ desired[p] # <<>> /\ pc[p] = "write_conf"
    BY <1>4 DEF AddConf, AddConfTorn
  <2>2. desired[p][1] \in DomainInfos
    BY <2>1
  <2>3. desired[p][1].name \in Names /\ desired[p][1].body \in Bodies
    BY <2>2 DEF DomainInfos
  <2>4. pc'[p] = "idle" /\ UNCHANGED running
    BY <1>4 DEF AddConf, AddConfTorn, Exit
  <2>5. Generation!Edit(desired[p][1].name)
    BY <1>3, <1>4, <2>1, <2>3, <2>4 DEF AddConf, AddConfTorn
  <2> QED  BY <2>3, <2>5 DEF Generation!Next
<1> QED  BY <1>1, <1>2, <1>4

\* remove_dir_all gives up the previous generation bit by bit; clearing staging,
\* or the live directory once it is no longer the generation that counts, does
\* not show.
LEMMA RemovalMaps ==
    ASSUME Typed, NEW p \in Procs, Alone(p), Removal(p)
    PROVE  [Generation!Next]_(Generation!state)
<1> USE DEF Typed, DiskOK, ControlOK
<1>1. PICK at \in DOMAIN Target :
         \/ NothingToRemove(p, at) \/ List(p, at) \/ Unlink(p, at)
         \/ Rmdir(p, at) \/ RmdirFails(p, at)
  BY DEF Removal
<1>2. at \in {"clear", "discard", "drop_prev", "drop_live"}
  BY DEF Target
<1>3. CASE NothingToRemove(p, at) \/ List(p, at)
  <2>1. /\ UNCHANGED <<fs, running>> /\ pc[p] = at
        /\ \/ at \in DOMAIN Cleared /\ pc'[p] = Cleared[at]
           \/ pc'[p] = Unlinking[at]
    BY <1>3 DEF NothingToRemove, List, Goto
  <2>2. /\ pc[p] \in Exchanging <=> pc'[p] \in Exchanging
        /\ pc[p] # "reload" /\ pc'[p] # "reload"
    BY <1>2, <2>1 DEF Exchanging, Cleared, Unlinking
  <2> QED  BY <2>1, <2>2, Invisible
<1>4. CASE RmdirFails(p, at)
  <2>1. UNCHANGED <<fs, running>> /\ pc'[p] = "idle"
    BY <1>4 DEF RmdirFails, Exit
  <2> QED  BY <2>1, EndingMaps
<1>5. ASSUME Unlink(p, at) \/ Rmdir(p, at)
      PROVE  /\ UNCHANGED running /\ pc[p] = Unlinking[at]
             /\ pc'[p] = Unlinking[at] \/ (at \in DOMAIN Cleared /\ pc'[p] = Cleared[at])
             /\ \A d \in Places \ {Target[at]} : fs'[d] = fs[d]
  BY <1>5 DEF Unlink, Rmdir, Goto, Target, Unlinking, Cleared
<1>6. CASE (Unlink(p, at) \/ Rmdir(p, at)) /\ at # "drop_prev"
  <2>1. pc[p] \in Exchanging <=> pc'[p] \in Exchanging
    BY <1>2, <1>5, <1>6 DEF Unlinking, Cleared, Exchanging
  <2>2. pc[p] # "reload" /\ pc'[p] # "reload"
    BY <1>2, <1>5, <1>6 DEF Unlinking, Cleared
  <2>3. CASE at # "drop_live"
    <3>1. fs'.live = fs.live /\ fs'.prev = fs.prev
      <4>1. Target[at] = "staging"
        BY <1>2, <1>6, <2>3 DEF Target
      <4> QED  BY <1>5, <1>6, <4>1 DEF Places
    <3> QED  BY <1>5, <1>6, <2>1, <2>2, <3>1, Invisible
  <2>4. CASE at = "drop_live"
    <3>1. pc[p] \in Exchanging /\ fs'.prev = fs.prev
      BY <1>5, <1>6, <2>4 DEF Target, Unlinking, Exchanging, Places
    <3> QED  BY <1>5, <1>6, <2>1, <2>2, <3>1, View DEF Generation!state
  <2> QED  BY <2>3, <2>4
<1>7. CASE (Unlink(p, at) \/ Rmdir(p, at)) /\ at = "drop_prev"
  <2>1. /\ UNCHANGED running /\ fs'.live = fs.live
        /\ pc[p] = "dropping_prev" /\ pc'[p] \in {"dropping_prev", "swap_out"}
    BY <1>5, <1>7 DEF Target, Unlinking, Cleared, Places
  <2>2. fs.prev \in Dirs
    BY DEF Places
  <2>3. Generation!Remnant(fs'.prev, fs.prev)
    <3>1. CASE Rmdir(p, at)
      <4>1. fs'.prev = Absent
        BY <1>7, <3>1 DEF Rmdir, Target, Places
      <4> QED  BY <4>1 DEF Generation!Remnant
    <3>2. CASE Unlink(p, at) /\ fs.prev = Absent
      <4>1. fs'.prev = Absent
        BY <1>7, <3>2 DEF Unlink, Target, Places
      <4> QED  BY <4>1 DEF Generation!Remnant
    <3>3. CASE Unlink(p, at) /\ fs.prev # Absent
      <4>1. PICK n \in doomed[p] : fs'.prev = [fs.prev EXCEPT ![n] = NoFile]
        BY <1>7, <3>3 DEF Unlink, Target, Places
      <4>2. fs.prev \in Trees
        BY <2>2, <3>3 DEF Dirs
      <4>3. fs'.prev \in Trees /\ \A m \in Names : fs'.prev[m] # NoFile
                                      => fs'.prev[m] = fs.prev[m]
        BY <4>1, <4>2 DEF Trees
      <4> QED  BY <3>3, <4>3 DEF Generation!Remnant, Generation!Trees, Trees,
                                 Generation!Files
    <3> QED  BY <1>7, <3>1, <3>2, <3>3
  <2>4. Generation!GiveUp
    BY <2>1, <2>3, View DEF Generation!GiveUp, Exchanging
  <2> QED  BY <2>4 DEF Generation!Next
<1> QED  BY <1>1, <1>3, <1>4, <1>6, <1>7

\* build_staging_dir does not show.
LEMMA BuildMaps ==
    ASSUME Typed, NEW p \in Procs, Alone(p),
           Mkdir(p) \/ WriteKept(p) \/ WriteAdded(p) \/ WriteUpdated(p)
             \/ WriteFails(p) \/ Built(p)
    PROVE  [Generation!Next]_(Generation!state)
<1> USE DEF Typed, DiskOK, ControlOK
<1>1. CASE WriteFails(p)
  <2>1. UNCHANGED <<fs, running>> /\ pc'[p] = "idle"
    BY <1>1 DEF WriteFails, Exit
  <2> QED  BY <2>1, EndingMaps
<1>2. CASE Mkdir(p) \/ WriteKept(p) \/ WriteAdded(p) \/ WriteUpdated(p) \/ Built(p)
  <2>1. /\ UNCHANGED running /\ fs'.live = fs.live /\ fs'.prev = fs.prev
        /\ pc[p] \in {"mkdir", "write"} /\ pc'[p] \in {"write", "test"}
    BY <1>2 DEF Mkdir, WriteKept, WriteAdded, WriteUpdated, Write, Built, Goto, Places
  <2> QED  BY <2>1, Invisible DEF Exchanging
<1> QED  BY <1>1, <1>2

\* The swap deploys the tested tree when it goes live, not when the old one is
\* moved away; a reload that is refused undoes it; the renames of the rollback
\* do not show.
LEMMA DeployMaps ==
    ASSUME Typed, Deploying, Staging, TestedLoads, NEW p \in Procs, Alone(p),
           \/ TestPasses(p) \/ TestFails(p) \/ Discarded(p) \/ LeftStaging(p)
           \/ SwapOut(p) \/ SwapIn(p) \/ SwapFails(p)
           \/ Reload(p) \/ ReloadFails(p)
           \/ Restore(p) \/ RestoreFails(p) \/ ReloadRestored(p)
           \/ Interrupted(p)
    PROVE  [Generation!Next]_(Generation!state)
<1> USE DEF Typed, DiskOK, ControlOK
<1>1. CASE TestPasses(p) \/ TestFails(p)
  <2>1. /\ UNCHANGED <<fs, running>>
        /\ pc[p] = "test" /\ pc'[p] \in {"drop_prev", "discard"}
    BY <1>1 DEF TestPasses, TestFails, Goto
  <2> QED  BY <2>1, Invisible DEF Exchanging
<1>2. CASE \/ Discarded(p) \/ LeftStaging(p) \/ SwapFails(p) \/ RestoreFails(p)
           \/ Interrupted(p)
  <2>1. /\ UNCHANGED running /\ fs'.live = fs.live /\ fs'.prev = fs.prev
        /\ pc'[p] = "idle"
    BY <1>2 DEF Discarded, LeftStaging, SwapFails, RestoreFails, Interrupted, Exit, Places
  <2> QED  BY <2>1, EndingMaps
<1>3. CASE SwapOut(p)
  <2>1. /\ pc[p] = "swap_out" /\ pc'[p] = "swap_in" /\ UNCHANGED running
        /\ fs.prev = Absent
    BY <1>3 DEF SwapOut, Goto, Deploying, SwapReady
  <2>2. fs'.prev = fs.live
    BY <1>3, <2>1 DEF SwapOut, Move, Places
  <2>3. UNCHANGED Generation!state
    BY <2>1, <2>2, View DEF Generation!state, Exchanging
  <2> QED  BY <2>3
<1>4. CASE SwapIn(p)
  <2>1. /\ pc[p] = "swap_in" /\ pc'[p] = "reload" /\ UNCHANGED running
        /\ fs.staging = tested[p]
    BY <1>4 DEF SwapIn, Goto, Deploying, OnlyTestedSwappedIn
  <2>2. fs'.live = tested[p] /\ fs'.prev = fs.prev
    BY <1>4, <2>1 DEF SwapIn, Move, Places
  <2>3. tested[p] \in ManagedTrees
    <3>1. /\ tested[p] = StagedTree(desired[p], diff[p], snap[p])
          /\ Fits(diff[p], desired[p])
      BY <2>1 DEF Staging, TestedAsPlanned, DiffFits, Swapping
    <3> QED  BY <3>1, StagedTreeType, SeqIsList DEF PlanOK
  <2>4. Generation!Loadable(tested[p])
    BY <2>1 DEF TestedLoads, Swapping, Generation!Loadable
  <2>5. tested[p] \in Generation!ManagedTrees
    BY <2>3 DEF ManagedTrees, Generation!ManagedTrees
  <2>6. Generation!Deploy
    BY <2>1, <2>2, <2>4, <2>5, View DEF Generation!Deploy, Exchanging
  <2> QED  BY <2>6 DEF Generation!Next
<1>5. ASSUME ReloadWorks, UNCHANGED fs, pc'[p] = "idle",
             pc[p] \in {"reload", "reload_restored"}
      PROVE  Generation!Load
  <2>1. running' = Included(fs.live) /\ fs.live \in Dirs /\ Accepts(fs.live)
    BY <1>5 DEF ReloadWorks, Places
  <2>2. Generation!Loadable(fs.live)
    BY <2>1, AcceptedLoads DEF Generation!Loadable, Included
  <2>3. running' = Generation!Loaded(fs.live)
    BY <2>1 DEF Included, Generation!Loaded, EmptyTree, Generation!EmptyTree
  <2> QED  BY <1>5, <2>2, <2>3, View DEF Generation!Load, Exchanging
<1>6. CASE Reload(p)
  <2>1. ReloadWorks /\ UNCHANGED fs /\ pc[p] = "reload" /\ pc'[p] = "idle"
    BY <1>6 DEF Reload, Exit
  <2> QED  BY <1>5, <2>1 DEF Generation!Next
<1>7. CASE ReloadFails(p)
  <2>1. /\ pc[p] = "reload" /\ pc'[p] = "drop_live"
        /\ UNCHANGED <<fs, running>>
    BY <1>7 DEF ReloadFails, ReloadRefused, Goto
  <2>2. Generation!Undo
    BY <2>1, View DEF Generation!Undo, Exchanging
  <2> QED  BY <2>2 DEF Generation!Next
<1>8. CASE Restore(p)
  <2>1. /\ pc[p] = "restore" /\ pc'[p] = "reload_restored" /\ UNCHANGED running
        /\ fs'.live = fs.prev /\ fs'.prev = Absent
    BY <1>8 DEF Restore, Goto, Move, Places
  <2>2. UNCHANGED Generation!state
    BY <2>1, View DEF Generation!state, Exchanging
  <2> QED  BY <2>2
<1>9. CASE ReloadRestored(p)
  <2>1. UNCHANGED fs /\ pc[p] = "reload_restored" /\ pc'[p] = "idle"
        /\ (ReloadWorks \/ UNCHANGED running)
    BY <1>9 DEF ReloadRestored, ReloadRefused, Exit
  <2> QED  BY <1>5, <2>1, EndingMaps DEF Generation!Next
<1> QED  BY <1>1, <1>2, <1>3, <1>4, <1>6, <1>7, <1>8, <1>9

\* The first state maps to a first state: whatever directory is live to begin
\* with, nginx serves it.
LEMMA InitMaps == Init => Generation!Init
<1> SUFFICES ASSUME Init PROVE Generation!Init
  OBVIOUS
<1>1. PICK dir \in InitialLive :
         /\ fs = [live |-> dir, staging |-> Absent, prev |-> Absent]
         /\ running = Included(dir)
  BY DEF Init
<1>2. ~InExchange /\ ~(\E p \in Procs : pc[p] = "reload")
  BY DEF Init, InExchange
<1>3. fs.live \in Generation!Dirs /\ fs.prev = Absent
  BY <1>1, CmdsAssumption DEF Dirs, Trees, Generation!Dirs, Generation!Trees
<1>4. running = Generation!Loaded(fs.live)
  BY <1>1 DEF Included, Generation!Loaded, EmptyTree, Generation!EmptyTree
<1> QED  BY <1>2, <1>3, <1>4 DEF Generation!Init

\* Every step of a command is a step of Generations or does not show.
LEMMA CommandMapsTo ==
    ASSUME Typed, Deploying, Staging, TestedLoads, NEW p \in Procs, Alone(p),
           Begin(p) \/ Step(p) \/ Cut(p)
    PROVE  [Generation!Next]_(Generation!state)
  BY BeginMaps, CommandMaps, RemovalMaps, BuildMaps, DeployMaps DEF Step, StagerStep, Cut

\* With one invocation at a time, a deployment looks atomic, whatever fails or is
\* interrupted in it: nginx only loads whole accepted generations, and until its
\* reload the generation before is found whole in live or in prev.
THEOREM DeploymentIsAtomic ==
    ASSUME OneAtATime
    PROVE  Spec => ImplementsGenerations
<1>1. ASSUME Typed, Deploying, Staging, TestedLoads, [Next]_vars
      PROVE  [Generation!Next]_(Generation!state)
  <2>1. ASSUME NEW p \in Procs, Begin(p) \/ Step(p) \/ Cut(p)
        PROVE  [Generation!Next]_(Generation!state)
    <3>1. Alone(p)
      BY DEF OneAtATime, Alone
    <3> QED  BY <1>1, <2>1, <3>1, CommandMapsTo
  <2>2. CASE UNCHANGED <<fs, pc, running>>
    BY <2>2 DEF Generation!state, InExchange
  <2>3. ASSUME NEW n \in Volatile, CertChange(n) PROVE UNCHANGED <<fs, pc, running>>
    BY <2>3 DEF CertChange
  <2>4. CASE UNCHANGED vars
    BY <2>2, <2>4 DEF vars
  <2> QED  BY <1>1, <2>1, <2>2, <2>3, <2>4 DEF Next
<1> QED
  BY <1>1, InitMaps, TypedAlways, DeployingAlways, StagingAlways, TestedLoadsAlways, PTL
  DEF Spec, ImplementsGenerations, Generation!Spec
=============================================================================
