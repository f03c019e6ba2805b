------------------------------ MODULE Commands ------------------------------
(***************************************************************************)
(* main.rs: the commands that change state (sync without ACME, up, down,   *)
(* add, remove, rollback), composed with Differ and Stager.  Invocations   *)
(* come and go in any number, at most one at a time for each member of     *)
(* Procs.                                                                  *)
(***************************************************************************)
EXTENDS Stager

CONSTANTS
    Cmds,           \* the commands in use
    DesiredFiles,   \* the files a caller passes to sync --desired
    UpBody,         \* what a domain renders to with number 0 and status InUse
    AddBodies,      \* the same with the proxy conf that is given to add
    InitialLive,    \* live directories to begin with
    InitialCerts,   \* states of the certificate files to begin with
    Volatile,       \* domains whose certificate files others replace
    Unreadable      \* live configs that it may happen that they cannot be read

AllCmds == {"sync", "up", "down", "add", "remove", "rollback"}

ASSUME CmdsAssumption ==
    /\ Cmds \subseteq AllCmds
    /\ DesiredFiles \subseteq Seq(DomainInfos)
    /\ UpBody \in Bodies
    /\ AddBodies \subseteq Bodies
    /\ InitialLive \subseteq Dirs
    /\ InitialCerts \subseteq CertStates
    /\ Volatile \subseteq Names
    /\ Unreadable \subseteq Names

\* The DomainInfo of `up`: number 0, InUse, the configured proxy conf.
InUse(n) == [name |-> n, body |-> UpBody]

Start(p, c, list, at) ==
    /\ c \in Cmds
    /\ Goto(p, "idle", at)
    /\ cmd' = [cmd EXCEPT ![p] = c]
    /\ desired' = [desired EXCEPT ![p] = list]
    /\ outcome' = [outcome EXCEPT ![p] = "none"]
    /\ UNCHANGED <<fs, certs, running, snap, diff, left, doomed, tested, faults>>

\* cmd_sync, up to read_live_configs.
StartSync(p) ==
    /\ \E list \in DesiredFiles : Start(p, "sync", list, "read")
    /\ UNCHANGED seen

\* cmd_up goes on only with a certificate that validates.
StartUp(p) ==
    /\ \E n \in Names : pem_valid[n] /\ Start(p, "up", <<InUse(n)>>, "read")
    /\ UNCHANGED seen

StartDown(p) ==
    /\ \E n \in Names : Start(p, "down", <<InUse(n)>>, "read")
    /\ UNCHANGED seen

\* cmd_rollback refuses to start without a previous generation.
StartRollback(p) ==
    /\ fs.prev # Absent
    /\ Start(p, "rollback", <<>>, "drop_live")
    /\ seen' = [seen EXCEPT ![p] = fs.prev]

\* cmd_add, after it has validated the name, the given files and the proxy conf.
StartAdd(p) ==
    /\ \E info \in [name : Names, body : AddBodies] :
         Start(p, "add", <<info>>, "copy_chain")
    /\ UNCHANGED seen

\* cmd_remove deletes any <name>.conf of the live directory, marker or not,
\* and neither tests nor reloads.
Remove(p) ==
    /\ "remove" \in Cmds
    /\ pc[p] = "idle"
    /\ fs.live # Absent
    /\ \E n \in Files(fs.live) : fs' = [fs EXCEPT !.live[n] = NoFile]
    /\ outcome' = [outcome EXCEPT ![p] = "success"]
    /\ UNCHANGED <<certs, running, pc, plan, left, doomed, seen, tested, faults>>

-----------------------------------------------------------------------------
(* sync, up and down: read the live directory and compute the DiffResult.   *)

\* read_live_configs warns of a file that it cannot read and goes on without it.
Readings == UNION {read_live_configs(fs.live, skipped) : skipped \in SUBSET Unreadable}

WarnsIfPartial(found) ==
    IF found \in read_live_configs(fs.live, {}) THEN UNCHANGED faults ELSE Fault

ReadLive(p, to, found) ==
    /\ Goto(p, "read", to)
    /\ snap' = [snap EXCEPT ![p] = found]
    /\ seen' = [seen EXCEPT ![p] = fs.live]
    /\ WarnsIfPartial(found)
    /\ UNCHANGED <<fs, certs, running, cmd, desired, left, doomed, outcome, tested>>

SyncRead(p) ==
    /\ cmd[p] = "sync"
    /\ \E found \in Readings : ReadLive(p, "diff", found)
    /\ UNCHANGED diff

\* A domain that is live is updated, any other is added.
UpRead(p) ==
    /\ cmd[p] = "up"
    /\ \E found \in Readings :
         LET is_live == desired[p][1].name \in Files(found)
         IN  /\ ReadLive(p, "clear", found)
             /\ diff' = [diff EXCEPT ![p] =
                           [to_add    |-> IF is_live THEN {} ELSE {1},
                            to_update |-> IF is_live THEN {1} ELSE {},
                            to_remove |-> {}]]

DownRead(p) ==
    /\ cmd[p] = "down"
    /\ \E found \in Readings :
         /\ desired[p][1].name \in Files(found)
         /\ ReadLive(p, "clear", found)
    /\ diff' = [diff EXCEPT ![p] =
                  [NoDiff EXCEPT !.to_remove = {desired[p][1].name}]]

DownNotLive(p) ==
    /\ cmd[p] = "down" /\ pc[p] = "read"
    /\ \E found \in Readings :
         /\ desired[p][1].name \notin Files(found)
         /\ WarnsIfPartial(found)
    /\ Exit(p, "error")
    /\ UNCHANGED <<fs, certs, running>>

\* compute_diff validates the certificates after the live configs were read.
SyncDiff(p) ==
    LET d == compute_diff(desired[p], snap[p], pem_valid)
    IN  /\ has_changes(d)
        /\ Goto(p, "diff", "clear")
        /\ diff' = [diff EXCEPT ![p] = d]
        /\ UNCHANGED <<fs, certs, running, cmd, desired, snap, left, doomed, outcome,
                       seen, tested, faults>>

SyncNoChanges(p) ==
    /\ pc[p] = "diff"
    /\ ~has_changes(compute_diff(desired[p], snap[p], pem_valid))
    /\ Exit(p, "no_changes")
    /\ UNCHANGED <<fs, certs, running, faults>>

-----------------------------------------------------------------------------
(* add: copy the two certificate files in place, then write the config into *)
(* the live directory.  No lock, no temporary file, no test, no reload.     *)

SetCert(n, states) ==
    \E s \in states : certs' = [certs EXCEPT ![n] = s]

\* The new chain beside the old key, if there is one.
AddCopyChain(p) ==
    /\ Goto(p, "copy_chain", "copy_key")
    /\ LET n == desired[p][1].name
       IN  SetCert(n, IF certs[n] = "invalid" THEN {"invalid", "mismatched"}
                                              ELSE {"mismatched", "good"})
    /\ UNCHANGED <<fs, running, plan, left, doomed, outcome, seen, tested, faults>>

\* Nobody compares the new key with the new chain.
AddCopyKey(p) ==
    /\ Goto(p, "copy_key", "write_conf")
    /\ SetCert(desired[p][1].name, {"mismatched", "good"})
    /\ UNCHANGED <<fs, running, plan, left, doomed, outcome, seen, tested, faults>>

\* Both copies overwrite in place: cut short, a file is no PEM any more.
AddCopyTorn(p) ==
    /\ pc[p] \in {"copy_chain", "copy_key"}
    /\ Fault
    /\ SetCert(desired[p][1].name, {"invalid"})
    /\ Exit(p, "error")
    /\ UNCHANGED <<fs, running>>

AddConf(p) ==
    /\ pc[p] = "write_conf"
    /\ fs' = [fs EXCEPT !.live =
                [Included(@) EXCEPT ![desired[p][1].name] = desired[p][1].body]]
    /\ Exit(p, "success")
    /\ UNCHANGED <<certs, running, faults>>

\* The write is cut short: an empty file, without the marker.
AddConfTorn(p) ==
    /\ pc[p] = "write_conf"
    /\ Fault
    /\ fs' = [fs EXCEPT !.live =
                [Included(@) EXCEPT ![desired[p][1].name] = Alien]]
    /\ Exit(p, "error")
    /\ UNCHANGED <<certs, running>>

-----------------------------------------------------------------------------
\* Somebody else replaces a domain's certificate files.
CertChange(n) ==
    /\ SetCert(n, CertStates \ {certs[n]})
    /\ UNCHANGED <<fs, running, pc, plan, left, doomed, outcome, seen, tested, faults>>

Init ==
    /\ \E dir \in InitialLive :
         /\ fs = [live |-> dir, staging |-> Absent, prev |-> Absent]
         /\ running = Included(dir)
    /\ certs \in [Names -> InitialCerts]
    /\ pc = [p \in Procs |-> "idle"]
    /\ cmd = [p \in Procs |-> "none"]
    /\ desired = [p \in Procs |-> <<>>]
    /\ snap = [p \in Procs |-> EmptyTree]
    /\ diff = [p \in Procs |-> NoDiff]
    /\ left = [p \in Procs |-> NoWrites]
    /\ doomed = [p \in Procs |-> {}]
    /\ outcome = [p \in Procs |-> "none"]
    /\ seen = [p \in Procs |-> Absent]
    /\ tested = [p \in Procs |-> Absent]
    /\ faults = 0

Begin(p) ==
    \/ StartSync(p) \/ StartUp(p) \/ StartDown(p) \/ StartRollback(p)
    \/ StartAdd(p) \/ Remove(p)

\* What a process that is running does next, unless it is interrupted.
Step(p) ==
    \/ SyncRead(p) \/ UpRead(p) \/ DownRead(p) \/ DownNotLive(p)
    \/ SyncDiff(p) \/ SyncNoChanges(p)
    \/ AddCopyChain(p) \/ AddCopyKey(p) \/ AddConf(p)
    \/ StagerStep(p)

Cut(p) == Interrupted(p) \/ LeftStaging(p) \/ AddCopyTorn(p) \/ AddConfTorn(p)

Next ==
    \/ \E p \in Procs : Begin(p) \/ Step(p) \/ Cut(p)
    \/ \E n \in Volatile : CertChange(n)

Spec == Init /\ [][Next]_vars

\* Every process that runs goes on until its command ends.
FairSpec == Spec /\ \A p \in Procs : WF_vars(Step(p))

\* The caller's scheduler runs sync again and again.
SyncForever == FairSpec /\ \A p \in Procs : WF_vars(StartSync(p))

-----------------------------------------------------------------------------
PCs == {"idle", "read", "diff", "copy_chain", "copy_key", "write_conf",
        "clear", "clearing", "mkdir", "write", "test", "discard", "discarding",
        "drop_prev", "dropping_prev", "swap_out", "swap_in", "reload",
        "drop_live", "dropping_live", "restore", "reload_restored"}

Outcomes == {"none", "success", "no_changes", "test_failed", "error"}

\* With the steps and the outcomes of a sync that has ACME work, in Sync.
AllPCs == PCs \cup {"rename_chain", "rename_key", "no_changes", "test_failed"}
AllOutcomes ==
    Outcomes \cup {"cert_only_reloaded", "cert_reload_failed",
                   "test_failed_cert_reloaded", "test_failed_cert_reload_failed"}

DiskOK ==
    /\ fs \in [Places -> Dirs]
    /\ certs \in [Names -> CertStates]
    /\ running \in Trees
    /\ faults \in 0..MaxFaults

ControlOK ==
    /\ pc \in [Procs -> AllPCs]
    /\ cmd \in [Procs -> AllCmds \cup {"none"}]
    /\ desired \in [Procs -> Seq(DomainInfos)]
    /\ doomed \in [Procs -> SUBSET Names]
    /\ outcome \in [Procs -> AllOutcomes]
    /\ seen \in [Procs -> Dirs]
    /\ tested \in [Procs -> Dirs]
    /\ \A p \in Procs :
         /\ cmd[p] \in {"up", "down", "add"} => desired[p] # <<>>
         /\ pc[p] \in {"copy_chain", "copy_key", "write_conf"} => cmd[p] = "add"

\* What is to be written exists: positions of `desired`, files of `snap`.
PlanOK ==
    /\ snap \in [Procs -> ManagedTrees]
    /\ diff \in [Procs -> DiffResults]
    /\ left \in [Procs -> Writes]
    /\ \A p \in Procs :
         /\ pc[p] \in {"clear", "clearing", "mkdir", "write", "test"}
              => diff[p].to_add \cup diff[p].to_update \subseteq DOMAIN desired[p]
         /\ pc[p] = "write"
              => /\ left[p].keep \subseteq Files(snap[p])
                 /\ left[p].add \cup left[p].update \subseteq DOMAIN desired[p]

\* What Sync shares; without ACME work its steps do not come about.
Typed == DiskOK /\ ControlOK /\ PlanOK

WithoutAcme == \A p \in Procs : pc[p] \in PCs /\ outcome[p] \in Outcomes

TypeOK == Typed /\ WithoutAcme

Managed(dir) == Files(Marked(dir))

\* One invocation at a time: what the caller has to ensure, since the code
\* takes no lock around a deployment.
OneAtATime == \A p, q \in Procs : p = q

\* Until the swap begins, the live directory is what the command has read:
\* a build, a test that fails and the error paths before the swap leave it
\* alone (stager.rs, "nginx config test failed; live config is unchanged").
LiveUntouched ==
    \A p \in Procs :
       pc[p] \in {"diff", "clear", "clearing", "mkdir", "write", "test", "discard",
                 "discarding", "drop_prev", "dropping_prev", "swap_out"}
         => fs.live = seen[p]

\* Only a tree that nginx -t has accepted in this invocation is swapped in
\* (stager.rs, steps 3 and 4).
OnlyTestedSwappedIn ==
    \A p \in Procs :
       /\ pc[p] \in {"drop_prev", "dropping_prev", "swap_out", "swap_in"}
            => fs.staging = tested[p]
       /\ pc[p] = "reload" => fs.live = tested[p]

\* From the swap until the reload has succeeded or the rollback is over, the
\* generation that was live is complete in prev, or back in live.
OldGenerationKept ==
    \A p \in Procs :
       /\ pc[p] \in {"swap_in", "reload", "drop_live", "dropping_live", "restore"}
            => fs.prev = seen[p]
       /\ pc[p] = "reload_restored" => fs.live = seen[p]

\* What each step of a deployment takes for granted of the directories: that
\* the staging directory is there while it is filled and tested, that a tree
\* was tested before anything is swapped, that prev has been cleared before
\* live is moved to it.
SwapReady ==
    \A p \in Procs :
       /\ pc[p] \in {"write", "test"} => fs.staging # Absent
       /\ pc[p] \in {"drop_prev", "dropping_prev", "swap_out", "swap_in", "reload"}
            => tested[p] # Absent
       /\ pc[p] = "swap_out" => fs.prev = Absent

\* The loops of build_staging_dir, leftovers of earlier runs included, add up
\* to the tree the diff asks for.
StagedAsPlanned ==
    \A p \in Procs :
       pc[p] = "test" => fs.staging = StagedTree(desired[p], diff[p], snap[p])

\* What a new generation may take away of what the command has read of the one
\* before it: sync at most max_removals_per_cycle configs and none of a desired
\* domain, up and down nothing but the domain they name.
LossesBounded ==
    \A p \in Procs :
       LET lost == Files(snap[p]) \ Managed(fs.live)
       IN  pc[p] = "reload" =>
              IF cmd[p] = "sync"
                THEN /\ lost \cap desired_names(desired[p]) = {}
                     /\ Cardinality(lost) =< MaxRemovals
                ELSE /\ lost = IF cmd[p] = "down" THEN desired_names(desired[p]) ELSE {}
                     /\ \A n \in Files(snap[p]) \ desired_names(desired[p]) :
                          fs.live[n] = snap[p][n]

\* When a deployment reports success, nginx serves the tree it has tested;
\* when a rollback does, the generation it found in prev.
SuccessIsServed ==
    [][\A p \in Procs :
          /\ pc[p] = "reload" /\ outcome'[p] = "success" /\ pc'[p] = "idle"
               => running' = tested[p]
          /\ pc[p] = "reload_restored" /\ outcome'[p] = "success" /\ pc'[p] = "idle"
               => running' = Included(seen[p])]_vars

\* A sync takes no domain that is still desired out of nginx's memory, whatever
\* has become of its certificate and of earlier invocations (differ.rs, "a
\* temporary cert issue must not silently remove a working domain's config").
SyncKeepsDesired ==
    [][\A p \in Procs :
          pc[p] = "reload" /\ cmd[p] = "sync" =>
             \A n \in desired_names(desired[p]) :
                running[n] \in Bodies => running'[n] \in Bodies]_vars

SettledFor(list, tree) ==
    /\ \A i \in DOMAIN list : tree[list[i].name] = list[i].body
    /\ Managed(tree) \subseteq desired_names(list)

\* Repeated syncs for one desired file, whatever fails in some of them, end up
\* with the live directory the file asks for.
Converges == <>[](\A list \in DesiredFiles : SettledFor(list, Included(fs.live)))

\* ... and with nginx serving it.
ServedConverges == <>[](\A list \in DesiredFiles : SettledFor(list, running))

\* Whatever overlapping invocations leave of the directories (a live or a
\* staging directory that is missing, filled or moved by the other), syncs that
\* one process runs undisturbed from then on repair it.
RepairsOverlap ==
    \A p \in Procs :
       (/\ <>[][StartSync(p) \/ Step(p)]_vars
        /\ []<><<StartSync(p)>>_vars) => Converges
=============================================================================
