-------------------------------- MODULE Sync --------------------------------
(***************************************************************************)
(* cmd_sync with [acme] configured, composed with the deployments of       *)
(* Commands: the ACME loop of cert_issuer.rs replaces certificate files    *)
(* before the live configs are read, and the reload matrix of main.rs      *)
(* reloads nginx for them when the deployment does not.  What CertIssuer   *)
(* has in detail (acme.sh, fsync, power loss) is abstracted to the two     *)
(* renames; what it has in one step (the deployment) is in detail here.    *)
(***************************************************************************)
EXTENDS Commands

\* add, which writes certificate files without the lock, is in CertWriters.
ASSUME SyncAssumption == "add" \notin Cmds

VARIABLES
    todo,       \* the desired domains whose certificates are still to be ensured
    material,   \* those whose certificate this sync has issued or renewed
    outdated    \* history: domains with files replaced since nginx last loaded

acme == <<todo, material, outdated>>
syncVars == <<vars, acme>>

\* The process installs a certificate for n and holds its lock.
Holds(p, n) == pc[p] \in {"rename_chain", "rename_key"} /\ Head(todo[p]) = n
Locked(n) == \E q \in Procs : Holds(q, n)

NextDomain(p) == todo' = [todo EXCEPT ![p] = Tail(@)]

-----------------------------------------------------------------------------
(* ensure_certs_for_desired: the loop, one outcome for every domain.        *)

Ensuring(p) == pc[p] = "read" /\ cmd[p] = "sync" /\ todo[p] # <<>>

Existing(p) ==
    /\ Ensuring(p)
    /\ ~Locked(Head(todo[p]))
    /\ certs[Head(todo[p])] = "good"
    /\ NextDomain(p)
    /\ UNCHANGED <<vars, material, outdated>>

\* The lock is held by another sync, or acme.sh, openssl or an I/O call fails.
Failed(p) ==
    /\ Ensuring(p)
    /\ \/ Locked(Head(todo[p])) /\ UNCHANGED faults
       \/ Fault
    /\ NextDomain(p)
    /\ UNCHANGED <<fs, certs, running, pc, plan, left, doomed, outcome, seen,
                   tested, material, outdated>>

\* Not good, or due: a certificate is issued and lies beside the live files.
Issue(p) ==
    /\ Ensuring(p)
    /\ ~Locked(Head(todo[p]))
    /\ Goto(p, "read", "rename_chain")
    /\ UNCHANGED <<fs, certs, running, plan, left, doomed, outcome, seen, tested,
                   faults, acme>>

\* The new chain beside the old key, which the new certificate may keep.
RenameChain(p) ==
    /\ Goto(p, "rename_chain", "rename_key")
    /\ LET n == Head(todo[p])
       IN  /\ SetCert(n, IF certs[n] = "invalid" THEN CertStates
                                                 ELSE {"mismatched", "good"})
           /\ outdated' = outdated \cup {n}
    /\ UNCHANGED <<fs, running, plan, left, doomed, outcome, seen, tested, faults,
                   todo, material>>

RenameKey(p) ==
    /\ Goto(p, "rename_key", "read")
    /\ SetCert(Head(todo[p]), {"good"})
    /\ material' = [material EXCEPT ![p] = @ \cup {Head(todo[p])}]
    /\ NextDomain(p)
    /\ UNCHANGED <<fs, running, plan, left, doomed, outcome, seen, tested, faults,
                   outdated>>

\* The domain is reported as failed, and the loop goes on.
RenameFails(p) ==
    /\ \E at \in {"rename_chain", "rename_key"} : Goto(p, at, "read")
    /\ Fault
    /\ NextDomain(p)
    /\ UNCHANGED <<fs, certs, running, plan, left, doomed, outcome, seen, tested,
                   material, outdated>>

EnsureCerts(p) ==
    \/ Existing(p) \/ Failed(p) \/ Issue(p)
    \/ RenameChain(p) \/ RenameKey(p) \/ RenameFails(p)

-----------------------------------------------------------------------------
(* The reload matrix (main.rs, STEP 5 and STEP 6).                          *)

\* A bug to catch: asked after merge_acme has drained the report.
material_change_Drained(p) == FALSE

material_change(p) == material[p] # {}

\* A sync that is about to end in this way has a reload to do first.
CertReloadDue(p) ==
    /\ cmd[p] = "sync" /\ material_change(p)
    /\ \/ /\ ~has_changes(compute_diff(desired[p], snap[p], pem_valid))
          /\ Goto(p, "diff", "no_changes")
          /\ UNCHANGED <<fs, faults>>
       \/ /\ \/ pc[p] = "discard" /\ fs.staging = Absent
             \/ pc[p] = "discarding" /\ doomed[p] = {}
          /\ pc' = [pc EXCEPT ![p] = "test_failed"]
          /\ fs' = [fs EXCEPT !.staging = IF @ = EmptyTree THEN Absent ELSE @]
          /\ UNCHANGED faults
       \/ /\ \E at \in {"discard", "discarding"} : Goto(p, at, "test_failed")
          /\ Fault
          /\ UNCHANGED fs
    /\ doomed' = [doomed EXCEPT ![p] = {}]
    /\ UNCHANGED <<certs, running, plan, left, outcome, seen, tested, acme>>

\* The command ends; the other processes' own state stays.
Forget(p) ==
    /\ todo' = [todo EXCEPT ![p] = <<>>]
    /\ material' = [material EXCEPT ![p] = {}]

CertReload(p) ==
    /\ pc[p] \in {"no_changes", "test_failed"}
    /\ ReloadWorks
    /\ Exit(p, IF pc[p] = "no_changes" THEN "cert_only_reloaded"
                                       ELSE "test_failed_cert_reloaded")
    /\ outdated' = {}
    /\ Forget(p)
    /\ UNCHANGED <<fs, certs>>

CertReloadFails(p) ==
    /\ pc[p] \in {"no_changes", "test_failed"}
    /\ ReloadRefused
    /\ Exit(p, IF pc[p] = "no_changes" THEN "cert_reload_failed"
                                       ELSE "test_failed_cert_reload_failed")
    /\ Forget(p)
    /\ UNCHANGED <<fs, certs, outdated>>

-----------------------------------------------------------------------------
InitSync ==
    /\ Init
    /\ todo = [p \in Procs |-> <<>>]
    /\ material = [p \in Procs |-> {}]
    /\ outdated = {}

\* The names of the desired file, in its order; an empty file needs no account.
BeginSync(p) ==
    /\ Begin(p)
    /\ todo' = [todo EXCEPT ![p] =
                  IF cmd'[p] = "sync"
                    THEN [i \in DOMAIN desired'[p] |-> desired'[p][i].name]
                    ELSE <<>>]
    /\ UNCHANGED <<material, outdated>>

\* A reload of this step that works is one that nothing has spoilt.
Reloads(p) ==
    /\ pc[p] \in {"reload", "reload_restored"}
    /\ Accepts(fs.live) /\ faults' = faults

\* What Commands has, except that a sync reads the live configs when the loop is
\* over, and ends without a forced reload only when none is due.
Deploy(p) ==
    /\ ~Ensuring(p)
    /\ Step(p) \/ LeftStaging(p)
    /\ material_change(p) => outcome'[p] \notin {"no_changes", "test_failed"}
    /\ outdated' = IF Reloads(p) THEN {} ELSE outdated
    /\ IF pc'[p] = "idle" THEN Forget(p) ELSE UNCHANGED <<todo, material>>

Killed(p) == Interrupted(p) /\ Forget(p) /\ UNCHANGED outdated

SyncStep(p) ==
    \/ EnsureCerts(p) \/ Deploy(p)
    \/ CertReloadDue(p) \/ CertReload(p) \/ CertReloadFails(p)

NextSync == \E p \in Procs : BeginSync(p) \/ SyncStep(p) \/ Killed(p)

SpecSync == InitSync /\ [][NextSync]_syncVars

FairSync == SpecSync /\ \A p \in Procs : WF_syncVars(SyncStep(p))

\* The caller's scheduler runs sync again and again.
SyncAgain ==
    FairSync /\ \A p \in Procs : WF_syncVars(BeginSync(p) /\ cmd'[p] = "sync")

-----------------------------------------------------------------------------
SyncTypeOK ==
    /\ Typed
    /\ todo \in [Procs -> Seq(Names)]
    /\ material \in [Procs -> SUBSET Names]
    /\ outdated \subseteq Names
    /\ \A p \in Procs :
         /\ pc[p] \in {"rename_chain", "rename_key"} => todo[p] # <<>>
         /\ material[p] # {} => cmd[p] = "sync"

\* Whichever way a sync that exits with 0 has gone (a deployment, nothing to
\* deploy, a reload for the certificates alone), nginx has loaded every
\* certificate it has installed (README, "so the renewed cert is loaded into
\* nginx's memory").
CertsServed ==
    [][\A p \in Procs :
          /\ pc[p] # "idle" /\ pc'[p] = "idle" /\ cmd[p] = "sync"
          /\ outcome'[p] \in {"success", "no_changes", "cert_only_reloaded"}
          => material[p] \cap outdated' = {}]_syncVars

\* The forced reload finds the live directory that the sync has read: neither a
\* rejected generation nor the clean-up after it is in its place.
CertReloadOfLive ==
    \A p \in Procs : pc[p] \in {"no_changes", "test_failed"} => fs.live = seen[p]

\* Repeated syncs, two faults in them notwithstanding, end up with the live
\* directory the desired file asks for: missing and mismatched certificates of
\* desired domains are issued first, and only a live config that nobody desires
\* and whose certificate nginx cannot load may be in the way (its removal is
\* deferred by the cap, and nginx -t tests the whole tree).
ConvergesWithAcme ==
    (\A list \in DesiredFiles :
        \A n \in Names \ desired_names(list) : certs[n] = "good") => Converges
=============================================================================
