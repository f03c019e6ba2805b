----------------------------- MODULE CertIssuer -----------------------------
(***************************************************************************)
(* cert_issuer.rs and the part of cmd_sync around it: before the diff, a   *)
(* sync issues or renews the certificate of every desired domain through   *)
(* acme.sh, under one advisory lock per domain; after it, a sync that has  *)
(* replaced certificates must have nginx load them.                        *)
(*                                                                         *)
(* The certificates that acme.sh issues for a domain are numbered 1, 2, .. *)
(* and number s is for the key KeyOf[s].  A pair of files is a record of   *)
(* the numbers they hold; 0 is a missing file.                             *)
(***************************************************************************)
EXTENDS Naturals, FiniteSets, Sequences

CONSTANTS
    Procs,         \* invocations of sync that may run at the same time
    Domains,
    DesiredFiles,  \* the domain names of the files passed to sync --desired
    MaxSerial,     \* bound on the certificates issued for a domain
    KeyOf,         \* acme.sh may keep a domain's key or make a new one
    Junk,          \* the content of a file that is not PEM
    NoProc,        \* nobody holds the lock
    Configs,       \* what the config file may say about ACME
    InitialFiles,  \* pairs to begin with
    AcmeSkipsDue,  \* acme.sh's own renewal window is the shorter one
    MaxFaults      \* bound on failures, kills and power losses

\* The [acme] section with its lock_dir, and the provider of [dns_provider].
RawConfigs == [acme : BOOLEAN, lock_dir : {"absolute", "relative"},
               dns_provider : {"none", "cloudflare", "other"}]

Contents == Nat \cup {Junk}
Pairs == [chain : Contents, key : Contents]

ASSUME AcmeAssumption ==
    /\ Configs \subseteq RawConfigs
    /\ DesiredFiles \subseteq Seq(Domains)
    /\ MaxSerial \in Nat \ {0}
    /\ KeyOf \in [1..MaxSerial -> Nat \ {0}]
    /\ Junk \notin Nat
    /\ NoProc \notin Procs
    /\ InitialFiles \subseteq Pairs
    /\ AcmeSkipsDue \in BOOLEAN
    /\ MaxFaults \in Nat

VARIABLES
    files,     \* fullchain.pem and key.pem of each domain
    temp,      \* fullchain.pem.new and key.pem.new
    synced,    \* the contents of the .new files are on the disk
    survivors, \* the contents a power loss may leave under the live names
    acme,      \* the last certificate in acme.sh's own tree, 0 if none
    due,       \* the certificates up to this number need renewal
    config,    \* the config file
    lock,      \* who holds each of the files <domain>.acme.lock
    served,    \* domains with a config in the live directory
    loaded,    \* the pairs in nginx's memory
    pc, list, pos, found, report, status,
    faults     \* faults so far

disk == <<files, temp, synced, survivors>>
vars == <<files, temp, synced, survivors, acme, due, config, lock, served,
          loaded, pc, list, pos, found, report, status, faults>>

Serials == 0..MaxSerial
NoPair == [chain |-> 0, key |-> 0]
Only(pair) == [chain |-> {pair.chain}, key |-> {pair.key}]
NoReport == [existing |-> {}, issued |-> {}, renewed |-> {}, failed |-> {}]

\* cert_validator: both files are there and are PEM.
PemValid(pair) == pair.chain \notin {0, Junk} /\ pair.key \notin {0, Junk}

\* inspect_existing_cert compares the public keys, too; so does nginx.
Good(pair) == pair \in {[chain |-> s, key |-> KeyOf[s]] : s \in 1..MaxSerial}

needs_renewal(d) == files[d].chain \in 1..due[d]
Fresh(d) == Good(files[d]) /\ ~needs_renewal(d)

\* A pair that was good and is due is renewed, any other is issued.
was_renewal(p) == Good(found[p])

Fault == faults < MaxFaults /\ faults' = faults + 1

\* A bug to catch: a relative lock_dir is accepted.
validate_acme_config_AnyLockDir(c) ==
    IF c.acme THEN c.dns_provider = "cloudflare" ELSE c.dns_provider = "none"

\* Both sections or neither, the one provider there is, an absolute lock_dir.
validate_acme_config(c) ==
    IF c.acme THEN c.dns_provider = "cloudflare" /\ c.lock_dir = "absolute"
              ELSE c.dns_provider = "none"

Domain(p) == list[p][pos[p]]

\* A relative lock_dir is taken from the working directory of the process.
LockFile(p, d) == <<IF config.lock_dir = "absolute" THEN NoProc ELSE p, d>>
LockFiles == (Procs \cup {NoProc}) \X Domains

\* The process stays in the critical section of its domain.
Goto(p, from, to) ==
    /\ pc[p] = from
    /\ pc' = [pc EXCEPT ![p] = to]
    /\ UNCHANGED <<config, lock, served, loaded, list, pos, report, status>>

Holds(p) == pc[p] \in {"inspect", "issue", "install_cert", "fsync",
                       "rename_chain", "rename_key", "fsync_dir"}

Released(p) == [f \in LockFiles |-> IF lock[f] = p THEN NoProc ELSE lock[f]]

\* ensure_cert_inner returns: the guard is dropped, the outcome recorded, and
\* the loop goes on with the next domain, whatever the outcome is.
Outcome(p, how) ==
    /\ pc' = [pc EXCEPT ![p] = "lock"]
    /\ pos' = [pos EXCEPT ![p] = @ + 1]
    /\ report' = [report EXCEPT ![p][how] = @ \cup {Domain(p)}]
    /\ found' = [found EXCEPT ![p] = NoPair]
    /\ lock' = Released(p)
    /\ UNCHANGED <<config, served, loaded, list, status>>

\* A bug to catch: a failure ends the loop.
Failed_EndsLoop(p) ==
    /\ pc' = [pc EXCEPT ![p] = "diff"]
    /\ report' = [report EXCEPT ![p].failed = @ \cup {Domain(p)}]
    /\ found' = [found EXCEPT ![p] = NoPair]
    /\ lock' = Released(p)
    /\ UNCHANGED <<config, served, loaded, list, pos, status>>

Failed(p) == Outcome(p, "failed")

\* The command ends and with it everything the process remembers.
Exit(p, how) ==
    /\ pc' = [pc EXCEPT ![p] = "idle"]
    /\ list' = [list EXCEPT ![p] = <<>>]
    /\ pos' = [pos EXCEPT ![p] = 1]
    /\ found' = [found EXCEPT ![p] = NoPair]
    /\ report' = [report EXCEPT ![p] = NoReport]
    /\ status' = [status EXCEPT ![p] = how]
    /\ lock' = Released(p)
    /\ UNCHANGED config

-----------------------------------------------------------------------------
\* Without the two sections (legacy mode) there is no loop.
Start(p) ==
    /\ pc[p] = "idle"
    /\ validate_acme_config(config)
    /\ pc' = [pc EXCEPT ![p] = IF config.acme THEN "lock" ELSE "diff"]
    /\ \E l \in DesiredFiles : list' = [list EXCEPT ![p] = l]
    /\ status' = [status EXCEPT ![p] = "none"]
    /\ UNCHANGED <<disk, acme, due, config, lock, served, loaded, pos, found,
                   report, faults>>

\* load_config bails out.
Rejected(p) ==
    /\ pc[p] = "idle"
    /\ ~validate_acme_config(config)
    /\ status' = [status EXCEPT ![p] = "error"]
    /\ UNCHANGED <<disk, acme, due, config, lock, served, loaded, pc, list, pos,
                   found, report, faults>>

\* A bug to catch: the lock is not exclusive.
Acquire_Shared(p) ==
    /\ pc[p] = "lock" /\ pos[p] =< Len(list[p])
    /\ pc' = [pc EXCEPT ![p] = "inspect"]
    /\ lock' = [lock EXCEPT ![LockFile(p, Domain(p))] = p]
    /\ UNCHANGED <<disk, acme, due, config, served, loaded, list, pos, found,
                   report, status, faults>>

\* acquire_domain_lock: non-blocking.
Acquire(p) ==
    /\ pc[p] = "lock" /\ pos[p] =< Len(list[p])
    /\ lock[LockFile(p, Domain(p))] = NoProc
    /\ pc' = [pc EXCEPT ![p] = "inspect"]
    /\ lock' = [lock EXCEPT ![LockFile(p, Domain(p))] = p]
    /\ UNCHANGED <<disk, acme, due, config, served, loaded, list, pos, found,
                   report, status, faults>>

\* Held by another sync, or an I/O error: this domain fails, the loop goes on.
NotAcquired(p) ==
    /\ pc[p] = "lock" /\ pos[p] =< Len(list[p])
    /\ \/ lock[LockFile(p, Domain(p))] # NoProc /\ UNCHANGED faults
       \/ Fault
    /\ Failed(p)
    /\ UNCHANGED <<disk, acme, due>>

\* A bug to catch: a chain and a key that do not belong together are kept.
Existing_AnyPem(p) ==
    /\ pc[p] = "inspect"
    /\ PemValid(files[Domain(p)]) /\ ~needs_renewal(Domain(p))
    /\ Outcome(p, "existing")
    /\ UNCHANGED <<disk, acme, due, faults>>

Existing(p) ==
    /\ pc[p] = "inspect"
    /\ Fresh(Domain(p))
    /\ Outcome(p, "existing")
    /\ UNCHANGED <<disk, acme, due, faults>>

\* Missing, incomplete, malformed, mismatched or due.
NeedsIssue(p) ==
    /\ Goto(p, "inspect", "issue")
    /\ ~Fresh(Domain(p))
    /\ found' = [found EXCEPT ![p] = files[Domain(p)]]
    /\ UNCHANGED <<disk, acme, due, faults>>

\* acme.sh --issue: a new certificate, or exit code 2 ("already valid").
Issue(p) ==
    LET d == Domain(p)
    IN  /\ Goto(p, "issue", "install_cert")
        /\ \/ acme[d] =< due[d] /\ acme[d] < MaxSerial /\ acme' = [acme EXCEPT ![d] = @ + 1]
           \/ acme[d] > 0 /\ (acme[d] > due[d] \/ AcmeSkipsDue) /\ UNCHANGED acme
        /\ UNCHANGED <<disk, due, found, faults>>

\* acme.sh --install-cert overwrites the two .new files.
InstallCert(p) ==
    LET d == Domain(p)
    IN  /\ Goto(p, "install_cert", "fsync")
        /\ temp' = [temp EXCEPT ![d] = [chain |-> acme[d], key |-> KeyOf[acme[d]]]]
        /\ synced' = [synced EXCEPT ![d] = FALSE]
        /\ UNCHANGED <<files, survivors, acme, due, found, faults>>

\* It fails after it has written the key only.
InstallCertFails(p) ==
    /\ pc[p] = "install_cert"
    /\ Fault
    /\ Failed(p)
    /\ temp' = [temp EXCEPT ![Domain(p)].key = KeyOf[acme[Domain(p)]]]
    /\ synced' = [synced EXCEPT ![Domain(p)] = FALSE]
    /\ UNCHANGED <<files, survivors, acme, due>>

\* A bug to catch: the .new files are renamed before they are synced.
Fsync_Skipped(p) ==
    /\ Goto(p, "fsync", "rename_chain")
    /\ UNCHANGED <<disk, acme, due, found, faults>>

Fsync(p) ==
    /\ Goto(p, "fsync", "rename_chain")
    /\ synced' = [synced EXCEPT ![Domain(p)] = TRUE]
    /\ UNCHANGED <<files, temp, survivors, acme, due, found, faults>>

\* One of the two renames.  Until the directory is synced, a power loss leaves
\* the old file, or the renamed one, which is garbage when its content was not
\* on the disk.
Rename(p, file, from, to) ==
    LET d == Domain(p)
    IN  /\ Goto(p, from, to)
        /\ temp[d][file] # 0
        /\ files' = [files EXCEPT ![d][file] = temp[d][file]]
        /\ temp' = [temp EXCEPT ![d][file] = 0]
        /\ survivors' = [survivors EXCEPT
                           ![d][file] = @ \cup {files'[d][file]}
                                          \cup (IF synced[d] THEN {} ELSE {Junk})]
        /\ UNCHANGED <<synced, acme, due, found, faults>>

RenameChain(p) == Rename(p, "chain", "rename_chain", "rename_key")
RenameKey(p) == Rename(p, "key", "rename_key", "fsync_dir")

\* A bug to catch: the directory is not synced after the renames.
FsyncDir_Skipped(p) ==
    /\ pc[p] = "fsync_dir"
    /\ Outcome(p, IF was_renewal(p) THEN "renewed" ELSE "issued")
    /\ UNCHANGED <<disk, acme, due, faults>>

\* The domain's directory, ssl_base_dir, and the directory's mode.
FsyncDir(p) ==
    /\ pc[p] = "fsync_dir"
    /\ survivors' = [survivors EXCEPT ![Domain(p)] = Only(files[Domain(p)])]
    /\ Outcome(p, IF was_renewal(p) THEN "renewed" ELSE "issued")
    /\ UNCHANGED <<files, temp, synced, acme, due, faults>>

\* Any other call of ensure_cert_inner returns an error.
CallFails(p) ==
    /\ pc[p] \in {"issue", "fsync", "rename_chain", "rename_key", "fsync_dir"}
    /\ Fault
    /\ Failed(p)
    /\ UNCHANGED <<disk, acme, due>>

LoopEnds(p) ==
    /\ Goto(p, "lock", "diff")
    /\ pos[p] > Len(list[p])
    /\ UNCHANGED <<disk, acme, due, found, faults>>

-----------------------------------------------------------------------------
(* cmd_sync after the ACME loop.  stage_and_swap, step by step in Stager, is *)
(* one step here: what it deploys and what it reports.                       *)

Accepts(domains) == \A d \in domains : Good(files[d])

LoadFiles(domains) ==
    loaded' = [d \in Domains |-> IF d \in domains THEN files[d] ELSE NoPair]

\* compute_diff adds the desired domains whose files pass validate_certs.
Target(p) ==
    served \cup {d \in Domains : PemValid(files[d])
                                 /\ \E i \in DOMAIN list[p] : list[p][i] = d}

\* A bug to catch: asked after merge_acme has drained the report.
had_material_change_Drained(p) == NoReport.issued \cup NoReport.renewed # {}

had_material_change(p) == report[p].issued \cup report[p].renewed # {}

\* Whether or not a certificate changed, a diff can be due to the desired file.
StageSucceeds(p) ==
    /\ pc[p] = "diff"
    /\ Accepts(Target(p))
    /\ served' = Target(p)
    /\ LoadFiles(Target(p))
    /\ Exit(p, "success")
    /\ UNCHANGED <<disk, acme, due, faults>>

\* has_changes is false: reload only for the certificates.
NoChanges(p) ==
    /\ pc[p] = "diff"
    /\ Target(p) = served
    /\ IF had_material_change(p)
         THEN Goto(p, "diff", "no_changes") /\ UNCHANGED found
         ELSE Exit(p, "no_changes") /\ UNCHANGED <<served, loaded>>
    /\ UNCHANGED <<disk, acme, due, faults>>

\* nginx -t rejects the staged tree: the live one and its certificates stay.
TestFails(p) ==
    /\ pc[p] = "diff"
    /\ \/ ~Accepts(Target(p)) /\ UNCHANGED faults
       \/ Fault
    /\ IF had_material_change(p)
         THEN Goto(p, "diff", "test_failed") /\ UNCHANGED found
         ELSE Exit(p, "test_failed") /\ UNCHANGED <<served, loaded>>
    /\ UNCHANGED <<disk, acme, due>>

\* The reload that is forced because certificate material has changed.
CertReload(p) ==
    /\ pc[p] \in {"no_changes", "test_failed"}
    /\ Accepts(served)
    /\ LoadFiles(served)
    /\ Exit(p, IF pc[p] = "no_changes" THEN "cert_only_reloaded"
                                       ELSE "test_failed_cert_reloaded")
    /\ UNCHANGED <<disk, acme, due, served, faults>>

CertReloadFails(p) ==
    /\ pc[p] \in {"no_changes", "test_failed"}
    /\ \/ ~Accepts(served) /\ UNCHANGED faults
       \/ Fault
    /\ Exit(p, IF pc[p] = "no_changes" THEN "cert_reload_failed"
                                       ELSE "test_failed_cert_reload_failed")
    /\ UNCHANGED <<disk, acme, due, served, loaded>>

-----------------------------------------------------------------------------
\* Killed, or an error that ends the command (no account, a swap that fails, a
\* reload after it that is refused).  The kernel releases the lock.
Killed(p) ==
    /\ pc[p] # "idle"
    /\ Fault
    /\ Exit(p, "error")
    /\ UNCHANGED <<disk, acme, due, served, loaded>>

Remains(d) == [chain : survivors[d].chain, key : survivors[d].key]

\* The machine stops; nginx starts again if the files let it.
PowerLoss ==
    /\ Fault
    /\ \E left \in [Domains -> UNION {Remains(d) : d \in Domains}] :
         /\ \A d \in Domains : left[d] \in Remains(d)
         /\ files' = left
         /\ survivors' = [d \in Domains |-> Only(left[d])]
         /\ loaded' = [d \in Domains |->
                         IF d \in served /\ \A e \in served : Good(left[e])
                           THEN left[d] ELSE NoPair]
    /\ pc' = [p \in Procs |-> "idle"]
    /\ list' = [p \in Procs |-> <<>>]
    /\ pos' = [p \in Procs |-> 1]
    /\ found' = [p \in Procs |-> NoPair]
    /\ report' = [p \in Procs |-> NoReport]
    /\ status' = [p \in Procs |-> "error"]
    /\ lock' = [f \in LockFiles |-> NoProc]
    /\ UNCHANGED <<temp, synced, acme, due, config, served>>

\* Time passes: what has been issued so far comes up for renewal.
Age(d) ==
    /\ due[d] < acme[d] /\ acme[d] < MaxSerial
    /\ due' = [due EXCEPT ![d] = acme[d]]
    /\ UNCHANGED <<disk, acme, config, lock, served, loaded, pc, list, pos, found,
                   report, status, faults>>

Init ==
    /\ files \in [Domains -> InitialFiles]
    /\ temp = [d \in Domains |-> NoPair]
    /\ synced = [d \in Domains |-> TRUE]
    /\ survivors = [d \in Domains |-> Only(files[d])]
    /\ acme = [d \in Domains |-> IF files[d] = NoPair THEN 0 ELSE 1]
    /\ due = [d \in Domains |-> 0]
    /\ config \in Configs
    /\ lock = [f \in LockFiles |-> NoProc]
    /\ served \in SUBSET {d \in Domains : Good(files[d])}
    /\ loaded = [d \in Domains |-> IF d \in served THEN files[d] ELSE NoPair]
    /\ pc = [p \in Procs |-> "idle"]
    /\ list = [p \in Procs |-> <<>>]
    /\ pos = [p \in Procs |-> 1]
    /\ found = [p \in Procs |-> NoPair]
    /\ report = [p \in Procs |-> NoReport]
    /\ status = [p \in Procs |-> "none"]
    /\ faults = 0

EnsureCert(p) ==
    \/ Acquire(p) \/ NotAcquired(p) \/ Existing(p) \/ NeedsIssue(p)
    \/ Issue(p) \/ InstallCert(p) \/ Fsync(p)
    \/ RenameChain(p) \/ RenameKey(p) \/ FsyncDir(p) \/ LoopEnds(p)

Deploy(p) ==
    \/ StageSucceeds(p) \/ NoChanges(p) \/ TestFails(p)
    \/ CertReload(p) \/ CertReloadFails(p)

Step(p) == EnsureCert(p) \/ Deploy(p)

Sync(p) ==
    \/ Start(p) \/ Rejected(p) \/ Step(p)
    \/ InstallCertFails(p) \/ CallFails(p) \/ Killed(p)

Next ==
    \/ \E p \in Procs : Sync(p)
    \/ PowerLoss
    \/ \E d \in Domains : Age(d)

Spec == Init /\ [][Next]_vars

\* The caller's scheduler runs sync again and again, and every sync goes on.
SyncForever == Spec /\ \A p \in Procs : WF_vars(Start(p) \/ Step(p))

-----------------------------------------------------------------------------
PCs == {"idle", "lock", "inspect", "issue", "install_cert", "fsync",
        "rename_chain", "rename_key", "fsync_dir", "diff", "no_changes",
        "test_failed"}

Statuses == {"none", "success", "no_changes", "cert_only_reloaded",
             "cert_reload_failed", "test_failed", "test_failed_cert_reloaded",
             "test_failed_cert_reload_failed", "error"}

Reports == [existing : SUBSET Domains, issued : SUBSET Domains,
            renewed : SUBSET Domains, failed : SUBSET Domains]

TypeOK ==
    /\ files \in [Domains -> Pairs]
    /\ temp \in [Domains -> Pairs]
    /\ synced \in [Domains -> BOOLEAN]
    /\ survivors \in [Domains -> [chain : SUBSET Contents, key : SUBSET Contents]]
    /\ acme \in [Domains -> Serials]
    /\ due \in [Domains -> Serials]
    /\ config \in Configs
    /\ lock \in [LockFiles -> Procs \cup {NoProc}]
    /\ served \subseteq Domains
    /\ loaded \in [Domains -> Pairs]
    /\ pc \in [Procs -> PCs]
    /\ list \in [Procs -> Seq(Domains)]
    /\ pos \in [Procs -> Nat \ {0}]
    /\ found \in [Procs -> Pairs]
    /\ report \in [Procs -> Reports]
    /\ status \in [Procs -> Statuses]
    /\ faults \in 0..MaxFaults
    /\ \A p \in Procs : Holds(p) => pos[p] \in DOMAIN list[p]
    /\ \A p \in Procs, f \in LockFiles :
         lock[f] = p <=> Holds(p) /\ LockFile(p, Domain(p)) = f

\* Of all the invocations of sync, from whatever working directories, one at a
\* time inspects, issues and installs for a domain (config.rs, "the
\* single-writer invariant the flock provides").
SingleWriter ==
    \A p, q \in Procs :
       p # q /\ Holds(p) /\ Holds(q) => Domain(p) # Domain(q)

\* When the loop is over, every desired domain has been dealt with: a failure
\* of one keeps no other from its turn (cert_issuer.rs, "Per-domain failures
\* are isolated").
LoopComplete ==
    \A p \in Procs :
       config.acme /\ pc[p] \in {"diff", "no_changes", "test_failed"} =>
          \A i \in DOMAIN list[p] :
             list[p][i] \in report[p].existing \cup report[p].issued
                            \cup report[p].renewed \cup report[p].failed

\* What is reported as issued or renewed is a pair nginx can load, the latest
\* that acme.sh has, and survives a power loss, whoever else runs sync.
InstallsPair ==
    [][\A p \in Procs, d \in Domains :
          d \in (report'[p].issued \cup report'[p].renewed)
                \ (report[p].issued \cup report[p].renewed) =>
             /\ Good(files'[d])
             /\ files'[d].chain = acme[d]
             /\ survivors'[d] = Only(files'[d])]_vars

\* Files that pass validate_certs, now and after a power loss, go on passing it,
\* so that the next diff does not skip the domain, wherever an installation is
\* cut short.
StaysValid ==
    [][\A d \in Domains :
          (\A pair \in Remains(d) : PemValid(pair))
             => \A pair \in Remains(d)' : PemValid(pair)]_vars

\* A sync that exits with 0 has nginx serve the certificates it has installed.
CertsLoaded ==
    [][\A p \in Procs :
          /\ pc[p] \in {"diff", "no_changes", "test_failed"}
          /\ pc'[p] = "idle"
          /\ status'[p] \in {"success", "no_changes", "cert_only_reloaded"}
          => \A d \in served' \cap (report[p].issued \cup report[p].renewed) :
                loaded'[d] = files[d]]_vars

\* Repeated syncs heal what crashes and failures have left: in the end every
\* desired domain has a matching pair that is not due (README, "next sync will
\* reissue automatically").
Heals ==
    <>[](\A d \in Domains :
            (\A l \in DesiredFiles : \E i \in DOMAIN l : l[i] = d) => Fresh(d))

\* A domain reported as failed has its files as the sync has found them
\* (cert_issuer.rs, "`failed` (no successful install) leave on-disk state
\* unchanged").
FailedUnchanged ==
    [][\A p \in Procs, d \in Domains :
          /\ d \in report'[p].failed \ report[p].failed
          /\ pc[p] \in {"issue", "install_cert", "fsync", "rename_chain",
                        "rename_key", "fsync_dir"}
          => files'[d] = found[p]]_vars

\* Once certificates are no longer replaced, nginx comes to serve the ones on
\* disk (README, "so the renewed cert is loaded into nginx's memory").
RenewedLoaded ==
    <>[](\A d \in served : loaded[d] = files[d])
=============================================================================
