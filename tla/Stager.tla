------------------------------- MODULE Stager -------------------------------
(***************************************************************************)
(* stager.rs: building the staging directory, testing it with nginx -t,    *)
(* swapping it into the live place, reloading nginx, and rolling back.     *)
(*                                                                         *)
(* A process p is one invocation of the CLI.  Nothing in the code keeps    *)
(* invocations apart (only the ACME work takes a lock), so every step is   *)
(* one system call and the processes share the directories in `fs`.        *)
(***************************************************************************)
EXTENDS Differ

CONSTANTS
    Procs,       \* invocations that may run at the same time
    Broken,      \* renderings nginx rejects (say, a proxy include that is gone)
    NginxConfs,  \* how nginx.conf may bring live in: "literal" or "other"
    MaxFaults    \* bound on kills, I/O errors and spurious nginx failures

ASSUME BrokenAssumption == Broken \subseteq Bodies
ASSUME NginxConfsAssumption == NginxConfs \subseteq {"literal", "other"}
ASSUME FaultsAssumption == MaxFaults \in Nat

VARIABLES
    fs,        \* the three directories: live, staging and prev
    certs,     \* the certificate files of each domain
    running,   \* the domain configs loaded in nginx's memory
    pc,        \* where each process is
    cmd,       \* the command it runs
    desired,   \* the DomainInfos it works for
    snap,      \* the live configs it has read (existing_configs)
    diff,      \* its DiffResult
    left,      \* the writes to staging that remain
    doomed,    \* the entries a remove_dir_all in progress has still to unlink
    outcome,   \* how its last command ended, if none is running
    seen,      \* history: the directory its command is to replace or restore
    tested,    \* history: the directory nginx -t accepted for it
    faults     \* faults so far

vars == <<fs, certs, running, pc, cmd, desired, snap, diff, left, doomed,
          outcome, seen, tested, faults>>

\* What only process p's own control reads and writes.
plan == <<cmd, desired, snap, diff>>

Places == {"live", "staging", "prev"}

\* cert_validator looks at the PEM armour only: a certificate whose key is
\* another's is valid to it and not to nginx.
CertStates == {"invalid", "mismatched", "good"}
pem_valid == [n \in Names |-> certs[n] # "invalid"]

NoDiff == [to_add |-> {}, to_update |-> {}, to_remove |-> {}]
Writes == [keep : SUBSET Names, add : SUBSET Nat, update : SUBSET Nat]
NoWrites == [keep |-> {}, add |-> {}, update |-> {}]

\* The configs an include of <dir>/*.conf brings in.
Included(dir) == IF dir = Absent THEN EmptyTree ELSE dir

\* nginx parses the configs and loads the certificates they name.
Accepts(dir) ==
    \A n \in Names : Included(dir)[n] \in Bodies =>
        Included(dir)[n] \notin Broken /\ certs[n] = "good"

\* nginx -t on the file that create_test_config makes of nginx.conf.  Where the
\* line "include <live_dir>/*.conf;" is in it, staging takes the place of live.
\* Where live is brought in by another directive, live stays and the include of
\* staging is appended after the http block, where no server block may be.
TestConfPasses(form) ==
    \/ form = "literal" /\ Accepts(fs.staging)
    \/ /\ form = "other" /\ Accepts(fs.live)
       /\ \A n \in Names : Included(fs.staging)[n] \notin Bodies

Vacant(dir) == dir \in {Absent, EmptyTree}   \* what rename(2) may replace

Fault == faults < MaxFaults /\ faults' = faults + 1

\* rename(2) of one directory to another's place.
Move(from, to) == fs' = [fs EXCEPT ![to] = fs[from], ![from] = Absent]

Goto(p, from, to) == pc[p] = from /\ pc' = [pc EXCEPT ![p] = to]

\* The command ends and with it everything the process remembers.
Exit(p, how) ==
    /\ pc' = [pc EXCEPT ![p] = "idle"]
    /\ cmd' = [cmd EXCEPT ![p] = "none"]
    /\ desired' = [desired EXCEPT ![p] = <<>>]
    /\ snap' = [snap EXCEPT ![p] = EmptyTree]
    /\ diff' = [diff EXCEPT ![p] = NoDiff]
    /\ left' = [left EXCEPT ![p] = NoWrites]
    /\ doomed' = [doomed EXCEPT ![p] = {}]
    /\ seen' = [seen EXCEPT ![p] = Absent]
    /\ tested' = [tested EXCEPT ![p] = Absent]
    /\ outcome' = [outcome EXCEPT ![p] = how]

-----------------------------------------------------------------------------
(* remove_dir_all, used on staging before a build and after a failed test,  *)
(* on prev before a swap, and on live by a rollback: list the directory,    *)
(* unlink the entries one by one, remove it.  It fails when another process *)
(* has added a file or removed the directory in the meantime.               *)

\* A bug to catch: the swap clears the live directory instead of prev.
Target_ClearsLive == [clear |-> "staging", discard |-> "staging",
                      drop_prev |-> "live", drop_live |-> "live"]

Target == [clear |-> "staging", discard |-> "staging",
           drop_prev |-> "prev", drop_live |-> "live"]
Unlinking == [clear |-> "clearing", discard |-> "discarding",
              drop_prev |-> "dropping_prev", drop_live |-> "dropping_live"]
Cleared == [clear |-> "mkdir", drop_prev |-> "swap_out", drop_live |-> "restore"]

\* A bug to catch: the leftover of a crashed run is not removed.
NothingToRemove_KeepsLeftover(p, at) ==
    /\ at \in DOMAIN Cleared
    /\ Goto(p, at, Cleared[at])
    /\ UNCHANGED <<fs, certs, running, plan, left, doomed, outcome, seen, tested,
                   faults>>

\* The directory does not exist: nothing to do (`if dir.exists()`).
NothingToRemove(p, at) ==
    /\ at \in DOMAIN Cleared
    /\ fs[Target[at]] = Absent
    /\ Goto(p, at, Cleared[at])
    /\ UNCHANGED <<fs, certs, running, plan, left, doomed, outcome, seen, tested,
                   faults>>

List(p, at) ==
    /\ fs[Target[at]] # Absent
    /\ Goto(p, at, Unlinking[at])
    /\ doomed' = [doomed EXCEPT ![p] = Files(fs[Target[at]])]
    /\ UNCHANGED <<fs, certs, running, plan, left, outcome, seen, tested, faults>>

Unlink(p, at) ==
    /\ pc[p] = Unlinking[at]
    /\ \E n \in doomed[p] :
         /\ doomed' = [doomed EXCEPT ![p] = @ \ {n}]
         /\ fs' = [fs EXCEPT ![Target[at]] =
                      IF @ = Absent THEN @ ELSE [@ EXCEPT ![n] = NoFile]]
    /\ UNCHANGED <<certs, running, pc, plan, left, outcome, seen, tested, faults>>

Rmdir(p, at) ==
    /\ at \in DOMAIN Cleared
    /\ doomed[p] = {}
    /\ fs[Target[at]] = EmptyTree
    /\ Goto(p, Unlinking[at], Cleared[at])
    /\ fs' = [fs EXCEPT ![Target[at]] = Absent]
    /\ UNCHANGED <<certs, running, plan, left, doomed, outcome, seen, tested, faults>>

RmdirFails(p, at) ==
    /\ at \in DOMAIN Cleared
    /\ pc[p] = Unlinking[at]
    /\ doomed[p] = {}
    /\ fs[Target[at]] # EmptyTree
    /\ Exit(p, "error")
    /\ UNCHANGED <<fs, certs, running, faults>>

Removal(p) ==
    \E at \in DOMAIN Target :
       \/ NothingToRemove(p, at)
       \/ List(p, at)
       \/ Unlink(p, at)
       \/ Rmdir(p, at)
       \/ RmdirFails(p, at)

-----------------------------------------------------------------------------
(* build_staging_dir: clear what a crashed run left, create the directory,  *)
(* carry the live configs forward, then write the added and the updated.    *)

Mkdir(p) ==
    /\ Goto(p, "mkdir", "write")
    /\ fs' = [fs EXCEPT !.staging = Included(@)]
    /\ left' = [left EXCEPT ![p] =
                  [keep   |-> preserved_names(desired[p], diff[p], snap[p]),
                   add    |-> diff[p].to_add,
                   update |-> diff[p].to_update]]
    /\ UNCHANGED <<certs, running, plan, doomed, outcome, seen, tested, faults>>

\* A write to staging, which another process may have moved away.
Write(p, n, body, rest) ==
    /\ pc[p] = "write"
    /\ fs.staging # Absent
    /\ fs' = [fs EXCEPT !.staging[n] = body]
    /\ left' = [left EXCEPT ![p] = rest]
    /\ UNCHANGED <<certs, running, pc, plan, doomed, outcome, seen, tested, faults>>

WriteKept(p) ==
    \E n \in left[p].keep :
       /\ \A m \in left[p].keep : n =< m
       /\ Write(p, n, snap[p][n], [left[p] EXCEPT !.keep = @ \ {n}])

WriteAdded(p) ==
    /\ left[p].keep = {}
    /\ \E i \in left[p].add :
         /\ \A j \in left[p].add : i =< j
         /\ Write(p, desired[p][i].name, desired[p][i].body,
                  [left[p] EXCEPT !.add = @ \ {i}])

WriteUpdated(p) ==
    /\ left[p].keep = {} /\ left[p].add = {}
    /\ \E i \in left[p].update :
         /\ \A j \in left[p].update : i =< j
         /\ Write(p, desired[p][i].name, desired[p][i].body,
                  [left[p] EXCEPT !.update = @ \ {i}])

WriteFails(p) ==
    /\ pc[p] = "write" /\ left[p] # NoWrites
    /\ fs.staging = Absent
    /\ Exit(p, "error")
    /\ UNCHANGED <<fs, certs, running, faults>>

Built(p) ==
    /\ left[p] = NoWrites
    /\ Goto(p, "write", "test")
    /\ UNCHANGED <<fs, certs, running, plan, left, doomed, outcome, seen, tested,
                   faults>>

-----------------------------------------------------------------------------
(* create_test_config and run_nginx_test.                                   *)

\* A bug to catch: the answer of nginx -t is ignored.
TestPasses_Ignored(p) ==
    /\ Goto(p, "test", "drop_prev")
    /\ tested' = [tested EXCEPT
                    ![p] = IF \E form \in NginxConfs : TestConfPasses(form)
                             THEN Included(fs.staging) ELSE Absent]
    /\ UNCHANGED <<fs, certs, running, plan, left, doomed, outcome, seen, faults>>

TestPasses(p) ==
    /\ \E form \in NginxConfs : TestConfPasses(form)
    /\ Goto(p, "test", "drop_prev")
    /\ tested' = [tested EXCEPT ![p] = Included(fs.staging)]
    /\ UNCHANGED <<fs, certs, running, plan, left, doomed, outcome, seen, faults>>

TestFails(p) ==
    /\ \/ (\E form \in NginxConfs : ~TestConfPasses(form)) /\ UNCHANGED faults
       \/ Fault
    /\ Goto(p, "test", "discard")
    /\ UNCHANGED <<fs, certs, running, plan, left, doomed, outcome, seen, tested>>

\* cleanup_dir is best effort: TestFailed is reported whether or not it works.
Discarded(p) ==
    /\ \/ pc[p] = "discard" /\ fs.staging = Absent
       \/ pc[p] = "discarding" /\ doomed[p] = {}
    /\ fs' = [fs EXCEPT !.staging = IF @ = EmptyTree THEN Absent ELSE @]
    /\ Exit(p, "test_failed")
    /\ UNCHANGED <<certs, running, faults>>

LeftStaging(p) ==
    /\ pc[p] \in {"discard", "discarding"}
    /\ Fault
    /\ Exit(p, "test_failed")
    /\ UNCHANGED <<fs, certs, running>>

-----------------------------------------------------------------------------
(* atomic_swap, once prev is gone: live -> prev, staging -> live.           *)

\* A bug to catch: the live directory is deleted, not moved to prev.
SwapOut_DropsLive(p) ==
    /\ Goto(p, "swap_out", "swap_in")
    /\ fs' = [fs EXCEPT !.live = Absent]
    /\ UNCHANGED <<certs, running, plan, left, doomed, outcome, seen, tested, faults>>

\* A bug to catch: a live directory that is missing is an error.
SwapOut_NeedsLive(p) ==
    IF fs.live = Absent
      THEN /\ pc[p] = "swap_out"
           /\ Exit(p, "error")
           /\ UNCHANGED <<fs, certs, running, faults>>
      ELSE /\ Vacant(fs.prev)
           /\ Goto(p, "swap_out", "swap_in")
           /\ Move("live", "prev")
           /\ UNCHANGED <<certs, running, plan, left, doomed, outcome, seen, tested,
                          faults>>

SwapOut(p) ==
    /\ fs.live = Absent \/ Vacant(fs.prev)
    /\ Goto(p, "swap_out", "swap_in")
    /\ IF fs.live = Absent THEN UNCHANGED fs ELSE Move("live", "prev")
    /\ UNCHANGED <<certs, running, plan, left, doomed, outcome, seen, tested, faults>>

SwapIn(p) ==
    /\ fs.staging # Absent /\ Vacant(fs.live)
    /\ Goto(p, "swap_in", "reload")
    /\ Move("staging", "live")
    /\ UNCHANGED <<certs, running, plan, left, doomed, outcome, seen, tested, faults>>

\* Another process is swapping, too: rename fails, and the error ends the
\* command without a rollback.
SwapFails(p) ==
    /\ \/ pc[p] = "swap_out" /\ fs.live # Absent /\ ~Vacant(fs.prev)
       \/ pc[p] = "swap_in" /\ (fs.staging = Absent \/ ~Vacant(fs.live))
    /\ Exit(p, "error")
    /\ UNCHANGED <<fs, certs, running, faults>>

-----------------------------------------------------------------------------
(* reload_nginx: a reload that succeeds loads what the live directory holds. *)

ReloadWorks == Accepts(fs.live) /\ running' = Included(fs.live) /\ UNCHANGED faults

ReloadRefused ==
    /\ \/ ~Accepts(fs.live) /\ UNCHANGED faults
       \/ Fault
    /\ UNCHANGED running

\* A bug to catch: the exit status of nginx -s reload is not looked at.
Reload_Unchecked(p) ==
    /\ pc[p] = "reload"
    /\ ReloadWorks \/ ReloadRefused
    /\ Exit(p, "success")
    /\ UNCHANGED <<fs, certs>>

Reload(p) ==
    /\ pc[p] = "reload"
    /\ ReloadWorks
    /\ Exit(p, "success")
    /\ UNCHANGED <<fs, certs>>

\* A bug to catch: a reload that is refused counts as a failed test.
ReloadFails_AsTestFailed(p) ==
    /\ ReloadRefused
    /\ Goto(p, "reload", "discard")
    /\ UNCHANGED <<fs, certs, plan, left, doomed, outcome, seen, tested>>

\* The reload is refused: roll back.
ReloadFails(p) ==
    /\ ReloadRefused
    /\ Goto(p, "reload", "drop_live")
    /\ UNCHANGED <<fs, certs, plan, left, doomed, outcome, seen, tested>>

-----------------------------------------------------------------------------
(* rollback, once live is gone: prev -> live and a reload, for the rollback *)
(* command and for a stage_and_swap whose own reload failed.                *)

Restore(p) ==
    /\ fs.prev # Absent /\ Vacant(fs.live)
    /\ Goto(p, "restore", "reload_restored")
    /\ Move("prev", "live")
    /\ UNCHANGED <<certs, running, plan, left, doomed, outcome, seen, tested, faults>>

\* "no previous directory available to restore", or the rename fails.
RestoreFails(p) ==
    /\ pc[p] = "restore"
    /\ fs.prev = Absent \/ ~Vacant(fs.live)
    /\ Exit(p, "error")
    /\ UNCHANGED <<fs, certs, running, faults>>

\* Only the rollback command counts as a success now: stage_and_swap reports
\* the reload that failed.
ReloadRestored(p) ==
    /\ pc[p] = "reload_restored"
    /\ \/ ReloadWorks /\ Exit(p, IF cmd[p] = "rollback" THEN "success" ELSE "error")
       \/ ReloadRefused /\ Exit(p, "error")
    /\ UNCHANGED <<fs, certs>>

-----------------------------------------------------------------------------
\* The process is killed, or a system call fails and `?` ends the command.
Interrupted(p) ==
    /\ pc[p] # "idle"
    /\ Fault
    /\ Exit(p, "error")
    /\ UNCHANGED <<fs, certs, running>>

\* Every step of stage_and_swap and of rollback.
StagerStep(p) ==
    \/ Removal(p)
    \/ Mkdir(p) \/ WriteKept(p) \/ WriteAdded(p) \/ WriteUpdated(p)
    \/ WriteFails(p) \/ Built(p)
    \/ TestPasses(p) \/ TestFails(p) \/ Discarded(p)
    \/ SwapOut(p) \/ SwapIn(p) \/ SwapFails(p)
    \/ Reload(p) \/ ReloadFails(p)
    \/ Restore(p) \/ RestoreFails(p) \/ ReloadRestored(p)
=============================================================================
