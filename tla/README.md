# TLA+ models of nginx-domain-cli

`nginx-domain-cli` (binary `nginx-agent`) keeps a directory of per-domain nginx
configs in step with a desired-state file: it computes what has to change, builds
a complete new directory, tests it with `nginx -t`, swaps it into the live place,
reloads nginx and rolls back when the reload is refused. Before that, a `sync` may
issue and renew certificates through `acme.sh`. It is a one-shot CLI: every
invocation is a process of its own, and everything that lasts is in the file
system, in nginx's memory and in acme.sh's own tree.

The TLA+ modules here model what those processes do to that shared state. Paths
below are relative to the repository (`src/differ.rs` is the crate's file of that
name). The TLA+ definitions use the names of the code wherever they have one.

## 1. Inventory

| Component | State it keeps | Operations | Modelled in |
|---|---|---|---|
| Diff engine, `src/differ.rs` | none (pure over what it reads) | `read_live_configs`, `compute_diff`, `has_changes`, `merge_acme` | `Differ`, `Reconcile` |
| Stager, `src/stager.rs` | the directories `live_dir`, `staging_dir`, `<live>.prev`; nginx's loaded configs | `stage_and_swap` (`build_staging_dir`, `run_nginx_test`, `atomic_swap`, `reload_nginx`), `rollback`, `cleanup_dir` | `Stager`; what it promises in `Generations` |
| Commands that change state, `src/main.rs` | nothing beyond one invocation | `sync`, `up`, `down`, `add`, `remove`, `rollback` | `Commands`; `sync` with ACME in `Sync` |
| ACME issuer, `src/cert_issuer.rs` | `fullchain.pem`, `key.pem`, their `.new` files, `<domain>.acme.lock`; acme.sh's tree | `ensure_certs_for_desired`, `ensure_cert_inner`, `acquire_domain_lock`, `inspect_existing_cert`, `invoke_acme_sh_issue`, `atomic_install` | `CertIssuer`, `CertWriters` |
| Certificate validation, `src/cert_validator.rs` | none | `validate_certs` | `pem_valid` (`Stager`), `PemValid` (`CertIssuer`) |
| Domain model and renderer, `src/domain.rs`, `src/renderer.rs` | none | `from_i32`, `should_have_config`, `validate_domain_name`, `DomainInfo`, `render_domain_config` | `Records`; the set `Bodies` elsewhere |
| Configuration, `src/config.rs` | none after start | load and validate TOML | `validate_acme_config` in `CertIssuer`; the rest are CONSTANTS |
| Read-only command `list` | none | `parse_config_header` (the app it guesses is left out) | `Records` |
| Health check, `src/health.rs` | none | one HTTP request; the variant with retries has no caller | not modelled |
| Read-only commands `status`, `test`, `health` | none | print | not modelled |

How they interact. `cmd_sync` validates the desired file; with `[acme]` configured
it calls `ensure_certs_for_desired`, which replaces certificate files; then it reads
the live configs, computes a `DiffResult` (which reads the certificate files again),
and, if there is something to do, calls `stage_and_swap`; last, a reload matrix
decides whether nginx must be reloaded for certificate material alone. `cmd_up` and
`cmd_down` build a one-entry `DiffResult` by hand and call the same `stage_and_swap`.
`cmd_add` and `cmd_remove` write into the live directory directly. `cmd_rollback`
puts `<live>.prev` back. The processes communicate only through the file system: the
ACME work is under an advisory lock per domain, a deployment is under no lock at all.

What is hard about it, and what makes each part correct:

* **Diff engine** - the removal cap (`split_off` after a sort), deferred removals that
  no `DomainInfo` names and yet have to be carried forward, and the certificate guard
  (a desired domain whose certificate does not validate keeps its old config). Correct:
  no cycle drops a desired domain or more than the cap; repeated cycles settle.
* **Stager** - a sequence of system calls that can be killed or can fail anywhere,
  leftovers of earlier runs, rollback whose own steps can fail, two processes in one
  set of directories. Correct: nothing touches live before the swap, only a tested
  tree is swapped in, the old generation is whole until the new one is accepted, and
  a success means that nginx serves what was tested.
* **Commands** - what each reads, it reads once and without a lock, and it deploys it
  minutes or seconds later. Correct: a command changes what it names and nothing else,
  and every conversion on the way (record, name, status, file name, header comment)
  is undone by the one that reads it back, or it is known for which inputs it is not.
* **ACME issuer** - two files that only make sense together and are replaced by two
  renames; crash and power loss between them; two syncs at once; one domain's failure
  among many; a reload that has to follow a renewal. Correct: what is reported as
  issued is a matching, durable pair; valid files stay valid; damage heals; nginx ends
  up with the certificates on disk.

## 2. Plan

| Step | Module | Composes | State |
|---|---|---|---|
| 1 | `Differ` - pure operators | | done |
| 2 | `Reconcile` - whole cycles of sync, the promise of the diff engine | `Differ` | done |
| 3 | `Stager` - deployment and rollback, one action per system call | `Differ` | done |
| 4 | `Commands` - all state-changing commands as processes | `Stager` | done |
| 5 | `CommandsProofs` - types and the safety of a deployment | `Commands` | done |
| 6 | `CertIssuer` - certificates, locks, power loss, the reload matrix | | done |
| 7 | `Generations` - an abstract deployment - and `Deployments`, its refinement | `Commands` | done |
| 8 | `Sync` - the ACME loop, the deployment and the reload matrix in one | `Commands` | done |
| 9 | `CertWriters` - `add` as a second writer of certificate files | `CertIssuer` | done |
| 10 | `Records` - the conversions between records, configs and listings | `Differ` | done |
| 11 | `DifferProofs`, `ReconcileProofs` - the operators, `KeepsDesired`, the removal cap, what `Converges` rests on | `Reconcile` | done |
| 12 | `StagingProofs`, `DeploymentsProofs` - `StagedAsPlanned`, `LossesBounded`, the refinement | `Deployments` | done |
| 13 | `CertIssuerProofs` - types and locks, the loop, the installation, the reload | `CertIssuer` | done |
| 14 | `SyncProofs` - the same of a `sync` with ACME work | `Sync`, `DeploymentsProofs` | done |
| 15 | `RecordsProofs` - the conversions | `Records` | done |
| 16 | proofs of what holds of two invocations at a time, and of `CertWriters` | | open |

Modules that theorems are about hold no RECURSIVE operator; the loops of
the code are either actions (one iteration each) or set operators.

## 3. Modules

**`Differ`** A directory of configs is a function from domain names to contents.
`Bodies` are the contents `render_domain_config` can produce, distinct for what it
distinguishes; `Alien` is a `.conf` file without the marker line
`Managed by domain-agent`; `NoFile` and `Absent` are a missing file and a missing
directory. Names are natural numbers because the code sorts them. `to_add` and
`to_update` are sets of positions in the desired list, since the list may name a
domain twice and the last body written then wins (`LastBody`). `StagedTree` is what
`build_staging_dir` leaves behind when nothing fails. The configs of a directory are found
under the names that their file names are trimmed to: `Trimmed[n]` is what
`trim_end_matches(".conf")` makes of `<n>.conf`, and since it takes off every such ending that is
`n` only where `n` itself does not end in `.conf` (`domain.rs:18` accepts names that do).
`read_live_configs` is the set of maps that may be returned when the files `skipped` cannot be
read: if two files have one trimmed name, the one that comes last in the directory counts.

**`Reconcile`** One step is one whole successful `sync`; the desired file and the
certificates change in between. It is the promise against which the system-call level
is to be understood.

**`Stager`** A process is one invocation. Every action is one system call on the shared
`fs` (live, staging, prev) or one nginx invocation. `remove_dir_all` is listing,
unlinking entry by entry, and `rmdir`, which fails when another process has put
something there; `rename(2)` refuses a target that is not empty. `TestConfPasses` is
`nginx -t` on what `create_test_config` writes: where nginx.conf has the line
`include <live_dir>/*.conf;` staging takes its place; where live is brought in by another
directive the fallback appends the include of staging at the end of the file, outside the http
block, where nginx accepts no server block, and live is tested as it is (`NginxConfs`). `nginx -t` and a
reload look at the rendering (`Broken`) and at the certificates as they are at that
moment (`certs`), and a reload loads the live directory as it is. A `Fault` stands for
a kill, a failing system call (`?` ends the command) or an nginx invocation that fails
for a reason of its own. `seen` and `tested` are history variables: what the command
has read or is to restore, and what nginx accepted for it.

**`Commands`** adds the entry points and their guards: `up` wants a valid certificate,
`down` a managed config, `rollback` a previous generation. The read of live may miss a file
of `Unreadable`, which the code skips with a warning (`Readings`). `add` copies two
certificate files in place and writes a config into live, `remove` deletes one; neither
tests nor reloads. `TypeOK` is `Typed`, which also holds of a `sync` with ACME work, and
`WithoutAcme`, which says that the steps and outcomes of `Sync` do not occur.

**`Generations`** is what the live directory looks like to somebody who does not see
system calls: a current generation, the one before it, what nginx serves, and whether
the current one still awaits its reload (`pending`). A generation is deployed in one
step and given up in one step; nginx loads the current one as a whole or not at all;
what was current is never lost, except that a new generation which nginx has not
accepted is given up even when there is none before it. **`Deployments`** maps `Commands`
to it: between the two renames, and while live is being deleted for a rollback, the
generation that counts is the one in prev (`InExchange`). Deletions of the old prev are
steps of `GiveUp`, in-place changes by `add` and `remove` are `Edit`, and what a kill
leaves is `Interrupt` or `Settle`.

**`Sync`** is `cmd_sync` with `[acme]`: before the read of the live directory the loop of
`ensure_certs_for_desired` goes over the desired domains (`todo`), and issues for those
whose pair is not good, or is due. An installation is the two renames; what lies before
them and power loss are in `CertIssuer`. After the deployment of `Commands`, the reload
matrix: a sync that is about to end with "no changes" or a failed test and has replaced
certificates (`material`) reloads nginx first. `outdated` is a history variable: the domains
whose files were replaced since nginx last loaded.

**`Records`** One step is one whole successful command. The desired-state file is a
sequence of unchecked records; `ToLower` classifies the spellings of names. The list of
`DomainInfo`s that comes of it (`DesiredOf`) keeps each at the position of its record, with
gaps where records are skipped: the code pushes them into a new vector, and nothing but
their order matters afterwards. The text of a config is the lines of the template that anything
reads or that tell one config from another, a line a sequence of tokens: `parse_config_header` searches it the
way the code does, with its fallback to `InUse` and 0. `RenderAssumption` says that `Bodies` has what the renderer
makes of every number in the files. `meant` is a history variable: for every
live name, what the command that wrote its config last was told; it goes with the content when
a file is found under another name (`MeantBy`). `list` is what `cmd_list` reads back.

**`CertIssuer`** The certificates acme.sh issues for a domain are numbered, `KeyOf` says
for which key each one is, and a pair of files is a pair of such numbers. `survivors`
is what a power loss may leave under the live names: a rename adds to it, the `fsync`
of the directory resets it, and a file renamed before its content was synced may turn
out as `Junk`. `found` is what `inspect_existing_cert` has read and `was_renewal` follows
from it. The lock is released when its holder returns, is killed, or the machine stops.
Staging is one step here; what it does in detail is `Stager`. `config` is the part of the
config file that `validate_acme_config` looks at: without `[acme]` there is no loop, and a
relative `lock_dir` would be another directory for every process (`LockFile`).

**`CertWriters`** puts `add` beside it, which copies two files over the live pair without
the lock. `add` has checked that the two are PEM and not that they belong together, either
copy may be cut short, and a power loss may leave anything of what was not synced.

**`MC...`** modules hold the sets that the `.cfg` files choose from. Definitions
introduced by the comment "A bug to catch" are variants with a plausible mistake, one
for the properties of the passing runs; they are no part of a specification, and the property they name
fails when one takes the place of the definition after it.

**`...Proofs`** hold the theorems, see section 5: `DifferProofs` the lemmas about the
operators, `CommandsProofs`, `StagingProofs` and `DeploymentsProofs` (each on the one
before) those about `Commands`, and `ReconcileProofs`, `RecordsProofs`, `CertIssuerProofs`
and `SyncProofs` those about the module they are named for.

## 4. Model checking

All runs: `tlc -config <cfg> <module>`. Deadlock is checked in every one.

| cfg | module | what it shows | states |
|---|---|---|---|
| `MCReconcile` | `MCReconcile` | `KeepsDesired`, `RemovalsCapped`, `Converges`: whole cycles over changing files and certificates | 3 thousand |
| `MCCommands` | `MCCommands` | types, the seven properties of a deployment and the refinement of `Generations`, all six commands, a fault anywhere, a file that cannot be read, both forms of nginx.conf | 2.5 million |
| `MCConverge` | `MCSync` | repeated syncs with ACME and two faults: `ConvergesWithAcme`, `CertsServed`, `CertReloadOfLive` | 41 thousand |
| `MCPair` | `MCCommands` | two processes in the same directories, and a fault: `RepairsOverlap` | 430 thousand |
| `MCRecords` | `MCRecords` | `SecondSyncQuiet`, `RecordedKept`, `ListTruthful` over every kind of record, names in `.conf` among them | 3 thousand |
| `MCCertIssuer` | `MCCertIssuer` | two syncs, two domains: `SingleWriter`, `LoopComplete`, `InstallsPair`, `StaysValid`, `CertsLoaded` | 2.5 million |
| `MCHeals` | `MCCertWriters` | whatever faults and an `add` beside them leave, repeated syncs of two schedulers end with a good pair | 1.5 million |
| `MCUntested` | `MCCommands` | **violated**: `OnlyTestedSwappedIn` with two processes | |
| `MCCrash` | `MCCommands` | **violated**: `SyncKeepsDesired` | |
| `MCServed` | `MCCommands` | **violated**: `ServedConverges` | |
| `MCFailed` | `MCCertIssuer` | **violated**: `FailedUnchanged` | |
| `MCUnloaded` | `MCCertIssuer` | **violated**: `RenewedLoaded` | |

The properties, in words:

* `KeepsDesired`, `LossesBounded` - no new generation leaves out a config of a desired
  domain, or more than `max_removals_per_cycle` others; `up` and `down` change nothing
  but their domain. `LossesBounded` is about what the command has read: a file it could not
  read is neither counted nor carried forward (section 6).
* `RemovalsCapped` - the cap removes in name order and defers the rest unchanged.
* `LiveUntouched` - until its swap begins, a command leaves live as it has read it.
* `OnlyTestedSwappedIn` - what goes live is what `nginx -t` accepted.
* `OldGenerationKept` - from the swap until the reload has succeeded or the rollback is
  over, the old generation is whole, in prev or in live.
* `SwapReady` - what each step takes for granted of the directories.
* `StagedAsPlanned` - whatever an earlier run left in staging, what is tested is exactly
  what the diff asks for.
* `SuccessIsServed` - a success means that nginx serves the tested (or restored) tree.
* `ImplementsGenerations` - a deployment or rollback looks like one step: whatever fails,
  nginx loads whole, accepted generations only, and the one that was current is whole in
  live or in prev.
* `RepairsOverlap` - whatever two overlapping invocations leave of the directories, a live or
  staging directory that is missing or holds the other one's tree, syncs that run undisturbed
  from then on reach the desired live directory.
* `Converges` (`Reconcile`), `ConvergesWithAcme` (`Sync`) - repeated syncs for one desired
  file reach the live directory it asks for; in the second, through missing and mismatched
  certificates, deferred removals, refused reloads and kills.
* `Heals` - repeated syncs end with a matching certificate that is not due.
* `SingleWriter` - whatever the config file says, as long as it is accepted, no two
  invocations install for one domain at a time.
* `LoopComplete` - no domain is left out because another one failed.
* `InstallsPair` - "issued" or "renewed" means a matching pair, the newest, and durable.
* `StaysValid` - files that pass `validate_certs` never stop passing, in a crash either.
* `CertsLoaded`, `CertsServed` - a sync that exits with 0 has nginx hold the certificates
  it installed, by whichever line of the reload matrix it has ended (the second one over
  the whole deployment).
* `CertReloadOfLive` - the reload that is forced for certificates finds the live directory
  that the sync has read, not a rejected generation.
* `SecondSyncQuiet` - a sync after a successful one finds nothing to do, whatever was live
  before: what is rendered, written under the domain's name and found again compares equal.
  Excepted are exactly the desired names in `.conf` and the shorter names they are found
  under (`Unsettled`), which every sync writes or removes again. The file names each domain
  once, and no removal is deferred.
* `RecordedKept` - every record with a status that deserves a config has one after a sync,
  in whatever spelling and beside whatever damaged records.
* `ListTruthful` - `list` finds in the text of a config the number and status that its last
  writer meant, under whatever name the file is found.

### The violated runs

1. `MCUntested`. Every generation is built in the one configured `staging_dir`. Two
   invocations at a time: the second one refills staging between the first one's
   `nginx -t` and its swap, and the first swaps in a tree nobody has tested. The comment
   at `stager.rs:28` speaks of unique staging directory names; the generation number is
   only used in the name of the test config.
2. `MCCrash`. A kill between the two renames of the swap leaves no live directory. The
   next sync takes the live set to be empty and never looks at prev: a desired domain
   whose certificate does not validate at that moment has nothing to be preserved from,
   prev is deleted, and nginx is reloaded without the domain. `differ.rs:141` promises
   that a temporary certificate issue does not do that.
3. `MCServed`. A kill between the swap and the reload: disk already holds what is
   desired, so every later sync reports "no changes" and nginx is never reloaded.
4. `MCFailed`. The chain is renamed and the rename of the key (or the `fsync` after
   both) fails: the domain is reported as failed, which according to
   `cert_issuer.rs:92` means that its files are unchanged.
5. `MCUnloaded`. Whether nginx is reloaded for a renewal depends on the report of the
   invocation that installed it. If that one is killed, or its reload is refused, or it
   counts the domain as failed (4.), later syncs find the certificate "existing" and the
   configs unchanged, and nginx keeps the old certificate until something else reloads.

### Bounds, and why they are enough

* `MCReconcile`: three domains, two renderings, a cap of 1. Two undesired domains are the
  least that the cap splits, the third is desired at the same time; the desired files
  include a regenerated config and a file that names a domain twice. Certificates and
  files change without a bound.
* `MCCommands`: one process (any number of invocations, one after the other), two
  domains, two renderings of which nginx rejects one, an operator's own file among the
  live ones, cap 1, `MaxFaults = 1`, nginx.conf in either form from one test to the next, one
  file that cannot be read whenever the bound on faults allows it. A leftover of a killed run meets the next run with
  one fault; the certificates of one domain change at any moment and without a bound.
  `MaxFaults` counts kills, I/O errors (files that cannot be read among them) and spurious failures; refusals by nginx for a
  reason (a broken rendering, a bad certificate) are not bounded.
* `MCRecords`: three domains, `a.com`, `a.com.conf` and `b.com`, the last in two spellings, and a
  malformed name; files with each status that deserves a config, one that does not and an unknown
  one, a malformed name beside a good one, a domain named twice in two spellings, and a name
  beside the one that it is trimmed to; two proxy confs, cap 1. Each step is a whole command and
  depends on one file and one tree, so that more domains bring no new case.
* `MCConverge`: three domains, two removals that the cap spreads over two cycles, one
  addition or update, each certificate good, mismatched or invalid to begin with,
  `MaxFaults = 2`, so that a fault hits the recovery from a fault. One process: two
  schedulers of `sync` can undo one another's staging for ever, and a domain lock that
  another sync holds (`Failed`) is met in `MCCertIssuer`. `ConvergesWithAcme` asks
  nothing when a live config that nobody desires has a certificate nginx cannot load: its
  removal may be deferred, and until then `nginx -t` rejects every tree with it.
* `MCPair`: two processes, one domain with one rendering, which is desired; `sync`, `up`, `down`
  and `rollback`, one fault: the smallest instance in which every removal and every rename meets
  the other process, or what a killed one has left, in every state of the directories.
  The liveness property only asks for what happens once one process runs alone: two schedulers
  of `sync` can undo one another's staging for ever.
* `MCCertIssuer`: two processes (interchangeable, hence SYMMETRY, in a run of safety
  properties only), two domains, lists in which a domain is named twice or not at all,
  two certificates per domain (first issue, renewal), one fault, and as config files legacy
  mode, ACME as it should be, and ACME with a relative `lock_dir` and ACME without a
  provider. The other runs of `CertIssuer` have ACME as it should be.
* `MCHeals`: one domain, two processes, one `add`, one fault, three certificates, the
  second with a new key and the third with the same; the damaged pairs come of what is
  cut short. `AcmeSkipsDue = FALSE`: acme.sh renews what this code finds due.
  With `TRUE` (its renewal window is the shorter one) it answers "already valid" and the
  due pair is installed again until acme.sh's own window opens, so `Heals` is not asked.

### Fairness

`FairSpec` gives weak fairness to the step of a process that is running: it is a
sequential program that the operating system schedules and that waits for nobody but
its children. (nginx and acme.sh are assumed to end. The code sets no timeout on
them.) `SyncForever` adds that the caller starts `sync` again and again, which is how
the README has the agent run it (an external scheduler). `RepairsOverlap` states its own condition: from some time on one
process runs `sync` again and again and nothing else happens. `FairSync` and `SyncAgain` are the two
over the steps of `Sync`, `SyncsGoOn` is the latter beside an `add` that nothing drives on.
Faults, certificate changes and the ageing of certificates are never fair.

## 5. Proofs

Eight modules, each checked with `tlapm <module>.tla`, for every value of the constants
that satisfies the ASSUMEs of the modules. Every invariant and every action property that
a passing run checks is proved; `OneAtATime` below is the hypothesis that `Procs` has at
most one element. It stands where the code needs it (two invocations share one staging
directory, and `MCUntested` shows what comes of that) and nowhere else. `PlainNames`, that every
name comes back from its file name, is the hypothesis of the theorems about whole cycles:
a desired name in `.conf` is not found again and never settles, which is what the exception in
`SecondSyncQuiet` says. The theorems about `Commands`, `Sync` and `Records` do not need it.

| Module | Theorem | States | For |
|---|---|---|---|
| `ReconcileProofs` | `TypeCorrect` | `TypeOK` | all |
| | `KeepsDesiredAlways`, `RemovalsCappedAlways` | `KeepsDesired`, `RemovalsCapped` | `PlainNames` |
| | `QuietOnlyWhenSettled`, `CyclesGetNearer` | the safety half of `Converges` | `PlainNames` |
| `RecordsProofs` | `TypeCorrect`, `ListTruthfulAlways`, `RecordedKeptAlways`, `SecondSyncQuietAlways` | `TypeOK`, `ListTruthful`, `RecordedKept`, `SecondSyncQuiet` | all |
| `CommandsProofs` | `TypeCorrect` | `TypeOK` | any number of processes |
| | `LiveUntouchedAlways`, `OnlyTestedGoesLive`, `OldGenerationNeverLost`, `SwapReadyAlways`, `SuccessServes` | the properties of a deployment | `OneAtATime` |
| `StagingProofs` | `StagedAsPlannedAlways`, `LossesBoundedAlways` | `StagedAsPlanned`, `LossesBounded` | `OneAtATime` |
| `DeploymentsProofs` | `DeploymentIsAtomic` | `ImplementsGenerations` | `OneAtATime` |
| `CertIssuerProofs` | `TypeCorrect`, `SingleWriterAlways`, `LoopCompleteAlways`, `InstallsPairAlways`, `StaysValidAlways`, `CertsLoadedAlways` | `TypeOK`, `SingleWriter`, `LoopComplete`, `InstallsPair`, `StaysValid`, `CertsLoaded` | any number of processes |
| `SyncProofs` | `SyncTypeCorrect`, `CertsServedAlways` | `SyncTypeOK`, `CertsServed` | any number of processes |
| | `CertReloadOfLiveAlways` | `CertReloadOfLive` | `OneAtATime` |
| | `DeployingWithAcme`, `PlannedWithAcme`, `SyncIsAtomic` | what is above of `Commands`, of a `sync` with ACME work | `OneAtATime` |

**Operators** (`DifferProofs`). A finite set of names has a least and a greatest element,
from the well-foundedness of `<` on the naturals. From these: `First` takes at most `count` names, an initial segment of them
(`FirstIsCapped`), all when there are no more (`FirstTakesAll`) and some when the cap is
not 0 (`FirstTakesSome`); what the three lists of `compute_diff` contain (`DiffShape`);
what can be found in a directory (`ReadsOfMarked`, and `PlainFilesRead` where it is one thing);
which body is the last one written (`LastBodyIsLast`); what the staged tree has and what it
carries forward (`StagedTreeType`, `StagedTreeKeeps`). A list is any function on finitely many
naturals (`IsList`), so that the lemmas serve the sequences of `Reconcile` and `Commands`
and the lists with gaps of `Records`.

**`Reconcile`.** `TypeOK` is inductive. `KeepsDesired` and `RemovalsCapped` follow from it
and `CycleDrops`: what a cycle takes away is exactly `to_remove`. `QuietOnlyWhenSettled`
says that "no changes" is reported in settled states only; `CyclesGetNearer` that one cycle
renders all that has a certificate and that the set of undesired configs shrinks with
every cycle until it is empty. `Converges` is these two and fairness.

**`Records`.** `TypeOK` with `Truthful` is inductive: every live config was rendered, under some
name and for some proxy conf, from the number and the status in `meant`. What is found has its
meaning with it (`FoundAgree`). `ListTruthful` is that and `HeaderReadBack`: in the text of either
template the search of `parse_config_header` comes to the one header line and to what was
rendered there, for every number (`HeaderTokens`, `HeaderSays`). `SecondSyncQuiet` is `SyncRenders`
(every desired domain has the config it renders to), `SyncRemovesAll` (nothing else is left) and
`OnlyUnsettled`: whatever is found in such a tree, each difference from what is desired goes
back to a desired name in `.conf`.

**`Commands`.** `Typed` is inductive because of two parts that are more than types: the
positions and names that remain to be written exist in `desired` and `snap` (`PlanOK`),
and only `add` is at the steps of `add` (`ControlOK`). The invariant of a deployment is
`Deploying`, the conjunction of `LiveUntouched`, `OnlyTestedSwappedIn`, `OldGenerationKept`
and `SwapReady`. They need one another: that prev is the old generation after the swap
rests on live being untouched before it and on prev having been cleared; that the tested
tree is the one in live rests on staging being there and unchanged since the test.
`SuccessIsServed` is an action property that follows from it. The argument is by cases over
the actions of `Next`: removals, build, test / swap / reload / rollback, and commands, one
lemma each for the types (`...Types`) and one for the safety (`...Safe`).

`StagedAsPlanned` is not inductive either. `Staging` adds what `desired`, `diff` and `snap`
have to do with one another and with the command (`CommandFits`, `DiffFits`), the state of
the three loops (`LoopsInOrder`: what has been written so far is `Filled`, each loop has done
an initial segment of its positions and none is begun before the one before it is done) and
that what was tested is what was planned. `LossesBounded` follows from it, from
`Deploying` and from the lemmas about `StagedTree`.

The refinement is proved step by step under the same invariants and `TestedLoads` (what is
being swapped in has no rendering nginx rejects): every action of `Commands` maps to an
action of `Generations` or to a stutter (`...Maps`, one lemma for each group of actions).

**`CertIssuer`.** The lock table and the control state are one invariant (`ControlOK`: a lock
file is held by a process exactly if that process is at work on a domain whose lock file it
is), and with `Configured` (`validate_acme_config` rejects a relative `lock_dir`, so no process
gets into the loop with one) this is `SingleWriter`. The types alone are not inductive: what is installed comes out of acme.sh's tree, which has to be non-empty
then (`Issued`). `Configured` says that only an accepted `[acme]` section leads into the
loop, `Covered` that what lies before `pos` is dealt with, `Installing` what the
two renames have done so far, and `Remaining` that whatever a power loss may leave under
the live names is accepted by `validate_certs`. `Issuing` is all of them. `InstallsPair`,
`StaysValid` and `CertsLoaded` are action properties that follow.

**`Sync`.** `SyncTypeOK` lacks that a process between two commands has no report of the
last one and that only `sync` is at the steps of the ACME work; `AcmeOfSync` adds that.
`CertReloadOfLive` is inductive with `Deploying`. For the steps that Commands has, the
lemmas of `CommandsProofs`, `StagingProofs` and `DeploymentsProofs` are used as they are,
which is why they speak of `Typed` and of single steps of one process; new are the lemmas
about the loop and the reload matrix (`AcmeSafe`, `AcmeStaged`, `AcmeMapsTo`).

Each strengthened invariant (`Staging`, `TestedLoads`, `Issuing`, `AcmeOfSync`) was checked with
TLC on the instance of the run of its module before it was proved.

**Only model-checked**, and why:

* `RepairsOverlap`, `Converges`, `ConvergesWithAcme`, `Heals`: liveness under fairness needs
  ENABLED, which the prover does not have.
* The properties of the violated runs: they do not hold.
* Everything about `CertWriters`, whose run asks a liveness property only.

## 6. What is left out

* `read_live_configs` is one step, although it opens file after file; so is the
  certificate check of `compute_diff`. With one process at a time the difference shows
  only when certificates change in the middle of the check.
* Two invocations at a time, beyond `RepairsOverlap` and the first violated run: nothing
  in the code makes them take turns, so that of two `up` for two domains the later swap
  undoes the earlier one's change, `add` and `remove` are undone by a deployment that has
  already read live, and a reload of one can fall between the two renames of
  the other and find no live directory.
* What `rollback` restores when a kill has left a part of prev (`Remnant` in `Generations`
  admits it).
* Names that end in `.conf` in the runs of `Commands`, `Sync` and `Reconcile`, which have
  `Trimmed[n] = n`: what such names do is in `Records`. `domain.rs:18` accepts them, and
  `differ.rs:259` finds `<name>.conf` under a shorter name: every sync adds the domain again and
  counts the shorter name among the removals, where it takes a place under the cap in every cycle,
  so that a deferred removal behind it in name order may never come (`README.md:154` says that
  repeated syncs drain what is deferred). `down` of such a name finds no config, `remove` deletes
  the file. `Converges` and `ConvergesWithAcme` are therefore about the other names.
* A bound on what a sync takes away when it cannot read a live config (`differ.rs:262`): the file
  is skipped with a warning, so that it is neither counted nor carried forward and goes with the
  swap, beside what the cap allows. The comments at `differ.rs:102` and `stager.rs:211` speak of
  the configs that were found; `LossesBounded` says what holds of those.
* An nginx.conf that does not bring in live at all, or that has the include line in more than one
  block: the operator's set-up, in which a deployment changes nothing or everything.
* Header comments edited by hand: a text of `Bodies` is one the renderer has made.
* `max_removals_per_cycle = 0`: nothing is ever removed; the runs set the cap to 1.
* The temporary test config (`nginx-agent-test-<gen>.conf`) is not in the state. Its
  number starts at 0 in every process, so two processes share the file, too: one may remove it
  before the other's `nginx -t`, which then fails like any test that fails (`TestFails`).
* A staging file is written under a temporary name and renamed; the two are one step.
  What a kill between them leaves ends in `.tmp`, which neither nginx's include nor
  `read_live_configs` looks at, and the next run removes staging as a whole. `add` writes
  its three files in place, and there a write that is cut short is told apart
  (`AddConfTorn`, `AddCopyTorn`).
* A power loss is modelled for certificates only; the stager syncs nothing to disk and
  promises nothing about it.
* `acme.sh` children that outlive a killed parent, account registration, DNS and the
  CA's rate limits: a call to acme.sh succeeds, answers "already valid" or fails. A fatal
  set-up error ends the command before the diff, as a kill does.
* In `CertIssuer`: removals from live, and the steps of staging (see `Sync`). After a
  power loss the supervisor starts nginx, which loads the live configs if it can.
* In `Records`: files without the marker, failures and processes (see `Commands`), and the
  app of a domain: no config holds it, and `list` shows a guess from the name.
* The pattern a domain name must match, wording, JSON output, exit code numbers, counters,
  and `merge_acme`, which only reports.
* The rest of `config.rs` (parsing and defaults), `status`, `test`, the build script and
  CI. `health.rs`: one HTTP request whose answer is printed. Its header says "After a
  configuration reload, we perform a smoke test", but no deployment calls it, and
  `check_health_with_retries` has no caller at all.
