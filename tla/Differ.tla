------------------------------- MODULE Differ -------------------------------
(***************************************************************************)
(* differ.rs: what a sync has to do, computed from the desired domains and *)
(* from the configs found in the live directory; and the tree that         *)
(* stager.rs builds from it.                                               *)
(*                                                                         *)
(* A directory of nginx configs is a function from names to file contents: *)
(* the file <n>.conf belongs to n.  What render_domain_config writes for a *)
(* domain (its number, its status and the configured paths) is one value   *)
(* of Bodies; a .conf file without the marker "Managed by domain-agent"    *)
(* has the content Alien.                                                  *)
(***************************************************************************)
EXTENDS Naturals, FiniteSets, Sequences

CONSTANTS
    Names,        \* file stems, domain names among them; ordered as strings are
    Trimmed,      \* what trim_end_matches(".conf") makes of the file name <n>.conf
    Bodies,       \* contents the renderer can produce
    Alien,        \* a .conf file without the agent's marker
    NoFile,       \* the directory has no .conf file of that name
    Absent,       \* the directory does not exist
    MaxRemovals   \* [safety] max_removals_per_cycle

ASSUME NamesAssumption == Names \subseteq Nat /\ IsFiniteSet(Names)

\* It takes every ".conf" off the end, so that only a name that does not end in
\* .conf comes back from its file name.
ASSUME TrimAssumption ==
    /\ Trimmed \in [Names -> Names]
    /\ \A n \in Names : Trimmed[Trimmed[n]] = Trimmed[n]

PlainNames == \A n \in Names : Trimmed[n] = n

ASSUME ContentsAssumption ==
    /\ Alien \notin Bodies
    /\ NoFile \notin Bodies \cup {Alien}
    /\ Absent \notin [Names -> Bodies \cup {Alien, NoFile}]

ASSUME CapAssumption == MaxRemovals \in Nat

Trees == [Names -> Bodies \cup {Alien, NoFile}]
ManagedTrees == [Names -> Bodies \cup {NoFile}]
Dirs == Trees \cup {Absent}
EmptyTree == [n \in Names |-> NoFile]

\* A DomainInfo: the name and the content it renders to.
DomainInfos == [name : Names, body : Bodies]

Files(tree) == {n \in Names : tree[n] # NoFile}

-----------------------------------------------------------------------------
\* The files with the agent's marker, and what is in them.
Marked(dir) ==
    [n \in Names |-> IF dir # Absent /\ dir[n] \in Bodies THEN dir[n] ELSE NoFile]

\* The maps name -> content that read_live_configs may return when the files
\* `skipped` cannot be read: the content of a name is that of a file whose name
\* is trimmed to it, of any one if there are several (the last in directory order).
read_live_configs(dir, skipped) ==
    LET marked == Marked(dir)
        files == Files(marked) \ skipped
        names == {Trimmed[f] : f \in files}
        sources == {from \in [names -> files] : \A n \in names : Trimmed[from[n]] = n}
    IN  {[n \in Names |-> IF n \in names THEN marked[from[n]] ELSE NoFile] :
            from \in sources}

NamesAt(desired, positions) == {desired[i].name : i \in positions}
desired_names(desired) == NamesAt(desired, DOMAIN desired)

\* A bug to catch: the split keeps one name too many.
First_OneTooMany(names, count) ==
    {n \in names : Cardinality({m \in names : m < n}) =< count}

\* The first `count` names of a set, in string order (sort and split_off).
First(names, count) ==
    {n \in names : Cardinality({m \in names : m < n}) < count}

to_remove_of(gone) == First(gone, MaxRemovals)

\* A bug to catch: a domain whose certificate is invalid counts as undesired.
compute_diff_DropsUncertified(desired, configs, pem_valid) ==
    LET live == Files(configs)
        certified == {i \in DOMAIN desired : pem_valid[desired[i].name]}
        present == {i \in DOMAIN desired : desired[i].name \in live}
        gone == live \ NamesAt(desired, certified)
    IN  [to_add    |-> certified \ present,
         to_update |-> {i \in certified \cap present :
                            configs[desired[i].name] # desired[i].body},
         to_remove |-> to_remove_of(gone)]

\* A bug to catch: a config that is already live is never regenerated.
compute_diff_NeverUpdates(desired, configs, pem_valid) ==
    LET live == Files(configs)
        certified == {i \in DOMAIN desired : pem_valid[desired[i].name]}
        present == {i \in DOMAIN desired : desired[i].name \in live}
    IN  [to_add    |-> certified \ present,
         to_update |-> {},
         to_remove |-> to_remove_of(live \ desired_names(desired))]

\* compute_diff.  to_add and to_update are sets of positions in `desired`,
\* which may name a domain twice; `pem_valid` is what validate_certs answers.
\* A desired domain at neither (unchanged, or skipped for its certificate) and
\* a live name that is not in to_remove (deferred) are carried forward.
compute_diff(desired, configs, pem_valid) ==
    LET live == Files(configs)
        certified == {i \in DOMAIN desired : pem_valid[desired[i].name]}
        present == {i \in DOMAIN desired : desired[i].name \in live}
    IN  [to_add    |-> certified \ present,
         to_update |-> {i \in certified \cap present :
                            configs[desired[i].name] # desired[i].body},
         to_remove |-> to_remove_of(live \ desired_names(desired))]

has_changes(diff) ==
    \/ diff.to_add # {}
    \/ diff.to_update # {}
    \/ diff.to_remove # {}

DiffResults ==
    [to_add : SUBSET Nat, to_update : SUBSET Nat, to_remove : SUBSET Names]

-----------------------------------------------------------------------------
\* A bug to catch: only the desired domains that need no work are carried
\* forward, whether or not they have a live config.
preserved_names_UnchangedOnly(desired, diff, configs) ==
    desired_names(desired) \ NamesAt(desired, diff.to_add \cup diff.to_update)

\* A bug to catch: the configs to be removed are carried forward, too.
preserved_names_KeepsRemoved(desired, diff, configs) ==
    Files(configs) \ NamesAt(desired, diff.to_update)

\* build_staging_dir's preserved_names: every live config that this cycle
\* neither removes nor regenerates.
preserved_names(desired, diff, configs) ==
    Files(configs) \ (diff.to_remove \cup NamesAt(desired, diff.to_update))

\* The body written last for name n by a loop over these positions.
LastBody(desired, positions, n) ==
    LET mine == {i \in positions : desired[i].name = n}
    IN  desired[CHOOSE i \in mine : \A j \in mine : j =< i].body

\* The tree build_staging_dir leaves behind when no write fails.
StagedTree(desired, diff, configs) ==
    [n \in Names |->
        IF n \in NamesAt(desired, diff.to_update)
          THEN LastBody(desired, diff.to_update, n)
        ELSE IF n \in NamesAt(desired, diff.to_add)
          THEN LastBody(desired, diff.to_add, n)
        ELSE IF n \in preserved_names(desired, diff, configs)
          THEN configs[n]
        ELSE NoFile]
=============================================================================
