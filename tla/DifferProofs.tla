---------------------------- MODULE DifferProofs ----------------------------
(***************************************************************************)
(* What the operators of Differ return, for every set of domains, every    *)
(* rendering, every cap and every desired list: the facts the proofs about *)
(* Reconcile, Commands and Records rest on.                                *)
(***************************************************************************)
EXTENDS Differ, FiniteSetTheorems, TLAPS

-----------------------------------------------------------------------------
(* Finite sets of naturals.                                                 *)

\* Every set of naturals that is not empty has a least element.
LEMMA LeastNatural ==
    ASSUME NEW S \in SUBSET Nat, S # {}
    PROVE  \E x \in S : \A y \in S : x =< y
<1>1. PICK x \in S : \A y \in S : ~ (<<y, x>> \in OpToRel(<, Nat))
  BY NatLessThanWellFounded, WFMin
<1>2. \A y \in S : ~ (y < x)
  BY <1>1 DEF OpToRel
<1> QED  BY <1>2

\* ... and if it is finite a greatest one: the element with the fewest above it.
LEMMA GreatestNatural ==
    ASSUME NEW S \in SUBSET Nat, S # {}, IsFiniteSet(S)
    PROVE  \E x \in S : \A y \in S : y =< x
<1> DEFINE Above(x) == {m \in S : m > x}
           Counts == {Cardinality(Above(x)) : x \in S}
<1>1. \A x \in S : IsFiniteSet(Above(x)) /\ Cardinality(Above(x)) \in Nat
  <2> SUFFICES ASSUME NEW x \in S
               PROVE  IsFiniteSet(Above(x)) /\ Cardinality(Above(x)) \in Nat
    OBVIOUS
  <2>1. Above(x) \in SUBSET S
    OBVIOUS
  <2>2. IsFiniteSet(Above(x))
    BY <2>1, FS_Subset
  <2> QED  BY <2>2, FS_CardinalityType
<1>2. Counts \in SUBSET Nat /\ Counts # {}
  BY <1>1
<1>3. PICK c \in Counts : \A d \in Counts : c =< d
  <2> HIDE DEF Counts
  <2> QED  BY <1>2, LeastNatural
<1>4. PICK x \in S : c = Cardinality(Above(x))
  OBVIOUS
<1>5. ASSUME NEW y \in S, y > x PROVE FALSE
  <2>0. x \in Nat /\ y \in Nat /\ \A m \in S : m \in Nat
    BY <1>5
  <2>a. \A m \in S : m > y => m > x
    BY <2>0, <1>5
  <2>b. ~ (y > y)
    BY <2>0
  <2>1. Above(y) \in SUBSET Above(x) /\ y \in Above(x) /\ y \notin Above(y)
    BY <2>a, <2>b, <1>5
  <2>2. Cardinality(Above(y)) =< Cardinality(Above(x))
        /\ Cardinality(Above(y)) # Cardinality(Above(x))
    <3> HIDE DEF Above
    <3> QED  BY <2>1, <1>1, FS_Subset
  <2>3. Cardinality(Above(x)) =< Cardinality(Above(y))
    BY <1>3, <1>4
  <2> QED  BY <2>2, <2>3, <1>1
<1> QED  BY <1>5

-----------------------------------------------------------------------------
(* The split of compute_diff.                                               *)

\* `to_remove.sort(); to_remove.split_off(max)`: what stays is an initial
\* segment of the names in string order, and no more than `count` of them.
LEMMA FirstIsCapped ==
    ASSUME NEW names \in SUBSET Names, NEW count \in Nat
    PROVE  /\ First(names, count) \subseteq names
           /\ \A n \in First(names, count), m \in names :
                 m < n => m \in First(names, count)
           /\ Cardinality(First(names, count)) =< count
<1> DEFINE F == First(names, count)
           Below(n) == {m \in names : m < n}
<1>1. names \in SUBSET Nat /\ IsFiniteSet(names)
  BY NamesAssumption, FS_Subset
<1>2. F \subseteq names /\ F \in SUBSET names
  BY DEF First
<1>3. \A n \in names : Below(n) \in SUBSET names
  OBVIOUS
<1>4. \A n \in names : IsFiniteSet(Below(n)) /\ Cardinality(Below(n)) \in Nat
  <2> HIDE DEF Below
  <2> QED  BY <1>1, <1>3, FS_Subset, FS_CardinalityType
<1>5. \A n \in names : n \in F <=> Cardinality(Below(n)) < count
  BY DEF First
<1>6. ASSUME NEW n \in F, NEW m \in names, m < n PROVE m \in F
  <2>0. n \in Nat /\ m \in Nat /\ \A k \in names : k \in Nat
    BY <1>1, <1>2, <1>6
  <2>a. \A k \in names : k < m => k < n
    BY <2>0, <1>6
  <2>1. Below(m) \in SUBSET Below(n)
    BY <2>a
  <2>2. Cardinality(Below(m)) =< Cardinality(Below(n))
    <3> HIDE DEF Below, F
    <3> QED  BY <1>2, <1>4, <2>1, FS_Subset
  <2> HIDE DEF Below, F
  <2> QED  BY <1>2, <1>4, <1>5, <1>6, <2>2
<1>7. IsFiniteSet(F) /\ Cardinality(F) =< count
  <2>1. IsFiniteSet(F)
    <3> HIDE DEF F
    <3> QED  BY <1>1, <1>2, FS_Subset
  <2>2. CASE F = {}
    BY <2>1, <2>2, FS_EmptySet
  <2>3. CASE F # {}
    <3>1. PICK x \in F : \A y \in F : y =< x
      <4> HIDE DEF F
      <4> QED  BY <1>1, <1>2, <2>1, <2>3, GreatestNatural
    <3>0. \A y \in F : y \in names /\ y \in Nat
      BY <1>1, <1>2
    <3>a. \A y \in F : y = x \/ y < x
      BY <3>0, <3>1
    <3>2. F \in SUBSET (Below(x) \cup {x})
      BY <3>0, <3>a
    <3> HIDE DEF F, Below
    <3>3. Cardinality(Below(x)) < count /\ Cardinality(Below(x)) \in Nat
      BY <1>2, <1>4, <1>5
    <3>4. IsFiniteSet(Below(x))
      BY <1>2, <1>4
    <3> DEFINE B == Below(x)
    <3> HIDE DEF B
    <3>5. /\ IsFiniteSet(B \cup {x})
          /\ Cardinality(B \cup {x}) = IF x \in B THEN Cardinality(B)
                                       ELSE Cardinality(B) + 1
      BY <3>4, FS_AddElement DEF B
    <3>6. Cardinality(F) =< Cardinality(B \cup {x})
      BY <3>2, <3>5, FS_Subset DEF B
    <3>7. Cardinality(F) \in Nat
      BY <2>1, FS_CardinalityType
    <3>8. Cardinality(B) < count /\ Cardinality(B) \in Nat
      BY <3>3 DEF B
    <3> QED  BY <2>1, <3>5, <3>6, <3>7, <3>8
  <2> QED  BY <2>1, <2>2, <2>3
<1> QED  BY <1>2, <1>6, <1>7

\* ... and all of them when there are no more than that.
LEMMA FirstTakesAll ==
    ASSUME NEW names \in SUBSET Names, NEW count \in Nat, Cardinality(names) =< count
    PROVE  First(names, count) = names
<1> DEFINE Below(n) == {m \in names : m < n}
<1>1. names \in SUBSET Nat /\ IsFiniteSet(names)
  BY NamesAssumption, FS_Subset
<1>2. ASSUME NEW n \in names PROVE Cardinality(Below(n)) < count
  <2>1. Below(n) \in SUBSET names /\ n \notin Below(n)
    BY <1>1
  <2> HIDE DEF Below
  <2>2. /\ Cardinality(Below(n)) =< Cardinality(names)
        /\ Cardinality(Below(n)) # Cardinality(names)
        /\ Cardinality(Below(n)) \in Nat /\ Cardinality(names) \in Nat
    BY <1>1, <2>1, FS_Subset, FS_CardinalityType
  <2> QED  BY <2>2
<1> QED  BY <1>2 DEF First

\* A cap above 0 lets something through: the least name has none below it.
LEMMA FirstTakesSome ==
    ASSUME NEW names \in SUBSET Names, NEW count \in Nat, count > 0, names # {}
    PROVE  First(names, count) # {}
<1>1. names \in SUBSET Nat
  BY NamesAssumption
<1>2. PICK n \in names : \A m \in names : n =< m
  BY <1>1, LeastNatural
<1>3. {m \in names : m < n} = {}
  <2>1. \A m \in names : m \in Nat /\ n \in Nat /\ n =< m
    BY <1>1, <1>2
  <2>2. \A m \in names : ~ (m < n)
    BY <2>1
  <2> QED  BY <2>2
<1>4. Cardinality({m \in names : m < n}) < count
  BY <1>3, FS_EmptySet
<1> QED  BY <1>4 DEF First

\* Marked takes every managed file and nothing else.
LEMMA LiveConfigs ==
    ASSUME NEW dir \in Dirs
    PROVE  /\ Marked(dir) \in ManagedTrees
           /\ \A n \in Names : n \in Files(Marked(dir))
                 <=> dir # Absent /\ dir[n] \in Bodies
           /\ \A n \in Files(Marked(dir)) :
                 Marked(dir)[n] = dir[n] /\ dir[n] \in Bodies
  BY ContentsAssumption DEF Marked, ManagedTrees, Files

\* What read_live_configs returns has a config for the names that the readable
\* files are trimmed to, each from one of those files, and for no other.
LEMMA ReadsOfMarked ==
    ASSUME NEW dir \in Dirs, NEW skipped, NEW found \in read_live_configs(dir, skipped)
    PROVE  /\ found \in ManagedTrees
           /\ \A n \in Names : n \in Files(found)
                 <=> \E f \in Files(Marked(dir)) \ skipped : Trimmed[f] = n
           /\ \A n \in Files(found) :
                 \E f \in Files(Marked(dir)) \ skipped :
                    Trimmed[f] = n /\ found[n] = Marked(dir)[f]
<1> DEFINE marked == Marked(dir)
           files == Files(marked) \ skipped
           names == {Trimmed[f] : f \in files}
<1>1. PICK from \in [names -> files] :
         /\ \A n \in names : Trimmed[from[n]] = n
         /\ found = [n \in Names |-> IF n \in names THEN marked[from[n]] ELSE NoFile]
  BY DEF read_live_configs
<1>2. marked \in ManagedTrees
  BY LiveConfigs
<1> HIDE DEF marked
<1>3. \A f \in files : marked[f] \in Bodies /\ marked[f] # NoFile
  BY <1>2 DEF Files, ManagedTrees
<1>4. found \in ManagedTrees
  BY <1>1, <1>3 DEF ManagedTrees
<1>5. \A n \in Names : n \in Files(found) <=> n \in names
  BY <1>1, <1>3, ContentsAssumption DEF Files
<1>6. Files(found) \subseteq Names
  BY DEF Files
<1> QED  BY <1>1, <1>4, <1>5, <1>6 DEF marked

\* Where the name of every managed file comes back from its file name there is
\* one thing to read.
LEMMA PlainFilesRead ==
    ASSUME NEW dir \in Dirs, \A f \in Files(Marked(dir)) : Trimmed[f] = f
    PROVE  read_live_configs(dir, {}) = {Marked(dir)}
<1> DEFINE marked == Marked(dir)
           files == Files(marked) \ {}
           names == {Trimmed[f] : f \in files}
           read(from) == [n \in Names |-> IF n \in names THEN marked[from[n]] ELSE NoFile]
<1>1. marked \in ManagedTrees
  BY LiveConfigs
<1>2. files = Files(marked) /\ names = files /\ files \subseteq Names
      /\ \A f \in files : Trimmed[f] = f
  BY DEF Files
<1>3. /\ \A found \in read_live_configs(dir, {}) : \E from \in [names -> files] :
            (\A n \in names : Trimmed[from[n]] = n) /\ found = read(from)
      /\ \A from \in [names -> files] :
            (\A n \in names : Trimmed[from[n]] = n)
               => read(from) \in read_live_configs(dir, {})
  BY DEF read_live_configs
<1> HIDE DEF marked
<1>4. \A from \in [names -> files] :
         (\A n \in names : Trimmed[from[n]] = n) => read(from) = marked
  BY <1>1, <1>2 DEF Files, ManagedTrees
<1>5. LET same == [n \in names |-> n]
      IN  same \in [names -> files] /\ \A n \in names : Trimmed[same[n]] = n
  BY <1>2
<1> HIDE DEF names, read
<1>6. \A found \in read_live_configs(dir, {}) : found = marked
  BY <1>3, <1>4
<1>7. marked \in read_live_configs(dir, {})
  <2> DEFINE same == [n \in names |-> n]
  <2>1. same \in [names -> files] /\ \A n \in names : Trimmed[same[n]] = n
    BY <1>5
  <2> HIDE DEF same
  <2> QED  BY <1>3, <1>4, <2>1
<1> QED  BY <1>6, <1>7 DEF marked

\* In particular when no name at all ends in .conf.
LEMMA PlainReads ==
    ASSUME PlainNames, NEW dir \in Dirs
    PROVE  read_live_configs(dir, {}) = {Marked(dir)}
  BY PlainFilesRead DEF PlainNames, Files

\* A list of DomainInfos is a function on finitely many positions.
IsList(list) ==
    /\ DOMAIN list \in SUBSET Nat /\ IsFiniteSet(DOMAIN list)
    /\ list \in [DOMAIN list -> DomainInfos]

\* Every sequence of DomainInfos is one.
LEMMA SeqIsList ==
    ASSUME NEW list \in Seq(DomainInfos)
    PROVE  IsList(list)
<1>1. /\ DOMAIN list = 1..Len(list) /\ Len(list) \in Nat
      /\ list \in [1..Len(list) -> DomainInfos]
  OBVIOUS
<1>2. IsFiniteSet(1..Len(list)) /\ 1..Len(list) \in SUBSET Nat
  BY <1>1, FS_Interval
<1> QED  BY <1>1, <1>2 DEF IsList

\* What compute_diff puts in the three lists: positions of the desired list,
\* added where nothing is live and updated where something is, and at most the
\* cap of live names that no position asks for, in string order.
LEMMA DiffShape ==
    ASSUME NEW list, IsList(list), NEW configs \in ManagedTrees,
           NEW valid \in [Names -> BOOLEAN]
    PROVE  LET d == compute_diff(list, configs, valid)
           IN  /\ d \in DiffResults
               /\ d.to_add \cup d.to_update \subseteq DOMAIN list
               /\ \A i \in d.to_add : list[i].name \notin Files(configs)
               /\ \A i \in d.to_update : list[i].name \in Files(configs)
               /\ d.to_remove \subseteq Files(configs) \ desired_names(list)
               /\ Cardinality(d.to_remove) =< MaxRemovals
               /\ \A n \in d.to_remove, m \in Files(configs) \ desired_names(list) :
                     m < n => m \in d.to_remove
<1> DEFINE gone == Files(configs) \ desired_names(list)
           d == compute_diff(list, configs, valid)
<1>1. gone \in SUBSET Names /\ MaxRemovals \in Nat
  BY CapAssumption DEF Files
<1>2. d.to_remove = First(gone, MaxRemovals)
  BY DEF compute_diff, to_remove_of
<1>3. /\ d.to_remove \subseteq gone
      /\ \A n \in d.to_remove, m \in gone : m < n => m \in d.to_remove
      /\ Cardinality(d.to_remove) =< MaxRemovals
  <2> HIDE DEF gone, d
  <2> QED  BY <1>1, <1>2, FirstIsCapped
<1>4. /\ d.to_add \subseteq {i \in DOMAIN list : list[i].name \notin Files(configs)}
      /\ d.to_update \subseteq {i \in DOMAIN list : list[i].name \in Files(configs)}
  BY DEF compute_diff
<1>5. DOMAIN list \subseteq Nat
  BY DEF IsList
<1>6. d = [to_add |-> d.to_add, to_update |-> d.to_update, to_remove |-> d.to_remove]
  BY DEF compute_diff
<1>7. d \in DiffResults
  <2> HIDE DEF d
  <2> QED  BY <1>1, <1>3, <1>4, <1>5, <1>6 DEF DiffResults
<1> HIDE DEF d
<1>8. d.to_add \cup d.to_update \subseteq DOMAIN list
  BY <1>4
<1> QED  BY <1>3, <1>4, <1>7, <1>8 DEF d

-----------------------------------------------------------------------------
(* The tree build_staging_dir leaves behind.                                *)

\* The last of the positions that name n exists, and it decides the content.
LEMMA LastBodyIsLast ==
    ASSUME NEW list, IsList(list), NEW positions \in SUBSET DOMAIN list,
           NEW n \in NamesAt(list, positions)
    PROVE  \E i \in positions :
              /\ list[i].name = n
              /\ \A j \in positions : list[j].name = n => j =< i
              /\ LastBody(list, positions, n) = list[i].body
<1> DEFINE mine == {i \in positions : list[i].name = n}
<1>1. mine \in SUBSET Nat /\ mine # {}
  BY DEF NamesAt, IsList
<1>2. IsFiniteSet(mine)
  BY FS_Subset DEF IsList
<1>3. \E i \in mine : \A j \in mine : j =< i
  <2> HIDE DEF mine
  <2> QED  BY <1>1, <1>2, GreatestNatural
<1> DEFINE last == CHOOSE i \in mine : \A j \in mine : j =< i
<1>4. last \in mine /\ \A j \in mine : j =< last
  BY <1>3
<1>5. LastBody(list, positions, n) = list[last].body
  BY DEF LastBody
<1> HIDE DEF last
<1> QED  BY <1>4, <1>5

\* The positions of a diff that says which files to write.
Fits(d, list) == d.to_add \cup d.to_update \subseteq DOMAIN list

\* The staged tree holds managed configs only.
LEMMA StagedTreeType ==
    ASSUME NEW list, IsList(list), NEW d \in DiffResults, Fits(d, list),
           NEW configs \in ManagedTrees
    PROVE  StagedTree(list, d, configs) \in ManagedTrees
<1>1. ASSUME NEW positions \in SUBSET DOMAIN list, NEW n \in NamesAt(list, positions)
      PROVE  LastBody(list, positions, n) \in Bodies
  <2>1. PICK i \in positions : LastBody(list, positions, n) = list[i].body
    BY <1>1, LastBodyIsLast
  <2>2. list[i] \in DomainInfos
    BY <1>1 DEF IsList
  <2> QED  BY <2>1, <2>2 DEF DomainInfos
<1>2. d.to_add \in SUBSET DOMAIN list /\ d.to_update \in SUBSET DOMAIN list
  BY DEF Fits
<1>3. \A n \in preserved_names(list, d, configs) : configs[n] \in Bodies
  BY DEF preserved_names, Files, ManagedTrees
<1> QED  BY <1>1, <1>2, <1>3 DEF StagedTree, ManagedTrees

\* It has a config for every live domain that is not removed and for every
\* domain that is added or updated, and for no other; what the diff does not
\* name is carried forward as it is.
LEMMA StagedTreeKeeps ==
    ASSUME NEW list, IsList(list), NEW d \in DiffResults, Fits(d, list),
           NEW configs \in ManagedTrees,
           NEW n \in Names
    PROVE  LET staged == StagedTree(list, d, configs)
           IN  /\ n \in Files(staged) <=>
                     \/ n \in NamesAt(list, d.to_add \cup d.to_update)
                     \/ n \in Files(configs) \ d.to_remove
               /\ n \in Files(configs) \ d.to_remove
                    /\ n \notin NamesAt(list, d.to_add \cup d.to_update)
                    => staged[n] = configs[n]
<1> DEFINE staged == StagedTree(list, d, configs)
<1>1. ASSUME NEW positions \in SUBSET DOMAIN list, n \in NamesAt(list, positions)
      PROVE  LastBody(list, positions, n) # NoFile
  <2>1. PICK i \in positions : LastBody(list, positions, n) = list[i].body
    BY <1>1, LastBodyIsLast
  <2>2. list[i] \in DomainInfos
    BY <1>1 DEF IsList
  <2> QED  BY <2>1, <2>2, ContentsAssumption DEF DomainInfos
<1>2. d.to_add \in SUBSET DOMAIN list /\ d.to_update \in SUBSET DOMAIN list
  BY DEF Fits
<1>3. n \in NamesAt(list, d.to_add \cup d.to_update) <=>
         n \in NamesAt(list, d.to_add) \/ n \in NamesAt(list, d.to_update)
  BY DEF NamesAt
<1>4. n \in Files(configs) <=> configs[n] # NoFile
  BY DEF Files
<1>5. staged[n] = IF n \in NamesAt(list, d.to_update)
                    THEN LastBody(list, d.to_update, n)
                  ELSE IF n \in NamesAt(list, d.to_add)
                    THEN LastBody(list, d.to_add, n)
                  ELSE IF n \in preserved_names(list, d, configs)
                    THEN configs[n]
                  ELSE NoFile
  BY DEF StagedTree
<1>6. n \in Files(staged) <=> staged[n] # NoFile
  BY DEF Files
<1> HIDE DEF staged
<1>7. CASE n \in NamesAt(list, d.to_add \cup d.to_update)
  BY <1>1, <1>2, <1>3, <1>5, <1>6, <1>7 DEF staged
<1>8. CASE n \notin NamesAt(list, d.to_add \cup d.to_update)
  BY <1>3, <1>4, <1>5, <1>6, <1>8 DEF preserved_names, staged
<1> QED  BY <1>7, <1>8
=============================================================================
