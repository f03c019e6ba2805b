-------------------------- MODULE CertIssuerProofs --------------------------
(***************************************************************************)
(* Proofs about CertIssuer, for any number of invocations of sync, any set *)
(* of domains, any lists of desired domains and any number of failures,    *)
(* kills and power losses.                                                 *)
(***************************************************************************)
EXTENDS CertIssuer, TLAPS

\* Type correctness in two parts: what is on the disk and in nginx, and what
\* the processes and the locks are in.
DataOK ==
    /\ files \in [Domains -> Pairs]
    /\ temp \in [Domains -> Pairs]
    /\ synced \in [Domains -> BOOLEAN]
    /\ survivors \in [Domains -> [chain : SUBSET Contents, key : SUBSET Contents]]
    /\ acme \in [Domains -> Serials]
    /\ due \in [Domains -> Serials]
    /\ served \subseteq Domains
    /\ loaded \in [Domains -> Pairs]
    /\ found \in [Procs -> Pairs]
    /\ faults \in 0..MaxFaults

ControlOK ==
    /\ config \in Configs
    /\ lock \in [LockFiles -> Procs \cup {NoProc}]
    /\ pc \in [Procs -> PCs]
    /\ list \in [Procs -> Seq(Domains)]
    /\ pos \in [Procs -> Nat \ {0}]
    /\ report \in [Procs -> Reports]
    /\ status \in [Procs -> Statuses]
    /\ \A p \in Procs : Holds(p) => pos[p] \in DOMAIN list[p]
    /\ \A p \in Procs, f \in LockFiles :
         lock[f] = p <=> Holds(p) /\ LockFile(p, Domain(p)) = f

\* The type invariant in two parts: what is on disk and in nginx, and where the
\* processes are.
LEMMA TypeParts == TypeOK <=> DataOK /\ ControlOK
  BY DEF TypeOK, DataOK, ControlOK

\* A process is at a domain of its list before it is done with it.
AtDomain(p) ==
    \/ Holds(p)
    \/ pc[p] = "lock" /\ pos[p] =< Len(list[p])

\* The domain a process is at is one of its list, and its lock file is one.
LEMMA ItsDomain ==
    ASSUME ControlOK, NEW p \in Procs, AtDomain(p)
    PROVE  /\ pos[p] \in DOMAIN list[p]
           /\ Domain(p) \in Domains
           /\ LockFile(p, Domain(p)) \in LockFiles
<1>1. pos[p] \in DOMAIN list[p]
  <2>1. list[p] \in Seq(Domains) /\ pos[p] \in Nat \ {0}
    BY DEF ControlOK
  <2> QED  BY <2>1 DEF ControlOK, AtDomain
<1>2. Domain(p) \in Domains
  BY <1>1 DEF ControlOK, Domain
<1> QED  BY <1>1, <1>2 DEF LockFile, LockFiles

-----------------------------------------------------------------------------
(* The four ways in which a process moves on.                               *)

\* From one step of ensure_cert_inner to the next one.
LEMMA GotoControl ==
    ASSUME ControlOK, NEW p \in Procs, NEW from, NEW to, Goto(p, from, to), to \in PCs,
           Holds(p), Holds(p)'
    PROVE  ControlOK'
<1>1. /\ pc' \in [Procs -> PCs] /\ pc'[p] = to
      /\ \A q \in Procs : q # p => pc'[q] = pc[q]
      /\ UNCHANGED <<config, lock, list, pos, report, status>>
  BY DEF Goto, ControlOK
<1>2. \A q \in Procs : /\ Holds(q)' <=> Holds(q)
                       /\ Domain(q)' = Domain(q)
                       /\ LockFile(q, Domain(q))' = LockFile(q, Domain(q))
  BY <1>1 DEF Holds, Domain, LockFile
<1> QED  BY <1>1, <1>2 DEF ControlOK

\* Outside of the critical section.
LEMMA FreeControl ==
    ASSUME ControlOK, NEW p \in Procs, NEW from, NEW to, Goto(p, from, to), to \in PCs,
           ~Holds(p), ~Holds(p)'
    PROVE  ControlOK'
<1>1. /\ pc' \in [Procs -> PCs] /\ pc'[p] = to
      /\ \A q \in Procs : q # p => pc'[q] = pc[q]
      /\ UNCHANGED <<config, lock, list, pos, report, status>>
  BY DEF Goto, ControlOK
<1>2. \A q \in Procs : /\ Holds(q)' <=> Holds(q)
                       /\ Domain(q)' = Domain(q)
                       /\ LockFile(q, Domain(q))' = LockFile(q, Domain(q))
  BY <1>1 DEF Holds, Domain, LockFile
<1> QED  BY <1>1, <1>2 DEF ControlOK

\* What a process releases is its own lock and no other.
LEMMA ReleaseControl ==
    ASSUME ControlOK, NEW p \in Procs, lock' = Released(p), config' = config,
           pc' \in [Procs -> PCs], ~Holds(p)',
           \A q \in Procs : q # p => /\ pc'[q] = pc[q]
                                     /\ pos'[q] = pos[q]
                                     /\ list'[q] = list[q]
    PROVE  /\ lock' \in [LockFiles -> Procs \cup {NoProc}]
           /\ \A q \in Procs : Holds(q)' => pos'[q] \in DOMAIN list'[q]
           /\ \A q \in Procs, f \in LockFiles :
                lock'[f] = q <=> Holds(q)' /\ LockFile(q, Domain(q))' = f
<1>1. lock' \in [LockFiles -> Procs \cup {NoProc}]
  BY DEF Released, ControlOK
<1>2. \A q \in Procs : q # p => /\ Holds(q)' <=> Holds(q)
                                /\ LockFile(q, Domain(q))' = LockFile(q, Domain(q))
  BY DEF Holds, Domain, LockFile
<1>3. \A f \in LockFiles : lock'[f] = IF lock[f] = p THEN NoProc ELSE lock[f]
  BY DEF Released
<1>4. ASSUME NEW q \in Procs, NEW f \in LockFiles
      PROVE  lock'[f] = q <=> Holds(q)' /\ LockFile(q, Domain(q))' = f
  <2>1. lock[f] = q <=> Holds(q) /\ LockFile(q, Domain(q)) = f
    BY DEF ControlOK
  <2>2. CASE q = p
    BY <2>2, <1>3, AcmeAssumption
  <2>3. CASE q # p
    <3>1. lock'[f] = q <=> lock[f] = q
      BY <2>3, <1>3, AcmeAssumption
    <3> QED  BY <2>1, <2>3, <3>1, <1>2
  <2> QED  BY <2>2, <2>3
<1> QED  BY <1>1, <1>2, <1>4 DEF ControlOK

\* ensure_cert_inner returns, with one of its four outcomes.
LEMMA OutcomeControl ==
    ASSUME ControlOK, found \in [Procs -> Pairs], NEW p \in Procs, AtDomain(p),
           NEW how \in {"existing", "issued", "renewed", "failed"},
           Outcome(p, how)
    PROVE  ControlOK' /\ found' \in [Procs -> Pairs]
<1>1. /\ pc' = [pc EXCEPT ![p] = "lock"]
      /\ pos' = [pos EXCEPT ![p] = @ + 1]
      /\ report' = [report EXCEPT ![p][how] = @ \cup {Domain(p)}]
      /\ lock' = Released(p)
      /\ UNCHANGED <<config, list, status>>
  BY DEF Outcome
<1>2. pc' \in [Procs -> PCs] /\ pc'[p] = "lock" /\ pos' \in [Procs -> Nat \ {0}]
  BY <1>1 DEF ControlOK, PCs
<1>3. report' \in [Procs -> Reports]
  <2>1. Domain(p) \in Domains
    BY ItsDomain
  <2>2. report[p] \in Reports /\ report \in [Procs -> Reports]
    BY DEF ControlOK
  <2>3. [report[p] EXCEPT ![how] = @ \cup {Domain(p)}] \in Reports
    BY <2>1, <2>2 DEF Reports
  <2> QED  BY <1>1, <2>2, <2>3
<1>4. found' \in [Procs -> Pairs]
  BY AcmeAssumption DEF Outcome, NoPair, Pairs, Contents
<1>5. /\ lock' \in [LockFiles -> Procs \cup {NoProc}]
      /\ \A q \in Procs : Holds(q)' => pos'[q] \in DOMAIN list'[q]
      /\ \A q \in Procs, f \in LockFiles :
           lock'[f] = q <=> Holds(q)' /\ LockFile(q, Domain(q))' = f
  <2>1. ~Holds(p)'
    BY <1>2 DEF Holds
  <2>2. \A q \in Procs : q # p => /\ pc'[q] = pc[q]
                                  /\ pos'[q] = pos[q]
                                  /\ list'[q] = list[q]
    BY <1>1 DEF ControlOK
  <2> QED  BY <1>1, <1>2, <2>1, <2>2, ReleaseControl
<1> QED  BY <1>1, <1>2, <1>3, <1>4, <1>5 DEF ControlOK

\* The command ends.
LEMMA ExitControl ==
    ASSUME ControlOK, found \in [Procs -> Pairs], NEW p \in Procs,
           NEW how \in Statuses, Exit(p, how)
    PROVE  ControlOK' /\ found' \in [Procs -> Pairs]
<1>1. /\ pc' = [pc EXCEPT ![p] = "idle"]
      /\ list' = [list EXCEPT ![p] = <<>>]
      /\ pos' = [pos EXCEPT ![p] = 1]
      /\ report' = [report EXCEPT ![p] = NoReport]
      /\ status' = [status EXCEPT ![p] = how]
      /\ lock' = Released(p)
      /\ UNCHANGED config
  BY DEF Exit
<1>2. /\ pc' \in [Procs -> PCs] /\ pc'[p] = "idle"
      /\ pos' \in [Procs -> Nat \ {0}]
      /\ status' \in [Procs -> Statuses]
  BY <1>1 DEF ControlOK, PCs
<1>3. report' \in [Procs -> Reports]
  BY <1>1 DEF ControlOK, Reports, NoReport
<1>4. list' \in [Procs -> Seq(Domains)]
  <2>1. <<>> \in Seq(Domains)
    OBVIOUS
  <2> QED  BY <1>1, <2>1 DEF ControlOK
<1>5. found' \in [Procs -> Pairs]
  BY AcmeAssumption DEF Exit, NoPair, Pairs, Contents
<1>6. /\ lock' \in [LockFiles -> Procs \cup {NoProc}]
      /\ \A q \in Procs : Holds(q)' => pos'[q] \in DOMAIN list'[q]
      /\ \A q \in Procs, f \in LockFiles :
           lock'[f] = q <=> Holds(q)' /\ LockFile(q, Domain(q))' = f
  <2>1. ~Holds(p)'
    BY <1>2 DEF Holds
  <2>2. \A q \in Procs : q # p => /\ pc'[q] = pc[q]
                                  /\ pos'[q] = pos[q]
                                  /\ list'[q] = list[q]
    BY <1>1 DEF ControlOK
  <2> QED  BY <1>1, <1>2, <2>1, <2>2, ReleaseControl
<1> QED  BY <1>1, <1>2, <1>3, <1>4, <1>5, <1>6 DEF ControlOK

-----------------------------------------------------------------------------
(* Types.                                                                   *)

\* Whatever acme.sh is asked to install, it has issued.
Issued ==
    \A p \in Procs :
       pc[p] \in {"install_cert", "fsync", "rename_chain", "rename_key", "fsync_dir"}
          => acme[Domain(p)] # 0

\* The pair of files that acme.sh writes for its last certificate.
Latest(d) == [chain |-> acme[d], key |-> KeyOf[acme[d]]]

\* What acme.sh has in its tree for a domain is a chain with the key it is for.
LEMMA LatestPair ==
    ASSUME NEW d \in Domains, DataOK, acme[d] # 0
    PROVE  /\ acme[d] \in 1..MaxSerial /\ KeyOf[acme[d]] \in Nat \ {0}
           /\ Latest(d) \in Pairs /\ Good(Latest(d))
<1>1. acme[d] \in 1..MaxSerial
  BY AcmeAssumption DEF DataOK, Serials
<1>2. KeyOf[acme[d]] \in Nat \ {0}
  BY <1>1, AcmeAssumption
<1>3. Good(Latest(d))
  BY <1>1 DEF Latest, Good
<1> QED  BY <1>1, <1>2, <1>3 DEF Latest, Pairs, Contents

\* A fault stays below the bound on them.
LEMMA FaultTypes == faults \in 0..MaxFaults /\ Fault => faults' \in 0..MaxFaults
  BY AcmeAssumption DEF Fault

\* A rename moves one of the two files, and what can be left of it is typed.
LEMMA RenameData ==
    ASSUME DataOK, NEW p \in Procs, Domain(p) \in Domains,
           NEW file \in {"chain", "key"}, NEW from, NEW to, Rename(p, file, from, to)
    PROVE  DataOK'
<1> DEFINE d == Domain(p)
<1>1. /\ files' = [files EXCEPT ![d][file] = temp[d][file]]
      /\ temp' = [temp EXCEPT ![d][file] = 0]
      /\ survivors' = [survivors EXCEPT
                         ![d][file] = @ \cup {files'[d][file]}
                                        \cup (IF synced[d] THEN {} ELSE {Junk})]
      /\ UNCHANGED <<synced, acme, due, found, faults, served, loaded>>
  BY DEF Rename, Goto
<1>2. d \in Domains /\ files[d] \in Pairs /\ temp[d] \in Pairs
      /\ survivors[d] \in [chain : SUBSET Contents, key : SUBSET Contents]
  BY DEF DataOK
<1>3. temp[d][file] \in Contents /\ 0 \in Contents /\ Junk \in Contents
  BY <1>2 DEF Pairs, Contents
<1>4. [files[d] EXCEPT ![file] = temp[d][file]] \in Pairs
  BY <1>2, <1>3 DEF Pairs
<1>5. [temp[d] EXCEPT ![file] = 0] \in Pairs
  BY <1>2, <1>3 DEF Pairs
<1>6. files' \in [Domains -> Pairs] /\ temp' \in [Domains -> Pairs]
  BY <1>1, <1>2, <1>4, <1>5 DEF DataOK
<1>7. files'[d][file] = temp[d][file]
  BY <1>1, <1>2 DEF DataOK, Pairs
<1> DEFINE left == survivors[d][file] \cup {files'[d][file]}
                      \cup (IF synced[d] THEN {} ELSE {Junk})
<1>8. left \in SUBSET Contents
  BY <1>2, <1>3, <1>7
<1>9. [survivors[d] EXCEPT ![file] = left]
         \in [chain : SUBSET Contents, key : SUBSET Contents]
  BY <1>2, <1>8
<1>10. survivors' \in [Domains -> [chain : SUBSET Contents, key : SUBSET Contents]]
  BY <1>1, <1>2, <1>9 DEF DataOK
<1> QED  BY <1>1, <1>6, <1>10 DEF DataOK

\* The steps of ensure_cert_inner.
LEMMA EnsureTypes ==
    ASSUME DataOK, ControlOK, Issued, NEW p \in Procs, EnsureCert(p)
    PROVE  DataOK' /\ ControlOK'
<1>1. CASE Acquire(p)
  <2>1. DataOK'
    BY <1>1 DEF Acquire, DataOK, disk
  <2> DEFINE f == LockFile(p, Domain(p))
  <2>2. /\ pos[p] \in DOMAIN list[p] /\ f \in LockFiles
        /\ pc[p] = "lock" /\ lock[f] = NoProc
    BY <1>1, ItsDomain DEF Acquire, AtDomain
  <2>3. /\ pc' \in [Procs -> PCs] /\ pc'[p] = "inspect"
        /\ \A q \in Procs : q # p => pc'[q] = pc[q]
        /\ UNCHANGED <<config, list, pos, report, status>>
    BY <1>1 DEF Acquire, ControlOK, PCs
  <2>4. lock' = [lock EXCEPT ![f] = p]
    BY <1>1 DEF Acquire
  <2>5. Holds(p)' /\ ~Holds(p) /\ \A q \in Procs : q # p => (Holds(q)' <=> Holds(q))
    BY <2>2, <2>3 DEF Holds
  <2>6. \A q \in Procs : LockFile(q, Domain(q))' = LockFile(q, Domain(q))
    BY <2>3 DEF Domain, LockFile
  <2> HIDE DEF f
  <2>7. ASSUME NEW q \in Procs, NEW g \in LockFiles
        PROVE  lock'[g] = q <=> Holds(q)' /\ LockFile(q, Domain(q))' = g
    <3>1. lock[g] = q <=> Holds(q) /\ LockFile(q, Domain(q)) = g
      BY DEF ControlOK
    <3>2. lock'[g] = IF g = f THEN p ELSE lock[g]
      BY <2>4 DEF ControlOK
    <3>3. p # NoProc /\ q # NoProc
      BY AcmeAssumption
    <3>4. CASE q = p
      <4>1. lock[g] # p
        BY <2>5, <3>1, <3>4
      <4> QED  BY <4>1, <3>2, <3>4, <2>5, <2>6 DEF f
    <3>5. CASE q # p
      <4>1. lock'[g] = q <=> lock[g] = q
        BY <2>2, <3>2, <3>3, <3>5
      <4> QED  BY <4>1, <3>1, <3>5, <2>5, <2>6
    <3> QED  BY <3>4, <3>5
  <2>8. lock' \in [LockFiles -> Procs \cup {NoProc}]
    BY <2>4 DEF ControlOK
  <2>9. \A q \in Procs : Holds(q)' => pos'[q] \in DOMAIN list'[q]
    BY <2>2, <2>3, <2>5 DEF ControlOK
  <2> QED  BY <2>1, <2>3, <2>7, <2>8, <2>9 DEF ControlOK
<1>2. CASE NotAcquired(p)
  <2>1. AtDomain(p) /\ Outcome(p, "failed")
    BY <1>2 DEF NotAcquired, AtDomain, Failed
  <2>2. ControlOK' /\ found' \in [Procs -> Pairs]
    BY <2>1, OutcomeControl DEF DataOK
  <2>3. faults' \in 0..MaxFaults
    BY <1>2, FaultTypes DEF NotAcquired, DataOK
  <2> QED  BY <1>2, <2>1, <2>2, <2>3 DEF NotAcquired, Outcome, DataOK, disk
<1>3. CASE Existing(p)
  <2>1. AtDomain(p) /\ Outcome(p, "existing")
    BY <1>3 DEF Existing, AtDomain, Holds
  <2>2. ControlOK' /\ found' \in [Procs -> Pairs]
    BY <2>1, OutcomeControl DEF DataOK
  <2> QED  BY <1>3, <2>1, <2>2 DEF Existing, Outcome, DataOK, disk
<1>4. CASE NeedsIssue(p)
  <2>1. Goto(p, "inspect", "issue") /\ Holds(p) /\ Holds(p)'
    BY <1>4 DEF NeedsIssue, Goto, Holds, ControlOK
  <2>2. ControlOK'
    BY <2>1, GotoControl DEF PCs
  <2>3. files[Domain(p)] \in Pairs
    BY <2>1, ItsDomain DEF AtDomain, DataOK
  <2>4. found' \in [Procs -> Pairs]
    BY <1>4, <2>3 DEF NeedsIssue, DataOK
  <2> QED  BY <1>4, <2>1, <2>2, <2>4 DEF NeedsIssue, Goto, DataOK, disk
<1>5. CASE Issue(p)
  <2>1. Goto(p, "issue", "install_cert") /\ Holds(p) /\ Holds(p)'
    BY <1>5 DEF Issue, Goto, Holds, ControlOK
  <2>2. ControlOK'
    BY <2>1, GotoControl DEF PCs
  <2>3. acme' \in [Domains -> Serials]
    BY <1>5, AcmeAssumption DEF Issue, DataOK, Serials
  <2> QED  BY <1>5, <2>1, <2>2, <2>3 DEF Issue, Goto, DataOK, disk
<1>6. CASE InstallCert(p)
  <2>1. Goto(p, "install_cert", "fsync") /\ Holds(p) /\ Holds(p)'
    BY <1>6 DEF InstallCert, Goto, Holds, ControlOK
  <2>2. ControlOK'
    BY <2>1, GotoControl DEF PCs
  <2>3. Latest(Domain(p)) \in Pairs
    BY <2>1, ItsDomain, LatestPair DEF AtDomain, Issued, Goto
  <2>4. temp' \in [Domains -> Pairs] /\ synced' \in [Domains -> BOOLEAN]
    BY <1>6, <2>3 DEF InstallCert, DataOK, Latest
  <2> QED  BY <1>6, <2>1, <2>2, <2>4 DEF InstallCert, Goto, DataOK
<1>7. CASE Fsync(p)
  <2>1. Goto(p, "fsync", "rename_chain") /\ Holds(p) /\ Holds(p)'
    BY <1>7 DEF Fsync, Goto, Holds, ControlOK
  <2>2. ControlOK'
    BY <2>1, GotoControl DEF PCs
  <2> QED  BY <1>7, <2>1, <2>2 DEF Fsync, Goto, DataOK
<1>8. CASE RenameChain(p)
  <2>1. Goto(p, "rename_chain", "rename_key") /\ Holds(p) /\ Holds(p)'
    BY <1>8 DEF RenameChain, Rename, Goto, Holds, ControlOK
  <2>2. ControlOK'
    BY <2>1, GotoControl DEF PCs
  <2> QED  BY <1>8, <2>1, <2>2, RenameData, ItsDomain DEF RenameChain, AtDomain
<1>9. CASE RenameKey(p)
  <2>1. Goto(p, "rename_key", "fsync_dir") /\ Holds(p) /\ Holds(p)'
    BY <1>9 DEF RenameKey, Rename, Goto, Holds, ControlOK
  <2>2. ControlOK'
    BY <2>1, GotoControl DEF PCs
  <2> QED  BY <1>9, <2>1, <2>2, RenameData, ItsDomain DEF RenameKey, AtDomain
<1>10. CASE FsyncDir(p)
  <2>1. AtDomain(p) /\ (Outcome(p, "renewed") \/ Outcome(p, "issued"))
    BY <1>10 DEF FsyncDir, AtDomain, Holds
  <2>2. ControlOK' /\ found' \in [Procs -> Pairs]
    BY <2>1, OutcomeControl DEF DataOK
  <2>3. Domain(p) \in Domains
    BY <2>1, ItsDomain
  <2>4. Only(files[Domain(p)]) \in [chain : SUBSET Contents, key : SUBSET Contents]
    BY <2>3 DEF Only, DataOK, Pairs
  <2>5. survivors' \in [Domains -> [chain : SUBSET Contents, key : SUBSET Contents]]
    BY <1>10, <2>4 DEF FsyncDir, DataOK
  <2> QED  BY <1>10, <2>1, <2>2, <2>5 DEF FsyncDir, Outcome, DataOK
<1>11. CASE LoopEnds(p)
  <2>1. Goto(p, "lock", "diff") /\ ~Holds(p) /\ ~Holds(p)'
    BY <1>11 DEF LoopEnds, Goto, Holds, ControlOK
  <2>2. ControlOK'
    BY <2>1, FreeControl DEF PCs
  <2> QED  BY <1>11, <2>1, <2>2 DEF LoopEnds, Goto, DataOK, disk
<1> QED  BY <1>1, <1>2, <1>3, <1>4, <1>5, <1>6, <1>7, <1>8, <1>9, <1>10, <1>11
         DEF EnsureCert
\* What a reload leaves in the memory of nginx.
LEMMA LoadTypes ==
    ASSUME DataOK, NEW domains, LoadFiles(domains)
    PROVE  loaded' \in [Domains -> Pairs]
<1>1. NoPair \in Pairs
  BY DEF NoPair, Pairs, Contents
<1> QED  BY <1>1 DEF LoadFiles, DataOK

\* The steps after the loop.
LEMMA DeployTypes ==
    ASSUME DataOK, ControlOK, NEW p \in Procs, Deploy(p)
    PROVE  DataOK' /\ ControlOK'
<1>1. CASE StageSucceeds(p)
  <2>1. Exit(p, "success") /\ "success" \in Statuses
    BY <1>1 DEF StageSucceeds, Statuses
  <2>2. ControlOK' /\ found' \in [Procs -> Pairs]
    BY <2>1, ExitControl DEF DataOK
  <2>3. served' \subseteq Domains
    BY <1>1 DEF StageSucceeds, Target, DataOK
  <2>4. loaded' \in [Domains -> Pairs]
    BY <1>1, LoadTypes DEF StageSucceeds
  <2> QED  BY <1>1, <2>2, <2>3, <2>4 DEF StageSucceeds, DataOK, disk
<1>2. CASE NoChanges(p)
  <2>1. CASE Goto(p, "diff", "no_changes") /\ UNCHANGED found
    <3>1. ~Holds(p) /\ ~Holds(p)'
      BY <2>1 DEF Goto, Holds, ControlOK
    <3>2. ControlOK'
      BY <2>1, <3>1, FreeControl DEF PCs
    <3> QED  BY <1>2, <2>1, <3>2 DEF NoChanges, Goto, DataOK, disk
  <2>2. CASE Exit(p, "no_changes") /\ UNCHANGED <<served, loaded>>
    <3>1. ControlOK' /\ found' \in [Procs -> Pairs]
      BY <2>2, ExitControl DEF DataOK, Statuses
    <3> QED  BY <1>2, <2>2, <3>1 DEF NoChanges, DataOK, disk
  <2> QED  BY <1>2, <2>1, <2>2 DEF NoChanges
<1>3. CASE TestFails(p)
  <2>1. faults' \in 0..MaxFaults
    BY <1>3, FaultTypes DEF TestFails, DataOK
  <2>2. CASE Goto(p, "diff", "test_failed") /\ UNCHANGED found
    <3>1. ~Holds(p) /\ ~Holds(p)'
      BY <2>2 DEF Goto, Holds, ControlOK
    <3>2. ControlOK'
      BY <2>2, <3>1, FreeControl DEF PCs
    <3> QED  BY <1>3, <2>1, <2>2, <3>2 DEF TestFails, Goto, DataOK, disk
  <2>3. CASE Exit(p, "test_failed") /\ UNCHANGED <<served, loaded>>
    <3>1. ControlOK' /\ found' \in [Procs -> Pairs]
      BY <2>3, ExitControl DEF DataOK, Statuses
    <3> QED  BY <1>3, <2>1, <2>3, <3>1 DEF TestFails, DataOK, disk
  <2> QED  BY <1>3, <2>2, <2>3 DEF TestFails
<1>4. CASE CertReload(p)
  <2>1. PICK how \in Statuses : Exit(p, how)
    BY <1>4 DEF CertReload, Statuses
  <2>2. ControlOK' /\ found' \in [Procs -> Pairs]
    BY <2>1, ExitControl DEF DataOK
  <2>3. loaded' \in [Domains -> Pairs]
    BY <1>4, LoadTypes DEF CertReload
  <2> QED  BY <1>4, <2>2, <2>3 DEF CertReload, DataOK, disk
<1>5. CASE CertReloadFails(p)
  <2>1. PICK how \in Statuses : Exit(p, how)
    BY <1>5 DEF CertReloadFails, Statuses
  <2>2. ControlOK' /\ found' \in [Procs -> Pairs]
    BY <2>1, ExitControl DEF DataOK
  <2>3. faults' \in 0..MaxFaults
    BY <1>5, FaultTypes DEF CertReloadFails, DataOK
  <2> QED  BY <1>5, <2>2, <2>3 DEF CertReloadFails, DataOK, disk
<1> QED  BY <1>1, <1>2, <1>3, <1>4, <1>5 DEF Deploy

\* The steps of one invocation of sync, its failures and its end included.
LEMMA SyncTypes ==
    ASSUME DataOK, ControlOK, Issued, NEW p \in Procs, Sync(p)
    PROVE  DataOK' /\ ControlOK'
<1>1. CASE Start(p)
  <2>1. DataOK'
    BY <1>1 DEF Start, DataOK, disk
  <2>2. PICK l \in DesiredFiles : list' = [list EXCEPT ![p] = l]
    BY <1>1 DEF Start
  <2>3. list' \in [Procs -> Seq(Domains)]
    BY <2>2, AcmeAssumption DEF ControlOK
  <2>4. /\ pc' \in [Procs -> PCs] /\ status' \in [Procs -> Statuses]
        /\ pc[p] = "idle" /\ pc'[p] \in {"lock", "diff"}
        /\ \A q \in Procs : q # p => pc'[q] = pc[q] /\ list'[q] = list[q]
        /\ UNCHANGED <<config, lock, pos, report>>
    BY <1>1, <2>2 DEF Start, ControlOK, PCs, Statuses
  <2>5. ~Holds(p) /\ ~Holds(p)'
    BY <2>4 DEF Holds
  <2>6. \A q \in Procs :
           /\ Holds(q)' <=> Holds(q)
           /\ q # p => /\ LockFile(q, Domain(q))' = LockFile(q, Domain(q))
                       /\ list'[q] = list[q]
    BY <2>4, <2>5 DEF Holds, Domain, LockFile
  <2>7. \A q \in Procs : Holds(q)' => pos'[q] \in DOMAIN list'[q]
    BY <2>4, <2>5, <2>6 DEF ControlOK
  <2>8. ASSUME NEW q \in Procs, NEW f \in LockFiles
        PROVE  lock'[f] = q <=> Holds(q)' /\ LockFile(q, Domain(q))' = f
    <3>1. lock'[f] = q <=> Holds(q) /\ LockFile(q, Domain(q)) = f
      BY <2>4 DEF ControlOK
    <3> QED  BY <3>1, <2>5, <2>6
  <2> QED  BY <2>1, <2>3, <2>4, <2>7, <2>8 DEF ControlOK
<1>2. CASE Rejected(p)
  <2>1. DataOK' /\ UNCHANGED <<config, lock, pc, list, pos, report>>
    BY <1>2 DEF Rejected, DataOK, disk
  <2>2. status' \in [Procs -> Statuses]
    BY <1>2 DEF Rejected, ControlOK, Statuses
  <2>3. \A q \in Procs : /\ Holds(q)' <=> Holds(q)
                         /\ LockFile(q, Domain(q))' = LockFile(q, Domain(q))
    BY <2>1 DEF Holds, Domain, LockFile
  <2> QED  BY <2>1, <2>2, <2>3 DEF ControlOK
<1>3. CASE Step(p)
  BY <1>3, EnsureTypes, DeployTypes DEF Step
<1>4. CASE InstallCertFails(p)
  <2>1. AtDomain(p) /\ Holds(p) /\ Outcome(p, "failed")
    BY <1>4 DEF InstallCertFails, Failed, AtDomain, Holds
  <2>2. ControlOK' /\ found' \in [Procs -> Pairs]
    BY <2>1, OutcomeControl DEF DataOK
  <2>3. faults' \in 0..MaxFaults
    BY <1>4, FaultTypes DEF InstallCertFails, DataOK
  <2>4. Domain(p) \in Domains /\ KeyOf[acme[Domain(p)]] \in Contents
    BY <1>4, <2>1, ItsDomain, LatestPair DEF InstallCertFails, Issued, Contents
  <2>5. temp' \in [Domains -> Pairs] /\ synced' \in [Domains -> BOOLEAN]
    BY <1>4, <2>4 DEF InstallCertFails, DataOK, Pairs
  <2> QED  BY <1>4, <2>1, <2>2, <2>3, <2>5 DEF InstallCertFails, Outcome, DataOK
<1>5. CASE CallFails(p)
  <2>1. AtDomain(p) /\ Outcome(p, "failed")
    BY <1>5 DEF CallFails, Failed, AtDomain, Holds
  <2>2. ControlOK' /\ found' \in [Procs -> Pairs]
    BY <2>1, OutcomeControl DEF DataOK
  <2>3. faults' \in 0..MaxFaults
    BY <1>5, FaultTypes DEF CallFails, DataOK
  <2> QED  BY <1>5, <2>1, <2>2, <2>3 DEF CallFails, Outcome, DataOK, disk
<1>6. CASE Killed(p)
  <2>1. ControlOK' /\ found' \in [Procs -> Pairs]
    BY <1>6, ExitControl DEF Killed, DataOK, Statuses
  <2>2. faults' \in 0..MaxFaults
    BY <1>6, FaultTypes DEF Killed, DataOK
  <2> QED  BY <1>6, <2>1, <2>2 DEF Killed, DataOK, disk
<1> QED  BY <1>1, <1>2, <1>3, <1>4, <1>5, <1>6 DEF Sync

\* A power loss leaves no process and no lock, and of every file one of the
\* contents that may be left.
LEMMA PowerLossTypes ==
    ASSUME DataOK, ControlOK, PowerLoss
    PROVE  DataOK' /\ ControlOK'
<1>1. faults' \in 0..MaxFaults
  BY FaultTypes DEF PowerLoss, DataOK
<1>2. NoPair \in Pairs
  BY DEF NoPair, Pairs, Contents
<1>3. PICK left \in [Domains -> UNION {Remains(d) : d \in Domains}] :
         /\ \A d \in Domains : left[d] \in Remains(d)
         /\ files' = left
         /\ survivors' = [d \in Domains |-> Only(left[d])]
         /\ loaded' = [d \in Domains |->
                         IF d \in served /\ \A e \in served : Good(left[e])
                           THEN left[d] ELSE NoPair]
  BY DEF PowerLoss
<1>4. \A d \in Domains : left[d] \in Pairs
  BY <1>3 DEF Remains, DataOK, Pairs
<1>5. files' \in [Domains -> Pairs] /\ loaded' \in [Domains -> Pairs]
  BY <1>2, <1>3, <1>4
<1>6. survivors' \in [Domains -> [chain : SUBSET Contents, key : SUBSET Contents]]
  BY <1>3, <1>4 DEF Only, Pairs
<1>7. found' \in [Procs -> Pairs]
  BY <1>2 DEF PowerLoss
<1>8. DataOK'
  BY <1>1, <1>5, <1>6, <1>7 DEF PowerLoss, DataOK
<1>9. /\ pc' = [p \in Procs |-> "idle"]
      /\ list' = [p \in Procs |-> <<>>]
      /\ pos' = [p \in Procs |-> 1]
      /\ report' = [p \in Procs |-> NoReport]
      /\ status' = [p \in Procs |-> "error"]
      /\ lock' = [f \in LockFiles |-> NoProc]
      /\ config' = config
  BY DEF PowerLoss
<1>10. \A p \in Procs : ~Holds(p)'
  BY <1>9 DEF Holds
<1>11. report' \in [Procs -> Reports]
  BY <1>9 DEF Reports, NoReport
<1>12. list' \in [Procs -> Seq(Domains)]
  <2>1. <<>> \in Seq(Domains)
    OBVIOUS
  <2> QED  BY <1>9, <2>1
<1>13. pc' \in [Procs -> PCs] /\ status' \in [Procs -> Statuses]
       /\ pos' \in [Procs -> Nat \ {0}]
       /\ lock' \in [LockFiles -> Procs \cup {NoProc}]
  BY <1>9 DEF PCs, Statuses
<1> QED
  BY <1>8, <1>9, <1>10, <1>11, <1>12, <1>13, AcmeAssumption DEF ControlOK

\* What no process does leaves every process where it is.
LEMMA AgeTypes ==
    ASSUME DataOK, ControlOK, NEW d \in Domains, Age(d)
    PROVE  DataOK' /\ ControlOK'
<1>1. due' \in [Domains -> Serials]
  BY DEF Age, DataOK
<1>2. UNCHANGED <<config, lock, pc, list, pos, report, status>>
  BY DEF Age
<1>3. \A q \in Procs : /\ Holds(q)' <=> Holds(q)
                       /\ LockFile(q, Domain(q))' = LockFile(q, Domain(q))
  BY <1>2 DEF Holds, Domain, LockFile
<1> QED  BY <1>1, <1>2, <1>3 DEF Age, DataOK, ControlOK, disk
-----------------------------------------------------------------------------
(* Who touches what.                                                        *)

\* A step of one process moves no other, and touches the files of no domain but
\* the one it has the lock of; acme.sh's numbers only grow.
LEMMA Elsewhere ==
    ASSUME DataOK, ControlOK, NEW p \in Procs, Sync(p)
    PROVE  /\ config' = config
           /\ \A q \in Procs \ {p} :
                /\ pc'[q] = pc[q] /\ pos'[q] = pos[q] /\ list'[q] = list[q]
                /\ report'[q] = report[q] /\ found'[q] = found[q]
           /\ \A d \in Domains :
                ~Holds(p) \/ Domain(p) # d =>
                   /\ files'[d] = files[d] /\ temp'[d] = temp[d]
                   /\ synced'[d] = synced[d] /\ survivors'[d] = survivors[d]
                   /\ acme'[d] = acme[d]
<1>1. CASE Start(p)
  BY <1>1 DEF Start, disk, ControlOK
<1>2. CASE Rejected(p)
  BY <1>2 DEF Rejected, disk
<1>3. CASE EnsureCert(p)
  <2>1. CASE Acquire(p)
    BY <2>1 DEF Acquire, disk, ControlOK
  <2>2. CASE NotAcquired(p)
    BY <2>2 DEF NotAcquired, Failed, Outcome, disk, ControlOK, DataOK
  <2>3. CASE Existing(p)
    BY <2>3 DEF Existing, Outcome, disk, ControlOK, DataOK
  <2>4. CASE NeedsIssue(p)
    BY <2>4 DEF NeedsIssue, Goto, disk, ControlOK, DataOK
  <2>5. CASE Issue(p)
    BY <2>5 DEF Issue, Goto, Holds, disk, ControlOK, DataOK
  <2>6. CASE InstallCert(p)
    <3>1. \A d \in Domains : Domain(p) # d => synced'[d] = synced[d]
      BY <2>6, Zenon DEF InstallCert, DataOK
    <3>2. Holds(p)
      BY <2>6 DEF InstallCert, Goto, Holds
    <3> QED  BY <2>6, <3>1, <3>2 DEF InstallCert, Goto, ControlOK, DataOK
  <2>7. CASE Fsync(p)
    <3>1. \A d \in Domains : Domain(p) # d => synced'[d] = synced[d]
      BY <2>7, Zenon DEF Fsync, DataOK
    <3>2. Holds(p)
      BY <2>7 DEF Fsync, Goto, Holds
    <3> QED  BY <2>7, <3>1, <3>2 DEF Fsync, Goto, ControlOK, DataOK
  <2>8. CASE RenameChain(p)
    BY <2>8 DEF RenameChain, Rename, Goto, Holds, ControlOK, DataOK
  <2>9. CASE RenameKey(p)
    BY <2>9 DEF RenameKey, Rename, Goto, Holds, ControlOK, DataOK
  <2>10. CASE FsyncDir(p)
    BY <2>10 DEF FsyncDir, Outcome, Holds, ControlOK, DataOK
  <2>11. CASE LoopEnds(p)
    BY <2>11 DEF LoopEnds, Goto, disk, ControlOK
  <2> QED  BY <1>3, <2>1, <2>2, <2>3, <2>4, <2>5, <2>6, <2>7, <2>8, <2>9, <2>10, <2>11
           DEF EnsureCert
<1>4. CASE Deploy(p)
  <2>1. CASE StageSucceeds(p)
    BY <2>1 DEF StageSucceeds, Exit, disk, ControlOK, DataOK
  <2>2. CASE NoChanges(p)
    BY <2>2 DEF NoChanges, Goto, Exit, disk, ControlOK, DataOK
  <2>3. CASE TestFails(p)
    BY <2>3 DEF TestFails, Goto, Exit, disk, ControlOK, DataOK
  <2>4. CASE CertReload(p)
    BY <2>4 DEF CertReload, Exit, disk, ControlOK, DataOK
  <2>5. CASE CertReloadFails(p)
    BY <2>5 DEF CertReloadFails, Exit, disk, ControlOK, DataOK
  <2> QED  BY <1>4, <2>1, <2>2, <2>3, <2>4, <2>5 DEF Deploy
<1>5. CASE InstallCertFails(p)
  <2>1. \A d \in Domains : Domain(p) # d => synced'[d] = synced[d]
    BY <1>5, Zenon DEF InstallCertFails, DataOK
  <2>2. Holds(p)
    BY <1>5 DEF InstallCertFails, Goto, Holds
  <2> QED  BY <1>5, <2>1, <2>2 DEF InstallCertFails, Failed, Outcome, ControlOK, DataOK
<1>6. CASE CallFails(p)
  BY <1>6 DEF CallFails, Failed, Outcome, disk, ControlOK, DataOK
<1>7. CASE Killed(p)
  BY <1>7 DEF Killed, Exit, disk, ControlOK, DataOK
<1> QED  BY <1>1, <1>2, <1>3, <1>4, <1>5, <1>6, <1>7 DEF Sync, Step

\* acme.sh forgets no certificate.
LEMMA AcmeKept ==
    ASSUME DataOK, ControlOK, NEW p \in Procs, Sync(p), NEW d \in Domains, acme[d] # 0
    PROVE  acme'[d] # 0
<1>1. CASE Issue(p)
  BY <1>1 DEF Issue, DataOK, Serials
<1>2. CASE ~Issue(p)
  <2>1. acme' = acme
    BY <1>2 DEF Sync, Step, EnsureCert, Deploy, Start, Rejected, Acquire, NotAcquired,
                Existing, NeedsIssue, InstallCert, Fsync, RenameChain, RenameKey,
                Rename, FsyncDir, LoopEnds, StageSucceeds, NoChanges, TestFails,
                CertReload, CertReloadFails, InstallCertFails, CallFails, Killed
  <2> QED  BY <2>1
<1> QED  BY <1>1, <1>2
-----------------------------------------------------------------------------
(* Type correctness and the lock.                                           *)

Installs == {"install_cert", "fsync", "rename_chain", "rename_key", "fsync_dir"}

\* How a process comes to install, and to go on installing.
LEMMA ToInstall ==
    ASSUME ControlOK, NEW p \in Procs, Sync(p), pc'[p] \in Installs
    PROVE  /\ Domain(p)' = Domain(p)
           /\ Issue(p) \/ pc[p] \in Installs
<1>1. CASE Issue(p)
  BY <1>1 DEF Issue, Goto, Domain
<1>2. CASE InstallCert(p)
  BY <1>2 DEF InstallCert, Goto, Domain, Installs
<1>3. CASE Fsync(p)
  BY <1>3 DEF Fsync, Goto, Domain, Installs
<1>4. CASE RenameChain(p)
  BY <1>4 DEF RenameChain, Rename, Goto, Domain, Installs
<1>5. CASE RenameKey(p)
  BY <1>5 DEF RenameKey, Rename, Goto, Domain, Installs
<1>6. CASE Rejected(p)
  BY <1>6 DEF Rejected, Domain
<1>7. CASE ~(\/ Issue(p) \/ InstallCert(p) \/ Fsync(p) \/ RenameChain(p)
             \/ RenameKey(p) \/ Rejected(p))
  <2>1. pc'[p] \notin Installs
    BY <1>7 DEF Sync, Step, EnsureCert, Deploy, Start, Acquire, NotAcquired, Failed,
                Outcome, Existing, NeedsIssue, Goto, Exit, FsyncDir, LoopEnds,
                StageSucceeds, NoChanges, TestFails, CertReload, CertReloadFails,
                InstallCertFails, CallFails, Killed, ControlOK, Installs
  <2> QED  BY <2>1
<1> QED  BY <1>1, <1>2, <1>3, <1>4, <1>5, <1>6, <1>7

\* Every step keeps it that what is installed has been issued: only Issue leads
\* to an installation, and acme.sh's tree never goes back to having nothing.
LEMMA StepIssued ==
    ASSUME DataOK, ControlOK, Issued, [Next]_vars
    PROVE  Issued'
<1>1. ASSUME NEW p \in Procs, Sync(p), NEW q \in Procs, pc'[q] \in Installs
      PROVE  acme'[Domain(q)'] # 0
  <2>1. CASE q # p
    <3>1. pc'[q] = pc[q] /\ Domain(q)' = Domain(q)
      BY <1>1, <2>1, Elsewhere DEF Domain
    <3>2. Domain(q) \in Domains /\ acme[Domain(q)] # 0
      BY <1>1, <3>1, ItsDomain DEF AtDomain, Holds, Installs, Issued
    <3> QED  BY <1>1, <3>1, <3>2, AcmeKept
  <2>2. CASE q = p /\ Issue(p)
    <3>1. Domain(p) \in Domains /\ Domain(p)' = Domain(p)
      BY <1>1, <2>2, ItsDomain, ToInstall DEF AtDomain, Issue, Goto, Holds
    <3> QED  BY <2>2, <3>1 DEF Issue, DataOK, Serials
  <2>3. CASE q = p /\ ~Issue(p)
    <3>1. Domain(p)' = Domain(p) /\ pc[p] \in Installs
      BY <1>1, <2>3, ToInstall
    <3>2. Domain(p) \in Domains /\ acme[Domain(p)] # 0
      BY <3>1, ItsDomain DEF AtDomain, Holds, Installs, Issued
    <3> QED  BY <1>1, <2>3, <3>1, <3>2, AcmeKept
  <2> QED  BY <2>1, <2>2, <2>3
<1>2. CASE \E p \in Procs : Sync(p)
  BY <1>1, <1>2 DEF Issued, Installs
<1>3. CASE PowerLoss
  BY <1>3 DEF PowerLoss, Issued
<1>4. CASE \E d \in Domains : Age(d)
  BY <1>4 DEF Age, Issued, Domain
<1>5. CASE UNCHANGED vars
  BY <1>5 DEF vars, Issued, Domain
<1> QED  BY <1>2, <1>3, <1>4, <1>5 DEF Next

\* Every step keeps the types and the lock table, once Issued is known.
LEMMA StepTypes ==
    ASSUME DataOK, ControlOK, Issued, [Next]_vars
    PROVE  DataOK' /\ ControlOK'
<1>1. CASE UNCHANGED vars
  <2>1. \A q \in Procs : /\ Holds(q)' <=> Holds(q)
                         /\ LockFile(q, Domain(q))' = LockFile(q, Domain(q))
    BY <1>1 DEF vars, Holds, Domain, LockFile
  <2> QED  BY <1>1, <2>1 DEF vars, disk, DataOK, ControlOK
<1> QED  BY <1>1, SyncTypes, PowerLossTypes, AgeTypes DEF Next

\* Nothing is locked and nobody runs to begin with.
LEMMA InitTypes == Init => DataOK /\ ControlOK /\ Issued
<1> SUFFICES ASSUME Init PROVE DataOK /\ ControlOK /\ Issued
  OBVIOUS
<1>1. NoPair \in Pairs /\ files \in [Domains -> Pairs]
  BY AcmeAssumption DEF Init, NoPair, Pairs, Contents
<1>2. survivors \in [Domains -> [chain : SUBSET Contents, key : SUBSET Contents]]
  BY <1>1 DEF Init, Only, Pairs
<1>3. DataOK
  BY <1>1, <1>2, AcmeAssumption DEF Init, DataOK, Serials
<1>4. \A p \in Procs : pc[p] = "idle" /\ ~Holds(p)
  BY DEF Init, Holds
<1>5. <<>> \in Seq(Domains)
  OBVIOUS
<1>6. ControlOK
  BY <1>4, <1>5, AcmeAssumption DEF Init, ControlOK, PCs, Statuses, Reports, NoReport
<1> QED  BY <1>3, <1>4, <1>6 DEF Issued

\* Whatever fails, dies or loses its power, every file, number, lock and process
\* stays in its type; a process in the critical section is at a domain of its
\* list, and holds the lock file of that domain and no other.
THEOREM TypeCorrect == Spec => []TypeOK
<1> DEFINE Typed == DataOK /\ ControlOK /\ Issued
<1>1. Init => Typed
  BY InitTypes
<1>2. Typed /\ [Next]_vars => Typed'
  BY StepTypes, StepIssued
<1>3. Typed => TypeOK
  BY TypeParts
<1> QED  BY <1>1, <1>2, <1>3, PTL DEF Spec
\* Only a file that validate_acme_config accepts gets a sync beyond its start,
\* and only one with the ACME sections into the loop.
Configured ==
    \A p \in Procs :
       /\ pc[p] # "idle" => validate_acme_config(config)
       /\ pc[p] = "lock" \/ Holds(p) => config.acme

\* The loop so far: the domains before the one it is at have been dealt with.
Dealt(p) == report[p].existing \cup report[p].issued
               \cup report[p].renewed \cup report[p].failed

Covered ==
    \A p \in Procs :
       /\ pc[p] = "idle" => pos[p] = 1
       /\ config.acme =>
            \A i \in DOMAIN list[p] :
               \/ i < pos[p]
               \/ pc[p] \in {"diff", "no_changes", "test_failed"}
               => list[p][i] \in Dealt(p)

\* How far an installation is, and that nobody has come in between: acme.sh's
\* last pair is in the two .new files, in one and in one of the live files, and
\* in the live files at last.
Installing ==
    \A p \in Procs :
       LET d == Domain(p)
       IN  /\ pc[p] \in {"fsync", "rename_chain"} => temp[d] = Latest(d)
           /\ pc[p] \in {"rename_chain", "rename_key"} => synced[d]
           /\ pc[p] = "rename_key" => /\ files[d].chain = Latest(d).chain
                                      /\ temp[d].key = Latest(d).key
           /\ pc[p] = "fsync_dir" => files[d] = Latest(d)

\* The files as they are now are among those a power loss may leave.
Remaining == \A d \in Domains : files[d] \in Remains(d)

Issuing == DataOK /\ ControlOK /\ Issued /\ Configured /\ Covered /\ Installing
              /\ Remaining
-----------------------------------------------------------------------------
(* One writer per domain.                                                   *)

\* Only Start leaves "idle", and only it and the loop itself lead to the loop.
LEMMA ToLoop ==
    ASSUME ControlOK, NEW p \in Procs, Sync(p)
    PROVE  /\ pc[p] = "idle" /\ pc'[p] # "idle" => Start(p)
           /\ pc'[p] = "lock" \/ Holds(p)' => Start(p) \/ pc[p] = "lock" \/ Holds(p)
<1>1. CASE Start(p)
  BY <1>1
<1>2. CASE Rejected(p)
  BY <1>2 DEF Rejected, Holds
<1>3. CASE EnsureCert(p)
  BY <1>3 DEF EnsureCert, Acquire, NotAcquired, Existing, NeedsIssue, Goto, Issue,
              InstallCert, Fsync, RenameChain, RenameKey, Rename, FsyncDir, LoopEnds,
              Outcome, Failed, ControlOK, Holds
<1>4. CASE Deploy(p)
  BY <1>4 DEF Deploy, StageSucceeds, NoChanges, TestFails, CertReload,
              CertReloadFails, Goto, Exit, ControlOK, Holds
<1>5. CASE InstallCertFails(p) \/ CallFails(p)
  BY <1>5 DEF InstallCertFails, CallFails, Failed, Outcome, ControlOK, Holds
<1>6. CASE Killed(p)
  BY <1>6 DEF Killed, Exit, ControlOK, Holds
<1> QED  BY <1>1, <1>2, <1>3, <1>4, <1>5, <1>6 DEF Sync, Step

\* Every step keeps it that only an accepted [acme] section leads into the loop.
LEMMA StepConfigured ==
    ASSUME DataOK, ControlOK, Configured, [Next]_vars
    PROVE  Configured'
<1>1. CASE \E p \in Procs : Sync(p)
  <2>1. PICK p \in Procs : Sync(p)
    BY <1>1
  <2>2. config' = config
    BY <2>1, Elsewhere
  <2>3. validate_acme_config(config)' <=> validate_acme_config(config)
    BY <2>2 DEF validate_acme_config
  <2>4. ASSUME NEW q \in Procs, q # p
        PROVE  pc'[q] = pc[q] /\ (Holds(q)' <=> Holds(q))
    BY <2>1, <2>4, Elsewhere DEF Holds
  <2>5. Start(p) => validate_acme_config(config) /\ (pc'[p] # "diff" => config.acme)
    BY DEF Start, ControlOK
  <2>6. /\ pc'[p] # "idle" => validate_acme_config(config)
        /\ pc'[p] = "lock" \/ Holds(p)' => config.acme
    <3>1. pc'[p] = "lock" \/ Holds(p)' => pc'[p] # "diff"
      BY DEF Holds
    <3> QED  BY <2>1, <2>5, <3>1, ToLoop DEF Configured
  <2> QED  BY <2>2, <2>3, <2>4, <2>6 DEF Configured
<1>2. CASE PowerLoss
  BY <1>2 DEF PowerLoss, Configured, Holds
<1>3. CASE \E d \in Domains : Age(d)
  BY <1>3 DEF Age, Configured, Holds, validate_acme_config
<1>4. CASE UNCHANGED vars
  BY <1>4 DEF vars, Configured, Holds, validate_acme_config
<1> QED  BY <1>1, <1>2, <1>3, <1>4 DEF Next

\* The absolute lock_dir that validate_acme_config insists on gives all the
\* processes the same lock file for a domain, and a lock has one holder.
LEMMA OneHolder == ControlOK /\ Configured => SingleWriter
<1> SUFFICES ASSUME ControlOK, Configured, NEW p \in Procs, NEW q \in Procs,
                    Holds(p), Holds(q), Domain(p) = Domain(q)
             PROVE  p = q
  BY DEF SingleWriter
<1>1. config.lock_dir = "absolute"
  <2>1. pc[p] # "idle"
    BY DEF Holds
  <2> QED  BY <2>1 DEF Configured, validate_acme_config
<1>2. LockFile(p, Domain(p)) = LockFile(q, Domain(q))
  BY <1>1 DEF LockFile
<1>3. LockFile(p, Domain(p)) \in LockFiles
  BY ItsDomain DEF AtDomain
<1> QED  BY <1>2, <1>3 DEF ControlOK

\* However many invocations of sync run, from whatever directories: no two of
\* them work on the certificate of a domain at the same time.
THEOREM SingleWriterAlways == Spec => []SingleWriter
<1> DEFINE Locked == DataOK /\ ControlOK /\ Issued /\ Configured
<1>1. Init => Locked
  <2>1. Init => Configured
    BY DEF Init, Configured, Holds
  <2> QED  BY <2>1, InitTypes
<1>2. Locked /\ [Next]_vars => Locked'
  BY StepTypes, StepIssued, StepConfigured
<1>3. Locked => SingleWriter
  BY OneHolder
<1> QED  BY <1>1, <1>2, <1>3, PTL DEF Spec

-----------------------------------------------------------------------------
(* Every domain has its turn.                                               *)

\* The outcome of a domain, whichever it is, deals with this domain.
LEMMA OutcomeCovers ==
    ASSUME ControlOK, Covered, NEW p \in Procs, AtDomain(p), config.acme,
           NEW how \in {"existing", "issued", "renewed", "failed"}, Outcome(p, how)
    PROVE  \A i \in DOMAIN list'[p] : i < pos'[p] => list'[p][i] \in Dealt(p)'
<1>1. pos[p] \in DOMAIN list[p] /\ Domain(p) = list[p][pos[p]]
  BY ItsDomain DEF Domain
<1>2. list' = list /\ pos'[p] = pos[p] + 1
  BY DEF Outcome, ControlOK
<1>3. Dealt(p)' = Dealt(p) \cup {Domain(p)}
  <2>1. report[p] \in Reports
    BY DEF ControlOK
  <2>2. report'[p] = [report[p] EXCEPT ![how] = @ \cup {Domain(p)}]
    BY DEF Outcome, ControlOK
  <2> QED  BY <2>1, <2>2 DEF Dealt, Reports
<1>4. ASSUME NEW i \in DOMAIN list[p], i < pos[p] + 1
      PROVE  list[p][i] \in Dealt(p) \cup {Domain(p)}
  <2>1. i \in Nat /\ pos[p] \in Nat
    <3>1. list[p] \in Seq(Domains)
      BY DEF ControlOK
    <3> QED  BY <3>1 DEF ControlOK
  <2>2. i < pos[p] \/ i = pos[p]
    BY <1>4, <2>1
  <2> QED  BY <1>1, <2>2 DEF Covered
<1> QED  BY <1>2, <1>3, <1>4

\* Every step of the loop leaves the domains before `pos` dealt with: the loop
\* goes on after an error and after a lock that is held.
LEMMA StepCovered ==
    ASSUME DataOK, ControlOK, Configured, Covered, [Next]_vars
    PROVE  Covered'
<1> DEFINE Cover(p) ==
      /\ pc[p] = "idle" => pos[p] = 1
      /\ config.acme =>
           \A i \in DOMAIN list[p] :
              \/ i < pos[p]
              \/ pc[p] \in {"diff", "no_changes", "test_failed"}
              => list[p][i] \in Dealt(p)
<1>1. ASSUME NEW p \in Procs, Sync(p) PROVE Cover(p)'
  <2>1. config' = config
    BY <1>1, Elsewhere
  <2>2. CASE Start(p)
    <3>1. /\ pc'[p] = IF config.acme THEN "lock" ELSE "diff"
          /\ pos'[p] = 1
      BY <2>2 DEF Start, ControlOK, Covered
    <3>2. list'[p] \in Seq(Domains)
      BY <2>2, AcmeAssumption DEF Start, ControlOK
    <3>3. \A i \in DOMAIN list'[p] : ~(i < 1)
      BY <3>2
    <3> QED  BY <2>1, <3>1, <3>3
  <2>3. CASE \E how \in {"existing", "issued", "renewed", "failed"} :
                AtDomain(p) /\ Outcome(p, how)
    <3>1. pc'[p] = "lock"
      BY <2>3 DEF Outcome, ControlOK
    <3> QED  BY <2>1, <2>3, <3>1, OutcomeCovers
  <2>4. CASE \E how \in Statuses : Exit(p, how)
    <3>1. list'[p] = <<>> /\ pos'[p] = 1
      BY <2>4 DEF Exit, ControlOK
    <3> QED  BY <3>1
  <2>5. CASE LoopEnds(p)
    <3>1. /\ pos[p] > Len(list[p]) /\ pc'[p] = "diff"
          /\ list' = list /\ pos' = pos /\ report' = report
      BY <2>5 DEF LoopEnds, Goto, ControlOK
    <3>2. \A i \in DOMAIN list[p] : i < pos[p]
      <4>1. list[p] \in Seq(Domains) /\ pos[p] \in Nat
        BY DEF ControlOK
      <4> QED  BY <3>1, <4>1
    <3> QED  BY <2>1, <3>1, <3>2 DEF Covered, Dealt
  <2>6. ASSUME /\ list' = list /\ pos' = pos /\ report' = report
               /\ pc'[p] = "idle" => pc[p] = "idle"
               /\ pc'[p] \in {"diff", "no_changes", "test_failed"}
                    => pc[p] \in {"diff", "no_changes", "test_failed"}
        PROVE  Cover(p)'
    BY <2>1, <2>6 DEF Covered, Dealt
  <2>7. CASE Rejected(p)
    BY <2>6, <2>7 DEF Rejected
  <2>8. CASE Acquire(p)
    BY <2>6, <2>8 DEF Acquire, ControlOK
  <2>9. CASE NeedsIssue(p) \/ Issue(p) \/ InstallCert(p) \/ Fsync(p)
             \/ RenameChain(p) \/ RenameKey(p)
    BY <2>6, <2>9 DEF NeedsIssue, Issue, InstallCert, Fsync, RenameChain, RenameKey,
                      Rename, Goto, ControlOK
  <2>10. CASE NotAcquired(p) \/ Existing(p) \/ FsyncDir(p)
              \/ InstallCertFails(p) \/ CallFails(p)
    BY <2>3, <2>10 DEF NotAcquired, Existing, FsyncDir, InstallCertFails, CallFails,
                       Failed, AtDomain, Holds
  <2>11. CASE Deploy(p)
    <3>1. CASE pc'[p] \in {"no_changes", "test_failed"}
      BY <2>6, <2>11, <3>1 DEF Deploy, StageSucceeds, NoChanges, TestFails, CertReload,
                               CertReloadFails, Goto, Exit, ControlOK
    <3>2. CASE pc'[p] \notin {"no_changes", "test_failed"}
      BY <2>4, <2>11, <3>2 DEF Deploy, StageSucceeds, NoChanges, TestFails, CertReload,
                               CertReloadFails, Goto, ControlOK, Statuses
    <3> QED  BY <3>1, <3>2
  <2>12. CASE Killed(p)
    BY <2>4, <2>12 DEF Killed, Statuses
  <2> QED  BY <1>1, <2>2, <2>5, <2>7, <2>8, <2>9, <2>10, <2>11, <2>12
           DEF Sync, Step, EnsureCert
<1>2. CASE \E p \in Procs : Sync(p)
  <2>1. PICK p \in Procs : Sync(p)
    BY <1>2
  <2>2. ASSUME NEW q \in Procs, q # p
        PROVE  Cover(q)'
    <3>1. /\ config' = config /\ pc'[q] = pc[q] /\ pos'[q] = pos[q]
          /\ list'[q] = list[q] /\ report'[q] = report[q]
      BY <2>1, <2>2, Elsewhere
    <3> QED  BY <3>1 DEF Covered, Dealt
  <2>3. Cover(p)'
    BY <1>1, <2>1
  <2>4. \A q \in Procs : Cover(q)'
    BY <2>2, <2>3
  <2> QED  BY <2>4 DEF Covered
<1>3. CASE PowerLoss
  BY <1>3 DEF PowerLoss, Covered
<1>4. CASE \E d \in Domains : Age(d)
  BY <1>4 DEF Age, Covered, Dealt
<1>5. CASE UNCHANGED vars
  BY <1>5 DEF vars, Covered, Dealt
<1> QED  BY <1>2, <1>3, <1>4, <1>5 DEF Next

\* For every list of domains and whatever fails on the way: a sync that gets to
\* its diff has an outcome for each domain of the list.
THEOREM LoopCompleteAlways == Spec => []LoopComplete
<1> DEFINE Looped == DataOK /\ ControlOK /\ Issued /\ Configured /\ Covered
<1>1. Init => Looped
  <2>1. Init => Configured /\ Covered
    BY DEF Init, Configured, Covered, Holds
  <2> QED  BY <2>1, InitTypes
<1>2. Looped /\ [Next]_vars => Looped'
  BY StepTypes, StepIssued, StepConfigured, StepCovered
<1>3. Looped => LoopComplete
  BY DEF Covered, Dealt, LoopComplete
<1> QED  BY <1>1, <1>2, <1>3, PTL DEF Spec
-----------------------------------------------------------------------------
(* An installation from end to end.                                         *)

\* Every step, of whichever process, leaves what an installation in progress
\* has written so far as it is: the lock keeps the others away from the domain.
LEMMA StepInstalling ==
    ASSUME DataOK, ControlOK, Configured, Installing, [Next]_vars
    PROVE  Installing'
<1> DEFINE Steady(p) ==
      LET d == Domain(p)
      IN  /\ pc[p] \in {"fsync", "rename_chain"} => temp[d] = Latest(d)
          /\ pc[p] \in {"rename_chain", "rename_key"} => synced[d]
          /\ pc[p] = "rename_key" => /\ files[d].chain = Latest(d).chain
                                     /\ temp[d].key = Latest(d).key
          /\ pc[p] = "fsync_dir" => files[d] = Latest(d)
<1>1. ASSUME NEW p \in Procs, Sync(p) PROVE Steady(p)'
  <2>1. CASE InstallCert(p)
    <3>1. Domain(p) \in Domains
      BY <2>1, ItsDomain DEF InstallCert, Goto, AtDomain, Holds
    <3>2. /\ pc'[p] = "fsync" /\ Domain(p)' = Domain(p)
          /\ temp'[Domain(p)] = Latest(Domain(p)) /\ acme' = acme
      BY <2>1, <3>1 DEF InstallCert, Goto, Domain, Latest, ControlOK, DataOK
    <3> QED  BY <3>2 DEF Latest
  <2>2. CASE Fsync(p)
    <3>1. Domain(p) \in Domains
      BY <2>2, ItsDomain DEF Fsync, Goto, AtDomain, Holds
    <3>2. /\ pc[p] = "fsync" /\ pc'[p] = "rename_chain" /\ Domain(p)' = Domain(p)
          /\ temp' = temp /\ acme' = acme
      BY <2>2 DEF Fsync, Goto, Domain, ControlOK
    <3>3. synced'[Domain(p)]
      BY <2>2, <3>1, Zenon DEF Fsync, DataOK
    <3> QED  BY <3>2, <3>3 DEF Latest, Installing
  <2>3. CASE RenameChain(p)
    <3>1. Domain(p) \in Domains
      BY <2>3, ItsDomain DEF RenameChain, Rename, Goto, AtDomain, Holds
    <3>2. /\ pc[p] = "rename_chain" /\ pc'[p] = "rename_key" /\ Domain(p)' = Domain(p)
          /\ synced' = synced /\ acme' = acme
      BY <2>3 DEF RenameChain, Rename, Goto, Domain, ControlOK
    <3>3. /\ files'[Domain(p)].chain = temp[Domain(p)].chain
          /\ temp'[Domain(p)].key = temp[Domain(p)].key
      BY <2>3, <3>1 DEF RenameChain, Rename, DataOK, Pairs
    <3> QED  BY <3>2, <3>3 DEF Latest, Installing
  <2>4. CASE RenameKey(p)
    <3>1. Domain(p) \in Domains
      BY <2>4, ItsDomain DEF RenameKey, Rename, Goto, AtDomain, Holds
    <3>2. /\ pc[p] = "rename_key" /\ pc'[p] = "fsync_dir" /\ Domain(p)' = Domain(p)
          /\ acme' = acme
      BY <2>4 DEF RenameKey, Rename, Goto, Domain, ControlOK
    <3>3. /\ files'[Domain(p)].key = temp[Domain(p)].key
          /\ files'[Domain(p)].chain = files[Domain(p)].chain
          /\ files'[Domain(p)] \in Pairs
      <4>1. /\ files[Domain(p)] \in Pairs /\ temp[Domain(p)].key \in Contents
            /\ files'[Domain(p)] = [files[Domain(p)] EXCEPT !.key = temp[Domain(p)].key]
        BY <2>4, <3>1 DEF RenameKey, Rename, DataOK, Pairs
      <4> QED  BY <4>1 DEF Pairs
    <3>4. files'[Domain(p)] = Latest(Domain(p))
      BY <3>2, <3>3 DEF Latest, Installing, Pairs
    <3> QED  BY <3>2, <3>4 DEF Latest
  <2>5. CASE Rejected(p)
    BY <2>5 DEF Rejected, disk, Installing, Domain, Latest
  <2>6. CASE ~(\/ InstallCert(p) \/ Fsync(p) \/ RenameChain(p) \/ RenameKey(p)
               \/ Rejected(p))
    <3>1. pc'[p] \notin {"fsync", "rename_chain", "rename_key", "fsync_dir"}
      <4>1. CASE EnsureCert(p)
        BY <2>6, <4>1 DEF EnsureCert, Acquire, NotAcquired, Failed, Outcome, Existing,
              NeedsIssue, Issue, Goto, FsyncDir, LoopEnds, ControlOK
      <4>2. CASE Deploy(p)
        BY <4>2 DEF Deploy, Exit, Goto, StageSucceeds, NoChanges, TestFails,
              CertReload, CertReloadFails, ControlOK
      <4>3. CASE Start(p) \/ InstallCertFails(p) \/ CallFails(p) \/ Killed(p)
        BY <4>3 DEF Start, InstallCertFails, CallFails, Failed, Outcome, Killed, Exit,
              ControlOK
      <4> QED  BY <1>1, <2>6, <4>1, <4>2, <4>3 DEF Sync, Step
    <3> QED  BY <3>1
  <2> QED  BY <2>1, <2>2, <2>3, <2>4, <2>5, <2>6
<1>2. CASE \E p \in Procs : Sync(p)
  <2>1. PICK p \in Procs : Sync(p)
    BY <1>2
  <2>2. ASSUME NEW q \in Procs, q # p
        PROVE  Steady(q)'
    <3>1. pc'[q] = pc[q] /\ Domain(q)' = Domain(q)
      BY <2>1, <2>2, Elsewhere DEF Domain
    <3>2. CASE pc[q] \in {"fsync", "rename_chain", "rename_key", "fsync_dir"}
      <4>1. Holds(q) /\ Domain(q) \in Domains
        BY <3>2, ItsDomain DEF Holds, AtDomain
      <4>2. ~Holds(p) \/ Domain(p) # Domain(q)
        BY <2>2, <4>1, OneHolder DEF SingleWriter
      <4>3. /\ files'[Domain(q)] = files[Domain(q)]
            /\ temp'[Domain(q)] = temp[Domain(q)]
            /\ synced'[Domain(q)] = synced[Domain(q)]
            /\ Latest(Domain(q))' = Latest(Domain(q))
        BY <2>1, <3>1, <4>1, <4>2, Elsewhere DEF Latest
      <4> QED  BY <3>1, <4>3 DEF Installing
    <3>3. CASE pc[q] \notin {"fsync", "rename_chain", "rename_key", "fsync_dir"}
      BY <3>1, <3>3
    <3> QED  BY <3>2, <3>3
  <2>3. Steady(p)'
    BY <1>1, <2>1
  <2>4. \A q \in Procs : Steady(q)'
    BY <2>2, <2>3
  <2> QED  BY <2>4 DEF Installing
<1>3. CASE PowerLoss
  BY <1>3 DEF PowerLoss, Installing
<1>4. CASE \E d \in Domains : Age(d)
  BY <1>4 DEF Age, Installing, Domain, Latest, disk
<1>5. CASE UNCHANGED vars
  BY <1>5 DEF vars, disk, Installing, Domain, Latest
<1> QED  BY <1>2, <1>3, <1>4, <1>5 DEF Next
\* Of the steps of sync, only the renames and the sync of the directory touch
\* the live files and what may be left of them.
LEMMA FilesKept ==
    ASSUME NEW p \in Procs, Sync(p), ~RenameChain(p), ~RenameKey(p), ~FsyncDir(p)
    PROVE  files' = files /\ survivors' = survivors
<1>1. CASE EnsureCert(p)
  BY <1>1 DEF EnsureCert, Acquire, NotAcquired, Existing, NeedsIssue, Issue,
              InstallCert, Fsync, LoopEnds, disk
<1>2. CASE Deploy(p)
  BY <1>2 DEF Deploy, StageSucceeds, NoChanges, TestFails, CertReload,
              CertReloadFails, disk
<1> QED
  BY <1>1, <1>2 DEF Sync, Step, Start, Rejected, InstallCertFails, CallFails, Killed,
                    disk

\* What a rename leaves under the two names: the one it has renamed is one of
\* the contents a power loss may leave, and was on the disk before.
LEMMA RenameLeaves ==
    ASSUME DataOK, ControlOK, Installing, Issued, NEW p \in Procs,
           RenameChain(p) \/ RenameKey(p)
    PROVE  LET d == Domain(p)
           IN  /\ d \in Domains /\ acme[d] # 0
               /\ \/ /\ files'[d] = [files[d] EXCEPT !.chain = Latest(d).chain]
                     /\ survivors'[d] = [survivors[d] EXCEPT
                                           !.chain = @ \cup {Latest(d).chain}]
                  \/ /\ files'[d] = [files[d] EXCEPT !.key = Latest(d).key]
                     /\ survivors'[d] = [survivors[d] EXCEPT
                                           !.key = @ \cup {Latest(d).key}]
<1> DEFINE d == Domain(p)
<1>1. d \in Domains
  BY ItsDomain DEF RenameChain, RenameKey, Rename, Goto, AtDomain, Holds
<1>2. acme[d] # 0 /\ synced[d]
  BY DEF RenameChain, RenameKey, Rename, Goto, Installing, Issued
<1>3. /\ files \in [Domains -> Pairs]
      /\ survivors \in [Domains -> [chain : SUBSET Contents, key : SUBSET Contents]]
  BY DEF DataOK
<1>4. CASE RenameChain(p)
  <2>1. temp[d].chain = Latest(d).chain
    BY <1>4 DEF RenameChain, Rename, Goto, Installing
  <2>2. /\ files' = [files EXCEPT ![d].chain = temp[d].chain]
        /\ survivors' = [survivors EXCEPT
                           ![d].chain = @ \cup {files'[d].chain}
                                          \cup (IF synced[d] THEN {} ELSE {Junk})]
    BY <1>4 DEF RenameChain, Rename
  <2> HIDE DEF d
  <2>3. files'[d] = [files[d] EXCEPT !.chain = Latest(d).chain]
    BY <1>1, <1>3, <2>1, <2>2
  <2>4. files'[d].chain = Latest(d).chain
    BY <1>1, <1>3, <2>3 DEF Pairs
  <2>5. survivors'[d] = [survivors[d] EXCEPT !.chain = @ \cup {Latest(d).chain}]
    BY <1>1, <1>2, <1>3, <2>2, <2>4
  <2> QED  BY <1>1, <1>2, <2>3, <2>5 DEF d
<1>5. CASE RenameKey(p)
  <2>1. temp[d].key = Latest(d).key
    BY <1>5 DEF RenameKey, Rename, Goto, Installing
  <2>2. /\ files' = [files EXCEPT ![d].key = temp[d].key]
        /\ survivors' = [survivors EXCEPT
                           ![d].key = @ \cup {files'[d].key}
                                        \cup (IF synced[d] THEN {} ELSE {Junk})]
    BY <1>5 DEF RenameKey, Rename
  <2> HIDE DEF d
  <2>3. files'[d] = [files[d] EXCEPT !.key = Latest(d).key]
    BY <1>1, <1>3, <2>1, <2>2
  <2>4. files'[d].key = Latest(d).key
    BY <1>1, <1>3, <2>3 DEF Pairs
  <2>5. survivors'[d] = [survivors[d] EXCEPT !.key = @ \cup {Latest(d).key}]
    BY <1>1, <1>2, <1>3, <2>2, <2>4
  <2> QED  BY <1>1, <1>2, <2>3, <2>5 DEF d
<1> QED  BY <1>4, <1>5
\* The steps that replace the files of a domain, or what may be left of them.
LEMMA DiskSteps ==
    ASSUME DataOK, ControlOK, Installing, Issued, [Next]_vars, NEW d \in Domains
    PROVE  \/ files'[d] = files[d] /\ survivors'[d] = survivors[d]
           \/ acme[d] # 0 /\ files'[d] = [files[d] EXCEPT !.chain = Latest(d).chain]
                /\ survivors'[d] = [survivors[d] EXCEPT
                                      !.chain = @ \cup {Latest(d).chain}]
           \/ acme[d] # 0 /\ files'[d] = [files[d] EXCEPT !.key = Latest(d).key]
                /\ survivors'[d] = [survivors[d] EXCEPT
                                      !.key = @ \cup {Latest(d).key}]
           \/ files'[d] = files[d] /\ survivors'[d] = Only(files[d])
           \/ files'[d] \in Remains(d) /\ survivors'[d] = Only(files'[d])
<1>1. ASSUME NEW p \in Procs, Sync(p), Holds(p), Domain(p) = d
      PROVE  \/ files'[d] = files[d] /\ survivors'[d] = survivors[d]
             \/ files'[d] = files[d] /\ survivors'[d] = Only(files[d])
             \/ RenameChain(p) \/ RenameKey(p)
  <2>1. CASE FsyncDir(p)
    BY <1>1, <2>1 DEF FsyncDir, DataOK
  <2>2. CASE ~FsyncDir(p)
    BY <1>1, <2>2, FilesKept
  <2> QED  BY <2>1, <2>2
<1>2. CASE \E p \in Procs : Sync(p)
  <2>1. PICK p \in Procs : Sync(p)
    BY <1>2
  <2>2. CASE Holds(p) /\ Domain(p) = d
    BY <2>1, <2>2, <1>1, RenameLeaves
  <2>3. CASE ~(Holds(p) /\ Domain(p) = d)
    BY <2>1, <2>3, Elsewhere
  <2> QED  BY <2>2, <2>3
<1>3. CASE PowerLoss
  BY <1>3 DEF PowerLoss
<1>4. CASE \E e \in Domains : Age(e)
  BY <1>4 DEF Age, disk
<1>5. CASE UNCHANGED vars
  BY <1>5 DEF vars, disk
<1> QED  BY <1>2, <1>3, <1>4, <1>5 DEF Next

\* A pair of files with nothing else under their names survives as it is.
LEMMA OnlyItself ==
    \A pair \in Pairs : pair \in [chain : Only(pair).chain, key : Only(pair).key]
  BY DEF Only, Pairs

\* Every step leaves pairs under the live names that validate_certs accepts,
\* whatever of a rename a power loss takes back.
LEMMA StepRemaining ==
    ASSUME DataOK, ControlOK, Installing, Issued, Remaining, [Next]_vars
    PROVE  Remaining'
<1> SUFFICES ASSUME NEW d \in Domains PROVE (files[d] \in Remains(d))'
  BY DEF Remaining
<1>1. files[d] \in Remains(d) /\ files[d] \in Pairs
      /\ survivors[d] \in [chain : SUBSET Contents, key : SUBSET Contents]
  BY DEF Remaining, DataOK
<1>2. \A pair \in Pairs : pair \in [chain : Only(pair).chain, key : Only(pair).key]
  BY OnlyItself
<1>3. Remains(d) \subseteq Pairs
  BY <1>1 DEF Remains, Pairs
<1>4. \/ files'[d] = files[d] /\ survivors'[d] = survivors[d]
      \/ acme[d] # 0 /\ files'[d] = [files[d] EXCEPT !.chain = Latest(d).chain]
           /\ survivors'[d] = [survivors[d] EXCEPT !.chain = @ \cup {Latest(d).chain}]
      \/ acme[d] # 0 /\ files'[d] = [files[d] EXCEPT !.key = Latest(d).key]
           /\ survivors'[d] = [survivors[d] EXCEPT !.key = @ \cup {Latest(d).key}]
      \/ files'[d] = files[d] /\ survivors'[d] = Only(files[d])
      \/ files'[d] \in Remains(d) /\ survivors'[d] = Only(files'[d])
  BY DiskSteps
<1> QED  BY <1>1, <1>2, <1>3, <1>4 DEF Remains, Pairs

\* The inductive invariant of the installations.
LEMMA IssuingAlways == Spec => []Issuing
<1>1. Init => Issuing
  <2>1. Init => Configured /\ Covered /\ Installing /\ Remaining
    <3>1. ASSUME Init PROVE Configured /\ Covered /\ Installing
      BY <3>1 DEF Init, Configured, Covered, Installing, Holds
    <3>2. ASSUME Init PROVE Remaining
      <4>1. \A d \in Domains : files[d] \in Pairs /\ survivors[d] = Only(files[d])
        BY <3>2, AcmeAssumption DEF Init
      <4> QED  BY <4>1, OnlyItself DEF Remaining, Remains
    <3> QED  BY <3>1, <3>2
  <2> QED  BY <2>1, InitTypes DEF Issuing
<1>2. Issuing /\ [Next]_vars => Issuing'
  <2> SUFFICES ASSUME Issuing, [Next]_vars PROVE Issuing'
    OBVIOUS
  <2>1. DataOK /\ ControlOK /\ Issued /\ Configured /\ Covered /\ Installing /\ Remaining
    BY DEF Issuing
  <2>2. DataOK' /\ ControlOK' /\ Issued'
    BY <2>1, StepTypes, StepIssued
  <2>3. Configured' /\ Covered'
    BY <2>1, StepConfigured, StepCovered
  <2>4. Installing' /\ Remaining'
    BY <2>1, StepInstalling, StepRemaining
  <2> QED  BY <2>2, <2>3, <2>4 DEF Issuing
<1> QED  BY <1>1, <1>2, PTL DEF Spec

\* Wherever an installation is cut short, whichever of the two files a power
\* loss takes back: files that pass validate_certs are replaced by such files
\* only, so that the domain stays in the next diff.
THEOREM StaysValidAlways == Spec => StaysValid
<1> DEFINE Passes(d) == \A pair \in Remains(d) : PemValid(pair)
<1>1. ASSUME Issuing, [Next]_vars, NEW d \in Domains, Passes(d)
      PROVE  \A pair \in Remains(d)' : PemValid(pair)
  <2>1. /\ files[d] \in Remains(d) /\ files[d] \in Pairs
        /\ survivors[d] \in [chain : SUBSET Contents, key : SUBSET Contents]
        /\ files[d].chain \in survivors[d].chain /\ files[d].key \in survivors[d].key
    BY <1>1 DEF Issuing, Remaining, Remains, DataOK, Pairs
  <2>2. /\ \A c \in survivors[d].chain : c \notin {0, Junk}
        /\ \A k \in survivors[d].key : k \notin {0, Junk}
    <3>1. ASSUME NEW c \in survivors[d].chain, NEW k \in survivors[d].key
          PROVE  c \notin {0, Junk} /\ k \notin {0, Junk}
      <4>1. [chain |-> c, key |-> k] \in Remains(d)
        BY DEF Remains
      <4> QED  BY <1>1, <4>1 DEF PemValid
    <3> QED  BY <2>1, <3>1
  <2>3. acme[d] # 0 =>
          Latest(d).chain \notin {0, Junk} /\ Latest(d).key \notin {0, Junk}
    <3>1. DataOK
      BY <1>1 DEF Issuing
    <3>2. acme[d] # 0 => acme[d] \in 1..MaxSerial /\ KeyOf[acme[d]] \in Nat \ {0}
      BY <3>1, LatestPair
    <3>3. Junk \notin Nat
      BY AcmeAssumption
    <3> QED  BY <3>2, <3>3, AcmeAssumption DEF Latest
  <2>4. \/ files'[d] = files[d] /\ survivors'[d] = survivors[d]
        \/ acme[d] # 0 /\ files'[d] = [files[d] EXCEPT !.chain = Latest(d).chain]
             /\ survivors'[d] = [survivors[d] EXCEPT !.chain = @ \cup {Latest(d).chain}]
        \/ acme[d] # 0 /\ files'[d] = [files[d] EXCEPT !.key = Latest(d).key]
             /\ survivors'[d] = [survivors[d] EXCEPT !.key = @ \cup {Latest(d).key}]
        \/ files'[d] = files[d] /\ survivors'[d] = Only(files[d])
        \/ files'[d] \in Remains(d) /\ survivors'[d] = Only(files'[d])
    BY <1>1, DiskSteps DEF Issuing
  <2>5. /\ \A c \in survivors'[d].chain : c \notin {0, Junk}
        /\ \A k \in survivors'[d].key : k \notin {0, Junk}
    <3>1. \A pair \in Remains(d) : pair.chain \in survivors[d].chain
                                   /\ pair.key \in survivors[d].key
      BY DEF Remains
    <3> QED  BY <2>1, <2>2, <2>3, <2>4, <3>1 DEF Only
  <2>6. \A pair \in Remains(d)' : pair.chain \in survivors'[d].chain
                                  /\ pair.key \in survivors'[d].key
    BY DEF Remains
  <2> QED  BY <2>5, <2>6 DEF PemValid
<1>2. Issuing /\ [Next]_vars =>
        [\A d \in Domains :
           (\A pair \in Remains(d) : PemValid(pair))
              => \A pair \in Remains(d)' : PemValid(pair)]_vars
  BY <1>1
<1> QED  BY <1>2, IssuingAlways, PTL DEF Spec, StaysValid
-----------------------------------------------------------------------------
(* What a sync reports, and what it has nginx serve.                        *)

\* A new domain in "issued" or "renewed" comes of the last step of ensure_cert.
LEMMA ReportGrows ==
    ASSUME DataOK, ControlOK, NEW p \in Procs, Sync(p), NEW d,
           d \in report'[p].issued \cup report'[p].renewed,
           d \notin report[p].issued \cup report[p].renewed
    PROVE  FsyncDir(p) /\ d = Domain(p)
<1>1. report[p] \in Reports
  BY DEF ControlOK
<1>2. ASSUME NEW how \in {"existing", "failed"}, Outcome(p, how) PROVE FALSE
  BY <1>1, <1>2 DEF Outcome, ControlOK, Reports
<1>3. ASSUME NEW how \in {"issued", "renewed"}, Outcome(p, how) PROVE d = Domain(p)
  BY <1>1, <1>3 DEF Outcome, ControlOK, Reports
<1>4. ASSUME NEW how, Exit(p, how) PROVE FALSE
  BY <1>4 DEF Exit, ControlOK, NoReport
<1>5. ASSUME report' = report PROVE FALSE
  BY <1>5
<1>6. CASE EnsureCert(p)
  <2>1. CASE FsyncDir(p)
    BY <2>1, <1>3 DEF FsyncDir
  <2>2. CASE NotAcquired(p) \/ Existing(p)
    BY <2>2, <1>2 DEF NotAcquired, Existing, Failed
  <2> QED  BY <1>6, <1>5, <2>1, <2>2 DEF EnsureCert, Acquire, NeedsIssue, Issue,
              InstallCert, Fsync, RenameChain, RenameKey, Rename, LoopEnds, Goto
<1>7. CASE Deploy(p)
  BY <1>7, <1>4, <1>5 DEF Deploy, StageSucceeds, NoChanges, TestFails, CertReload,
                          CertReloadFails, Goto
<1>8. CASE InstallCertFails(p) \/ CallFails(p)
  BY <1>8, <1>2 DEF InstallCertFails, CallFails, Failed
<1>9. CASE Start(p) \/ Rejected(p) \/ Killed(p)
  BY <1>9, <1>4, <1>5 DEF Start, Rejected, Killed
<1> QED  BY <1>6, <1>7, <1>8, <1>9 DEF Sync, Step

\* With other syncs at work on other domains, and whatever earlier ones have
\* left behind: a domain that is reported as issued or renewed has the pair that
\* nginx can load, acme.sh's latest, and no power loss takes it away.
THEOREM InstallsPairAlways == Spec => InstallsPair
<1>1. ASSUME Issuing, [Next]_vars, NEW p \in Procs, NEW d \in Domains,
             d \in (report'[p].issued \cup report'[p].renewed)
                   \ (report[p].issued \cup report[p].renewed)
      PROVE  /\ Good(files'[d])
             /\ files'[d].chain = acme[d]
             /\ survivors'[d] = Only(files'[d])
  <2>1. DataOK /\ ControlOK /\ Issued /\ Installing
    BY <1>1 DEF Issuing
  <2>2. CASE FsyncDir(p) /\ d = Domain(p)
    <3>1. pc[p] = "fsync_dir" /\ files' = files
      BY <2>2 DEF FsyncDir
    <3>2. files[d] = Latest(d) /\ acme[d] # 0
      BY <2>1, <2>2, <3>1 DEF Installing, Issued
    <3>3. Good(files'[d]) /\ files'[d].chain = acme[d]
      BY <2>1, <3>1, <3>2, LatestPair DEF Latest
    <3>4. survivors'[d] = Only(files'[d])
      BY <2>1, <2>2, <3>1 DEF FsyncDir, DataOK
    <3> QED  BY <3>3, <3>4
  <2>3. CASE \E q \in Procs : Sync(q)
    <3>1. PICK q \in Procs : Sync(q)
      BY <2>3
    <3>2. q = p
      BY <1>1, <2>1, <3>1, Elsewhere
    <3> QED  BY <1>1, <2>1, <2>2, <3>1, <3>2, ReportGrows
  <2>4. CASE PowerLoss
    BY <1>1, <2>4 DEF PowerLoss, NoReport
  <2>5. CASE \E e \in Domains : Age(e)
    BY <1>1, <2>5 DEF Age
  <2>6. CASE UNCHANGED vars
    BY <1>1, <2>6 DEF vars
  <2> QED  BY <1>1, <2>3, <2>4, <2>5, <2>6 DEF Next
<1>2. Issuing /\ [Next]_vars =>
        [\A p \in Procs, d \in Domains :
           d \in (report'[p].issued \cup report'[p].renewed)
                 \ (report[p].issued \cup report[p].renewed) =>
              /\ Good(files'[d])
              /\ files'[d].chain = acme[d]
              /\ survivors'[d] = Only(files'[d])]_vars
  BY <1>1
<1> QED  BY <1>2, IssuingAlways, PTL DEF Spec, InstallsPair

\* How a sync gets from its diff to an exit code of 0.
LEMMA Succeeds ==
    ASSUME DataOK, ControlOK, NEW p \in Procs, Sync(p),
           pc[p] \in {"diff", "no_changes", "test_failed"}, pc'[p] = "idle",
           status'[p] \in {"success", "no_changes", "cert_only_reloaded"}
    PROVE  \/ served' \subseteq Domains /\ LoadFiles(served')
           \/ ~had_material_change(p)
<1>1. ASSUME NEW how, Exit(p, how) PROVE status'[p] = how
  BY <1>1 DEF Exit, ControlOK
<1>2. CASE StageSucceeds(p)
  <2>1. served' = Target(p) /\ LoadFiles(Target(p))
    BY <1>2 DEF StageSucceeds
  <2>2. Target(p) \subseteq Domains
    BY DEF Target, DataOK
  <2>3. LoadFiles(served')
    BY <2>1 DEF LoadFiles
  <2> QED  BY <2>1, <2>2, <2>3
<1>3. CASE NoChanges(p)
  BY <1>3 DEF NoChanges, Goto, ControlOK
<1>4. CASE TestFails(p)
  BY <1>4, <1>1 DEF TestFails, Goto, ControlOK
<1>5. CASE CertReload(p)
  BY <1>5 DEF CertReload, LoadFiles, DataOK
<1>6. CASE CertReloadFails(p) \/ Killed(p)
  BY <1>6, <1>1 DEF CertReloadFails, Killed
<1>7. CASE EnsureCert(p) \/ Start(p) \/ Rejected(p) \/ InstallCertFails(p) \/ CallFails(p)
  BY <1>7 DEF EnsureCert, Acquire, NotAcquired, Existing, NeedsIssue, Issue, Goto,
              InstallCert, Fsync, RenameChain, RenameKey, Rename, FsyncDir, LoopEnds,
              Start, Rejected, InstallCertFails, CallFails
<1> QED  BY <1>2, <1>3, <1>4, <1>5, <1>6, <1>7 DEF Sync, Step, Deploy

\* A sync never exits with 0 without nginx having loaded what it has installed,
\* whether the diff, the test or the reload for the certificates comes last.
THEOREM CertsLoadedAlways == Spec => CertsLoaded
<1>1. ASSUME Issuing, [Next]_vars, NEW p \in Procs,
             pc[p] \in {"diff", "no_changes", "test_failed"}, pc'[p] = "idle",
             status'[p] \in {"success", "no_changes", "cert_only_reloaded"},
             NEW d \in served' \cap (report[p].issued \cup report[p].renewed)
      PROVE  loaded'[d] = files[d]
  <2>1. DataOK /\ ControlOK
    BY <1>1 DEF Issuing
  <2>2. CASE \E q \in Procs : Sync(q)
    <3>1. PICK q \in Procs : Sync(q)
      BY <2>2
    <3>2. q = p
      BY <1>1, <2>1, <3>1, Elsewhere
    <3>3. served' \subseteq Domains /\ LoadFiles(served')
      BY <1>1, <2>1, <3>1, <3>2, Succeeds DEF had_material_change
    <3> QED  BY <3>3 DEF LoadFiles
  <2>3. CASE PowerLoss
    BY <1>1, <2>3 DEF PowerLoss
  <2>4. CASE \E e \in Domains : Age(e)
    BY <1>1, <2>4 DEF Age
  <2>5. CASE UNCHANGED vars
    BY <1>1, <2>5 DEF vars
  <2> QED  BY <1>1, <2>2, <2>3, <2>4, <2>5 DEF Next
<1>2. Issuing /\ [Next]_vars =>
        [\A p \in Procs :
           /\ pc[p] \in {"diff", "no_changes", "test_failed"}
           /\ pc'[p] = "idle"
           /\ status'[p] \in {"success", "no_changes", "cert_only_reloaded"}
           => \A d \in served' \cap (report[p].issued \cup report[p].renewed) :
                 loaded'[d] = files[d]]_vars
  BY <1>1
<1> QED  BY <1>2, IssuingAlways, PTL DEF Spec, CertsLoaded
=============================================================================
