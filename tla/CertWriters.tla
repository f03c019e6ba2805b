----------------------------- MODULE CertWriters -----------------------------
(***************************************************************************)
(* CertIssuer with the other writer of certificate files in this program:  *)
(* cmd_add copies the chain and the key it is given over the live files,   *)
(* without the lock of the domain and without temporary files.             *)
(***************************************************************************)
EXTENDS CertIssuer

CONSTANT MaxAdds   \* bound on the invocations of add

ASSUME AddsAssumption == MaxAdds \in Nat

VARIABLES
    adding,   \* the domain and the key that add has still to copy, or Idle
    adds      \* invocations of add so far

writers == <<vars, adding, adds>>

Idle == <<>>

\* fs::copy over a file that nginx and sync may be using; nothing is synced.
Overwrite(d, file, content) ==
    /\ files' = [files EXCEPT ![d][file] = content]
    /\ survivors' = [survivors EXCEPT ![d][file] = @ \cup {content, Junk}]
    /\ UNCHANGED <<temp, synced, acme, due, config, lock, served, loaded, pc, list,
                   pos, found, report, status>>

\* Of the two files it is given, add has checked that they are PEM, and not
\* that they belong together.
AddChain(d) ==
    /\ adding = Idle
    /\ adds < MaxAdds /\ adds' = adds + 1
    /\ \E s, t \in Serials \ {0} :
         Overwrite(d, "chain", s) /\ adding' = <<d, KeyOf[t]>>
    /\ UNCHANGED faults

AddKey ==
    /\ adding # Idle
    /\ Overwrite(adding[1], "key", adding[2])
    /\ adding' = Idle
    /\ UNCHANGED <<adds, faults>>

\* Either copy is cut short, or add is killed or fails between the two.
AddTorn(d) ==
    /\ Fault
    /\ \/ /\ adding = Idle
          /\ adds < MaxAdds /\ adds' = adds + 1
          /\ Overwrite(d, "chain", Junk)
          /\ UNCHANGED adding
       \/ /\ adding # Idle /\ d = adding[1]
          /\ adding' = Idle
          /\ \E content \in {files[d].key, Junk} : Overwrite(d, "key", content)
          /\ UNCHANGED adds

InitWriters == Init /\ adding = Idle /\ adds = 0

NextWriters ==
    \/ (\E p \in Procs : Sync(p)) /\ UNCHANGED <<adding, adds>>
    \/ PowerLoss /\ adding' = Idle /\ UNCHANGED adds
    \/ \E d \in Domains :
         \/ Age(d) /\ UNCHANGED <<adding, adds>>
         \/ AddChain(d) \/ AddTorn(d)
    \/ AddKey

SpecWriters == InitWriters /\ [][NextWriters]_writers

\* The caller's scheduler runs sync again and again; nothing has add go on.
SyncsGoOn ==
    /\ SpecWriters
    /\ \A p \in Procs :
         WF_writers((Start(p) \/ Step(p)) /\ UNCHANGED <<adding, adds>>)
=============================================================================
