----------------------------- MODULE Deployments -----------------------------
(***************************************************************************)
(* The system calls of Stager and Commands, one invocation at a time,      *)
(* implement Generations.  While the directories are being exchanged, the  *)
(* generation that counts is the one in prev.                              *)
(***************************************************************************)
EXTENDS Commands

\* live has been moved away, or is being deleted, in favour of prev.
InExchange ==
    \E p \in Procs : pc[p] \in {"swap_in", "drop_live", "dropping_live", "restore"}

Generation == INSTANCE Generations WITH
    current  <- IF InExchange THEN fs.prev ELSE fs.live,
    previous <- IF InExchange THEN Absent ELSE fs.prev,
    serving  <- running,
    pending  <- \E p \in Procs : pc[p] = "reload"

\* A deployment looks atomic: whatever fails or is interrupted in it, nginx
\* only ever loads a whole generation that is accepted, and the generation
\* that was current is found whole in live or in prev (stager.rs, steps 4 to 6,
\* atomic_swap and rollback).
ImplementsGenerations == Generation!Spec
=============================================================================
