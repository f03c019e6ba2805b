----------------------------- MODULE Generations -----------------------------
(***************************************************************************)
(* What stager.rs and the commands promise of the live directory, without  *)
(* saying how: a current generation of configs, the generation before it,  *)
(* and what nginx serves.  A deployment puts a new generation in place in  *)
(* one step, can be undone in one step, and when it is interrupted in the  *)
(* middle the generation it was to replace is whole: still current, or the *)
(* previous one.                                                           *)
(***************************************************************************)
EXTENDS Differ

CONSTANT Broken   \* renderings nginx rejects

VARIABLES
    current, previous,
    serving,   \* what nginx has loaded
    pending    \* the current generation is new, and its reload is to come

state == <<current, previous, serving, pending>>

\* A tree that lacks some of the files of dir, or nothing at all.
Remnant(rest, dir) ==
    \/ rest = Absent
    \/ /\ dir # Absent /\ rest \in Trees
       /\ \A n \in Files(rest) : rest[n] = dir[n]

Loadable(dir) == dir # Absent => \A n \in Names : dir[n] \notin Broken
Loaded(dir) == IF dir = Absent THEN EmptyTree ELSE dir

\* The previous generation makes room, all at once or bit by bit.
GiveUp ==
    /\ Remnant(previous', previous)
    /\ UNCHANGED <<current, serving, pending>>

\* A tested tree takes the place of the current one, which is kept.
Deploy ==
    /\ previous = Absent
    /\ current' \in ManagedTrees
    /\ Loadable(current')
    /\ previous' = current
    /\ pending' = TRUE
    /\ UNCHANGED serving

\* nginx loads the generation that is current, and no other directory.
Load ==
    /\ Loadable(current)
    /\ serving' = Loaded(current)
    /\ pending' = FALSE
    /\ UNCHANGED <<current, previous>>

\* A rollback, asked for or after a reload that was refused.  Only a generation
\* that nginx has not accepted is given up when there is none before it.
Undo ==
    /\ pending \/ previous # Absent
    /\ current' = previous
    /\ previous' = Absent
    /\ pending' = FALSE
    /\ UNCHANGED serving

\* The deployment ends before the reload, and its generation stays.
Settle ==
    /\ pending' = FALSE
    /\ UNCHANGED <<current, previous, serving>>

\* add and remove change the config of one name in place.
Edit(n) ==
    /\ current' \in Trees
    /\ \A m \in Names \ {n} : current'[m] = Loaded(current)[m]
    /\ UNCHANGED <<previous, serving, pending>>

\* A deployment or a rollback ends in the middle: the generation that was
\* current is the previous one, whatever is left in its place.
Interrupt ==
    /\ previous = Absent
    /\ current' \in Dirs
    /\ previous' = current
    /\ UNCHANGED <<serving, pending>>

Next ==
    \/ GiveUp \/ Deploy \/ Load \/ Undo \/ Settle \/ Interrupt
    \/ \E n \in Names : Edit(n)

Init ==
    /\ current \in Dirs
    /\ previous = Absent
    /\ serving = Loaded(current)
    /\ pending = FALSE

Spec == Init /\ [][Next]_state
=============================================================================
