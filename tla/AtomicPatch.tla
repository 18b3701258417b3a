------------------------------ MODULE AtomicPatch ------------------------------
(***************************************************************************)
(* What the patch transaction and the rollback promise (README.md:190-194, *)
(* ARCHITECTURE.md:77-99): each happens at once or not at all, and what a  *)
(* rollback puts back is what that patch replaced, until something goes    *)
(* wrong: the process dies, a restore is partial, git apply fails between  *)
(* its writes, or somebody else writes in the middle.                      *)
(***************************************************************************)
EXTENDS Naturals, Sequences

CONSTANTS Path, Content, InitialFiles, Patch

VARIABLES
  files, snaps,
  alarm      \* what has gone wrong so far

vars == <<files, snaps, alarm>>

Init == files = InitialFiles /\ snaps = <<>> /\ alarm = {}

Apply(d) ==
  /\ \A x \in d.paths : files[x] \in DOMAIN d.rewrite
  /\ files' = [x \in Path |-> IF x \in d.paths THEN d.rewrite[files[x]] ELSE files[x]]
  /\ snaps' = Append(snaps, [before |-> [x \in d.paths |-> files[x]],
                             after  |-> [x \in d.paths |-> files'[x]]])
  /\ UNCHANGED alarm

Rollback(id) ==
  /\ \A x \in DOMAIN snaps[id].after : files[x] = snaps[id].after[x]
  /\ files' = [x \in Path |-> IF x \in DOMAIN snaps[id].before THEN snaps[id].before[x]
                                                               ELSE files[x]]
  /\ UNCHANGED <<snaps, alarm>>

Edit(x, c) == files' = [files EXCEPT ![x] = c] /\ UNCHANGED <<snaps, alarm>>

\* From the first alarm on nothing is promised about the files.
Damage == alarm' # {} /\ files' \in [Path -> Content]

Next ==
  \/ \E d \in Patch : Apply(d)
  \/ \E id \in DOMAIN snaps : Rollback(id)
  \/ \E x \in Path, c \in Content : Edit(x, c)
  \/ Damage

Spec == Init /\ [][Next]_vars
===============================================================================
