-------------------------- MODULE MCPatchTransaction --------------------------
(***************************************************************************)
(* Two files and a patch over both.                                        *)
(***************************************************************************)
EXTENDS PatchTransaction, TLC

CONSTANTS a, b, old, new

MCInitialFiles == [x \in Path |-> old]
Both == [paths |-> {a, b}, rewrite |-> [c \in {old} |-> new]]
MCPatches == {Both}

ProcSymmetry == Permutations(Proc)
===============================================================================
