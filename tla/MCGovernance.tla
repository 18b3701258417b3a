----------------------------- MODULE MCGovernance -----------------------------
(***************************************************************************)
(* Two bootstraps, an administrator and the workflow; a complete ruleset   *)
(* and one that lacks the app binding of its check.                        *)
(***************************************************************************)
EXTENDS Governance, TLC

MCBodies == {Payload, [Payload EXCEPT !.check = "foreign"]}
RunSymmetry == Permutations(Run)
===============================================================================
