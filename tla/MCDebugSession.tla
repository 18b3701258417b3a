---------------------------- MODULE MCDebugSession ----------------------------
(***************************************************************************)
(* Small instances of DebugSession.  The patch rewrites one file from its  *)
(* original content to the fixed one; a second file is there to be edited, *)
(* written by commands or left alone.                                      *)
(***************************************************************************)
EXTENDS DebugSession, TLC

CONSTANTS src, other, original, fixed, h1, sigA

MCInitialFiles == [x \in Path |-> original]

Fix == [paths |-> {src}, rewrite |-> [c \in {original} |-> fixed]]
MCPatches == {Fix}

Failed == [failed |-> TRUE, sig |-> sigA]
Passed == [failed |-> FALSE, sig |-> sigA]
\* one failing run, one passing run, and a flaky pair
MCRuns == {<<Failed>>, <<Passed>>, <<Failed, Passed>>}
MCRunsStable == {<<Failed>>, <<Passed>>}

\* three hypotheses put forward as supported, one even as confirmed, and an open
\* one; the last three share an id
MCDrafts ==
  {[patch |-> Fix, hyps |-> <<"supported", "confirmed", "supported", "open">>,
    ids |-> <<1, 2, 2, 2>>]}
MCVerdicts ==
  {[assessment |-> "supported", disposition |-> "accept",
    hyps |-> <<"supported", "supported", "omitted", "omitted">>],
   [assessment |-> "insufficient", disposition |-> "accept",
    hyps |-> <<"open", "omitted", "omitted", "omitted">>]}
MCVerdictsAccept ==
  {[assessment |-> "supported", disposition |-> "accept",
    hyps |-> <<"supported", "omitted", "omitted", "omitted">>]}

ProcSymmetry == Permutations(Proc)
===============================================================================
