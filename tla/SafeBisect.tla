------------------------------ MODULE SafeBisect ------------------------------
(***************************************************************************)
(* runSafeBisect (src/bisect.js): a binary search for the first failing    *)
(* commit along the first-parent path to the bad commit, each candidate    *)
(* tested by a reproduction series in a clone of its own.                  *)
(*                                                                         *)
(* Position 0 is the good commit and positions 1..size the plan's commits, *)
(* oldest first: plan.commits[i] of the code is position i + 1, so lo and  *)
(* hi are one more than there.  What a candidate's series shows is any of  *)
(* Series: nothing makes old commits fail monotonically.                   *)
(***************************************************************************)
EXTENDS Reproduction

CONSTANTS
  Series,       \* the series of executions a candidate may show
  MaxCommits,   \* options.maxCommits, 256 unless given
  MaxPath       \* bound on the first-parent paths considered

ASSUME SeriesAssumption == Series \subseteq Seq(Result)
ASSUME CommitsAssumption == MaxCommits \in Nat /\ MaxPath \in Nat

VARIABLES
  pc,       \* plan, good, bad, search or done
  size,     \* plan.commits.length
  lo, hi,
  tested,   \* tested[i]: the classification of position i, once it has one
  status    \* how the search ended

vars == <<pc, size, lo, hi, tested, status>>

Class == {"pass", "fail", "ambiguous", "unknown"}
Classes == {ClassifySeries(Summarize(c, results)) : c \in Cmd, results \in Series}

Init ==
  /\ pc = "plan" /\ status = "none"
  /\ size = 0
  /\ lo = 0 /\ hi = 0
  /\ tested = <<>>

Finish(s) == pc' = "done" /\ status' = s
Tested(i, class) ==
  tested' = [j \in DOMAIN tested \cup {i} |-> IF j = i THEN class ELSE tested[j]]

NoLimit(k) == FALSE                  \* faulty variant: maxCommits is not asked for
TooLong(k) == k > MaxCommits

\* buildBisectPlan: the good commit is an ancestor of the bad one, on the
\* first-parent path or off it.
Plan(k) ==
  /\ pc = "plan"
  /\ IF TooLong(k)
     THEN Finish("refused") /\ UNCHANGED size          \* EBISECTLIMIT
     ELSE pc' = "good" /\ size' = k /\ UNCHANGED status
  /\ UNCHANGED <<lo, hi, tested>>

\* No authority, no command, no ancestry: nothing is tested.
RefusePlan ==
  /\ pc = "plan"
  /\ Finish("refused")
  /\ UNCHANGED <<size, lo, hi, tested>>

TestGood ==
  /\ pc = "good"
  /\ \E class \in Classes :
       /\ Tested(0, class)
       /\ IF class = "pass" THEN pc' = "bad" /\ UNCHANGED status ELSE Finish("blocked")
  /\ UNCHANGED <<size, lo, hi>>

EndpointFails(class) == class = "fail"

TestBad ==
  /\ pc = "bad"
  /\ \E class \in Classes :
       /\ Tested(size, class)
       /\ IF EndpointFails(class) THEN pc' = "search" /\ UNCHANGED status ELSE Finish("blocked")
  /\ lo' = 0 /\ hi' = size
  /\ UNCHANGED size

NextOne == lo + 1                    \* faulty variant: one commit after the other
Mid == (lo + hi) \div 2

StopEarly == hi - lo <= 2            \* faulty variant: an untested commit is left
LoopEnds == hi - lo <= 1

\* while (hi - lo > 1)
TestMid ==
  /\ pc = "search" /\ ~LoopEnds
  /\ \E class \in Classes :
       /\ Tested(Mid, class)
       /\ CASE class = "fail" -> hi' = Mid /\ UNCHANGED <<lo, pc, status>>
            [] class = "pass" -> lo' = Mid /\ UNCHANGED <<hi, pc, status>>
            [] OTHER          -> Finish("inconclusive") /\ UNCHANGED <<lo, hi>>
  /\ UNCHANGED size

Prove ==
  /\ pc = "search" /\ LoopEnds
  /\ Finish("proven")
  /\ UNCHANGED <<size, lo, hi, tested>>

\* git or the command cannot be run: the error leaves runSafeBisect
TestFails ==
  /\ pc \in {"good", "bad"} \/ (pc = "search" /\ ~LoopEnds)
  /\ Finish("error")
  /\ UNCHANGED <<size, lo, hi, tested>>

Next ==
  \/ \E k \in 1..MaxPath : Plan(k)
  \/ RefusePlan \/ TestGood \/ TestBad \/ TestMid \/ Prove \/ TestFails

Spec == Init /\ [][Next]_vars

FirstBad == hi

-------------------------------------------------------------------------------
TypeOK ==
  /\ pc \in {"plan", "good", "bad", "search", "done"}
  /\ status \in {"none", "refused", "blocked", "inconclusive", "proven", "error"}
  /\ size \in 0..MaxCommits
  /\ lo \in Nat /\ hi \in Nat
  /\ DOMAIN tested \subseteq 0..size
  /\ tested \in [DOMAIN tested -> Class]

\* A proven first bad commit failed reproducibly while the commit before it on
\* the plan passed, and no commit that was tested speaks against it: those
\* before it all passed and those from it on all failed.
ProvenIsTransition ==
  status = "proven" =>
    /\ FirstBad \in DOMAIN tested /\ FirstBad - 1 \in DOMAIN tested
    /\ \A i \in DOMAIN tested : tested[i] = IF i < FirstBad THEN "pass" ELSE "fail"

\* Historical code is executed for as few commits as the path length allows:
\* each test of a candidate halves what is left between the two bounds.
TestsHalvePath ==
  pc = "search" => (hi - lo - 1) * 2^(Cardinality(DOMAIN tested \ {0, size})) <= size - 1
===============================================================================
