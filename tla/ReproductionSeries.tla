-------------------------- MODULE ReproductionSeries --------------------------
(***************************************************************************)
(* runReproductionSeries (src/reproduction.js): the controller executes    *)
(* one explicit command a bounded number of times before a change and one  *)
(* (perhaps different) command after it, one execution per step, and then  *)
(* judges the pair.                                                        *)
(***************************************************************************)
EXTENDS Reproduction

CONSTANTS Requests    \* values of --repro-runs / --verify-runs tried

ASSUME RequestsAssumption == Requests \subseteq Nat

VARIABLES
  phase,      \* which series is running: "baseline", "post" or "judged"
  command,    \* command[k]: the command of series k
  count,      \* count[k]: the clamped number of executions of series k
  results,    \* results[k]: the executions of series k so far
  verdict     \* what the pair was judged to be

vars == <<phase, command, count, results, verdict>>

Series == {"baseline", "post"}

TypeOK ==
  /\ phase \in Series \cup {"judged"}
  /\ command \in [Series -> Cmd]
  /\ count \in [Series -> 1..MaxSeries]
  /\ results \in [Series -> Seq(Result)]
  /\ verdict \in Transition

Init ==
  /\ phase = "baseline"
  /\ command \in [Series -> Cmd]
  /\ \E n \in [Series -> Requests] : count = [k \in Series |-> ClampRuns(n[k])]
  /\ results = [k \in Series |-> <<>>]
  /\ verdict = "not-run"

SummaryOf(k) == Summarize(command[k], results[k])

\* One execution of the running series: any outcome is possible each time.
RunOnce(k) ==
  /\ phase = k
  /\ Len(results[k]) < count[k]
  /\ \E r \in Result : results' = [results EXCEPT ![k] = Append(@, r)]
  /\ UNCHANGED <<phase, command, count, verdict>>

EndBaseline ==
  /\ phase = "baseline"
  /\ Len(results["baseline"]) = count["baseline"]
  /\ phase' = "post"
  /\ UNCHANGED <<command, count, results, verdict>>

EndPost ==
  /\ phase = "post"
  /\ Len(results["post"]) = count["post"]
  /\ phase' = "judged"
  /\ verdict' = CompareSignatures(SummaryOf("baseline"), SummaryOf("post"))
  /\ UNCHANGED <<command, count, results>>

Next == EndBaseline \/ EndPost \/ \E k \in Series : RunOnce(k)

Spec == Init /\ [][Next]_vars

-------------------------------------------------------------------------------
FailedWith(k) == Signatures(results[k])
Failures(k)   == Cardinality(Failing(results[k]))

\* A baseline counts as reproducible exactly when README.md:68 says it should:
\* the only run failed, or two or more runs failed and all of them alike.  A
\* single failure among several runs (a flake) never does.
ReproducibleAsDocumented ==
  \A k \in Series :
    SummaryOf(k).reproducible <=>
      /\ Cardinality(FailedWith(k)) = 1
      /\ Failures(k) >= 2 \/ (Failures(k) = 1 /\ Len(results[k]) = 1)

\* The verdict of a judged pair, restated over the raw executions rather than
\* the summaries, which keep MaxSignatures signatures of a series.  "unbound",
\* "resolved" and "same-failure" mean what they say for series of any signatures:
\* "resolved" needs the same command, an observed failure before and none after; a
\* surviving failure is the same one only if the baseline had one signature and
\* nothing new appeared.  "mixed-failure" means that a failure reappeared.  That none
\* did, "different-failure", is sure only if no series had more signatures than are
\* kept.  The "unknown" exit is never taken.
TransitionMeansWhatItSays ==
  phase = "judged" =>
    LET same == command["baseline"] = command["post"]
        old  == FailedWith("baseline")
        new  == FailedWith("post")
        allKept == Cardinality(old) <= MaxSignatures /\ Cardinality(new) <= MaxSignatures
    IN /\ verdict \in {"unbound", "resolved", "same-failure", "different-failure",
                       "mixed-failure"}
       /\ verdict = "unbound" <=> ~same \/ old = {}
       /\ verdict = "resolved" <=> same /\ old # {} /\ new = {}
       /\ verdict = "same-failure" <=> same /\ old = new /\ Cardinality(old) = 1
       /\ verdict = "mixed-failure" => old \cap new # {}
       /\ verdict = "different-failure" /\ allKept => old \cap new = {}
===============================================================================
