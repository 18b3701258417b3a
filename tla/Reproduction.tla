----------------------------- MODULE Reproduction -----------------------------
(***************************************************************************)
(* What a series of executions of one explicit command amounts to:         *)
(* src/reproduction.js.  A series is summarised once, when it ends; the    *)
(* summary is the only thing the rest of the controller sees of it.        *)
(***************************************************************************)
EXTENDS Naturals, Sequences, FiniteSets

CONSTANTS
  Cmd,      \* explicit commands, told apart by their digest
  NoCmd,    \* the empty commandDigest: no command was run
  Sig,      \* normalised failure signatures
  MaxSignatures  \* how many of them a summary keeps: 12 in the code

ASSUME NoCmdAssumption == NoCmd \notin Cmd
ASSUME SigAssumption == MaxSignatures \in Nat /\ MaxSignatures >= 2

\* One execution: did it fail (non-zero exit or timeout), and how did the
\* failure look once addresses and long numbers were normalised away.
Result == [failed: BOOLEAN, sig: Sig]

\* A summary of a series.  The empty series stands for the code's null.
Summary == [cmd: Cmd \cup {NoCmd}, runs: Nat, passes: Nat, failures: Nat,
            sigs: SUBSET Sig, stable: BOOLEAN, reproducible: BOOLEAN]

MaxSeries == 20
UnclampedRuns(n) == n     \* faulty variant: the request is used as it comes
\* Math.max(1, Math.min(20, Math.floor(Number(runs)||1)))
ClampRuns(n) == IF n < 1 THEN 1 ELSE IF n > MaxSeries THEN MaxSeries ELSE n

Failing(results)  == {i \in DOMAIN results : results[i].failed}
FailingAs(results, g) == {i \in Failing(results) : results[i].sig = g}

Signatures(results) == {results[i].sig : i \in Failing(results)}

\* The stable sort by count: h comes before g if it was seen more often, or as often
\* and earlier.
Outranks(results, h, g) ==
  LET hs == FailingAs(results, h)
      gs == FailingAs(results, g)
  IN \/ Cardinality(hs) > Cardinality(gs)
     \/ Cardinality(hs) = Cardinality(gs) /\ \E i \in hs : \A j \in gs : i < j

Above(results, g) == {h \in Signatures(results) : Outranks(results, h, g)}

\* failureSignatures: the first MaxSignatures of them
Kept(results) ==
  {g \in Signatures(results) : Cardinality(Above(results, g)) < MaxSignatures}

\* summarizeSeries, of all the signatures: the most frequent signature accounts for every failure.
StableFailure(results) ==
  /\ Failing(results) # {}
  /\ \E g \in Sig : FailingAs(results, g) = Failing(results)

ReproducibleFailure(results) ==
  /\ StableFailure(results)
  /\ Len(results) = 1 \/ Cardinality(Failing(results)) >= 2

Summarize(c, results) ==
  [cmd          |-> IF results = <<>> THEN NoCmd ELSE c,
   runs         |-> Len(results),
   passes       |-> Len(results) - Cardinality(Failing(results)),
   failures     |-> Cardinality(Failing(results)),
   sigs         |-> Kept(results),
   stable       |-> StableFailure(results),
   reproducible |-> ReproducibleFailure(results)]

\* beforeSummary = null / afterSummary = null
NoSummary == [cmd |-> NoCmd, runs |-> 0, passes |-> 0, failures |-> 0,
              sigs |-> {}, stable |-> FALSE, reproducible |-> FALSE]

SameCommand(before, after) == before.cmd \in Cmd /\ before.cmd = after.cmd

\* Faulty variant: the command identity is not asked for.
CompareAnyCommand(before, after) ==
  IF before.failures = 0 THEN "unbound"
  ELSE IF after.failures = 0 THEN "resolved"
  ELSE IF after.sigs \subseteq before.sigs THEN "same-failure"
  ELSE "different-failure"

\* compareFailureSignatures, in the order of its returns.
CompareSignatures(before, after) ==
  IF before.failures = 0 \/ ~SameCommand(before, after) THEN "unbound"
  ELSE IF after.failures = 0 THEN "resolved"
  ELSE IF after.sigs = {} THEN "unknown"
  ELSE IF after.sigs \subseteq before.sigs /\ before.stable THEN "same-failure"
  ELSE IF after.sigs \cap before.sigs = {} THEN "different-failure"
  ELSE "mixed-failure"

Transition == {"unbound", "resolved", "unknown", "same-failure",
               "different-failure", "mixed-failure", "not-run"}

\* classifySeries of src/bisect.js reads the same summary.
ClassifySeries(s) ==
  IF s.runs = 0 THEN "unknown"
  ELSE IF s.failures = 0 THEN "pass"
  ELSE IF s.reproducible THEN "fail"
  ELSE "ambiguous"
===============================================================================
