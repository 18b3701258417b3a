---------------------------- MODULE HistoricalCase ----------------------------
(***************************************************************************)
(* The users of runReproductionSeries.  The controller judges one pair of  *)
(* series of any two commands (use "explicit": ReproductionSeries as it    *)
(* is).  Three scripts go through a corpus of historical fixes, each case  *)
(* in a temporary clone that is to be removed again: promotion-provenance  *)
(* only looks at the commits, promotion-qualify and promotion-live-eval    *)
(* (materializeHistoricalCase of historical-case.js) check the bad commit  *)
(* out, run its reproduction, check the fix out and run it again; and the  *)
(* live evaluation then runs it once more and shows the model what failed. *)
(***************************************************************************)
EXTENDS ReproductionSeries

CONSTANTS
  Case, Commit, Pin,
  NoCommit,    \* nothing is checked out
  NoPin,       \* no Core: no gitlink in the commit, no checkout on disk
  Corpora,     \* sequences of cases tried as the corpus
  Bad, Fixed,  \* the commits the corpus names for a case
  Parent,      \* Parent[c]: the first parent of a commit
  Reviewed,    \* commits the anchor ref of their case reaches
  PinOf,       \* the Core gitlink of a commit, if any
  Outcome,     \* Outcome[c]: how the reproduction can end at a commit
  WithVariant, \* cases with an insufficient-evidence variant
  Command, Request,  \* the reproduction of the corpus: command and --runs
  Uses,        \* which of the scripts are run
  HistoryFaults

HistoryFaultKinds ==
  {"git",    \* a fetch, checkout or submodule update fails or times out
   "model",  \* the analysis throws
   "kill"}   \* the process is killed

ASSUME HistoryConstants ==
  /\ Corpora \subseteq Seq(Case)
  /\ Bad \in [Case -> Commit] /\ Fixed \in [Case -> Commit]
  /\ Parent \in [Commit -> Commit \cup {NoCommit}] /\ Reviewed \subseteq Commit
  /\ PinOf \in [Commit -> Pin \cup {NoPin}]
  /\ Outcome \in [Commit -> SUBSET Result]
  /\ WithVariant \subseteq Case /\ Command \in Cmd /\ Request \in Nat
  /\ Uses \subseteq {"explicit", "provenance", "qualify", "live"}
  /\ HistoryFaults \subseteq HistoryFaultKinds

VARIABLES
  use,      \* which user of the series is running
  step,     \* where the script is
  corpus,   \* the corpus it goes through
  at,       \* the case it is at
  temp,     \* the temporary directory of the case exists
  tree,     \* the commit checked out in the clone
  core,     \* the Core checked out in the clone
  debris,   \* what the reproduction has left: its kinds
  observed, \* the series the live evaluation shows the model
  views,    \* the evaluation views the model has answered
  pairs,    \* the transitions recorded
  written   \* output files written

clone  == <<temp, tree, core, debris>>
record == <<observed, views, pairs>>
hvars  == <<use, step, corpus, at, clone, record, written>>
allvars == <<vars, hvars>>

HInit ==
  /\ Init
  /\ use \in Uses /\ corpus \in Corpora /\ at = 1
  /\ step = IF use = "explicit" THEN "explicit" ELSE "next"
  /\ temp = FALSE /\ tree = NoCommit /\ core = NoPin /\ debris = {}
  /\ observed = <<>> /\ views = {} /\ pairs = {} /\ written = 0
  /\ use # "explicit" =>
       /\ command = [k \in Series |-> Command]
       /\ count = [k \in Series |-> ClampRuns(Request)]

Item == corpus[at]
Goto(s) == step' = s
Ended == {"done", "failed", "killed"}

\* What an execution may leave behind: untracked and ignored files, a repository
\* of its own inside the clone, and files in the HOME that all executions of the
\* case are given, or in the clone's own .git.
Debris == {"file", "nested", "home"}
Cleaned == {"file"}      \* git clean -fdx, with one -f

ControllerPair ==
  /\ step = "explicit" /\ Next /\ UNCHANGED hvars

-------------------------------------------------------------------------------
(* materializeHistoricalCase, fetchAndVerify                               *)

MakeTemp ==
  /\ step = "next" /\ at <= Len(corpus)
  /\ temp' = TRUE /\ tree' = NoCommit /\ core' = NoPin /\ debris' = {}
  /\ phase' = "baseline" /\ results' = [k \in Series |-> <<>>]
  /\ verdict' = "not-run"
  /\ observed' = <<>>
  /\ Goto("fetch")
  /\ UNCHANGED <<command, count, use, corpus, at, views, pairs, written>>

\* Both commits exist, the fix is reviewed, and its parent is the bad commit.
AnyParent(c) == Fixed[c] \in Reviewed     \* faulty variant
DirectChild(c) == Fixed[c] \in Reviewed /\ Parent[Fixed[c]] = Bad[c]

FetchAndCheck ==
  /\ step = "fetch"
  /\ Goto(IF ~DirectChild(Item) THEN "caught"
          ELSE IF use = "provenance" THEN "record" ELSE "bad")
  /\ UNCHANGED <<vars, use, corpus, at, clone, record, written>>

\* cleanCheckout: the Core goes, the commit is checked out, untracked and ignored
\* files go.  Nested repositories and what is in HOME stay.
CheckOut ==
  /\ step \in {"bad", "fixed"}
  /\ tree' = IF step = "bad" THEN Bad[Item] ELSE Fixed[Item]
  /\ core' = NoPin /\ debris' = debris \ Cleaned
  /\ Goto("core")
  /\ UNCHANGED <<vars, use, corpus, at, temp, record, written>>

SamePin(c) == PinOf[Bad[Item]]            \* faulty variant: the pin of the bad commit
PinFor(c) == PinOf[c]
\* materializeTrustedCore: the pin of this commit, verified, or no Core at all
InstallCore ==
  /\ step = "core"
  /\ core' = PinFor(tree)
  /\ Goto("series")
  /\ UNCHANGED <<vars, use, corpus, at, temp, tree, debris, record, written>>

-------------------------------------------------------------------------------
(* runTransitionInRepo                                                     *)

RunHere ==
  /\ step = "series"
  /\ \E k \in Series : RunOnce(k) /\ results'[k][Len(results'[k])] \in Outcome[tree]
  /\ \E left \in SUBSET Debris : debris' = debris \cup left
  /\ UNCHANGED <<use, step, corpus, at, temp, tree, core, record, written>>

EndBad ==
  /\ step = "series" /\ EndBaseline
  /\ Goto(IF SummaryOf("baseline").reproducible THEN "fixed" ELSE "caught")
  /\ UNCHANGED <<use, corpus, at, clone, record, written>>

EndFixed ==
  /\ step = "series" /\ EndPost
  /\ Goto(IF SummaryOf("post").failures # 0 THEN "caught"
          ELSE IF use = "live" THEN "observe" ELSE "record")
  /\ UNCHANGED <<use, corpus, at, clone, record, written>>

-------------------------------------------------------------------------------
(* promotion-live-eval.js, after materializeHistoricalCase: the clone is   *)
(* at the fixed commit                                                     *)

Observe ==
  /\ step = "observe" /\ Len(observed) < ClampRuns(Request)
  /\ \E r \in Outcome[tree] : observed' = Append(observed, r)
  /\ \E left \in SUBSET Debris : debris' = debris \cup left
  /\ UNCHANGED <<vars, use, step, corpus, at, temp, tree, core, views, pairs, written>>

EndObserve ==
  /\ step = "observe" /\ Len(observed) = ClampRuns(Request)
  /\ Goto(IF Summarize(Command, observed).reproducible THEN "analyze" ELSE "caught")
  /\ UNCHANGED <<vars, use, corpus, at, clone, record, written>>

\* runVisibleCase: first the observed failure, then the projection of it
Analyze ==
  /\ step = "analyze"
  /\ views' = views \cup {<<Item, "observed">>}
  /\ Goto(IF Item \in WithVariant THEN "variant" ELSE "record")
  /\ UNCHANGED <<vars, use, corpus, at, clone, observed, pairs, written>>

AnalyzeVariant ==
  /\ step = "variant"
  /\ views' = views \cup {<<Item, "projected">>}
  /\ Goto("record")
  /\ UNCHANGED <<vars, use, corpus, at, clone, observed, pairs, written>>

-------------------------------------------------------------------------------
(* The loop over the corpus, and its end                                   *)

Record ==
  /\ step = "record"
  /\ pairs' = pairs \cup {[case |-> Item, transition |-> verdict]}
  /\ Goto("cleanup")
  /\ UNCHANGED <<vars, use, corpus, at, clone, observed, views, written>>

LeaveIt == temp                           \* faulty variant: the catch does not clean up
RemoveIt == FALSE

\* finally { cleanup() }, and the catch of materializeHistoricalCase
CleanUp ==
  /\ step \in {"cleanup", "caught"}
  /\ temp' = IF step = "cleanup" THEN FALSE ELSE RemoveIt
  /\ Goto(IF step = "cleanup" THEN "next" ELSE "failed")
  /\ at' = IF step = "cleanup" THEN at + 1 ELSE at
  /\ UNCHANGED <<vars, use, corpus, tree, core, debris, record, written>>

\* The live evaluation writes the record, its summary and the transitions.
FilesOf(u) == IF u = "live" THEN 3 ELSE 1
AllDone == at > Len(corpus)

WriteFile ==
  /\ step = "next" /\ AllDone
  /\ written' = written + 1
  /\ IF written' = FilesOf(use) THEN Goto("done") ELSE UNCHANGED step
  /\ UNCHANGED <<vars, use, corpus, at, clone, record>>

FetchAgain == "fetch"                     \* faulty variant: tried again, for ever
GiveUp == "caught"
Fail ==
  /\ \/ "git" \in HistoryFaults /\ step \in {"fetch", "bad", "fixed", "core"}
     \/ "model" \in HistoryFaults /\ step \in {"analyze", "variant"}
  /\ Goto(GiveUp)
  /\ UNCHANGED <<vars, use, corpus, at, clone, record, written>>

Kill ==
  /\ "kill" \in HistoryFaults
  /\ step \notin Ended \cup {"explicit"}
  /\ Goto("killed")
  /\ UNCHANGED <<vars, use, corpus, at, clone, record, written>>

ScriptStep ==
  \/ MakeTemp \/ FetchAndCheck \/ CheckOut \/ InstallCore \/ RunHere \/ EndBad \/ EndFixed
  \/ Observe \/ EndObserve \/ Analyze \/ AnalyzeVariant \/ Record \/ CleanUp \/ WriteFile

HNext == ControllerPair \/ ScriptStep \/ Fail \/ Kill

HSpec == HInit /\ [][HNext]_allvars
\* The scripts are one synchronous loop whose git calls and reproductions have
\* timeouts: while a script is not over it goes on, or fails.
FairHSpec == HSpec /\ WF_allvars(ScriptStep \/ Fail)

-------------------------------------------------------------------------------
Steps == {"explicit", "next", "fetch", "bad", "fixed", "core", "series", "observe",
          "analyze", "variant", "record", "cleanup", "caught"} \cup Ended

HTypeOK ==
  /\ TypeOK
  /\ use \in Uses /\ step \in Steps /\ corpus \in Corpora
  /\ at \in 1..(Len(corpus) + 1)
  /\ temp \in BOOLEAN /\ debris \subseteq Debris
  /\ tree \in Commit \cup {NoCommit} /\ core \in Pin \cup {NoPin}
  /\ observed \in Seq(Result)
  /\ views \subseteq Case \X {"observed", "projected"}
  /\ pairs \subseteq [case: Case, transition: Transition]
  /\ written \in 0..3

\* When a series of a case starts, the clone is at the commit that series is
\* about, with the Core that commit pins.  The baseline finds nothing left by
\* anyone; the other series no untracked or ignored file of the baseline, though
\* possibly a nested repository, or what the baseline put into HOME.
SeriesStartClean ==
  \A k \in Series :
    step = "series" /\ phase = k /\ results[k] = <<>> =>
      /\ tree = IF k = "baseline" THEN Bad[Item] ELSE Fixed[Item]
      /\ core = PinOf[tree]
      /\ debris \subseteq IF k = "baseline" THEN {} ELSE Debris \ Cleaned

\* A script that was not killed leaves no clone behind, however it ended.
NothingLeftBehind == step \in {"done", "failed"} => ~temp

\* Any output means that every case was recorded, each a reviewed direct child
\* that the controller itself would judge resolved, and that in a live evaluation
\* every view of it was answered.
OutputIsComplete ==
  written > 0 =>
    LET cases == {corpus[i] : i \in DOMAIN corpus}
    IN /\ {p.case : p \in pairs} = cases
       /\ \A c \in cases : Fixed[c] \in Reviewed /\ Parent[Fixed[c]] = Bad[c]
       /\ use # "provenance" => \A p \in pairs : p.transition = "resolved"
       /\ use = "live" => views = (cases \X {"observed"})
                                    \cup ((cases \cap WithVariant) \X {"projected"})

\* Every script comes to an end.
EveryScriptEnds == use # "explicit" ~> step \in Ended

\* promotion-live-eval.js:18 and MODEL_EVALUATION.md:12 have the live evaluation
\* show the model the controller-observed historical failure of every case: of
\* a corpus whose fixes work, it produces its record.
LiveEvaluationIsRecorded == use = "live" ~> written = FilesOf("live")
===============================================================================
