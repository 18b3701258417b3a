------------------------ MODULE HistoricalCase_proofs ------------------------
(***************************************************************************)
(* The invariants of HistoricalCase, for any corpora, commits, outcomes and*)
(* numbers of executions.                                                  *)
(*                                                                         *)
(* A series that ended is the one that was asked for, and a judged pair was*)
(* judged by its summaries (SeriesHold).  What the clone holds follows from*)
(* the step the script is at (PlaceHolds).  What has been recorded is what *)
(* the corpus lists before the case the script is at (LoopHolds).  Each    *)
(* step of a script leaves less to do (ComesCloser), which is why a script *)
(* ends if it goes on; that it goes on is fairness and left to TLC.        *)
(***************************************************************************)
EXTENDS HistoricalCase, FiniteSetTheorems, TLAPS

-------------------------------------------------------------------------------
(* Summaries                                                               *)

LEMMA FailingFinite ==
  ASSUME NEW s \in Seq(Result)
  PROVE  /\ Failing(s) \subseteq 1..Len(s) /\ IsFiniteSet(Failing(s))
         /\ Cardinality(Failing(s)) \in Nat
         /\ Cardinality(Failing(s)) = 0 <=> Failing(s) = {}
         /\ Signatures(s) \subseteq Sig /\ IsFiniteSet(Signatures(s))
         /\ Signatures(s) = {} <=> Failing(s) = {}
<1>1. Failing(s) \subseteq 1..Len(s) /\ Len(s) \in Nat
  BY DEF Failing
<1>2. IsFiniteSet(1..Len(s))
  BY <1>1, FS_Interval
<1>3. IsFiniteSet(Failing(s))
  BY <1>1, <1>2, FS_Subset
<1>4. Cardinality(Failing(s)) \in Nat /\ (Cardinality(Failing(s)) = 0 <=> Failing(s) = {})
  BY <1>3, FS_CardinalityType, FS_EmptySet
<1>5. \A i \in 1..Len(s) : s[i].sig \in Sig
  <2>1. \A i \in 1..Len(s) : s[i] \in Result
    OBVIOUS
  <2> QED
    BY <2>1 DEF Result
<1>6. Signatures(s) \subseteq Sig
  BY <1>1, <1>5 DEF Signatures
<1>7. IsFiniteSet(Signatures(s))
  <2> DEFINE f == [i \in Failing(s) |-> s[i].sig]
  <2>1. f \in Surjection(Failing(s), Signatures(s))
    BY DEF Surjection, Signatures
  <2> HIDE DEF f
  <2> QED
    BY <1>3, <2>1, FS_Surjection
<1>8. Signatures(s) = {} <=> Failing(s) = {}
  BY DEF Signatures
<1> QED
  BY <1>1, <1>3, <1>4, <1>6, <1>7, <1>8

\* A failure is stable when every failing execution has the same signature.
LEMMA StableMeansOneSignature ==
  ASSUME NEW s \in Seq(Result)
  PROVE  StableFailure(s) <=> Cardinality(Signatures(s)) = 1
<1>1. \A i \in Failing(s) : s[i].sig \in Sig
  BY FailingFinite DEF Signatures
<1>2. Cardinality(Signatures(s)) = 1 <=> \E g : Signatures(s) = {g}
  BY FailingFinite, FS_Singleton
<1>3. ASSUME StableFailure(s) PROVE \E g : Signatures(s) = {g}
  <2>1. PICK g \in Sig : FailingAs(s, g) = Failing(s) /\ Failing(s) # {}
    BY <1>3 DEF StableFailure
  <2>2. \A i \in Failing(s) : s[i].sig = g
    BY <2>1 DEF FailingAs
  <2>3. Signatures(s) = {g}
    BY <2>1, <2>2 DEF Signatures
  <2> QED
    BY <2>3
<1>4. ASSUME NEW g, Signatures(s) = {g} PROVE StableFailure(s)
  <2>1. Failing(s) # {} /\ \A i \in Failing(s) : s[i].sig = g
    BY <1>4 DEF Signatures
  <2>2. g \in Sig
    BY <1>1, <2>1
  <2>3. FailingAs(s, g) = Failing(s)
    BY <2>1 DEF FailingAs
  <2> QED
    BY <2>1, <2>2, <2>3 DEF StableFailure
<1> QED
  BY <1>2, <1>3, <1>4

LEMMA ReproducibleMeans ==
  ASSUME NEW s \in Seq(Result)
  PROVE  ReproducibleFailure(s) <=>
           /\ Cardinality(Signatures(s)) = 1
           /\ \/ Cardinality(Failing(s)) >= 2
              \/ Cardinality(Failing(s)) = 1 /\ Len(s) = 1
<1>1. Len(s) = 1 /\ Failing(s) # {} => Cardinality(Failing(s)) = 1
  <2> SUFFICES ASSUME Len(s) = 1, Failing(s) # {} PROVE Cardinality(Failing(s)) = 1
    OBVIOUS
  <2>1. Failing(s) \subseteq 1..1
    BY FailingFinite
  <2>2. \A i \in Failing(s) : i = 1
    BY <2>1
  <2>3. Failing(s) = {1}
    BY <2>2
  <2> QED
    BY <2>3, FS_Singleton
<1>2. Cardinality(Signatures(s)) = 1 => Failing(s) # {}
  BY StableMeansOneSignature DEF StableFailure
<1> QED
  BY <1>1, <1>2, StableMeansOneSignature DEF ReproducibleFailure

\* Outranking is a strict order, so fewer signatures are above a higher one.
LEMMA AboveShrinks ==
  ASSUME NEW s \in Seq(Result), NEW g \in Signatures(s), NEW h \in Above(s, g)
  PROVE  Above(s, h) \subseteq Above(s, g) /\ Above(s, h) # Above(s, g)
<1> DEFINE n(k) == Cardinality(FailingAs(s, k))
<1>1. \A k : FailingAs(s, k) \subseteq 1..Len(s) /\ n(k) \in Nat
  <2> SUFFICES ASSUME NEW k PROVE FailingAs(s, k) \subseteq 1..Len(s) /\ n(k) \in Nat
    OBVIOUS
  <2>1. FailingAs(s, k) \subseteq Failing(s)
    BY DEF FailingAs
  <2> QED
    BY <2>1, FailingFinite, FS_Subset, FS_CardinalityType
<1>2. \A k, l : Outranks(s, k, l) <=>
        \/ n(k) > n(l)
        \/ n(k) = n(l) /\ \E i \in FailingAs(s, k) : \A j \in FailingAs(s, l) : i < j
  BY DEF Outranks
<1>3. Len(s) \in Nat
  OBVIOUS
<1> HIDE DEF n
<1>4. ~Outranks(s, h, h)
  BY <1>1, <1>2, <1>3
<1>5. ASSUME NEW k, Outranks(s, k, h), Outranks(s, h, g) PROVE Outranks(s, k, g)
  <2>1. CASE n(k) > n(h) \/ n(h) > n(g)
    BY <1>1, <1>2, <1>5, <2>1
  <2>2. CASE n(k) = n(h) /\ n(h) = n(g)
    <3>1. n(k) \in Nat
      BY <1>1
    <3>2. PICK i \in FailingAs(s, k) : \A j \in FailingAs(s, h) : i < j
      BY <1>2, <1>5, <2>2, <3>1
    <3>3. PICK j \in FailingAs(s, h) : \A l \in FailingAs(s, g) : j < l
      BY <1>2, <1>5, <2>2, <3>1
    <3>4. i < j /\ i \in Int /\ j \in Int /\ \A l \in FailingAs(s, g) : l \in Int /\ j < l
      BY <1>1, <1>3, <3>2, <3>3
    <3>5. \A l \in FailingAs(s, g) : i < l
      BY <3>4
    <3> QED
      BY <1>2, <2>2, <3>5
  <2> QED
    BY <1>1, <1>2, <1>5, <2>1, <2>2
<1>6. h \in Signatures(s) /\ Outranks(s, h, g)
  BY DEF Above
<1> QED
  BY <1>4, <1>5, <1>6 DEF Above

\* Among any signatures of a series, one is below none of them.
LEMMA TopSignature ==
  ASSUME NEW s \in Seq(Result), NEW T \in SUBSET Signatures(s), T # {}
  PROVE  \E g \in T : Above(s, g) \cap T = {}
<1> DEFINE S == Signatures(s)
           A == {Above(s, g) : g \in T}
<1>1. IsFiniteSet(S)
  BY FailingFinite
<1>2. IsWellFoundedOn(StrictSubsetOrdering(S), SUBSET S)
  BY <1>1, FS_StrictSubsetOrderingWellFounded, FS_FiniteSubsetsOfFinite
<1>3. A \subseteq SUBSET S /\ A # {}
  BY DEF Above
<1>4. \E x \in A : \A y \in A : <<y, x>> \notin StrictSubsetOrdering(S)
  <2> HIDE DEF A, S
  <2> QED
    BY <1>2, <1>3, WFMin
<1>5. PICK g \in T : \A y \in A : <<y, Above(s, g)>> \notin StrictSubsetOrdering(S)
  BY <1>4
<1>6. ASSUME NEW h \in Above(s, g) \cap T PROVE FALSE
  <2>1. Above(s, h) \subseteq Above(s, g) /\ Above(s, h) # Above(s, g)
    BY AboveShrinks
  <2>2. Above(s, h) \in A /\ Above(s, h) \in SUBSET S /\ Above(s, g) \in SUBSET S
    BY DEF Above
  <2>3. <<Above(s, h), Above(s, g)>> \in StrictSubsetOrdering(S)
    BY <2>1, <2>2 DEF StrictSubsetOrdering
  <2> QED
    BY <1>5, <2>2, <2>3
<1> QED
  BY <1>6

\* What a summary keeps of the signatures: some, at least two of two or more, and all
\* of them if there are no more than it can keep.
LEMMA KeptFacts ==
  ASSUME NEW s \in Seq(Result)
  PROVE  /\ Kept(s) \subseteq Signatures(s)
         /\ Signatures(s) # {} => Kept(s) # {}
         /\ \A g : Kept(s) \subseteq {g} => Signatures(s) \subseteq {g}
         /\ Cardinality(Signatures(s)) <= MaxSignatures => Kept(s) = Signatures(s)
<1>1. /\ IsFiniteSet(Signatures(s)) /\ Cardinality(Signatures(s)) \in Nat
      /\ MaxSignatures \in Nat /\ MaxSignatures >= 2
  BY FailingFinite, FS_CardinalityType, SigAssumption
<1>2. Kept(s) \subseteq Signatures(s)
  BY DEF Kept
<1>3. ASSUME NEW g \in Signatures(s), NEW h, Above(s, g) \subseteq {h}
      PROVE  g \in Kept(s)
  <2>1. Above(s, g) = {} \/ Above(s, g) = {h}
    BY <1>3
  <2>2. Cardinality({}) = 0 /\ Cardinality({h}) = 1
    BY FS_EmptySet, FS_Singleton
  <2>3. Cardinality(Above(s, g)) = 0 \/ Cardinality(Above(s, g)) = 1
    BY <2>1, <2>2
  <2>4. Cardinality(Above(s, g)) < MaxSignatures
    BY <1>1, <2>3
  <2> QED
    BY <2>4 DEF Kept
<1>4. ASSUME Signatures(s) # {} PROVE \E g \in Kept(s) : Above(s, g) = {}
  <2>1. PICK g \in Signatures(s) : Above(s, g) \cap Signatures(s) = {}
    BY <1>4, TopSignature
  <2>2. Above(s, g) = {}
    BY <2>1 DEF Above
  <2> QED
    BY <1>3, <2>2, Zenon
<1>5. ASSUME NEW g, Kept(s) \subseteq {g}, ~(Signatures(s) \subseteq {g}) PROVE FALSE
  <2> DEFINE T == Signatures(s) \ {g}
  <2>1. PICK h \in T : Above(s, h) \cap T = {}
    BY <1>5, TopSignature
  <2>2. Above(s, h) \subseteq {g}
    BY <2>1 DEF Above
  <2>3. h \in Kept(s)
    BY <1>3, <2>2
  <2> QED
    BY <1>5, <2>3
<1>6. ASSUME Cardinality(Signatures(s)) <= MaxSignatures, NEW g \in Signatures(s)
      PROVE  g \in Kept(s)
  <2>1. g \notin Above(s, g)
    BY AboveShrinks
  <2>2. Above(s, g) \subseteq Signatures(s) /\ Above(s, g) # Signatures(s)
    BY <2>1 DEF Above
  <2>3. /\ Cardinality(Above(s, g)) <= Cardinality(Signatures(s))
        /\ Cardinality(Above(s, g)) # Cardinality(Signatures(s))
        /\ Cardinality(Above(s, g)) \in Nat
    BY <1>1, <2>2, FS_Subset, FS_CardinalityType
  <2>4. Cardinality(Above(s, g)) < MaxSignatures
    BY <1>1, <1>6, <2>3
  <2> QED
    BY <2>4 DEF Kept
<1> QED
  BY <1>2, <1>4, <1>5, <1>6

LEMMA SummaryFacts ==
  ASSUME NEW c, NEW s \in Seq(Result)
  PROVE  LET sum == Summarize(c, s) IN
         /\ sum.cmd = IF Len(s) = 0 THEN NoCmd ELSE c
         /\ sum.failures = 0 <=> Signatures(s) = {}
         /\ sum.sigs = Kept(s)
         /\ sum.stable <=> Cardinality(Signatures(s)) = 1
         /\ sum.reproducible <=> ReproducibleFailure(s)
         /\ sum.reproducible => Signatures(s) # {}
<1>1. s = <<>> <=> Len(s) = 0
  OBVIOUS
<1>2. ReproducibleFailure(s) => Failing(s) # {}
  BY DEF ReproducibleFailure, StableFailure
<1> QED
  BY <1>1, <1>2, FailingFinite, StableMeansOneSignature DEF Summarize

\* A verdict says what happened, in terms of the executions.
LEMMA VerdictMeans ==
  ASSUME NEW c \in Cmd, NEW d \in Cmd, NEW s \in Seq(Result), NEW r \in Seq(Result),
         Len(s) > 0, Len(r) > 0
  PROVE  LET old == Signatures(s)
             new == Signatures(r)
             v   == CompareSignatures(Summarize(c, s), Summarize(d, r))
             allKept == Cardinality(old) <= MaxSignatures /\ Cardinality(new) <= MaxSignatures
         IN /\ v \in Transition \ {"unknown", "not-run"}
            /\ v = "unbound" <=> c # d \/ old = {}
            /\ v = "resolved" <=> c = d /\ old # {} /\ new = {}
            /\ v = "same-failure" <=> c = d /\ old = new /\ Cardinality(old) = 1
            /\ v = "mixed-failure" => old \cap new # {}
            /\ v = "different-failure" /\ allKept => old \cap new = {}
<1> DEFINE old == Signatures(s)
           new == Signatures(r)
           kold == Kept(s)
           knew == Kept(r)
           before == Summarize(c, s)
           after == Summarize(d, r)
           v == CompareSignatures(before, after)
           allKept == Cardinality(old) <= MaxSignatures /\ Cardinality(new) <= MaxSignatures
<1>1. /\ before.cmd = c /\ (before.failures = 0 <=> old = {}) /\ before.sigs = kold
      /\ before.stable <=> Cardinality(old) = 1
  BY SummaryFacts
<1>2. after.cmd = d /\ (after.failures = 0 <=> new = {}) /\ after.sigs = knew
  BY SummaryFacts
<1>3. Cardinality(old) = 1 <=> \E g : old = {g}
  BY FailingFinite, FS_Singleton
<1>4. SameCommand(before, after) <=> c = d
  BY <1>1, <1>2 DEF SameCommand
<1>5. /\ kold \subseteq old /\ (old # {} => kold # {}) /\ (allKept => kold = old)
      /\ knew \subseteq new /\ (new # {} => knew # {}) /\ (allKept => knew = new)
      /\ \A g : knew \subseteq {g} => new \subseteq {g}
  BY KeptFacts
<1> HIDE DEF before, after, old, new, kold, knew, allKept
<1>6. v = IF old = {} \/ c # d THEN "unbound"
          ELSE IF new = {} THEN "resolved"
          ELSE IF knew \subseteq kold /\ Cardinality(old) = 1 THEN "same-failure"
          ELSE IF knew \cap kold = {} THEN "different-failure"
          ELSE "mixed-failure"
  BY <1>1, <1>2, <1>4, <1>5 DEF CompareSignatures
<1>7. new # {} => (knew \subseteq kold /\ Cardinality(old) = 1
                     <=> old = new /\ Cardinality(old) = 1)
  <2> SUFFICES ASSUME new # {}, NEW g, old = {g} PROVE knew \subseteq kold <=> old = new
    BY <1>3
  <2>1. ASSUME knew \subseteq kold PROVE old = new
    <3>1. knew \subseteq {g}
      BY <1>5, <2>1
    <3>2. new \subseteq {g}
      BY <1>5, <3>1
    <3> QED
      BY <3>2
  <2>2. ASSUME old = new PROVE knew \subseteq kold
    <3>1. knew \subseteq {g} /\ kold = {g}
      BY <1>5, <2>2
    <3> QED
      BY <3>1
  <2> QED
    BY <2>1, <2>2
<1>8. old # {} /\ Cardinality(old) = 1 /\ old = new => new # {}
  OBVIOUS
<1>9. Cardinality(old) = 1 => old # {}
  BY <1>3
<1> HIDE DEF v
<1>10. /\ v \in Transition \ {"unknown", "not-run"}
       /\ v = "unbound" <=> c # d \/ old = {}
       /\ v = "resolved" <=> c = d /\ old # {} /\ new = {}
       /\ v = "same-failure" <=> c = d /\ old = new /\ Cardinality(old) = 1
  BY <1>6, <1>7, <1>8, <1>9 DEF Transition
<1>11. v = "mixed-failure" => old \cap new # {}
  BY <1>5, <1>6
<1>12. v = "different-failure" /\ allKept => old \cap new = {}
  BY <1>5, <1>6
<1> QED
  BY <1>10, <1>11, <1>12 DEF v, old, new, before, after, allKept

-------------------------------------------------------------------------------
(* The inductive invariant                                                 *)

SeriesHold ==
  /\ phase # "baseline" => Len(results["baseline"]) = count["baseline"]
  /\ phase = "judged" =>
       /\ Len(results["post"]) = count["post"]
       /\ verdict = CompareSignatures(SummaryOf("baseline"), SummaryOf("post"))
  /\ use # "explicit" => \A k \in Series : command[k] = Command

Accepted == {"bad", "fixed", "core", "series", "observe", "analyze", "variant", "record",
             "cleanup"}
Ran == {"bad", "fixed", "core", "series", "observe", "analyze", "variant"}
Going == {"next", "fetch"} \cup Accepted
StartsWith(k) == IF k = "baseline" THEN {} ELSE Debris \ Cleaned
CommitOf(k) == IF k = "baseline" THEN Bad[Item] ELSE Fixed[Item]

PlaceHolds ==
  /\ step = "explicit" <=> use = "explicit"
  /\ step \in (Going \ {"next"}) \cup {"caught"} => at <= Len(corpus)
  /\ step \in {"next", "done", "failed"} => ~temp
  /\ step \in {"fetch", "bad"} =>
       phase = "baseline" /\ debris = {} /\ \A k \in Series : results[k] = <<>>
  /\ step = "fixed" => phase = "post" /\ results["post"] = <<>>
  /\ step \in {"core", "series"} =>
       /\ phase \in Series /\ tree = CommitOf(phase)
       /\ phase = "baseline" => results["post"] = <<>>
  /\ step = "core" => results[phase] = <<>> /\ debris \subseteq StartsWith(phase)
  /\ step = "series" =>
       core = PinOf[tree] /\ (results[phase] = <<>> => debris \subseteq StartsWith(phase))
  /\ step \in {"fixed", "core", "series"} /\ phase = "post" =>
       SummaryOf("baseline").reproducible
  /\ step \in Accepted => DirectChild(Item)
  /\ step \in Ran => use # "provenance"
  /\ step \in {"observe", "analyze", "variant"} => use = "live" /\ tree = Fixed[Item]
  /\ step \in {"observe", "analyze", "variant", "record", "cleanup"} /\ use # "provenance" =>
       verdict = "resolved"
  /\ step = "variant" => Item \in WithVariant
  /\ step \notin Ended => written < FilesOf(use)
  /\ written > 0 => step \in {"next", "done", "killed"} /\ AllDone

Listed(n) == {corpus[i] : i \in 1..n}
ViewsOf(cases) == (cases \X {"observed"}) \cup ((cases \cap WithVariant) \X {"projected"})
\* How many cases are recorded, and how many the model has seen in full
Recorded == IF step = "cleanup" THEN at ELSE at - 1
Viewed == IF step \in {"record", "cleanup"} THEN at ELSE at - 1

LoopHolds ==
  /\ use # "provenance" => \A p \in pairs : p.transition = "resolved"
  /\ step \in Going =>
       /\ {p.case : p \in pairs} = Listed(Recorded)
       /\ \A c \in Listed(Recorded) : DirectChild(c)
       /\ use = "live" => views = ViewsOf(Listed(Viewed))
                                    \cup (IF step = "variant" THEN {<<Item, "observed">>} ELSE {})
  /\ OutputIsComplete

HInv == HTypeOK /\ SeriesHold /\ PlaceHolds /\ LoopHolds

-------------------------------------------------------------------------------
(* Types                                                                   *)

LEMMA ClampBounds == ASSUME NEW n \in Nat PROVE ClampRuns(n) \in 1..MaxSeries
BY DEF ClampRuns, MaxSeries

LEMMA VerdictType == ASSUME NEW a, NEW b PROVE CompareSignatures(a, b) \in Transition
BY DEF CompareSignatures, Transition

\* The series themselves, whoever runs them
LEMMA SeriesTypes == TypeOK /\ Next => TypeOK'
<1> SUFFICES ASSUME TypeOK, Next PROVE TypeOK'
  OBVIOUS
<1>1. CASE EndBaseline
  BY <1>1 DEF EndBaseline, TypeOK, Series
<1>2. CASE EndPost
  BY <1>2, VerdictType DEF EndPost, TypeOK
<1>3. ASSUME NEW k \in Series, RunOnce(k) PROVE TypeOK'
  <2>1. PICK r \in Result : results' = [results EXCEPT ![k] = Append(@, r)]
    BY <1>3 DEF RunOnce
  <2>2. results[k] \in Seq(Result)
    BY DEF TypeOK
  <2>3. Append(results[k], r) \in Seq(Result)
    BY <2>2
  <2>4. results' \in [Series -> Seq(Result)]
    BY <2>1, <2>3 DEF TypeOK
  <2> QED
    BY <1>3, <2>4 DEF RunOnce, TypeOK
<1> QED
  BY <1>1, <1>2, <1>3 DEF Next

LEMMA TheItem ==
  ASSUME HTypeOK, at <= Len(corpus)
  PROVE  Item \in Case /\ at \in DOMAIN corpus
<1>1. corpus \in Seq(Case)
  BY HistoryConstants DEF HTypeOK
<1>2. at \in 1..Len(corpus)
  BY <1>1 DEF HTypeOK
<1> QED
  BY <1>1, <1>2 DEF Item

LEMMA CorpusFacts ==
  ASSUME HTypeOK
  PROVE  corpus \in Seq(Case) /\ Len(corpus) \in Nat /\ at \in Nat \ {0}
BY HistoryConstants DEF HTypeOK

LEMMA InitTypes == HInit => HTypeOK
<1> SUFFICES ASSUME HInit PROVE HTypeOK
  OBVIOUS
<1>1. PICK n \in [Series -> Requests] : count = [k \in Series |-> ClampRuns(n[k])]
  BY DEF HInit, Init
<1>2. \A k \in Series : ClampRuns(n[k]) \in 1..MaxSeries
  BY ClampBounds, RequestsAssumption
<1>3. <<>> \in Seq(Result) /\ <<>> \in Seq(Case)
  OBVIOUS
<1>4. TypeOK
  <2>1. phase \in Series \cup {"judged"} /\ verdict \in Transition
    BY DEF HInit, Init, Series, Transition
  <2>2. command \in [Series -> Cmd]
    BY DEF HInit, Init
  <2>3. count \in [Series -> 1..MaxSeries]
    BY <1>1, <1>2
  <2>4. results \in [Series -> Seq(Result)]
    BY <1>3 DEF HInit, Init
  <2> QED
    BY <2>1, <2>2, <2>3, <2>4 DEF TypeOK
<1>5. corpus \in Seq(Case) /\ Len(corpus) \in Nat
  BY HistoryConstants DEF HInit
<1>6. at \in 1..(Len(corpus) + 1)
  BY <1>5 DEF HInit
<1>7. use \in Uses /\ step \in Steps /\ corpus \in Corpora
  BY DEF HInit, Steps
<1>8. /\ temp \in BOOLEAN /\ debris \subseteq Debris
      /\ tree \in Commit \cup {NoCommit} /\ core \in Pin \cup {NoPin}
      /\ views \subseteq Case \X {"observed", "projected"}
      /\ pairs \subseteq [case: Case, transition: Transition] /\ written \in 0..3
  <2>1. temp = FALSE /\ debris = {}
    BY DEF HInit
  <2>2. tree = NoCommit /\ core = NoPin /\ views = {} /\ pairs = {} /\ written = 0
    BY DEF HInit
  <2>3. temp \in BOOLEAN /\ debris \subseteq Debris
    BY <2>1, Zenon
  <2>4. written \in 0..3
    BY <2>2
  <2> QED
    BY <2>2, <2>3, <2>4
<1>9. observed \in Seq(Result)
  BY <1>3 DEF HInit
<1> QED
  BY <1>4, <1>6, <1>7, <1>8, <1>9 DEF HTypeOK

LEMMA ScriptTypes ==
  ASSUME HTypeOK, PlaceHolds, ScriptStep
  PROVE  HTypeOK'
<1> USE DEF Goto, clone, record, vars
<1>1. CASE MakeTemp
  <2>1. <<>> \in Seq(Result)
    OBVIOUS
  <2>2. results' \in [Series -> Seq(Result)]
    BY <1>1, <2>1 DEF MakeTemp
  <2>3. TypeOK'
    BY <1>1, <2>2 DEF MakeTemp, HTypeOK, TypeOK, Series, Transition
  <2> QED
    BY <1>1, <2>1, <2>3 DEF MakeTemp, HTypeOK, Steps
<1>2. CASE FetchAndCheck
  <2>1. TypeOK'
    BY <1>2 DEF FetchAndCheck, HTypeOK, TypeOK
  <2> QED
    BY <1>2, <2>1 DEF FetchAndCheck, HTypeOK, Steps
<1>3. CASE CheckOut
  <2>1. TypeOK'
    BY <1>3 DEF CheckOut, HTypeOK, TypeOK
  <2>2. at <= Len(corpus)
    BY <1>3 DEF CheckOut, PlaceHolds, Going, Accepted
  <2>3. Item \in Case
    BY <2>2, TheItem
  <2>4. tree' \in Commit
    BY <1>3, <2>3, HistoryConstants DEF CheckOut
  <2> QED
    BY <1>3, <2>1, <2>4 DEF CheckOut, HTypeOK, Steps
<1>4. CASE InstallCore
  <2>1. TypeOK'
    BY <1>4 DEF InstallCore, HTypeOK, TypeOK
  <2>2. at <= Len(corpus) /\ tree = CommitOf(phase)
    BY <1>4 DEF InstallCore, PlaceHolds, Going, Accepted
  <2>3. Item \in Case
    BY <2>2, TheItem
  <2>4. tree \in Commit
    BY <2>2, <2>3, HistoryConstants DEF CommitOf
  <2>5. core' \in Pin \cup {NoPin}
    BY <1>4, <2>4, HistoryConstants DEF InstallCore, PinFor
  <2> QED
    BY <1>4, <2>1, <2>5 DEF InstallCore, HTypeOK, Steps
<1>5. CASE RunHere
  <2>1. TypeOK'
    BY <1>5, SeriesTypes DEF RunHere, Next, HTypeOK
  <2> QED
    BY <1>5, <2>1 DEF RunHere, HTypeOK, Steps
<1>6. CASE EndBad
  <2>1. TypeOK'
    BY <1>6, SeriesTypes DEF EndBad, Next, HTypeOK
  <2> QED
    BY <1>6, <2>1 DEF EndBad, HTypeOK, Steps
<1>7. CASE EndFixed
  <2>1. TypeOK'
    BY <1>7, SeriesTypes DEF EndFixed, Next, HTypeOK
  <2> QED
    BY <1>7, <2>1 DEF EndFixed, HTypeOK, Steps
<1>8. CASE Observe
  <2>1. TypeOK'
    BY <1>8 DEF Observe, HTypeOK, TypeOK
  <2>2. at <= Len(corpus) /\ tree' = tree
    BY <1>8 DEF Observe, PlaceHolds, Going, Accepted
  <2>3. observed' \in Seq(Result)
    <3>1. PICK r \in Outcome[tree] : observed' = Append(observed, r)
      BY <1>8 DEF Observe
    <3>2. tree \in Commit
      BY <1>8, <2>2, TheItem, HistoryConstants DEF Observe, PlaceHolds
    <3>3. r \in Result
      BY <3>1, <3>2, HistoryConstants
    <3> QED
      BY <3>1, <3>3 DEF HTypeOK
  <2> QED
    BY <1>8, <2>1, <2>3 DEF Observe, HTypeOK, Steps
<1>9. CASE EndObserve
  <2>1. TypeOK'
    BY <1>9 DEF EndObserve, HTypeOK, TypeOK
  <2> QED
    BY <1>9, <2>1 DEF EndObserve, HTypeOK, Steps
<1>10. CASE Analyze \/ AnalyzeVariant
  <2>1. TypeOK'
    BY <1>10 DEF Analyze, AnalyzeVariant, HTypeOK, TypeOK
  <2>2. at <= Len(corpus)
    BY <1>10 DEF Analyze, AnalyzeVariant, PlaceHolds, Going, Accepted
  <2>3. Item \in Case
    BY <2>2, TheItem
  <2>4. views' \subseteq Case \X {"observed", "projected"}
    BY <1>10, <2>3 DEF Analyze, AnalyzeVariant, HTypeOK
  <2> QED
    BY <1>10, <2>1, <2>4 DEF Analyze, AnalyzeVariant, HTypeOK, Steps
<1>11. CASE Record
  <2>1. TypeOK'
    BY <1>11 DEF Record, HTypeOK, TypeOK
  <2>2. at <= Len(corpus)
    BY <1>11 DEF Record, PlaceHolds, Going, Accepted
  <2>3. Item \in Case
    BY <2>2, TheItem
  <2>4. pairs' \subseteq [case: Case, transition: Transition]
    BY <1>11, <2>3 DEF Record, HTypeOK, TypeOK
  <2> QED
    BY <1>11, <2>1, <2>4 DEF Record, HTypeOK, Steps
<1>12. CASE CleanUp
  <2>1. TypeOK'
    BY <1>12 DEF CleanUp, HTypeOK, TypeOK
  <2>2. at <= Len(corpus)
    BY <1>12 DEF CleanUp, PlaceHolds, Going, Accepted
  <2>3. at' \in 1..(Len(corpus) + 1) /\ temp' \in BOOLEAN
    BY <1>12, <2>2, CorpusFacts DEF CleanUp, RemoveIt, HTypeOK
  <2> QED
    BY <1>12, <2>1, <2>3 DEF CleanUp, HTypeOK, Steps, Ended
<1>13. CASE WriteFile
  <2>1. TypeOK'
    BY <1>13 DEF WriteFile, HTypeOK, TypeOK
  <2>2. written' \in 0..3
    BY <1>13 DEF WriteFile, PlaceHolds, FilesOf, HTypeOK, Ended
  <2>3. step' \in Steps
    BY <1>13 DEF WriteFile, HTypeOK, Steps, Ended
  <2> QED
    BY <1>13, <2>1, <2>2, <2>3 DEF WriteFile, HTypeOK
<1> QED
  BY <1>1, <1>2, <1>3, <1>4, <1>5, <1>6, <1>7, <1>8, <1>9, <1>10, <1>11, <1>12, <1>13
  DEF ScriptStep

LEMMA NextTypes == HTypeOK /\ PlaceHolds /\ [HNext]_allvars => HTypeOK'
<1> SUFFICES ASSUME HTypeOK, PlaceHolds, [HNext]_allvars PROVE HTypeOK'
  OBVIOUS
<1>1. CASE UNCHANGED allvars
  BY <1>1 DEF allvars, vars, hvars, clone, record, HTypeOK, TypeOK
<1>2. CASE ControllerPair
  <2>1. TypeOK'
    BY <1>2, SeriesTypes DEF ControllerPair, HTypeOK
  <2> QED
    BY <1>2, <2>1 DEF ControllerPair, HTypeOK, hvars, clone, record
<1>3. CASE Fail \/ Kill
  <2>1. TypeOK'
    BY <1>3 DEF Fail, Kill, vars, HTypeOK, TypeOK
  <2> QED
    BY <1>3, <2>1 DEF Fail, Kill, GiveUp, Goto, clone, record, HTypeOK, Steps, Ended
<1> QED
  BY <1>1, <1>2, <1>3, ScriptTypes DEF HNext

-------------------------------------------------------------------------------
(* The series                                                              *)

\* Whoever runs the series, a step of theirs keeps SeriesHold.
LEMMA SeriesStepHolds ==
  ASSUME TypeOK, SeriesHold, Next, use' = use
  PROVE  SeriesHold'
<1>1. CASE EndBaseline
  BY <1>1 DEF EndBaseline, SeriesHold
<1>2. CASE EndPost
  <2>1. /\ phase = "post" /\ Len(results["post"]) = count["post"]
        /\ verdict' = CompareSignatures(SummaryOf("baseline"), SummaryOf("post"))
        /\ UNCHANGED <<command, count, results>>
    BY <1>2 DEF EndPost
  <2>2. SummaryOf("baseline")' = SummaryOf("baseline") /\ SummaryOf("post")' = SummaryOf("post")
    BY <2>1 DEF SummaryOf
  <2> QED
    BY <2>1, <2>2 DEF SeriesHold
<1>3. ASSUME NEW k \in Series, RunOnce(k) PROVE SeriesHold'
  <2>1. /\ phase' = phase /\ phase = k /\ k \in {"baseline", "post"}
        /\ UNCHANGED <<command, count>>
        /\ \A j \in Series : j # k => results'[j] = results[j]
    BY <1>3 DEF RunOnce, TypeOK, Series
  <2>2. k = "post" => results'["baseline"] = results["baseline"]
    BY <2>1 DEF Series
  <2> QED
    BY <2>1, <2>2 DEF SeriesHold
<1> QED
  BY <1>1, <1>2, <1>3 DEF Next

LEMMA NextSeries == HTypeOK /\ SeriesHold /\ [HNext]_allvars => SeriesHold'
<1> SUFFICES ASSUME HTypeOK, SeriesHold, [HNext]_allvars PROVE SeriesHold'
  OBVIOUS
<1>1. CASE UNCHANGED <<vars, use>>
  BY <1>1 DEF vars, SeriesHold, SummaryOf
<1>2. CASE ControllerPair
  BY <1>2, SeriesStepHolds DEF ControllerPair, hvars, HTypeOK
<1>3. CASE MakeTemp
  BY <1>3 DEF MakeTemp, SeriesHold
<1>4. CASE RunHere \/ EndBad \/ EndFixed
  <2>1. Next /\ use' = use
    BY <1>4 DEF RunHere, EndBad, EndFixed, Next
  <2> QED
    BY <2>1, SeriesStepHolds DEF HTypeOK
<1>5. \/ UNCHANGED <<vars, use>>
      \/ ControllerPair \/ MakeTemp \/ RunHere \/ EndBad \/ EndFixed
  BY DEF HNext, ScriptStep, Fail, Kill, FetchAndCheck, CheckOut, InstallCore, Observe,
         EndObserve, Analyze, AnalyzeVariant, Record, CleanUp, WriteFile, allvars, hvars
<1> QED
  BY <1>1, <1>2, <1>3, <1>4, <1>5

LEMMA InitSeries == HInit => SeriesHold
BY DEF HInit, Init, SeriesHold, Series

-------------------------------------------------------------------------------
(* The place                                                               *)

LEMMA InitPlace == HInit => PlaceHolds
BY DEF HInit, PlaceHolds, Going, Accepted, Ran, Ended, FilesOf

\* A series that ended had at least one execution.
LEMMA EndedSeries ==
  ASSUME TypeOK, NEW k \in Series, Len(results[k]) = count[k]
  PROVE  results[k] \in Seq(Result) /\ Len(results[k]) > 0
<1>1. results[k] \in Seq(Result)
  BY DEF TypeOK
<1>2. count[k] \in 1..20
  BY DEF TypeOK, MaxSeries
<1> QED
  BY <1>1, <1>2

\* A pair with a reproducible failure before and none after is resolved.
LEMMA Resolves ==
  ASSUME HTypeOK, SeriesHold, phase = "post", use # "explicit",
         Len(results["post"]) = count["post"],
         SummaryOf("baseline").reproducible, SummaryOf("post").failures = 0
  PROVE  CompareSignatures(SummaryOf("baseline"), SummaryOf("post")) = "resolved"
<1>1. /\ results["baseline"] \in Seq(Result) /\ Len(results["baseline"]) > 0
      /\ results["post"] \in Seq(Result) /\ Len(results["post"]) > 0
  BY EndedSeries DEF SeriesHold, Series, HTypeOK
<1>2. command["baseline"] = Command /\ command["post"] = Command /\ Command \in Cmd
  BY HistoryConstants DEF SeriesHold, Series
<1>3. Signatures(results["baseline"]) # {}
  BY <1>1, SummaryFacts DEF SummaryOf
<1>4. Signatures(results["post"]) = {}
  BY <1>1, SummaryFacts DEF SummaryOf
<1> DEFINE s == results["baseline"]
           r == results["post"]
           v == CompareSignatures(Summarize(Command, s), Summarize(Command, r))
<1> HIDE DEF s, r
<1>5. v = "resolved" <=> Command = Command /\ Signatures(s) # {} /\ Signatures(r) = {}
  <2>1. s \in Seq(Result) /\ r \in Seq(Result) /\ Len(s) > 0 /\ Len(r) > 0
    BY <1>1 DEF s, r
  <2> QED
    BY <1>2, <2>1, VerdictMeans
<1>6. v = "resolved"
  BY <1>3, <1>4, <1>5 DEF s, r
<1> QED
  BY <1>2, <1>6 DEF SummaryOf, s, r

LEMMA ScriptPlace ==
  ASSUME HTypeOK, SeriesHold, PlaceHolds, ScriptStep
  PROVE  PlaceHolds'
<1> USE DEF Goto, clone, record, vars
<1> USE DEF Going, Accepted, Ran, Ended
<1>1. CASE MakeTemp
  <2>1. at <= Len(corpus) /\ ~AllDone /\ step = "next"
    BY <1>1, CorpusFacts DEF MakeTemp, AllDone
  <2> QED
    BY <1>1, <2>1 DEF MakeTemp, PlaceHolds, AllDone, Series, FilesOf
<1>2. CASE FetchAndCheck
  BY <1>2 DEF FetchAndCheck, PlaceHolds, AllDone, Item, DirectChild, Series, FilesOf
<1>3. CASE CheckOut
  <2>1. step = "bad" => phase = "baseline" /\ debris = {}
    BY DEF PlaceHolds
  <2>2. step = "fixed" => phase = "post"
    BY DEF PlaceHolds
  <2>3. debris \subseteq Debris
    BY DEF HTypeOK
  <2>4. debris' \subseteq StartsWith(phase')
    BY <1>3, <2>1, <2>2, <2>3 DEF CheckOut, StartsWith
  <2> QED
    BY <1>3, <2>4 DEF CheckOut, PlaceHolds, AllDone, Item, DirectChild, Series, FilesOf,
                      CommitOf, SummaryOf
<1>4. CASE InstallCore
  BY <1>4 DEF InstallCore, PlaceHolds, PinFor, AllDone, Item, DirectChild, FilesOf,
              CommitOf, StartsWith, SummaryOf
<1>5. CASE RunHere
  <2>1. PICK k \in Series : RunOnce(k)
    BY <1>5 DEF RunHere
  <2>2. /\ phase' = phase /\ phase = k /\ UNCHANGED <<command, count, verdict>>
        /\ \A j \in Series : j # k => results'[j] = results[j]
        /\ results'[k] # <<>>
    <3>1. PICK r \in Result : results' = [results EXCEPT ![k] = Append(@, r)]
      BY <2>1 DEF RunOnce
    <3>2. results'[k] = Append(results[k], r) /\ results[k] \in Seq(Result)
      BY <3>1 DEF HTypeOK, TypeOK
    <3>3. results'[k] # <<>>
      BY <3>2
    <3> QED
      BY <2>1, <3>1, <3>3 DEF RunOnce, HTypeOK, TypeOK
  <2>3. phase = "post" => SummaryOf("baseline")' = SummaryOf("baseline")
    BY <2>2 DEF SummaryOf, Series
  <2>4. phase = "baseline" => results'["post"] = results["post"]
    BY <2>2 DEF Series
  <2> QED
    BY <1>5, <2>2, <2>3, <2>4 DEF RunHere, PlaceHolds, AllDone, Item, DirectChild, FilesOf, CommitOf, StartsWith
<1>6. CASE EndBad
  <2>1. SummaryOf("baseline")' = SummaryOf("baseline")
    BY <1>6 DEF EndBad, EndBaseline, SummaryOf
  <2> QED
    BY <1>6, <2>1 DEF EndBad, EndBaseline, PlaceHolds, AllDone, Item, DirectChild, FilesOf
<1>7. CASE EndFixed
  <2>1. SummaryOf("post").failures = 0 => verdict' = "resolved"
    BY <1>7, Resolves DEF EndFixed, EndPost, PlaceHolds
  <2>2. phase = "post" /\ tree = Fixed[Item]
    BY <1>7 DEF EndFixed, EndPost, PlaceHolds, CommitOf
  <2> QED
    BY <1>7, <2>1, <2>2 DEF EndFixed, EndPost, PlaceHolds, AllDone, Item, DirectChild, FilesOf
<1>8. CASE Observe \/ EndObserve
  BY <1>8 DEF Observe, EndObserve, PlaceHolds, AllDone, Item, DirectChild, FilesOf
<1>9. CASE Analyze \/ AnalyzeVariant
  BY <1>9 DEF Analyze, AnalyzeVariant, PlaceHolds, AllDone, Item, DirectChild, FilesOf
<1>10. CASE Record
  BY <1>10 DEF Record, PlaceHolds, AllDone, Item, DirectChild, FilesOf
<1>11. CASE CleanUp
  BY <1>11 DEF CleanUp, RemoveIt, PlaceHolds, AllDone, FilesOf
<1>12. CASE WriteFile
  BY <1>12 DEF WriteFile, PlaceHolds, AllDone, FilesOf, HTypeOK
<1> QED
  BY <1>1, <1>2, <1>3, <1>4, <1>5, <1>6, <1>7, <1>8, <1>9, <1>10, <1>11, <1>12
  DEF ScriptStep

LEMMA NextPlace == HTypeOK /\ SeriesHold /\ PlaceHolds /\ [HNext]_allvars => PlaceHolds'
<1> SUFFICES ASSUME HTypeOK, SeriesHold, PlaceHolds, [HNext]_allvars PROVE PlaceHolds'
  OBVIOUS
<1>1. CASE UNCHANGED allvars
  BY <1>1 DEF allvars, vars, hvars, clone, record, PlaceHolds, AllDone, Item, DirectChild,
              CommitOf, SummaryOf
<1>2. CASE ControllerPair
  BY <1>2 DEF ControllerPair, hvars, clone, record, PlaceHolds, AllDone, Going, Accepted, Ran,
              Ended
<1>3. CASE Fail
  BY <1>3 DEF Fail, GiveUp, Goto, vars, clone, record, PlaceHolds, AllDone, Going, Accepted,
              Ran, Ended
<1>4. CASE Kill
  BY <1>4 DEF Kill, Goto, vars, clone, record, PlaceHolds, AllDone, Going, Accepted, Ran, Ended
<1> QED
  BY <1>1, <1>2, <1>3, <1>4, ScriptPlace DEF HNext

-------------------------------------------------------------------------------
(* The loop                                                                *)

\* What LoopHolds says of the cases recorded and of the views answered
CasesHold ==
  step \in Going =>
    {p.case : p \in pairs} = Listed(Recorded) /\ \A c \in Listed(Recorded) : DirectChild(c)
ViewsHold ==
  step \in Going /\ use = "live" =>
    views = ViewsOf(Listed(Viewed))
              \cup (IF step = "variant" THEN {<<Item, "observed">>} ELSE {})

LEMMA LoopParts ==
  LoopHolds <=> /\ use # "provenance" => \A p \in pairs : p.transition = "resolved"
                /\ CasesHold /\ ViewsHold /\ OutputIsComplete
BY DEF LoopHolds, CasesHold, ViewsHold

LEMMA LoopPartsNext ==
  LoopHolds' <=> /\ use' # "provenance" => \A p \in pairs' : p.transition = "resolved"
                 /\ CasesHold' /\ ViewsHold' /\ OutputIsComplete'
BY DEF LoopHolds, CasesHold, ViewsHold

LEMMA ListedGrows ==
  ASSUME NEW n \in Nat \ {0}
  PROVE  Listed(n) = Listed(n - 1) \cup {corpus[n]}
<1>1. 1..n = (1..(n - 1)) \cup {n}
  OBVIOUS
<1> QED
  BY <1>1 DEF Listed

LEMMA ViewsGrow ==
  ASSUME NEW S, NEW c
  PROVE  ViewsOf(S \cup {c}) =
           ViewsOf(S) \cup {<<c, "observed">>}
             \cup (IF c \in WithVariant THEN {<<c, "projected">>} ELSE {})
<1>1. (S \cup {c}) \X {"observed"} = (S \X {"observed"}) \cup {<<c, "observed">>}
  OBVIOUS
<1>2. CASE c \in WithVariant
  <2>1. ((S \cup {c}) \cap WithVariant) \X {"projected"}
          = ((S \cap WithVariant) \X {"projected"}) \cup {<<c, "projected">>}
    BY <1>2
  <2> QED
    BY <1>1, <1>2, <2>1 DEF ViewsOf
<1>3. CASE c \notin WithVariant
  <2>1. (S \cup {c}) \cap WithVariant = S \cap WithVariant
    BY <1>3
  <2> QED
    BY <1>1, <1>3, <2>1 DEF ViewsOf
<1> QED
  BY <1>2, <1>3

\* A step that records nothing and has the model answer nothing
LEMMA NothingRecorded ==
  ASSUME LoopHolds, UNCHANGED <<use, corpus, at, pairs, views, written>>,
         step' \in Going =>
           /\ step \in Going \ {"variant", "record", "cleanup"}
           /\ step' \notin {"variant", "cleanup"}
           /\ step' = "record" => use # "live"
  PROVE  LoopHolds'
<1>1. CasesHold'
  BY LoopParts DEF CasesHold, Recorded, Listed, DirectChild
<1>2. ViewsHold'
  BY LoopParts DEF ViewsHold, Viewed, Listed, ViewsOf
<1>3. OutputIsComplete'
  BY LoopParts DEF OutputIsComplete
<1> QED
  BY <1>1, <1>2, <1>3, LoopParts, LoopPartsNext

LEMMA ScriptLoop ==
  ASSUME HTypeOK, SeriesHold, PlaceHolds, LoopHolds, ScriptStep
  PROVE  LoopHolds'
<1> USE DEF Goto, clone, record, vars
<1>1. CASE MakeTemp
  BY <1>1, NothingRecorded DEF MakeTemp, Going, Accepted
<1>2. CASE FetchAndCheck
  BY <1>2, NothingRecorded DEF FetchAndCheck, Going, Accepted
<1>3. CASE CheckOut
  BY <1>3, NothingRecorded DEF CheckOut, Going, Accepted
<1>4. CASE InstallCore
  BY <1>4, NothingRecorded DEF InstallCore, Going, Accepted
<1>5. CASE RunHere
  BY <1>5, NothingRecorded DEF RunHere, Going, Accepted
<1>6. CASE EndBad
  BY <1>6, NothingRecorded DEF EndBad, Going, Accepted
<1>7. CASE EndFixed
  BY <1>7, NothingRecorded DEF EndFixed, Going, Accepted
<1>8. CASE Observe
  BY <1>8, NothingRecorded DEF Observe, Going, Accepted
<1>9. CASE EndObserve
  BY <1>9, NothingRecorded DEF EndObserve, Going, Accepted
<1>10. ASSUME step \in Going \ {"next"} PROVE ~(written > 0)
  BY <1>10 DEF PlaceHolds, Going, Accepted
<1>11. at \in Nat \ {0} /\ Listed(at) = Listed(at - 1) \cup {Item}
  BY CorpusFacts, ListedGrows DEF Item
<1>12. ViewsOf(Listed(at)) = ViewsOf(Listed(at - 1)) \cup {<<Item, "observed">>}
         \cup (IF Item \in WithVariant THEN {<<Item, "projected">>} ELSE {})
  BY <1>11, ViewsGrow
<1>13. CASE Analyze
  <2>1. /\ step = "analyze" /\ views' = views \cup {<<Item, "observed">>}
        /\ step' = IF Item \in WithVariant THEN "variant" ELSE "record"
        /\ UNCHANGED <<use, corpus, at, pairs, written>>
    BY <1>13 DEF Analyze
  <2>2. CasesHold'
    BY <2>1, LoopParts DEF CasesHold, Recorded, Listed, DirectChild, Going, Accepted
  <2>3. use = "live" => views = ViewsOf(Listed(at - 1))
    BY <2>1, LoopParts DEF ViewsHold, Viewed, Going, Accepted
  <2>4. /\ Item' = Item /\ Viewed' = IF step' = "record" THEN at ELSE at - 1
        /\ \A n : Listed(n)' = Listed(n)
    BY <2>1 DEF Item, Viewed, Listed
  <2>5. use = "live" /\ Item \in WithVariant =>
          views' = ViewsOf(Listed(at - 1)) \cup {<<Item, "observed">>}
    BY <2>1, <2>3
  <2>6. use = "live" /\ Item \notin WithVariant => views' = ViewsOf(Listed(at))
    BY <2>1, <2>3, <1>12
  <2>7. ViewsHold'
    BY <2>1, <2>4, <2>5, <2>6 DEF ViewsHold, ViewsOf
  <2>8. OutputIsComplete'
    BY <2>1, <1>10 DEF OutputIsComplete, Going, Accepted
  <2> QED
    BY <2>1, <2>2, <2>7, <2>8, LoopParts, LoopPartsNext
<1>14. CASE AnalyzeVariant
  <2>1. /\ step = "variant" /\ views' = views \cup {<<Item, "projected">>}
        /\ step' = "record" /\ UNCHANGED <<use, corpus, at, pairs, written>>
    BY <1>14 DEF AnalyzeVariant
  <2>2. CasesHold'
    BY <2>1, LoopParts DEF CasesHold, Recorded, Listed, DirectChild, Going, Accepted
  <2>3. use = "live" => views = ViewsOf(Listed(at - 1)) \cup {<<Item, "observed">>}
    BY <2>1, LoopParts DEF ViewsHold, Viewed, Going, Accepted
  <2>4. Item \in WithVariant
    BY <2>1 DEF PlaceHolds
  <2>5. use = "live" => views' = ViewsOf(Listed(at))
    BY <2>1, <2>3, <2>4, <1>12
  <2>6. Viewed' = at /\ \A n : Listed(n)' = Listed(n)
    BY <2>1 DEF Viewed, Listed
  <2>7. ViewsHold'
    BY <2>1, <2>5, <2>6 DEF ViewsHold, ViewsOf
  <2>8. OutputIsComplete'
    BY <2>1, <1>10 DEF OutputIsComplete, Going, Accepted
  <2> QED
    BY <2>1, <2>2, <2>7, <2>8, LoopParts, LoopPartsNext
<1>15. CASE Record
  <2>1. /\ step = "record" /\ pairs' = pairs \cup {[case |-> Item, transition |-> verdict]}
        /\ step' = "cleanup" /\ UNCHANGED <<use, corpus, at, views, written>>
    BY <1>15 DEF Record
  <2>2. {p.case : p \in pairs} = Listed(at - 1) /\ \A c \in Listed(at - 1) : DirectChild(c)
    BY <2>1, LoopParts DEF CasesHold, Recorded, Going, Accepted
  <2>3. {p.case : p \in pairs'} = {p.case : p \in pairs} \cup {Item}
    <3> DEFINE new == [case |-> Item, transition |-> verdict]
    <3>1. new.case = Item
      OBVIOUS
    <3> HIDE DEF new
    <3>2. {p.case : p \in pairs \cup {new}} = {p.case : p \in pairs} \cup {new.case}
      OBVIOUS
    <3> QED
      BY <2>1, <3>1, <3>2 DEF new
  <2>4. DirectChild(Item)
    BY <2>1 DEF PlaceHolds, Accepted
  <2>5. {p.case : p \in pairs'} = Listed(at) /\ \A c \in Listed(at) : DirectChild(c)
    BY <2>2, <2>3, <2>4, <1>11
  <2>6. Recorded' = at /\ Viewed' = Viewed /\ \A n : Listed(n)' = Listed(n)
    BY <2>1 DEF Recorded, Viewed, Listed
  <2>7. CasesHold'
    BY <2>5, <2>6 DEF CasesHold, DirectChild
  <2>8. ViewsHold'
    BY <2>1, <2>6, LoopParts DEF ViewsHold, ViewsOf, Going, Accepted
  <2>9. use' # "provenance" => \A p \in pairs' : p.transition = "resolved"
    BY <2>1, LoopParts DEF PlaceHolds
  <2>10. OutputIsComplete'
    BY <2>1, <1>10 DEF OutputIsComplete, Going, Accepted
  <2> QED
    BY <2>7, <2>8, <2>9, <2>10, LoopPartsNext
<1>16. CASE CleanUp
  <2>1. UNCHANGED <<use, corpus, pairs, views, written>> /\ step \in {"cleanup", "caught"}
    BY <1>16 DEF CleanUp
  <2>2. CASE step = "caught"
    BY <1>16, <2>2, NothingRecorded DEF CleanUp, Going, Accepted
  <2>3. CASE step = "cleanup"
    <3>1. step' = "next" /\ at' = at + 1
      BY <1>16, <2>3 DEF CleanUp
    <3>2. Recorded' = Recorded /\ Viewed' = Viewed /\ \A n : Listed(n)' = Listed(n)
      BY <1>11, <2>1, <2>3, <3>1 DEF Recorded, Viewed, Listed
    <3>3. CasesHold'
      BY <2>1, <2>3, <3>2, LoopParts DEF CasesHold, DirectChild, Going, Accepted
    <3>4. ViewsHold'
      BY <2>1, <2>3, <3>1, <3>2, LoopParts DEF ViewsHold, ViewsOf, Going, Accepted
    <3>5. OutputIsComplete'
      BY <2>1, <2>3, <1>10 DEF OutputIsComplete, Going, Accepted
    <3> QED
      BY <2>1, <3>3, <3>4, <3>5, LoopParts, LoopPartsNext
  <2> QED
    BY <2>1, <2>2, <2>3
<1>17. CASE WriteFile
  <2>1. /\ step = "next" /\ AllDone /\ step' \in {"next", "done"}
        /\ UNCHANGED <<use, corpus, at, pairs, views>>
    BY <1>17 DEF WriteFile
  <2>2. CasesHold'
    BY <2>1, LoopParts DEF CasesHold, Recorded, Listed, DirectChild, Going
  <2>3. ViewsHold'
    BY <2>1, LoopParts DEF ViewsHold, Viewed, Listed, ViewsOf, Going
  <2>4. Listed(at - 1) = {corpus[i] : i \in DOMAIN corpus}
    <3>1. at - 1 = Len(corpus) /\ DOMAIN corpus = 1..Len(corpus)
      BY <2>1, CorpusFacts DEF AllDone, HTypeOK
    <3> QED
      BY <3>1 DEF Listed
  <2>5. /\ {p.case : p \in pairs} = Listed(at - 1) /\ \A c \in Listed(at - 1) : DirectChild(c)
        /\ use = "live" => views = ViewsOf(Listed(at - 1))
    BY <2>1, LoopParts DEF CasesHold, ViewsHold, Recorded, Viewed, Going
  <2>6. OutputIsComplete'
    <3>1. \A c \in Listed(at - 1) : Fixed[c] \in Reviewed /\ Parent[Fixed[c]] = Bad[c]
      BY <2>5 DEF DirectChild
    <3> QED
      BY <2>1, <2>4, <2>5, <3>1, LoopParts DEF OutputIsComplete, ViewsOf
  <2> QED
    BY <2>1, <2>2, <2>3, <2>6, LoopParts, LoopPartsNext
<1> QED
  BY <1>1, <1>2, <1>3, <1>4, <1>5, <1>6, <1>7, <1>8, <1>9, <1>13, <1>14, <1>15, <1>16, <1>17
  DEF ScriptStep

LEMMA NextLoop ==
  HTypeOK /\ SeriesHold /\ PlaceHolds /\ LoopHolds /\ [HNext]_allvars => LoopHolds'
<1> SUFFICES ASSUME HTypeOK, SeriesHold, PlaceHolds, LoopHolds, [HNext]_allvars
             PROVE  LoopHolds'
  OBVIOUS
<1>1. CASE UNCHANGED allvars
  <2>1. UNCHANGED <<use, step, corpus, at, views, pairs, written>>
    BY <1>1 DEF allvars, hvars, record
  <2>2. CasesHold'
    BY <2>1, LoopParts DEF CasesHold, Recorded, Listed, DirectChild
  <2>3. ViewsHold'
    BY <2>1, LoopParts DEF ViewsHold, Viewed, Listed, ViewsOf, Item
  <2>4. OutputIsComplete'
    BY <2>1, LoopParts DEF OutputIsComplete
  <2> QED
    BY <2>1, <2>2, <2>3, <2>4, LoopParts, LoopPartsNext
<1>2. CASE ControllerPair
  BY <1>2, NothingRecorded DEF ControllerPair, hvars, clone, record, Going, Accepted
<1>3. CASE Fail \/ Kill
  BY <1>3, NothingRecorded DEF Fail, Kill, GiveUp, Goto, vars, clone, record, Going, Accepted
<1> QED
  BY <1>1, <1>2, <1>3, ScriptLoop DEF HNext

LEMMA InitLoop == HInit => LoopHolds
<1> SUFFICES ASSUME HInit PROVE LoopHolds
  OBVIOUS
<1>1. at = 1 /\ pairs = {} /\ views = {} /\ written = 0 /\ step \in {"explicit", "next"}
  BY DEF HInit
<1>2. 1..(1 - 1) = {} /\ Listed(at - 1) = {}
  BY <1>1 DEF Listed
<1>3. ViewsOf({}) = {}
  BY DEF ViewsOf
<1> QED
  BY <1>1, <1>2, <1>3 DEF LoopHolds, OutputIsComplete, Recorded, Viewed

-------------------------------------------------------------------------------
(* The theorems                                                            *)

\* The scripts keep the invariant, whichever user of the series runs.
THEOREM HInvariance == HSpec => []HInv
<1>1. HInit => HInv
  BY InitTypes, InitSeries, InitPlace, InitLoop DEF HInv
<1>2. HInv /\ [HNext]_allvars => HInv'
  BY NextTypes, NextSeries, NextPlace, NextLoop DEF HInv
<1> QED
  BY <1>1, <1>2, PTL DEF HSpec

\* Types, of the series and of the scripts that run them.
THEOREM HistoryTyping == HSpec => []HTypeOK
<1>1. HInv => HTypeOK
  BY DEF HInv
<1> QED
  BY <1>1, HInvariance, PTL

\* A series counts as reproducible exactly when the only execution failed, or two
\* or more failed and all of them alike, for any number of executions and signatures.
THEOREM ReproducibleIsSound == HSpec => []ReproducibleAsDocumented
<1>1. HInv => ReproducibleAsDocumented
  <2> SUFFICES ASSUME HInv, NEW k \in Series
               PROVE  SummaryOf(k).reproducible <=>
                        /\ Cardinality(FailedWith(k)) = 1
                        /\ Failures(k) >= 2 \/ (Failures(k) = 1 /\ Len(results[k]) = 1)
    BY DEF ReproducibleAsDocumented
  <2>1. results[k] \in Seq(Result)
    BY DEF HInv, HTypeOK, TypeOK
  <2>2. FailedWith(k) = Signatures(results[k]) /\ Failures(k) = Cardinality(Failing(results[k]))
    BY DEF FailedWith, Signatures, Failures
  <2>3. SummaryOf(k).reproducible <=> ReproducibleFailure(results[k])
    BY <2>1, SummaryFacts DEF SummaryOf
  <2> QED
    BY <2>1, <2>2, <2>3, ReproducibleMeans
<1> QED
  BY <1>1, HInvariance, PTL

\* The verdict on a pair of series, which is computed from summaries that keep some of
\* the signatures, means what happened in their executions: "different-failure" as long
\* as no signature was cut, the other verdicts for any number of signatures.
THEOREM TransitionIsSound == HSpec => []TransitionMeansWhatItSays
<1>1. HInv => TransitionMeansWhatItSays
  <2> SUFFICES ASSUME HInv, phase = "judged" PROVE TransitionMeansWhatItSays
    BY DEF TransitionMeansWhatItSays
  <2> DEFINE old == FailedWith("baseline")
             new == FailedWith("post")
             same == command["baseline"] = command["post"]
  <2>1. old = Signatures(results["baseline"]) /\ new = Signatures(results["post"])
    BY DEF FailedWith, Signatures
  <2>2. /\ results["baseline"] \in Seq(Result) /\ Len(results["baseline"]) > 0
        /\ results["post"] \in Seq(Result) /\ Len(results["post"]) > 0
    BY EndedSeries DEF HInv, HTypeOK, SeriesHold, Series
  <2>3. command["baseline"] \in Cmd /\ command["post"] \in Cmd
    BY DEF HInv, HTypeOK, TypeOK, Series
  <2>4. verdict = CompareSignatures(SummaryOf("baseline"), SummaryOf("post"))
    BY DEF HInv, SeriesHold
  <2> QED
    BY <2>1, <2>2, <2>3, <2>4, VerdictMeans DEF SummaryOf, TransitionMeansWhatItSays, Transition
<1> QED
  BY <1>1, HInvariance, PTL

\* Every series starts in a clone of the commit it is about, with the Core that commit
\* pins, without untracked or ignored files of the series before it.
THEOREM SeriesAreClean == HSpec => []SeriesStartClean
<1>1. HInv => SeriesStartClean
  BY DEF HInv, PlaceHolds, CommitOf, StartsWith, SeriesStartClean
<1> QED
  BY <1>1, HInvariance, PTL

\* No script that ends by itself leaves its clone behind.
THEOREM NothingStays == HSpec => []NothingLeftBehind
<1>1. HInv => NothingLeftBehind
  BY DEF HInv, PlaceHolds, NothingLeftBehind
<1> QED
  BY <1>1, HInvariance, PTL

\* Whatever is written covers the whole corpus, each case a reviewed direct child
\* that the controller judges resolved, for corpora of any length.
THEOREM OutputCoversCorpus == HSpec => []OutputIsComplete
<1>1. HInv => OutputIsComplete
  BY DEF HInv, LoopHolds
<1> QED
  BY <1>1, HInvariance, PTL

-------------------------------------------------------------------------------
(* Why a script ends: everything that happens brings it closer to its end.  *)

\* What is left of the corpus; how far the case, or the pair of series, has to go; and
\* how many executions or output files are missing where it is.
CasesLeft == Len(corpus) + 1 - at
StepsLeft ==
  CASE step = "explicit" -> IF phase = "baseline" THEN 2 ELSE IF phase = "post" THEN 1 ELSE 0
    [] step = "next"     -> 14
    [] step = "fetch"    -> 13
    [] step = "bad"      -> 12
    [] step = "core"     -> IF phase = "baseline" THEN 11 ELSE 8
    [] step = "series"   -> IF phase = "baseline" THEN 10 ELSE 7
    [] step = "fixed"    -> 9
    [] step = "observe"  -> 6
    [] step = "analyze"  -> 5
    [] step = "variant"  -> 4
    [] step = "record"   -> 3
    [] step = "cleanup"  -> 2
    [] step = "caught"   -> 1
    [] OTHER             -> 0
Missing(wanted, got) == IF got < wanted THEN wanted - got ELSE 0
RunsLeft ==
  IF step \in {"explicit", "series"} /\ phase \in Series
  THEN Missing(count[phase], Len(results[phase]))
  ELSE IF step = "observe" THEN Missing(ClampRuns(Request), Len(observed))
  ELSE IF step = "next" THEN Missing(FilesOf(use), written)
  ELSE 0

\* Three natural numbers, ordered lexicographically: each step makes them smaller.
Measured == CasesLeft \in Nat /\ StepsLeft \in Nat /\ RunsLeft \in Nat
ComesCloser ==
  \/ CasesLeft' < CasesLeft
  \/ CasesLeft' = CasesLeft /\ StepsLeft' < StepsLeft
  \/ CasesLeft' = CasesLeft /\ StepsLeft' = StepsLeft /\ RunsLeft' < RunsLeft

LEMMA MissingType ==
  ASSUME NEW a \in Nat, NEW b \in Nat
  PROVE  Missing(a, b) \in Nat /\ (b < a => Missing(a, b + 1) < Missing(a, b))
BY DEF Missing

LEMMA SeriesNumbers ==
  ASSUME HTypeOK
  PROVE  /\ \A k \in Series : count[k] \in Nat /\ Len(results[k]) \in Nat
         /\ ClampRuns(Request) \in Nat /\ Len(observed) \in Nat
         /\ FilesOf(use) \in Nat /\ written \in Nat
         /\ Len(corpus) \in Nat /\ at \in 1..(Len(corpus) + 1)
<1>1. ASSUME NEW k \in Series PROVE count[k] \in Nat /\ Len(results[k]) \in Nat
  <2>1. results[k] \in Seq(Result) /\ count[k] \in 1..20
    BY DEF HTypeOK, TypeOK, MaxSeries
  <2> QED
    BY <2>1
<1>2. ClampRuns(Request) \in 1..MaxSeries
  BY ClampBounds, HistoryConstants
<1>3. Len(observed) \in Nat /\ FilesOf(use) \in Nat /\ written \in Nat
  BY DEF HTypeOK, FilesOf
<1> QED
  BY <1>1, <1>2, <1>3, CorpusFacts DEF MaxSeries, HTypeOK

LEMMA MeasureTypes == HInv => Measured
<1> SUFFICES ASSUME HInv PROVE Measured
  OBVIOUS
<1>1. CasesLeft \in Nat
  BY SeriesNumbers DEF HInv, CasesLeft
<1>2. StepsLeft \in Nat
  BY DEF HInv, HTypeOK, Steps, Ended, StepsLeft
<1>3. RunsLeft \in Nat
  BY SeriesNumbers, MissingType DEF HInv, RunsLeft
<1> QED
  BY <1>1, <1>2, <1>3 DEF Measured

\* One more execution of the series that is running
LEMMA RunOnceCounts ==
  ASSUME HTypeOK, NEW k \in Series, RunOnce(k)
  PROVE  /\ phase' = phase /\ phase = k
         /\ Missing(count'[k], Len(results'[k])) < Missing(count[k], Len(results[k]))
<1>1. PICK r \in Result : results' = [results EXCEPT ![k] = Append(@, r)]
  BY DEF RunOnce
<1>2. results[k] \in Seq(Result) /\ results \in [Series -> Seq(Result)]
  BY DEF HTypeOK, TypeOK
<1>3. results'[k] = Append(results[k], r)
  BY <1>1, <1>2
<1>4. Len(results'[k]) = Len(results[k]) + 1
  BY <1>2, <1>3
<1>5. count' = count /\ Len(results[k]) < count[k] /\ phase' = phase /\ phase = k
  BY DEF RunOnce
<1> QED
  BY <1>4, <1>5, SeriesNumbers, MissingType

LEMMA PairComesCloser == ASSUME HInv, ControllerPair PROVE ComesCloser
<1>1. step = "explicit" /\ step' = step /\ CasesLeft' = CasesLeft
  BY DEF ControllerPair, hvars, CasesLeft
<1>2. CASE EndBaseline \/ EndPost
  <2>1. StepsLeft' < StepsLeft
    BY <1>1, <1>2 DEF EndBaseline, EndPost, StepsLeft
  <2> QED
    BY <1>1, <2>1 DEF ComesCloser
<1>3. ASSUME NEW k \in Series, RunOnce(k) PROVE ComesCloser
  <2>1. /\ phase' = phase /\ phase = k
        /\ Missing(count'[k], Len(results'[k])) < Missing(count[k], Len(results[k]))
    BY <1>3, RunOnceCounts DEF HInv
  <2>2. StepsLeft' = StepsLeft
    BY <1>1, <2>1 DEF StepsLeft
  <2>3. RunsLeft' < RunsLeft
    BY <1>1, <2>1 DEF RunsLeft
  <2> QED
    BY <1>1, <2>2, <2>3 DEF ComesCloser
<1> QED
  BY <1>2, <1>3 DEF ControllerPair, Next

\* A step that goes on with the same case
LEMMA StageDown ==
  ASSUME corpus' = corpus, at' = at, StepsLeft' < StepsLeft PROVE ComesCloser
BY DEF ComesCloser, CasesLeft

LEMMA ScriptComesCloser == ASSUME HInv, ScriptStep PROVE ComesCloser
<1> USE DEF Goto
<1>1. CASE MakeTemp
  BY <1>1, StageDown DEF MakeTemp, StepsLeft
<1>2. CASE FetchAndCheck
  BY <1>2, StageDown DEF FetchAndCheck, StepsLeft
<1>3. CASE CheckOut
  <2>1. step \in {"bad", "fixed"} /\ step' = "core" /\ corpus' = corpus /\ at' = at
        /\ phase' = phase
    BY <1>3 DEF CheckOut, vars
  <2>2. (step = "bad" => phase = "baseline") /\ (step = "fixed" => phase = "post")
    BY DEF HInv, PlaceHolds
  <2> QED
    BY <2>1, <2>2, StageDown DEF StepsLeft
<1>4. CASE InstallCore
  <2>1. step = "core" /\ step' = "series" /\ corpus' = corpus /\ at' = at /\ phase' = phase
    BY <1>4 DEF InstallCore, vars
  <2> QED
    BY <2>1, StageDown DEF StepsLeft
<1>5. CASE RunHere
  <2>1. PICK k \in Series : RunOnce(k)
    BY <1>5 DEF RunHere
  <2>2. /\ phase' = phase /\ phase = k
        /\ Missing(count'[k], Len(results'[k])) < Missing(count[k], Len(results[k]))
    BY <2>1, RunOnceCounts DEF HInv
  <2>3. step = "series" /\ step' = step /\ corpus' = corpus /\ at' = at
    BY <1>5 DEF RunHere
  <2>4. StepsLeft' = StepsLeft /\ CasesLeft' = CasesLeft
    BY <2>2, <2>3 DEF StepsLeft, CasesLeft
  <2>5. RunsLeft' < RunsLeft
    BY <2>2, <2>3 DEF RunsLeft
  <2> QED
    BY <2>4, <2>5 DEF ComesCloser
<1>6. CASE EndBad
  <2>1. /\ step = "series" /\ step' \in {"fixed", "caught"} /\ corpus' = corpus /\ at' = at
        /\ phase = "baseline"
    BY <1>6 DEF EndBad, EndBaseline
  <2> QED
    BY <2>1, StageDown DEF StepsLeft
<1>7. CASE EndFixed
  <2>1. /\ step = "series" /\ step' \in {"observe", "record", "caught"}
        /\ corpus' = corpus /\ at' = at /\ phase = "post"
    BY <1>7 DEF EndFixed, EndPost
  <2> QED
    BY <2>1, StageDown DEF StepsLeft
<1>8. CASE Observe
  <2>1. step = "observe" /\ step' = step /\ corpus' = corpus /\ at' = at
        /\ Len(observed) < ClampRuns(Request) /\ \E r : observed' = Append(observed, r)
    BY <1>8 DEF Observe
  <2>2. observed \in Seq(Result)
    BY DEF HInv, HTypeOK
  <2>3. Len(observed') = Len(observed) + 1
    BY <2>1, <2>2
  <2>4. StepsLeft' = StepsLeft /\ CasesLeft' = CasesLeft
    BY <2>1 DEF StepsLeft, CasesLeft
  <2>5. RunsLeft' < RunsLeft
    BY <2>1, <2>3, SeriesNumbers, MissingType DEF HInv, RunsLeft
  <2> QED
    BY <2>4, <2>5 DEF ComesCloser
<1>9. CASE EndObserve
  BY <1>9, StageDown DEF EndObserve, StepsLeft
<1>10. CASE Analyze \/ AnalyzeVariant
  BY <1>10, StageDown DEF Analyze, AnalyzeVariant, StepsLeft
<1>11. CASE Record
  BY <1>11, StageDown DEF Record, StepsLeft
<1>12. CASE CleanUp
  <2>1. CASE step = "cleanup"
    BY <1>12, <2>1, SeriesNumbers DEF CleanUp, HInv, CasesLeft, ComesCloser
  <2>2. CASE step = "caught"
    BY <1>12, <2>2, StageDown DEF CleanUp, StepsLeft
  <2> QED
    BY <1>12, <2>1, <2>2 DEF CleanUp
<1>13. CASE WriteFile
  <2>1. step = "next" /\ written' = written + 1 /\ step' \in {"next", "done"}
        /\ corpus' = corpus /\ at' = at /\ use' = use
    BY <1>13 DEF WriteFile
  <2>2. CASE step' = "done"
    BY <2>1, <2>2, StageDown DEF StepsLeft
  <2>3. CASE step' = "next"
    <3>1. StepsLeft' = StepsLeft /\ CasesLeft' = CasesLeft
      BY <2>1, <2>3 DEF StepsLeft, CasesLeft
    <3>2. written < FilesOf(use)
      BY <2>1 DEF HInv, PlaceHolds, Ended
    <3>3. RunsLeft' < RunsLeft
      BY <2>1, <2>3, <3>2, SeriesNumbers, MissingType DEF HInv, RunsLeft, FilesOf
    <3> QED
      BY <3>1, <3>3 DEF ComesCloser
  <2> QED
    BY <2>1, <2>2, <2>3
<1> QED
  BY <1>1, <1>2, <1>3, <1>4, <1>5, <1>6, <1>7, <1>8, <1>9, <1>10, <1>11, <1>12, <1>13
  DEF ScriptStep

LEMMA InterruptionComesCloser == ASSUME HInv, Fail \/ Kill PROVE ComesCloser
<1>1. CASE Fail
  BY <1>1, StageDown DEF Fail, Goto, GiveUp, StepsLeft
<1>2. CASE Kill
  BY <1>2, StageDown DEF Kill, Goto, Ended, HInv, HTypeOK, Steps, StepsLeft
<1> QED
  BY <1>1, <1>2

\* No script goes round for ever: whatever it does, a failing git call, a failing
\* analysis and the killed process included, leaves fewer cases, or fewer steps of this
\* one, or fewer executions and files of this step to come.  EveryScriptEnds needs this
\* and that a script that is not over can go on.
THEOREM EveryStepComesCloser == HSpec => []Measured /\ [][ComesCloser]_allvars
<1>1. HInv /\ [HNext]_allvars => [ComesCloser]_allvars
  BY PairComesCloser, ScriptComesCloser, InterruptionComesCloser DEF HNext
<1> QED
  BY <1>1, HInvariance, MeasureTypes, PTL DEF HSpec
===============================================================================
