------------------------ MODULE PromotionRelease_proofs ------------------------
(***************************************************************************)
(* What a release rests on, for any number of commits, evaluation runs,    *)
(* release runs and attempts of them.                                      *)
(*                                                                         *)
(* main only grows and uploads are kept, so a judgement about a commit and *)
(* an evaluation stays true once it was made (GoodGrows); every authority  *)
(* a release run ever got was judged (AuthorityHolds), whatever attempt of *)
(* the run made it; and a policy on main was built from an evaluation of an*)
(* earlier commit (PoliciesHold).  The bounds play no part in this; Bounded*)
(* adds, over it, that they are kept.  That one run publishes at a time, so*)
(* that what it saw of the releases is still so, is Single.  Last, what    *)
(* uploads must have been true of their commit makes the documented order  *)
(* one without a release.                                                  *)
(***************************************************************************)
EXTENDS PromotionRelease, FiniteSetTheorems, TLAPS

-------------------------------------------------------------------------------
(* Types without the bounds                                                *)

APolicy == [core: Core, eligible: BOOLEAN, minimum: Grades, from: Evaluation \X Nat]
ACommit == [lifecycle: {"development", "active"}, roadmap: {"pending", "done"},
            eligible: BOOLEAN, policy: APolicy \cup {DraftPolicy}, lock: Lock \cup {NoLock},
            core: Core, other: {0, 1}]
ABundle == [run: Evaluation, attempt: Nat, sha: Nat, lock: Lock \cup {NoLock},
            policy: APolicy \cup {DraftPolicy}, eligible: BOOLEAN, core: Core, grade: Grades]
ARun == [step: {"unused", "running", "success", "failure", "refused"},
         sha: Nat, attempt: Nat, grade: Grades \cup {0}]
Authority == [sha: Nat, attempt: Nat, bundle: ABundle]
Meta == [run: Evaluation, sha: Nat, attempt: Nat]
ARelease == [step: {"unused", "fetch", "authorize", "package", "tag", "view", "create",
                    "publish", "done"},
             failed: BOOLEAN, sha: Nat, input: Evaluation \cup {None}, attempt: Nat,
             meta: Meta \cup {None}, authority: SUBSET Authority, payload: SUBSET Authority]

Types ==
  /\ main \in Seq(ACommit) /\ Len(main) >= 1
  /\ runs \in [Evaluation -> ARun]
  /\ bundles \subseteq ABundle
  /\ rel \in [Release -> ARelease]
  /\ tag \in Nat

-------------------------------------------------------------------------------
(* The inductive invariant                                                 *)

OnMain(i) == i \in 1..Len(main)

\* c is the evaluation policy pol was reviewed from, of a commit before i.
Source(c, pol, i) ==
  /\ <<c.run, c.attempt>> = pol.from /\ c.sha < i
  /\ c.core = pol.core /\ c.eligible = pol.eligible /\ c.grade >= pol.minimum

PoliciesHold ==
  \A i \in 1..Len(main) :
    main[i].policy # DraftPolicy => \E c \in bundles : Source(c, main[i].policy, i)

RunsHold ==
  /\ \A p \in Evaluation : runs[p].step # "unused" => OnMain(runs[p].sha)
  /\ \A b \in bundles : OnMain(b.sha)

\* What buildReleaseAuthority accepted
Good(a) ==
  /\ a.attempt = a.bundle.attempt
  /\ a.bundle.sha + 1 = a.sha /\ OnMain(a.bundle.sha) /\ OnMain(a.sha)
  /\ Activates(main[a.bundle.sha], main[a.sha])
  /\ ValidBundle(a.bundle, main[a.sha])

\* What is true of one release run
Holds(s) ==
  /\ s.step # "unused" => OnMain(s.sha) /\ s.input \in Evaluation
  /\ s.step = "unused" => ~s.failed
  /\ s.step \in {"view", "create", "publish", "done"} => tag = s.sha
  /\ \A a \in s.authority : Good(a) /\ a.sha = s.sha
  /\ s.payload \subseteq s.authority

AuthorityHolds == \A r \in Release : Holds(rel[r])

ReleasesHold ==
  \A x \in releases : Good(x.authority) /\ tag = x.authority.sha

PInv == Types /\ PoliciesHold /\ RunsHold /\ AuthorityHolds /\ ReleasesHold

-------------------------------------------------------------------------------
LEMMA InitPInv == Init => PInv
<1> SUFFICES ASSUME Init PROVE PInv
  OBVIOUS
<1>1. PICK c \in InitialMain : main = <<c>>
  BY DEF Init
<1>2. c \in ACommit /\ c.policy = DraftPolicy
  BY <1>1, ReleaseConstants DEF Commit, ACommit
<1>3. main \in Seq(ACommit) /\ Len(main) = 1 /\ main[1] = c
  BY <1>1, <1>2
<1>4. NotDispatched \in ARun /\ NotStarted \in ARelease
  BY DEF NotDispatched, ARun, NotStarted, ARelease
<1>5. Types
  BY <1>3, <1>4 DEF Init, Types
<1>6. PoliciesHold
  BY <1>2, <1>3 DEF PoliciesHold
<1>7. RunsHold
  BY DEF Init, NotDispatched, RunsHold
<1>8. AuthorityHolds
  BY DEF Init, NotStarted, AuthorityHolds, Holds
<1>9. ReleasesHold
  BY DEF Init, ReleasesHold
<1> QED
  BY <1>5, <1>6, <1>7, <1>8, <1>9 DEF PInv

-------------------------------------------------------------------------------
(* Pull requests and tags                                                  *)

\* A judgement about commits outlives everything that comes after them.
LEMMA GoodGrows ==
  ASSUME Types, NEW c \in ACommit, main' = Append(main, c)
  PROVE  /\ main' \in Seq(ACommit) /\ Len(main') = Len(main) + 1 /\ Len(main) \in Nat
         /\ \A i \in 1..Len(main) : main'[i] = main[i]
         /\ main'[Len(main) + 1] = c
         /\ \A i : OnMain(i) => OnMain(i)'
         /\ \A a : Good(a) => Good(a)'
<1>1. /\ main' \in Seq(ACommit) /\ Len(main') = Len(main) + 1 /\ Len(main) \in Nat
      /\ \A i \in 1..Len(main) : main'[i] = main[i]
      /\ main'[Len(main) + 1] = c
  BY DEF Types
<1>2. \A i : OnMain(i) => OnMain(i)' /\ main'[i] = main[i]
  BY <1>1 DEF OnMain
<1>3. \A a : Good(a) => Good(a)'
  BY <1>2 DEF Good
<1> QED
  BY <1>1, <1>2, <1>3

\* A candidate was reviewed from an evaluation of a commit of main.
LEMMA CandidateHasSource ==
  ASSUME Types, RunsHold, NEW pol \in Candidates
  PROVE  pol \in APolicy /\ \E c \in bundles : Source(c, pol, Len(main) + 1)
<1>1. PICK c \in bundles, m \in Grades :
        /\ pol = BuildReviewedPolicy(c, m)
        /\ \E i \in DOMAIN main : Reviewable(c, m, main[i])
  BY DEF Candidates, ReviewedFrom
<1>2. c \in ABundle /\ c.sha \in 1..Len(main) /\ m <= c.grade /\ Len(main) \in Nat
  BY <1>1 DEF Types, RunsHold, OnMain, Reviewable
<1>3. pol.core = c.core /\ pol.eligible = c.eligible /\ pol.minimum = m
      /\ pol.from = <<c.run, c.attempt>>
  BY <1>1 DEF BuildReviewedPolicy
<1>4. pol \in APolicy
  BY <1>1, <1>2 DEF BuildReviewedPolicy, APolicy, ABundle
<1>5. c.grade >= m
  BY <1>2, ReleaseConstants DEF ABundle
<1> QED
  BY <1>2, <1>3, <1>4, <1>5 DEF Source

LEMMA MergePInv ==
  ASSUME PInv, NEW files \in Edits, Merge(files)
  PROVE  PInv'
<1>1. UNCHANGED <<promotionVars, releaseVars>>
  BY DEF Merge
<1>2. Tip \in ACommit /\ Len(main) \in Nat /\ Tip = main[Len(main)] /\ OnMain(Len(main))
  BY DEF PInv, Types, Tip, OnMain
<1>3. PICK pol \in (Candidates \cup {DraftPolicy, Tip.policy}),
           lk \in Lock \cup {NoLock}, co \in Core, lc \in {"development", "active"},
           rm \in {"pending", "done"}, el \in BOOLEAN, ot \in {0, 1} :
        main' = Append(main, [lifecycle |-> lc, roadmap |-> rm, eligible |-> el, other |-> ot,
                              policy |-> pol, lock |-> lk, core |-> co])
  <2>1. Tip.lock \in Lock \cup {NoLock} /\ Tip.core \in Core
        /\ Other(Tip.lifecycle, "active", "development") \in {"development", "active"}
        /\ Tip.lifecycle \in {"development", "active"}
        /\ Other(Tip.roadmap, "done", "pending") \in {"pending", "done"}
        /\ Tip.roadmap \in {"pending", "done"}
        /\ Tip.eligible \in BOOLEAN /\ (~Tip.eligible) \in BOOLEAN
        /\ Tip.other \in {0, 1} /\ 1 - Tip.other \in {0, 1}
    <3>1. /\ Tip.lock \in Lock \cup {NoLock} /\ Tip.core \in Core /\ Tip.eligible \in BOOLEAN
          /\ Tip.lifecycle \in {"development", "active"} /\ Tip.roadmap \in {"pending", "done"}
          /\ Tip.other \in {0, 1}
      BY <1>2 DEF ACommit
    <3>2. 1 - Tip.other \in {0, 1} /\ (~Tip.eligible) \in BOOLEAN
      BY <3>1
    <3>3. /\ Other(Tip.lifecycle, "active", "development") \in {"development", "active"}
          /\ Other(Tip.roadmap, "done", "pending") \in {"pending", "done"}
      BY DEF Other
    <3> QED
      BY <3>1, <3>2, <3>3, Zenon
  <2>2. PICK pol \in IF "policy" \in files THEN (Candidates \cup {DraftPolicy}) \ {Tip.policy}
                     ELSE {Tip.policy},
             lk \in IF "lock" \in files THEN Lock \ {Tip.lock} ELSE {Tip.lock},
             co \in IF "core" \in files THEN Core \ {Tip.core} ELSE {Tip.core} :
          main' = Append(main,
         [lifecycle |-> IF "lifecycle" \in files
                        THEN Other(Tip.lifecycle, "active", "development") ELSE Tip.lifecycle,
          roadmap   |-> IF "roadmap" \in files
                        THEN Other(Tip.roadmap, "done", "pending") ELSE Tip.roadmap,
          eligible  |-> IF "corpus" \in files THEN ~Tip.eligible ELSE Tip.eligible,
          other     |-> IF "other" \in files THEN 1 - Tip.other ELSE Tip.other,
          policy |-> pol, lock |-> lk, core |-> co])
    BY DEF Merge
  <2> DEFINE lc == IF "lifecycle" \in files
                   THEN Other(Tip.lifecycle, "active", "development") ELSE Tip.lifecycle
             rm == IF "roadmap" \in files
                   THEN Other(Tip.roadmap, "done", "pending") ELSE Tip.roadmap
             el == IF "corpus" \in files THEN ~Tip.eligible ELSE Tip.eligible
             ot == IF "other" \in files THEN 1 - Tip.other ELSE Tip.other
  <2>3. /\ lc \in {"development", "active"} /\ rm \in {"pending", "done"}
        /\ el \in BOOLEAN /\ ot \in {0, 1}
    BY <2>1
  <2>4. /\ pol \in Candidates \cup {DraftPolicy, Tip.policy}
        /\ lk \in Lock \cup {NoLock} /\ co \in Core
    BY <2>1, <2>2
  <2>5. main' = Append(main, [lifecycle |-> lc, roadmap |-> rm, eligible |-> el, other |-> ot,
                              policy |-> pol, lock |-> lk, core |-> co])
    BY <2>2
  <2> HIDE DEF lc, rm, el, ot
  <2> QED
    BY <2>3, <2>4, <2>5
<1> DEFINE c == [lifecycle |-> lc, roadmap |-> rm, eligible |-> el, other |-> ot,
                 policy |-> pol, lock |-> lk, core |-> co]
<1>4. pol \in APolicy \cup {DraftPolicy}
  BY <1>2, CandidateHasSource DEF PInv, ACommit
<1>5. c \in ACommit /\ c.policy = pol /\ main' = Append(main, c)
  BY <1>3, <1>4 DEF ACommit
<1> HIDE DEF c
<1>6. /\ main' \in Seq(ACommit) /\ Len(main') = Len(main) + 1
      /\ \A i \in 1..Len(main) : main'[i] = main[i]
      /\ main'[Len(main) + 1] = c
      /\ \A i : OnMain(i) => OnMain(i)'
      /\ \A a : Good(a) => Good(a)'
  BY <1>5, GoodGrows DEF PInv
<1>7. Types'
  BY <1>1, <1>2, <1>6 DEF PInv, Types, promotionVars, releaseVars, published
<1>8. PoliciesHold'
  <2> SUFFICES ASSUME NEW i \in 1..Len(main'), main'[i].policy # DraftPolicy
               PROVE  \E b \in bundles : Source(b, main'[i].policy, i)
    BY <1>1 DEF PoliciesHold, promotionVars, Source
  <2>1. CASE i \in 1..Len(main)
    BY <2>1, <1>6 DEF PInv, PoliciesHold
  <2>2. CASE i = Len(main) + 1 /\ pol \in Candidates
    BY <2>2, <1>5, <1>6, CandidateHasSource DEF PInv
  <2>3. CASE i = Len(main) + 1 /\ pol = Tip.policy
    <3>1. PICK b \in bundles : Source(b, Tip.policy, Len(main))
      BY <2>3, <1>2, <1>5, <1>6 DEF PInv, PoliciesHold, OnMain
    <3>2. b.sha \in Nat
      BY DEF PInv, Types, ABundle
    <3>3. Source(b, Tip.policy, i)
      BY <2>3, <3>1, <3>2, <1>2 DEF Source
    <3> QED
      BY <2>3, <3>3, <1>5, <1>6
  <2> QED
    BY <2>1, <2>2, <2>3, <1>2, <1>3, <1>5, <1>6
<1>9. RunsHold'
  BY <1>1, <1>6 DEF PInv, RunsHold, promotionVars
<1>10. AuthorityHolds' /\ ReleasesHold'
  BY <1>1, <1>6 DEF PInv, AuthorityHolds, Holds, ReleasesHold, releaseVars, published
<1> QED
  BY <1>7, <1>8, <1>9, <1>10 DEF PInv

\* A tag made by hand is one no release has, and that no run counts on.
LEMMA TagIsMade ==
  ASSUME PInv, UNCHANGED <<main, promotionVars, releases>>, tag' \in Nat,
         tag # 0 => tag' = tag
  PROVE  /\ \A r \in Release : rel[r].step \in {"view", "create", "publish", "done"} => tag' = rel[r].sha
         /\ ReleasesHold'
<1>1. \A a : Good(a)' <=> Good(a)
  BY DEF Good, OnMain
<1>2. \A r \in Release : rel[r].step \in {"view", "create", "publish", "done"} => tag' = rel[r].sha
  <2> SUFFICES ASSUME NEW r \in Release, rel[r].step \in {"view", "create", "publish", "done"}
               PROVE  tag' = rel[r].sha
    OBVIOUS
  <2>1. tag = rel[r].sha /\ OnMain(rel[r].sha)
    BY DEF PInv, AuthorityHolds, Holds
  <2> QED
    BY <2>1 DEF OnMain, PInv, Types
<1>3. \A x \in releases : tag' = x.authority.sha
  <2> SUFFICES ASSUME NEW x \in releases PROVE tag' = x.authority.sha
    OBVIOUS
  <2>1. tag = x.authority.sha /\ OnMain(x.authority.sha)
    BY DEF PInv, ReleasesHold, Good
  <2> QED
    BY <2>1 DEF OnMain, PInv, Types
<1> QED
  BY <1>1, <1>2, <1>3 DEF PInv, ReleasesHold

LEMMA PushTagPInv ==
  ASSUME PInv, PushTag
  PROVE  PInv'
<1>1. UNCHANGED <<main, promotionVars, rel, releases>> /\ tag = 0 /\ tag' = 1
  BY DEF PushTag, published
<1>2. ReleasesHold'
      /\ \A r \in Release : rel[r].step \in {"view", "create", "publish", "done"} => tag' = rel[r].sha
  BY <1>1, TagIsMade
<1>3. Types' /\ PoliciesHold' /\ RunsHold'
  BY <1>1 DEF PInv, Types, PoliciesHold, RunsHold, OnMain, Source, promotionVars
<1>4. AuthorityHolds'
  BY <1>1, <1>2 DEF PInv, AuthorityHolds, Holds, Good, OnMain
<1> QED
  BY <1>2, <1>3, <1>4 DEF PInv

-------------------------------------------------------------------------------
(* Evaluations                                                             *)

LEMMA RunMoves ==
  ASSUME PInv, UNCHANGED <<main, releaseVars>>, NEW p \in Evaluation,
         NEW s \in ARun, runs' = [runs EXCEPT ![p] = s], OnMain(s.sha),
         bundles \subseteq bundles', bundles' \subseteq ABundle,
         \A b \in bundles' : OnMain(b.sha)
  PROVE  PInv'
<1>1. Types'
  BY DEF PInv, Types, releaseVars, published
<1>2. \A i : OnMain(i)' <=> OnMain(i)
  BY DEF OnMain
<1>3. PoliciesHold'
  BY DEF PInv, PoliciesHold, Source
<1>4. RunsHold'
  BY <1>2 DEF PInv, Types, RunsHold
<1>5. AuthorityHolds' /\ ReleasesHold'
  BY <1>2 DEF PInv, AuthorityHolds, Holds, ReleasesHold, Good, releaseVars, published
<1> QED
  BY <1>1, <1>3, <1>4, <1>5 DEF PInv

LEMMA DispatchRerunFailPInv ==
  ASSUME PInv, NEW p \in Evaluation, Dispatch(p) \/ Rerun(p) \/ FailPromotion(p)
  PROVE  PInv'
<1>1. runs[p] \in ARun /\ OnMain(Len(main)) /\ Len(main) \in Nat /\ bundles \subseteq ABundle
      /\ \A b \in bundles : OnMain(b.sha)
  BY DEF PInv, Types, OnMain, RunsHold
<1>2. CASE Dispatch(p)
  <2> DEFINE s == [[NotDispatched EXCEPT !.sha = Len(main), !.attempt = 1] EXCEPT !.step = "running"]
  <2>1. s \in ARun /\ s.sha = Len(main)
    BY <1>1 DEF NotDispatched, ARun
  <2>2. runs' = [runs EXCEPT ![p] = s] /\ UNCHANGED <<main, bundles, releaseVars>>
    BY <1>2 DEF Dispatch, Run
  <2> HIDE DEF s
  <2> QED
    BY <1>1, <2>1, <2>2, RunMoves
<1>3. CASE Rerun(p)
  <2> DEFINE again == [runs[p] EXCEPT !.attempt = @ + 1, !.grade = 0]
             s == [again EXCEPT !.step = "running"]
  <2>1. s \in ARun /\ s.sha = runs[p].sha /\ OnMain(s.sha)
    <3>1. runs[p].attempt + 1 \in Nat /\ OnMain(runs[p].sha)
      BY <1>1, <1>3 DEF ARun, Rerun, PInv, RunsHold
    <3>2. again \in ARun /\ again.sha = runs[p].sha
      BY <1>1, <3>1 DEF ARun
    <3> HIDE DEF again
    <3> QED
      BY <3>1, <3>2 DEF ARun
  <2>2. runs' = [runs EXCEPT ![p] = s] /\ UNCHANGED <<main, bundles, releaseVars>>
    BY <1>3 DEF Rerun, Run
  <2> HIDE DEF s
  <2> QED
    BY <1>1, <2>1, <2>2, RunMoves
<1>4. CASE FailPromotion(p)
  <2> DEFINE s == [runs[p] EXCEPT !.step = "failure"]
  <2>1. s \in ARun /\ s.sha = runs[p].sha /\ OnMain(s.sha)
    BY <1>1, <1>4 DEF ARun, FailPromotion, PInv, RunsHold
  <2>2. runs' = [runs EXCEPT ![p] = s] /\ UNCHANGED <<main, bundles, releaseVars>>
    BY <1>4 DEF FailPromotion, Run
  <2> HIDE DEF s
  <2> QED
    BY <1>1, <2>1, <2>2, RunMoves
<1> QED
  BY <1>2, <1>3, <1>4

LEMMA EvaluatePInv ==
  ASSUME PInv, NEW p \in Evaluation, NEW live \in Lock \cup {NoLock}, NEW g \in Grades,
         NEW yes \in BOOLEAN, Evaluate(p, live, g, yes)
  PROVE  PInv'
<1>1. /\ runs[p] \in ARun /\ OnMain(runs[p].sha) /\ bundles \subseteq ABundle
      /\ \A b \in bundles : OnMain(b.sha)
  BY DEF PInv, Types, RunsHold, Evaluate
<1>2. main[runs[p].sha] \in ACommit
  BY <1>1 DEF PInv, Types, OnMain
<1>3. BundleOf(p, g) \in ABundle /\ BundleOf(p, g).sha = runs[p].sha
  BY <1>1, <1>2 DEF BundleOf, ABundle, ARun, ACommit
<1>4. PICK step \in {"success", "failure", "refused"} :
        /\ runs' = [runs EXCEPT ![p] = [[runs[p] EXCEPT !.grade = g] EXCEPT !.step = step]]
        /\ bundles' = bundles \/ bundles' = bundles \cup {BundleOf(p, g)}
        /\ UNCHANGED <<main, releaseVars>>
  BY DEF Evaluate, Run
<1> DEFINE s == [[runs[p] EXCEPT !.grade = g] EXCEPT !.step = step]
<1>5. s \in ARun /\ s.sha = runs[p].sha
  BY <1>1 DEF ARun
<1> HIDE DEF s
<1>6. runs' = [runs EXCEPT ![p] = s]
  BY <1>4 DEF s
<1>7. bundles \subseteq bundles' /\ bundles' \subseteq ABundle /\ \A b \in bundles' : OnMain(b.sha)
  BY <1>1, <1>3, <1>4
<1> QED
  BY <1>1, <1>4, <1>5, <1>6, <1>7, RunMoves

-------------------------------------------------------------------------------
(* Release runs                                                            *)

LEMMA ReleaseMoves ==
  ASSUME PInv, UNCHANGED <<main, promotionVars, tag, releases>>, NEW r \in Release,
         NEW s \in ARelease, rel' = [rel EXCEPT ![r] = s], Holds(s)
  PROVE  PInv'
<1>1. Types'
  BY DEF PInv, Types, promotionVars
<1>2. (\A i : OnMain(i)' <=> OnMain(i)) /\ (\A a : Good(a)' <=> Good(a))
  BY DEF OnMain, Good
<1>3. PoliciesHold' /\ RunsHold' /\ ReleasesHold'
  BY <1>2 DEF PInv, PoliciesHold, Source, RunsHold, ReleasesHold, promotionVars
<1>4. AuthorityHolds'
  <2> SUFFICES ASSUME NEW q \in Release PROVE Holds(rel[q])'
    BY DEF AuthorityHolds
  <2>1. rel'[q] = s \/ rel'[q] = rel[q]
    BY DEF PInv, Types
  <2>2. Holds(rel'[q])
    BY <2>1 DEF PInv, AuthorityHolds
  <2> QED
    BY <2>2, <1>2 DEF Holds
<1> QED
  BY <1>1, <1>3, <1>4 DEF PInv

LEMMA ReleaseIsTyped ==
  ASSUME PInv, NEW r \in Release
  PROVE  rel[r] \in ARelease /\ Holds(rel[r])
BY DEF PInv, Types, AuthorityHolds

LEMMA StartPInv ==
  ASSUME PInv, NEW r \in Release, NEW p \in Evaluation, Start(r, p)
  PROVE  PInv'
<1> DEFINE s == [[NotStarted EXCEPT !.sha = Len(main), !.input = p, !.attempt = 1]
                   EXCEPT !.step = "fetch"]
<1>1. Len(main) \in Nat /\ OnMain(Len(main))
  BY DEF PInv, Types, OnMain
<1>2. s \in ARelease /\ s.sha = Len(main) /\ s.input = p /\ s.step = "fetch"
      /\ s.authority = {} /\ s.payload = {}
  BY <1>1 DEF NotStarted, ARelease
<1>3. rel' = [rel EXCEPT ![r] = s] /\ UNCHANGED <<main, promotionVars, tag, releases>>
  BY DEF Start, Goto, published
<1> HIDE DEF s
<1>4. Holds(s)
  BY <1>1, <1>2 DEF Holds
<1> QED
  BY <1>2, <1>3, <1>4, ReleaseMoves

LEMMA FetchRunPInv ==
  ASSUME PInv, NEW r \in Release, FetchRun(r)
  PROVE  PInv'
<1> DEFINE p == rel[r].input
           m == [run |-> p, sha |-> runs[p].sha, attempt |-> runs[p].attempt]
           s == [[rel[r] EXCEPT !.meta = m] EXCEPT !.step = "authorize"]
<1>1. rel[r] \in ARelease /\ Holds(rel[r]) /\ rel[r].step = "fetch"
  BY ReleaseIsTyped DEF FetchRun, At
<1>2. p \in Evaluation /\ m \in Meta
  BY <1>1 DEF Holds, PInv, Types, ARun, Meta
<1>3. rel' = [rel EXCEPT ![r] = s] /\ UNCHANGED <<main, promotionVars, tag, releases>>
  BY DEF FetchRun, Goto, published
<1> HIDE DEF m
<1>4. s \in ARelease /\ s.sha = rel[r].sha /\ s.input = rel[r].input /\ s.step = "authorize"
      /\ s.authority = rel[r].authority /\ s.payload = rel[r].payload
  BY <1>1, <1>2 DEF ARelease
<1> HIDE DEF s
<1>5. Holds(s)
  BY <1>1, <1>4 DEF Holds
<1> QED
  BY <1>3, <1>4, <1>5, ReleaseMoves

LEMMA AuthorizePInv ==
  ASSUME PInv, NEW r \in Release, NEW b \in bundles, NEW live \in Lock \cup {NoLock},
         Authorize(r, b, live)
  PROVE  PInv'
<1> DEFINE a == [sha |-> rel[r].sha, attempt |-> rel[r].meta.attempt, bundle |-> b]
           s == [[rel[r] EXCEPT !.meta = None, !.authority = @ \cup {a}] EXCEPT !.step = "package"]
<1>1. rel[r] \in ARelease /\ Holds(rel[r]) /\ rel[r].step = "authorize" /\ b \in ABundle
      /\ OnMain(b.sha)
  BY ReleaseIsTyped DEF Authorize, At, PInv, Types, RunsHold
<1>2. /\ b.sha = rel[r].meta.sha /\ rel[r].meta.sha + 1 = rel[r].sha
      /\ Activates(main[rel[r].meta.sha], main[rel[r].sha])
      /\ b.attempt = rel[r].meta.attempt /\ ValidBundle(b, main[rel[r].sha])
  BY DEF Authorize, OfThatAttempt
<1>3. a.sha = rel[r].sha /\ a.attempt = b.attempt /\ a.bundle = b
  BY <1>2
<1>4. a \in Authority
  BY <1>1, <1>3 DEF Authority, ABundle, ARelease
<1>5. rel' = [rel EXCEPT ![r] = s] /\ UNCHANGED <<main, promotionVars, tag, releases>>
  BY DEF Authorize, Goto, published
<1> HIDE DEF a
<1>6. Good(a)
  BY <1>1, <1>2, <1>3 DEF Good, Holds
<1>7. s \in ARelease /\ s.sha = rel[r].sha /\ s.input = rel[r].input /\ s.step = "package"
      /\ s.authority = rel[r].authority \cup {a} /\ s.payload = rel[r].payload
  BY <1>1, <1>4 DEF ARelease
<1> HIDE DEF s
<1>8. Holds(s)
  BY <1>1, <1>3, <1>6, <1>7 DEF Holds
<1> QED
  BY <1>5, <1>7, <1>8, ReleaseMoves

LEMMA PackagePInv ==
  ASSUME PInv, NEW r \in Release, NEW a \in rel[r].authority, Package(r, a)
  PROVE  PInv'
<1> DEFINE s == [[rel[r] EXCEPT !.payload = @ \cup {a}] EXCEPT !.step = "tag"]
<1>1. rel[r] \in ARelease /\ Holds(rel[r]) /\ rel[r].step = "package"
  BY ReleaseIsTyped DEF Package, At
<1>2. rel' = [rel EXCEPT ![r] = s] /\ UNCHANGED <<main, promotionVars, tag, releases>>
  BY DEF Package, Goto, published
<1>3. a \in Authority
  BY <1>1 DEF ARelease
<1>4. s \in ARelease /\ s.sha = rel[r].sha /\ s.input = rel[r].input /\ s.step = "tag"
      /\ s.authority = rel[r].authority /\ s.payload = rel[r].payload \cup {a}
  BY <1>1, <1>3 DEF ARelease
<1> HIDE DEF s
<1>5. Holds(s)
  BY <1>1, <1>4 DEF Holds
<1> QED
  BY <1>2, <1>4, <1>5, ReleaseMoves

LEMMA FailReleasePInv ==
  ASSUME PInv, NEW r \in Release, FailRelease(r)
  PROVE  PInv'
<1> DEFINE s == [rel[r] EXCEPT !.failed = TRUE, !.meta = None]
<1>1. rel[r] \in ARelease /\ Holds(rel[r]) /\ rel[r].step # "unused"
  BY ReleaseIsTyped DEF FailRelease
<1>2. rel' = [rel EXCEPT ![r] = s] /\ UNCHANGED <<main, promotionVars, tag, releases>>
  BY DEF FailRelease, published
<1>3. s \in ARelease /\ s.sha = rel[r].sha /\ s.input = rel[r].input /\ s.step = rel[r].step
      /\ s.authority = rel[r].authority /\ s.payload = rel[r].payload
  BY <1>1 DEF ARelease
<1> HIDE DEF s
<1>4. Holds(s)
  BY <1>1, <1>3 DEF Holds
<1> QED
  BY <1>2, <1>3, <1>4, ReleaseMoves

LEMMA RerunReleasePInv ==
  ASSUME PInv, NEW r \in Release, NEW all \in BOOLEAN, RerunRelease(r, all)
  PROVE  PInv'
<1> DEFINE step == IF all THEN "fetch" ELSE FirstStep(rel[r].step)
           again == [rel[r] EXCEPT !.failed = FALSE, !.attempt = @ + 1]
           s == [again EXCEPT !.step = step]
<1>1. rel[r] \in ARelease /\ Holds(rel[r])
  BY ReleaseIsTyped
<1>2. rel' = [rel EXCEPT ![r] = s] /\ UNCHANGED <<main, promotionVars, tag, releases>>
  BY DEF RerunRelease, Goto, published
<1>3. step \in {"fetch", "package", "tag"}
  BY DEF FirstStep
<1>4. rel[r].step # "unused"
  BY <1>1 DEF RerunRelease, Holds
<1>5. again \in ARelease /\ again.sha = rel[r].sha /\ again.input = rel[r].input
      /\ again.authority = rel[r].authority /\ again.payload = rel[r].payload
  <2>1. rel[r].attempt + 1 \in Nat
    BY <1>1 DEF ARelease
  <2> QED
    BY <1>1, <2>1 DEF ARelease
<1> HIDE DEF step, again
<1>6. s \in ARelease /\ s.sha = rel[r].sha /\ s.input = rel[r].input /\ s.step = step
      /\ s.authority = rel[r].authority /\ s.payload = rel[r].payload
  BY <1>3, <1>5 DEF ARelease
<1> HIDE DEF s
<1>7. Holds(s)
  BY <1>1, <1>3, <1>4, <1>6 DEF Holds
<1> QED
  BY <1>2, <1>6, <1>7, ReleaseMoves

-------------------------------------------------------------------------------
(* Publication                                                             *)

LEMMA EnsureTagPInv ==
  ASSUME PInv, NEW r \in Release, EnsureTag(r)
  PROVE  PInv'
<1> DEFINE s == [rel[r] EXCEPT !.step = "view"]
<1>1. rel[r] \in ARelease /\ Holds(rel[r]) /\ rel[r].step = "tag"
  BY ReleaseIsTyped DEF EnsureTag, At
<1>2. /\ rel' = [rel EXCEPT ![r] = s] /\ UNCHANGED <<main, promotionVars, releases>>
      /\ tag' = rel[r].sha /\ (tag # 0 => tag' = tag)
  BY DEF EnsureTag, Goto, TagFits, published
<1>3. s \in ARelease /\ s.sha = rel[r].sha /\ s.input = rel[r].input /\ s.step = "view"
      /\ s.authority = rel[r].authority /\ s.payload = rel[r].payload
  BY <1>1 DEF ARelease
<1>4. tag' \in Nat
  BY <1>1, <1>2 DEF ARelease
<1>5. ReleasesHold'
      /\ \A q \in Release : rel[q].step \in {"view", "create", "publish", "done"} => tag' = rel[q].sha
  BY <1>2, <1>4, TagIsMade
<1> HIDE DEF s
<1>6. Types' /\ PoliciesHold' /\ RunsHold'
  BY <1>2, <1>3, <1>4 DEF PInv, Types, PoliciesHold, RunsHold, OnMain, Source, promotionVars
<1>7. AuthorityHolds'
  <2> SUFFICES ASSUME NEW q \in Release PROVE Holds(rel[q])'
    BY DEF AuthorityHolds
  <2>1. (\A i : OnMain(i)' <=> OnMain(i)) /\ (\A a : Good(a)' <=> Good(a))
    BY <1>2 DEF OnMain, Good
  <2>2. CASE q = r
    <3>1. rel'[q] = s
      BY <1>2, <2>2 DEF PInv, Types
    <3> QED
      BY <1>1, <1>2, <1>3, <2>1, <3>1 DEF Holds
  <2>3. CASE q # r
    <3>1. rel'[q] = rel[q] /\ Holds(rel[q])
      BY <1>2, <2>3, ReleaseIsTyped DEF PInv, Types
    <3> QED
      BY <1>5, <2>1, <3>1 DEF Holds
  <2> QED
    BY <2>2, <2>3
<1> QED
  BY <1>5, <1>6, <1>7 DEF PInv

\* The releases may change, main, evaluations and tag do not.
LEMMA PublicationMoves ==
  ASSUME PInv, UNCHANGED <<main, promotionVars, tag>>, NEW r \in Release,
         NEW step \in {"create", "publish", "done"}, rel[r].step \in {"view", "create", "publish"},
         rel' = [rel EXCEPT ![r] = [rel[r] EXCEPT !.step = step]],
         \A x \in releases' : Good(x.authority) /\ tag = x.authority.sha
  PROVE  PInv'
<1> DEFINE s == [rel[r] EXCEPT !.step = step]
<1>1. rel[r] \in ARelease /\ Holds(rel[r])
  BY ReleaseIsTyped
<1>2. s \in ARelease /\ s.sha = rel[r].sha /\ s.input = rel[r].input /\ s.step = step
      /\ s.authority = rel[r].authority /\ s.payload = rel[r].payload
  BY <1>1 DEF ARelease
<1>3. rel' = [rel EXCEPT ![r] = s]
  OBVIOUS
<1> HIDE DEF s
<1>4. (\A i : OnMain(i)' <=> OnMain(i)) /\ (\A a : Good(a)' <=> Good(a))
  BY DEF OnMain, Good
<1>5. Types' /\ PoliciesHold' /\ RunsHold'
  BY <1>2, <1>3, <1>4 DEF PInv, Types, PoliciesHold, RunsHold, Source, promotionVars
<1>6. AuthorityHolds'
  <2> SUFFICES ASSUME NEW q \in Release PROVE Holds(rel[q])'
    BY DEF AuthorityHolds
  <2>1. rel'[q] = s \/ rel'[q] = rel[q]
    BY <1>3 DEF PInv, Types
  <2>2. Holds(s)
    BY <1>1, <1>2 DEF Holds
  <2>3. Holds(rel'[q])
    BY <2>1, <2>2, ReleaseIsTyped
  <2> QED
    BY <2>3, <1>4 DEF Holds
<1>7. ReleasesHold'
  BY <1>4 DEF ReleasesHold
<1> QED
  BY <1>5, <1>6, <1>7 DEF PInv

LEMMA ViewReleasesPInv ==
  ASSUME PInv, NEW r \in Release, NEW fails \in BOOLEAN, ViewReleases(r, fails)
  PROVE  PInv'
<1>1. /\ UNCHANGED <<main, promotionVars, tag, releases>> /\ rel[r].step = "view"
      /\ rel' = [rel EXCEPT ![r] = [rel[r] EXCEPT !.step = "create"]]
  BY DEF ViewReleases, At, Goto
<1>2. \A x \in releases' : Good(x.authority) /\ tag = x.authority.sha
  BY <1>1 DEF PInv, ReleasesHold
<1> QED
  BY <1>1, <1>2, PublicationMoves

LEMMA CreateDraftPInv ==
  ASSUME PInv, NEW r \in Release, NEW a \in rel[r].payload, CreateDraft(r, a)
  PROVE  PInv'
<1> DEFINE x == [by |-> <<r, rel[r].attempt>>, authority |-> a, published |-> FALSE]
<1>1. /\ UNCHANGED <<main, promotionVars, tag>> /\ rel[r].step = "create"
      /\ rel' = [rel EXCEPT ![r] = [rel[r] EXCEPT !.step = "publish"]]
      /\ releases' = releases \cup {x}
  BY DEF CreateDraft, At, Goto
<1>2. Good(a) /\ a.sha = rel[r].sha /\ tag = rel[r].sha
  BY <1>1, ReleaseIsTyped DEF Holds
<1>3. x.authority = a
  OBVIOUS
<1> HIDE DEF x
<1>4. \A y \in releases' : Good(y.authority) /\ tag = y.authority.sha
  BY <1>1, <1>2, <1>3 DEF PInv, ReleasesHold
<1> QED
  BY <1>1, <1>4, PublicationMoves

LEMMA PublishPInv ==
  ASSUME PInv, NEW r \in Release, NEW x \in releases, Publish(r, x)
  PROVE  PInv'
<1> DEFINE y == [x EXCEPT !.published = TRUE]
<1>1. /\ UNCHANGED <<main, promotionVars, tag>> /\ rel[r].step = "publish"
      /\ rel' = [rel EXCEPT ![r] = [rel[r] EXCEPT !.step = "done"]]
      /\ releases' = (releases \ {x}) \cup {y}
  BY DEF Publish, At, Goto
<1>2. y.authority = x.authority
  OBVIOUS
<1> HIDE DEF y
<1>3. \A z \in releases' : Good(z.authority) /\ tag = z.authority.sha
  BY <1>1, <1>2 DEF PInv, ReleasesHold
<1> QED
  BY <1>1, <1>3, PublicationMoves

-------------------------------------------------------------------------------
LEMMA NextPInv == PInv /\ [Next]_vars => PInv'
<1> SUFFICES ASSUME PInv, [Next]_vars PROVE PInv'
  OBVIOUS
<1>1. CASE UNCHANGED vars
  BY <1>1 DEF vars, promotionVars, releaseVars, published, PInv, Types, PoliciesHold, RunsHold,
              AuthorityHolds, Holds, ReleasesHold, Good, OnMain, Source
<1>2. CASE \E files \in Edits : Merge(files)
  BY <1>2, MergePInv
<1>3. CASE PushTag
  BY <1>3, PushTagPInv
<1>4. CASE \E p \in Evaluation : Dispatch(p) \/ Rerun(p) \/ FailPromotion(p)
  BY <1>4, DispatchRerunFailPInv
<1>5. CASE \E p \in Evaluation : \E live \in Lock \cup {NoLock}, g \in Grades, yes \in BOOLEAN :
             Evaluate(p, live, g, yes)
  BY <1>5, EvaluatePInv
<1>6. CASE \E r \in Release : \E p \in Evaluation : Start(r, p)
  BY <1>6, StartPInv
<1>7. CASE \E r \in Release : \E b \in bundles, live \in Lock \cup {NoLock} : Authorize(r, b, live)
  BY <1>7, AuthorizePInv
<1>8. CASE \E r \in Release : FetchRun(r) \/ EnsureTag(r) \/ FailRelease(r)
  BY <1>8, FetchRunPInv, EnsureTagPInv, FailReleasePInv
<1>9. CASE \E r \in Release : \E yes \in BOOLEAN : RerunRelease(r, yes) \/ ViewReleases(r, yes)
  BY <1>9, RerunReleasePInv, ViewReleasesPInv
<1>10. CASE \E r \in Release : \E a \in rel[r].authority : Package(r, a)
  BY <1>10, PackagePInv
<1>11. CASE \E r \in Release : \E a \in rel[r].payload : CreateDraft(r, a)
  BY <1>11, CreateDraftPInv
<1>12. CASE \E r \in Release : \E x \in releases : Publish(r, x)
  BY <1>12, PublishPInv
<1> QED
  BY <1>1, <1>2, <1>3, <1>4, <1>5, <1>6, <1>7, <1>8, <1>9, <1>10, <1>11, <1>12 DEF Next

THEOREM PInvariance == Spec => []PInv
BY InitPInv, NextPInv, PTL DEF Spec

\* What is released is the evaluated commit and its activation, nothing else.
THEOREM ReleaseIsTheParent == Spec => []ReleaseIsItsParentActivated
<1>1. PInv => ReleaseIsItsParentActivated
  <2> SUFFICES ASSUME PInv, NEW x \in releases
               PROVE  /\ x.authority.bundle.sha = x.authority.sha - 1
                      /\ main[x.authority.sha] = [main[x.authority.sha - 1]
                            EXCEPT !.lifecycle = "active", !.roadmap = "done"]
    BY DEF ReleaseIsItsParentActivated
  <2>1. Good(x.authority)
    BY DEF PInv, ReleasesHold
  <2>2. x.authority.bundle.sha = x.authority.sha - 1
    BY <2>1 DEF Good, OnMain, PInv, Types
  <2> QED
    BY <2>1, <2>2 DEF Good, Activates
<1> QED
  BY <1>1, PInvariance, PTL

\* A release run never mixes the description of one attempt of an evaluation with
\* the artifact of another.
THEOREM OneAttempt == Spec => []EvidenceIsOfOneAttempt
<1>1. PInv => EvidenceIsOfOneAttempt
  BY DEF PInv, AuthorityHolds, Holds, Good, EvidenceIsOfOneAttempt
<1> QED
  BY <1>1, PInvariance, PTL

\* A release rests on a promotion of its parent and on an earlier calibration.
THEOREM CalibratedBefore == Spec => []ReleasedAfterCalibration
<1>1. PInv => ReleasedAfterCalibration
  <2> SUFFICES ASSUME PInv, NEW x \in releases
               PROVE  LET b == x.authority.bundle  p == b.policy IN
                      /\ b.run \in Promotion /\ b.eligible /\ b.lock # NoLock /\ b.grade >= p.minimum
                      /\ \E c \in bundles :
                           /\ <<c.run, c.attempt>> = p.from /\ c.sha < b.sha
                           /\ c.core = b.core /\ c.eligible = b.eligible /\ c.grade >= p.minimum
    BY DEF ReleasedAfterCalibration
  <2> DEFINE s == x.authority.sha
             b == x.authority.bundle
             k == b.sha
  <2>1. Good(x.authority)
    BY DEF PInv, ReleasesHold
  <2>2. k + 1 = s /\ k \in 1..Len(main) /\ s \in 1..Len(main)
        /\ ValidBundle(b, main[s]) /\ Activates(main[k], main[s])
    BY <2>1 DEF Good, OnMain
  <2>3. main[k] \in ACommit /\ main[s] \in ACommit
    BY <2>2 DEF PInv, Types
  <2>4. main[k].policy = main[s].policy
    BY <2>2, <2>3 DEF Activates, ACommit
  <2>5. /\ b.policy = main[s].policy /\ b.policy # DraftPolicy /\ b.run \in Promotion
        /\ b.eligible /\ b.lock # NoLock /\ b.grade >= b.policy.minimum
        /\ b.policy.core = b.core /\ b.policy.eligible = b.eligible
    <3>1. /\ b.policy = main[s].policy /\ b.lock = main[s].lock
          /\ b.eligible = main[s].eligible /\ b.core = main[s].core
          /\ main[s].policy # DraftPolicy /\ main[s].lock # NoLock
          /\ main[s].eligible /\ b.run \in Promotion
          /\ Current(main[s]) /\ Admits(main[s], b.grade)
      BY <2>2 DEF ValidBundle, Calibrated
    <3> QED
      BY <3>1 DEF Current, Admits
  <2>6. PICK c \in bundles : Source(c, main[k].policy, k)
    BY <2>2, <2>4, <2>5 DEF PInv, PoliciesHold
  <2> HIDE DEF s, b, k
  <2>7. /\ <<c.run, c.attempt>> = b.policy.from /\ c.sha < b.sha
        /\ c.core = b.core /\ c.eligible = b.eligible /\ c.grade >= b.policy.minimum
    BY <2>4, <2>5, <2>6 DEF Source, k
  <2> QED
    BY <2>5, <2>7 DEF b
<1> QED
  BY <1>1, PInvariance, PTL

\* The tag points to what was released, even if somebody made it first.
THEOREM TagOfTheRelease == Spec => []TagIsTheSource
<1>1. PInv => TagIsTheSource
  BY DEF PInv, ReleasesHold, TagIsTheSource
<1> QED
  BY <1>1, PInvariance, PTL

-------------------------------------------------------------------------------
(* One release                                                             *)

\* One release run is under way at a time, so that what it saw of the releases is
\* still so when it creates one: none, unless its view failed over one.  And GitHub
\* publishes one.
Single ==
  /\ \A q, r \in Release : Running(q) /\ Running(r) => q = r
  /\ \A r \in Release : At(r, "create") => misread \/ releases = {}
  /\ misread \in BOOLEAN
  /\ \A x, y \in releases : ~misread \/ (x.published /\ y.published) => x = y

LEMMA OthersWait ==
  ASSUME PInv, Single, NEW r \in Release, Running(r), NEW s, rel' = [rel EXCEPT ![r] = s]
  PROVE  /\ \A q \in Release : q # r => ~Running(q)' /\ ~At(q, "create")'
         /\ rel'[r] = s
<1>1. rel'[r] = s /\ \A q \in Release : q # r => rel'[q] = rel[q] /\ ~Running(q)
  BY DEF PInv, Types, Single
<1> QED
  BY <1>1 DEF Running, At

\* One run moves, to another step than the creation, or ends.
LEMMA SingleMoves ==
  ASSUME PInv, Single, UNCHANGED published, NEW r \in Release, NEW s,
         rel' = [rel EXCEPT ![r] = s], s.step # "create" \/ s.failed,
         s.failed \/ Running(r) \/ \A x \in Release : ~Running(x)
  PROVE  Single'
<1>1. rel'[r] = s /\ \A q \in Release : q # r => rel'[q] = rel[q]
  BY DEF PInv, Types
<1>2. \A q \in Release : q # r => (Running(q)' <=> Running(q)) /\ (At(q, "create")' <=> At(q, "create"))
  BY <1>1 DEF Running, At
<1>3. ~At(r, "create")'
  BY <1>1 DEF At
<1>4. s.failed => ~Running(r)'
  BY <1>1 DEF Running
<1>5. \A p, q \in Release : Running(p)' /\ Running(q)' => p = q
  BY <1>2, <1>4 DEF Single
<1> QED
  BY <1>2, <1>3, <1>5 DEF Single, published

LEMMA BeforePublication ==
  ASSUME PInv, Single, NEW r \in Release,
         \/ \E p \in Evaluation : Start(r, p)
         \/ \E b \in bundles, live \in Lock \cup {NoLock} : Authorize(r, b, live)
         \/ FetchRun(r) \/ EnsureTag(r) \/ FailRelease(r)
         \/ \E all \in BOOLEAN : RerunRelease(r, all)
         \/ \E a \in rel[r].authority : Package(r, a)
  PROVE  Single'
<1>1. rel[r] \in ARelease
  BY ReleaseIsTyped
<1>2. ASSUME NEW t \in ARelease, NEW step, step # "create",
             rel' = [rel EXCEPT ![r] = [t EXCEPT !.step = step]],
             UNCHANGED published, Running(r) \/ \A x \in Release : ~Running(x)
      PROVE  Single'
  <2> DEFINE s == [t EXCEPT !.step = step]
  <2>1. s.step # "create"
    BY <1>2 DEF ARelease
  <2>2. rel' = [rel EXCEPT ![r] = s]
    BY <1>2
  <2> HIDE DEF s
  <2> QED
    BY <1>2, <2>1, <2>2, SingleMoves
<1>3. ASSUME NEW p \in Evaluation, Start(r, p) PROVE Single'
  <2> DEFINE t == [NotStarted EXCEPT !.sha = Len(main), !.input = p, !.attempt = 1]
  <2>1. t \in ARelease
    <3>1. Len(main) \in Nat
      BY DEF PInv, Types
    <3> QED
      BY <3>1 DEF NotStarted, ARelease
  <2>2. /\ rel' = [rel EXCEPT ![r] = [t EXCEPT !.step = "fetch"]] /\ UNCHANGED published
        /\ \A x \in Release : ~Running(x)
    BY <1>3 DEF Start, Goto
  <2> HIDE DEF t
  <2> QED
    BY <1>2, <2>1, <2>2
<1>4. ASSUME NEW b \in bundles, NEW live \in Lock \cup {NoLock}, Authorize(r, b, live)
      PROVE  Single'
  <2> DEFINE t == [rel[r] EXCEPT !.meta = None, !.authority = @ \cup
                     {[sha |-> rel[r].sha, attempt |-> rel[r].meta.attempt, bundle |-> b]}]
             s == [t EXCEPT !.step = "package"]
  <2>1. s.step # "create"
    BY <1>1 DEF ARelease
  <2>2. rel' = [rel EXCEPT ![r] = s] /\ UNCHANGED published /\ Running(r)
    BY <1>4 DEF Authorize, Goto, At, Running
  <2> HIDE DEF s
  <2> QED
    BY <2>1, <2>2, SingleMoves
<1>5. CASE FetchRun(r)
  <2> DEFINE t == [rel[r] EXCEPT !.meta = [run |-> rel[r].input, sha |-> runs[rel[r].input].sha,
                                           attempt |-> runs[rel[r].input].attempt]]
             s == [t EXCEPT !.step = "authorize"]
  <2>1. s.step # "create"
    BY <1>1 DEF ARelease
  <2>2. rel' = [rel EXCEPT ![r] = s] /\ UNCHANGED published /\ Running(r)
    BY <1>5 DEF FetchRun, Goto, At, Running
  <2> HIDE DEF s
  <2> QED
    BY <2>1, <2>2, SingleMoves
<1>6. CASE EnsureTag(r)
  <2>1. rel' = [rel EXCEPT ![r] = [rel[r] EXCEPT !.step = "view"]] /\ UNCHANGED published
        /\ Running(r)
    BY <1>6 DEF EnsureTag, Goto, At, Running
  <2> QED
    BY <1>1, <1>2, <2>1
<1>7. CASE FailRelease(r)
  <2> DEFINE s == [rel[r] EXCEPT !.failed = TRUE, !.meta = None]
  <2>1. s.failed
    BY <1>1 DEF ARelease
  <2>2. rel' = [rel EXCEPT ![r] = s] /\ UNCHANGED published
    BY <1>7 DEF FailRelease
  <2> HIDE DEF s
  <2> QED
    BY <2>1, <2>2, SingleMoves
<1>8. ASSUME NEW all \in BOOLEAN, RerunRelease(r, all) PROVE Single'
  <2> DEFINE t == [rel[r] EXCEPT !.failed = FALSE, !.attempt = @ + 1]
             step == IF all THEN "fetch" ELSE FirstStep(rel[r].step)
  <2>1. step # "create"
    BY DEF FirstStep
  <2>2. t \in ARelease
    <3>1. rel[r].attempt + 1 \in Nat
      BY <1>1 DEF ARelease
    <3> QED
      BY <1>1, <3>1 DEF ARelease
  <2>3. /\ rel' = [rel EXCEPT ![r] = [t EXCEPT !.step = step]] /\ UNCHANGED published
        /\ \A x \in Release : ~Running(x)
    BY <1>8 DEF RerunRelease, Goto
  <2> HIDE DEF t, step
  <2> QED
    BY <1>2, <2>1, <2>2, <2>3
<1>9. ASSUME NEW a \in rel[r].authority, Package(r, a) PROVE Single'
  <2> DEFINE s == [[rel[r] EXCEPT !.payload = @ \cup {a}] EXCEPT !.step = "tag"]
  <2>1. s.step # "create"
    BY <1>1 DEF ARelease
  <2>2. rel' = [rel EXCEPT ![r] = s] /\ UNCHANGED published /\ Running(r)
    BY <1>9 DEF Package, Goto, At, Running
  <2> HIDE DEF s
  <2> QED
    BY <2>1, <2>2, SingleMoves
<1> QED
  BY <1>3, <1>4, <1>5, <1>6, <1>7, <1>8, <1>9

\* The view, the creation and the publication, with nobody in between.
LEMMA PublicationSingle ==
  ASSUME PInv, Single, NEW r \in Release,
         \/ \E fails \in BOOLEAN : ViewReleases(r, fails)
         \/ \E a \in rel[r].payload : CreateDraft(r, a)
         \/ \E x \in releases : Publish(r, x)
  PROVE  Single'
<1>1. rel[r] \in ARelease
  BY ReleaseIsTyped
<1>2. ASSUME NEW fails \in BOOLEAN, ViewReleases(r, fails) PROVE Single'
  <2>1. /\ rel' = [rel EXCEPT ![r] = [rel[r] EXCEPT !.step = "create"]] /\ UNCHANGED releases
        /\ misread' = (misread \/ (fails /\ releases # {})) /\ (fails \/ releases = {})
        /\ Running(r)
    BY <1>2 DEF ViewReleases, Goto, At, Running, Existing
  <2>2. \A q \in Release : q # r => ~Running(q)' /\ ~At(q, "create")'
    BY <2>1, OthersWait
  <2>3. misread' \/ releases' = {}
    BY <2>1
  <2>4. misread' \in BOOLEAN /\ (misread => misread')
    BY <2>1 DEF Single
  <2> QED
    BY <2>1, <2>2, <2>3, <2>4 DEF Single
<1>3. ASSUME NEW a \in rel[r].payload, CreateDraft(r, a) PROVE Single'
  <2> DEFINE x == [by |-> <<r, rel[r].attempt>>, authority |-> a, published |-> FALSE]
             s == [rel[r] EXCEPT !.step = "publish"]
  <2>1. /\ rel' = [rel EXCEPT ![r] = s] /\ releases' = releases \cup {x}
        /\ UNCHANGED misread /\ Running(r) /\ At(r, "create")
        /\ \A y \in releases : ~y.published
    BY <1>3 DEF CreateDraft, Goto, At, Running, IsPublished
  <2>2. s.step = "publish" /\ ~x.published
    BY <1>1 DEF ARelease
  <2> HIDE DEF x, s
  <2>3. /\ \A q \in Release : q # r => ~Running(q)' /\ ~At(q, "create")'
        /\ ~At(r, "create")'
    BY <2>1, <2>2, OthersWait DEF At
  <2>4. \A y, z \in releases' : ~misread \/ (y.published /\ z.published) => y = z
    BY <2>1, <2>2 DEF Single
  <2> QED
    BY <2>1, <2>3, <2>4 DEF Single
<1>4. ASSUME NEW x \in releases, Publish(r, x) PROVE Single'
  <2> DEFINE y == [x EXCEPT !.published = TRUE]
             s == [rel[r] EXCEPT !.step = "done"]
  <2>1. /\ rel' = [rel EXCEPT ![r] = s] /\ releases' = (releases \ {x}) \cup {y}
        /\ UNCHANGED misread /\ Running(r) /\ \A z \in releases : ~z.published
    BY <1>4 DEF Publish, Goto, At, Running, IsPublished
  <2>2. s.step = "done"
    BY <1>1 DEF ARelease
  <2> HIDE DEF y, s
  <2>3. /\ \A q \in Release : q # r => ~Running(q)' /\ ~At(q, "create")'
        /\ ~At(r, "create")'
    BY <2>1, <2>2, OthersWait DEF At
  <2>4. \A z, w \in releases' : ~misread \/ (z.published /\ w.published) => z = w
    BY <2>1 DEF Single
  <2> QED
    BY <2>1, <2>3, <2>4 DEF Single
<1> QED
  BY <1>2, <1>3, <1>4

LEMMA NextSingle == PInv /\ Single /\ [Next]_vars => Single'
<1> SUFFICES ASSUME PInv, Single, [Next]_vars PROVE Single'
  OBVIOUS
<1>1. CASE UNCHANGED <<rel, published>>
  BY <1>1 DEF Single, Running, At, published
<1>2. CASE UNCHANGED vars \/ PushTag \/ \E files \in Edits : Merge(files)
  BY <1>1, <1>2 DEF vars, PushTag, Merge, releaseVars, published
<1>3. CASE \E p \in Evaluation :
             \/ Dispatch(p) \/ Rerun(p) \/ FailPromotion(p)
             \/ \E live \in Lock \cup {NoLock}, g \in Grades, yes \in BOOLEAN :
                  Evaluate(p, live, g, yes)
  BY <1>1, <1>3 DEF Dispatch, Rerun, FailPromotion, Evaluate, releaseVars
<1>4. ASSUME NEW r \in Release,
             \/ \E p \in Evaluation : Start(r, p)
             \/ \E b \in bundles, live \in Lock \cup {NoLock} : Authorize(r, b, live)
             \/ FetchRun(r) \/ EnsureTag(r) \/ FailRelease(r)
             \/ \E yes \in BOOLEAN : RerunRelease(r, yes) \/ ViewReleases(r, yes)
             \/ \E a \in rel[r].authority : Package(r, a)
             \/ \E a \in rel[r].payload : CreateDraft(r, a)
             \/ \E x \in releases : Publish(r, x)
      PROVE  Single'
  BY <1>4, BeforePublication, PublicationSingle
<1> QED
  BY <1>2, <1>3, <1>4 DEF Next

LEMMA InitSingle == Init => Single
<1> SUFFICES ASSUME Init PROVE Single
  OBVIOUS
<1>1. \A r \in Release : rel[r].step = "unused"
  BY DEF Init, NotStarted
<1>2. releases = {} /\ misread = FALSE
  BY DEF Init
<1> QED
  BY <1>1, <1>2 DEF Single, Running, At

LEMMA AtMostOne ==
  ASSUME NEW S, \A x, y \in S : x = y
  PROVE  Cardinality(S) <= 1
<1>1. CASE S = {}
  BY <1>1, FS_EmptySet
<1>2. CASE S # {}
  <2>1. PICK x \in S : S = {x}
    BY <1>2
  <2>2. Cardinality({x}) = 1
    BY FS_Singleton, Zenon
  <2> QED
    BY <2>1, <2>2
<1> QED
  BY <1>1, <1>2

\* Interrupted and repeated publications leave one release of the tag, drafts included,
\* unless the look for it failed; and one published release whatever fails.
THEOREM NeverDoubled == Spec => []OneReleaseOfTheTag
<1>1. Single => OneReleaseOfTheTag
  <2> SUFFICES ASSUME Single PROVE OneReleaseOfTheTag
    OBVIOUS
  <2> DEFINE P == {x \in releases : x.published}
  <2>2. \A x, y \in P : x = y
    BY DEF Single
  <2> HIDE DEF P
  <2>3. Cardinality(P) <= 1
    BY <2>2, AtMostOne
  <2>4. misread \/ Cardinality(releases) <= 1
    <3>1. CASE ~misread
      <4>1. \A x, y \in releases : x = y
        BY <3>1 DEF Single
      <4> QED
        BY <4>1, AtMostOne
    <3> QED
      BY <3>1
  <2> QED
    BY <2>3, <2>4 DEF OneReleaseOfTheTag, P
<1> QED
  BY <1>1, InitPInv, NextPInv, InitSingle, NextSingle, PTL DEF Spec

-------------------------------------------------------------------------------
(* Types with the bounds                                                   *)

\* The attempts counted are those of every run, so a run that is started again
\* while there is room has used fewer than all of them.
LEMMA RoomForOneMore ==
  ASSUME NEW p \in Evaluation, runs[p].attempt \in 0..MaxAttempts,
         Cardinality(Attempts) < MaxAttempts
  PROVE  runs[p].attempt < MaxAttempts
<1>1. MaxAttempts \in Nat /\ IsFiniteSet(Evaluation)
  BY ReleaseConstants
<1> SUFFICES ASSUME runs[p].attempt = MaxAttempts PROVE FALSE
  BY <1>1
<1>2. IsFiniteSet(1..MaxAttempts) /\ Cardinality(1..MaxAttempts) = MaxAttempts
  BY <1>1, FS_Interval
<1>3. IsFiniteSet(Evaluation \X (1..MaxAttempts))
  BY <1>1, <1>2, FS_Product
<1>4. IsFiniteSet(Attempts) /\ Cardinality(Attempts) \in Nat
  <2>1. Attempts \subseteq Evaluation \X (1..MaxAttempts)
    BY DEF Attempts
  <2> QED
    BY <1>3, <2>1, FS_Subset, FS_CardinalityType
<1> DEFINE Own == {p} \X (1..MaxAttempts)
<1>5. Own \subseteq Attempts
  BY <1>1 DEF Attempts
<1>6. IsFiniteSet(Own) /\ Cardinality(Own) = MaxAttempts
  <2>1. IsFiniteSet({p}) /\ Cardinality({p}) = 1
    BY FS_Singleton
  <2>2. IsFiniteSet(Own) /\ Cardinality(Own) = Cardinality({p}) * Cardinality(1..MaxAttempts)
    BY <1>2, <2>1, FS_Product
  <2> QED
    BY <1>1, <1>2, <2>1, <2>2
<1>7. Cardinality(Own) <= Cardinality(Attempts)
  BY <1>4, <1>5, FS_Subset
<1> QED
  BY <1>1, <1>4, <1>6, <1>7

RunOK(s) ==
  /\ s \in [step: {"unused", "running", "success", "failure", "refused"},
            sha: 0..MaxCommits, attempt: 0..MaxAttempts, grade: Grades \cup {0}]
  /\ s.step # "unused" => s.attempt >= 1

ReleaseOK(s) ==
  /\ s.sha \in 0..MaxCommits /\ s.attempt \in 0..MaxReruns
  /\ s.meta # None => s.meta.attempt \in 1..MaxAttempts
  /\ s.step # "unused" => s.attempt >= 1

\* What of TypeOK the bounds add to Types, and that whoever has started is at
\* its first attempt at least.
Bounded ==
  /\ main \in Seq(Commit) /\ Len(main) <= MaxCommits
  /\ \A p \in Evaluation : RunOK(runs[p])
  /\ bundles \subseteq Bundle
  /\ \A r \in Release : ReleaseOK(rel[r])
  /\ tag \in 0..MaxCommits
  /\ \A x \in releases : x.published \in BOOLEAN /\ x.by \in Release \X (1..MaxReruns)

LEMMA InitBounded == Init => Bounded
<1> SUFFICES ASSUME Init PROVE Bounded
  OBVIOUS
<1>1. PICK c \in InitialMain : main = <<c>>
  BY DEF Init
<1>2. c \in Commit /\ MaxCommits \in Nat \ {0} /\ MaxAttempts \in Nat /\ MaxReruns \in Nat
  BY <1>1, ReleaseConstants
<1>3. main \in Seq(Commit) /\ Len(main) <= MaxCommits
  BY <1>1, <1>2
<1>4. RunOK(NotDispatched) /\ ReleaseOK(NotStarted)
  BY <1>2 DEF RunOK, ReleaseOK, NotDispatched, NotStarted
<1> QED
  BY <1>2, <1>3, <1>4 DEF Init, Bounded

\* A candidate's evaluation was an attempt within the bound.
LEMMA MergeBounded ==
  ASSUME PInv, Bounded, NEW files \in Edits, Merge(files)
  PROVE  Bounded'
<1>1. UNCHANGED <<promotionVars, releaseVars>> /\ Len(main) < MaxCommits
  BY DEF Merge
<1>2. main \in Seq(Commit) /\ Len(main) \in Nat /\ Len(main) >= 1 /\ MaxCommits \in Nat
  BY ReleaseConstants DEF Bounded, PInv, Types
<1>3. PICK pol \in IF "policy" \in files THEN (Candidates \cup {DraftPolicy}) \ {Tip.policy}
                   ELSE {Tip.policy},
           lk \in IF "lock" \in files THEN Lock \ {Tip.lock} ELSE {Tip.lock},
           co \in IF "core" \in files THEN Core \ {Tip.core} ELSE {Tip.core} :
        main' = Append(main,
          [lifecycle |-> IF "lifecycle" \in files
                         THEN Other(Tip.lifecycle, "active", "development") ELSE Tip.lifecycle,
           roadmap   |-> IF "roadmap" \in files
                         THEN Other(Tip.roadmap, "done", "pending") ELSE Tip.roadmap,
           eligible  |-> IF "corpus" \in files THEN ~Tip.eligible ELSE Tip.eligible,
           other     |-> IF "other" \in files THEN 1 - Tip.other ELSE Tip.other,
           policy |-> pol, lock |-> lk, core |-> co])
  BY DEF Merge
<1> DEFINE lifecycle == IF "lifecycle" \in files
                        THEN Other(Tip.lifecycle, "active", "development") ELSE Tip.lifecycle
           roadmap == IF "roadmap" \in files
                      THEN Other(Tip.roadmap, "done", "pending") ELSE Tip.roadmap
           eligible == IF "corpus" \in files THEN ~Tip.eligible ELSE Tip.eligible
           other == IF "other" \in files THEN 1 - Tip.other ELSE Tip.other
           c == [lifecycle |-> lifecycle, roadmap |-> roadmap, eligible |-> eligible,
                 other |-> other, policy |-> pol, lock |-> lk, core |-> co]
<1> HIDE DEF lifecycle, roadmap, eligible, other
<1>4. /\ Len(main') = Len(main) + 1 /\ main'[Len(main) + 1] = c
      /\ \A i \in 1..Len(main) : main'[i] = main[i]
  BY <1>2, <1>3 DEF lifecycle, roadmap, eligible, other
<1>5. c \in ACommit
  <2>1. main' \in Seq(ACommit)
    BY MergePInv DEF PInv, Types
  <2>2. Len(main) + 1 \in 1..Len(main')
    BY <1>2, <1>4
  <2> HIDE DEF c
  <2> QED
    BY <1>4, <2>1, <2>2
<1>6. pol \in Policy \cup {DraftPolicy}
  <2>1. CASE pol \in Candidates
    <3>1. PICK b \in bundles, m \in Grades : pol = BuildReviewedPolicy(b, m)
      BY <2>1 DEF Candidates, ReviewedFrom
    <3>2. b \in Bundle
      BY DEF Bounded
    <3> QED
      BY <3>1, <3>2 DEF BuildReviewedPolicy, Bundle, Policy
  <2>2. CASE pol = Tip.policy
    <3>1. Tip \in Commit
      BY <1>2 DEF Tip
    <3> QED
      BY <2>2, <3>1 DEF Commit
  <2> QED
    BY <1>3, <2>1, <2>2
<1>7. c \in Commit
  BY <1>5, <1>6 DEF ACommit, Commit
<1> HIDE DEF c
<1>8. main' \in Seq(Commit) /\ Len(main') <= MaxCommits
  <2>1. main' = Append(main, c)
    BY <1>3 DEF c, lifecycle, roadmap, eligible, other
  <2> QED
    BY <1>1, <1>2, <1>4, <1>7, <2>1
<1> QED
  BY <1>1, <1>8 DEF Bounded, promotionVars, releaseVars, published

\* One evaluation moves, and may upload.
LEMMA RunMovesBounded ==
  ASSUME PInv, Bounded, UNCHANGED <<main, releaseVars>>, NEW p \in Evaluation, NEW s, RunOK(s),
         runs' = [runs EXCEPT ![p] = s], bundles' \subseteq Bundle
  PROVE  Bounded'
<1>1. \A q \in Evaluation : runs'[q] = s \/ runs'[q] = runs[q]
  BY DEF PInv, Types
<1>2. \A q \in Evaluation : RunOK(runs'[q])
  BY <1>1 DEF Bounded
<1> QED
  BY <1>2 DEF Bounded, releaseVars, published

LEMMA DispatchRerunFailBounded ==
  ASSUME PInv, Bounded, NEW p \in Evaluation, Dispatch(p) \/ Rerun(p) \/ FailPromotion(p)
  PROVE  Bounded'
<1>1. RunOK(runs[p]) /\ bundles \subseteq Bundle /\ Len(main) \in 0..MaxCommits
      /\ MaxAttempts \in Nat /\ MaxCommits \in Nat /\ Len(main) \in Nat
  BY ReleaseConstants DEF Bounded, PInv, Types
<1>2. Cardinality(Attempts) < MaxAttempts => runs[p].attempt < MaxAttempts
  BY <1>1, RoomForOneMore DEF RunOK
<1>3. CASE Dispatch(p)
  <2> DEFINE s == [[NotDispatched EXCEPT !.sha = Len(main), !.attempt = 1] EXCEPT !.step = "running"]
  <2>1. 1 \in 0..MaxAttempts
    BY <1>1, <1>2, <1>3 DEF Dispatch, RunOK
  <2>2. s \in ARun /\ s.step = "running" /\ s.sha = Len(main) /\ s.attempt = 1 /\ s.grade = 0
    <3>1. Len(main) \in Nat
      BY <1>1
    <3> QED
      BY <3>1 DEF NotDispatched, ARun
  <2>3. runs' = [runs EXCEPT ![p] = s] /\ UNCHANGED <<main, bundles, releaseVars>>
    BY <1>3 DEF Dispatch, Run
  <2> HIDE DEF s
  <2>4. RunOK(s)
    BY <1>1, <2>1, <2>2 DEF ARun, RunOK
  <2> QED
    BY <1>1, <2>3, <2>4, RunMovesBounded
<1>4. CASE Rerun(p)
  <2> DEFINE n == runs[p].attempt + 1
             again == [runs[p] EXCEPT !.attempt = n, !.grade = 0]
             s == [again EXCEPT !.step = "running"]
  <2>1. n \in 0..MaxAttempts /\ n >= 1
    BY <1>1, <1>2, <1>4 DEF Rerun, RunOK
  <2>2. RunOK(s)
    <3> HIDE DEF n
    <3>1. again \in [step: {"unused", "running", "success", "failure", "refused"},
                     sha: 0..MaxCommits, attempt: 0..MaxAttempts, grade: Grades \cup {0}]
          /\ again.attempt = n
      BY <1>1, <2>1 DEF RunOK
    <3> HIDE DEF again
    <3> QED
      BY <2>1, <3>1 DEF RunOK
  <2>3. runs' = [runs EXCEPT ![p] = s] /\ UNCHANGED <<main, bundles, releaseVars>>
    BY <1>4 DEF Rerun, Run
  <2> HIDE DEF s
  <2> QED
    BY <1>1, <2>2, <2>3, RunMovesBounded
<1>5. CASE FailPromotion(p)
  <2> DEFINE s == [runs[p] EXCEPT !.step = "failure"]
  <2>1. RunOK(s)
    BY <1>1, <1>5 DEF RunOK, FailPromotion
  <2>2. runs' = [runs EXCEPT ![p] = s] /\ UNCHANGED <<main, bundles, releaseVars>>
    BY <1>5 DEF FailPromotion, Run
  <2> HIDE DEF s
  <2> QED
    BY <1>1, <2>1, <2>2, RunMovesBounded
<1> QED
  BY <1>3, <1>4, <1>5

LEMMA EvaluateBounded ==
  ASSUME PInv, Bounded, NEW p \in Evaluation, NEW live \in Lock \cup {NoLock}, NEW g \in Grades,
         NEW yes \in BOOLEAN, Evaluate(p, live, g, yes)
  PROVE  Bounded'
<1>1. RunOK(runs[p]) /\ runs[p].step = "running" /\ OnMain(runs[p].sha)
  BY DEF Bounded, PInv, RunsHold, Evaluate
<1>2. main[runs[p].sha] \in Commit
  BY <1>1 DEF Bounded, OnMain
<1>3. runs[p].attempt \in 1..MaxAttempts /\ runs[p].sha \in 1..MaxCommits
  <2>1. MaxAttempts \in Nat /\ MaxCommits \in Nat /\ Len(main) \in Nat /\ Len(main) <= MaxCommits
    BY ReleaseConstants DEF Bounded, PInv, Types
  <2> QED
    BY <1>1, <2>1 DEF RunOK, OnMain
<1>4. BundleOf(p, g) \in Bundle
  BY <1>2, <1>3 DEF BundleOf, Bundle, Commit
<1>5. PICK step \in {"success", "failure", "refused"} :
        /\ runs' = [runs EXCEPT ![p] = [[runs[p] EXCEPT !.grade = g] EXCEPT !.step = step]]
        /\ bundles' = bundles \/ bundles' = bundles \cup {BundleOf(p, g)}
        /\ UNCHANGED <<main, releaseVars>>
  BY DEF Evaluate, Run
<1> DEFINE s == [[runs[p] EXCEPT !.grade = g] EXCEPT !.step = step]
<1>6. RunOK(s)
  BY <1>1 DEF RunOK
<1> HIDE DEF s
<1>7. runs' = [runs EXCEPT ![p] = s] /\ bundles' \subseteq Bundle
  BY <1>4, <1>5 DEF s, Bounded
<1> QED
  BY <1>5, <1>6, <1>7, RunMovesBounded

\* One release run moves, with what it does to the tag and the releases.
LEMMA ReleaseMovesBounded ==
  ASSUME PInv, Bounded, UNCHANGED <<main, promotionVars>>, NEW r \in Release, NEW s, ReleaseOK(s),
         rel' = [rel EXCEPT ![r] = s], tag' \in 0..MaxCommits,
         \A x \in releases' : x.published \in BOOLEAN /\ x.by \in Release \X (1..MaxReruns)
  PROVE  Bounded'
<1>1. \A q \in Release : rel'[q] = s \/ rel'[q] = rel[q]
  BY DEF PInv, Types
<1>2. \A q \in Release : ReleaseOK(rel'[q])
  BY <1>1 DEF Bounded
<1> QED
  BY <1>2 DEF Bounded, promotionVars

\* A release run changes its step, and what it has downloaded or packaged.
LEMMA ReleaseStepsBounded ==
  ASSUME PInv, Bounded, UNCHANGED <<main, promotionVars>>, NEW r \in Release, NEW s,
         s.sha = rel[r].sha, s.attempt = rel[r].attempt, rel[r].step # "unused",
         s.meta # None => s.meta = rel[r].meta,
         rel' = [rel EXCEPT ![r] = s], tag' = tag \/ tag' = rel[r].sha,
         \A x \in releases' : x.published \in BOOLEAN /\ x.by \in Release \X (1..MaxReruns)
  PROVE  Bounded'
<1>1. ReleaseOK(rel[r]) /\ tag \in 0..MaxCommits
  BY DEF Bounded
<1>2. ReleaseOK(s)
  BY <1>1 DEF ReleaseOK
<1>3. tag' \in 0..MaxCommits
  BY <1>1 DEF ReleaseOK
<1> QED
  BY <1>2, <1>3, ReleaseMovesBounded

LEMMA StartBounded ==
  ASSUME PInv, Bounded, NEW r \in Release, NEW p \in Evaluation, Start(r, p)
  PROVE  Bounded'
<1> DEFINE s == [[NotStarted EXCEPT !.sha = Len(main), !.input = p, !.attempt = 1]
                   EXCEPT !.step = "fetch"]
<1>1. Len(main) \in 0..MaxCommits /\ 1 \in 0..MaxReruns /\ tag \in 0..MaxCommits
  BY ReleaseConstants DEF Bounded, PInv, Types
<1>2. ReleaseOK(s)
  BY <1>1 DEF NotStarted, ReleaseOK
<1>3. rel' = [rel EXCEPT ![r] = s] /\ UNCHANGED <<main, promotionVars, tag, releases>>
  BY DEF Start, Goto, published
<1> HIDE DEF s
<1> QED
  BY <1>1, <1>2, <1>3, ReleaseMovesBounded DEF Bounded

\* The run GitHub describes succeeded, so it had an attempt.
LEMMA FetchRunBounded ==
  ASSUME PInv, Bounded, NEW r \in Release, FetchRun(r)
  PROVE  Bounded'
<1> DEFINE p == rel[r].input
           m == [run |-> p, sha |-> runs[p].sha, attempt |-> runs[p].attempt]
           s == [[rel[r] EXCEPT !.meta = m] EXCEPT !.step = "authorize"]
<1>1. rel[r] \in ARelease /\ Holds(rel[r]) /\ rel[r].step = "fetch" /\ runs[p].step = "success"
  BY ReleaseIsTyped DEF FetchRun, At
<1>2. p \in Evaluation /\ RunOK(runs[p]) /\ ReleaseOK(rel[r]) /\ tag \in 0..MaxCommits
  BY <1>1 DEF Holds, Bounded
<1>3. m.attempt \in 1..MaxAttempts
  <2>1. MaxAttempts \in Nat
    BY ReleaseConstants
  <2> QED
    BY <1>1, <1>2, <2>1 DEF RunOK
<1>4. rel' = [rel EXCEPT ![r] = s] /\ UNCHANGED <<main, promotionVars, tag, releases>>
  BY DEF FetchRun, Goto, published
<1> HIDE DEF m
<1>5. s.sha = rel[r].sha /\ s.attempt = rel[r].attempt /\ s.meta = m
  BY <1>1 DEF ARelease
<1> HIDE DEF s
<1>6. ReleaseOK(s)
  BY <1>1, <1>2, <1>3, <1>5 DEF ReleaseOK
<1> QED
  BY <1>2, <1>4, <1>6, ReleaseMovesBounded DEF Bounded

LEMMA AuthorizeBounded ==
  ASSUME PInv, Bounded, NEW r \in Release, NEW b \in bundles, NEW live \in Lock \cup {NoLock},
         Authorize(r, b, live)
  PROVE  Bounded'
<1> DEFINE a == [sha |-> rel[r].sha, attempt |-> rel[r].meta.attempt, bundle |-> b]
           s == [[rel[r] EXCEPT !.meta = None, !.authority = @ \cup {a}] EXCEPT !.step = "package"]
<1>1. rel[r] \in ARelease /\ rel[r].step = "authorize"
  BY ReleaseIsTyped DEF Authorize, At
<1>2. rel' = [rel EXCEPT ![r] = s] /\ UNCHANGED <<main, promotionVars, tag, releases>>
  BY DEF Authorize, Goto, published
<1> HIDE DEF a
<1>3. s.sha = rel[r].sha /\ s.attempt = rel[r].attempt /\ s.meta = None
  BY <1>1 DEF ARelease
<1> HIDE DEF s
<1> QED
  BY <1>1, <1>2, <1>3, ReleaseStepsBounded DEF Bounded

LEMMA PackageFailBounded ==
  ASSUME PInv, Bounded, NEW r \in Release,
         (\E a \in rel[r].authority : Package(r, a)) \/ FailRelease(r)
  PROVE  Bounded'
<1>1. rel[r] \in ARelease
  BY ReleaseIsTyped
<1>2. ASSUME NEW a \in rel[r].authority, Package(r, a) PROVE Bounded'
  <2> DEFINE s == [[rel[r] EXCEPT !.payload = @ \cup {a}] EXCEPT !.step = "tag"]
  <2>1. /\ rel' = [rel EXCEPT ![r] = s] /\ UNCHANGED <<main, promotionVars, tag, releases>>
        /\ rel[r].step = "package"
    BY <1>2 DEF Package, Goto, At, published
  <2>2. s.sha = rel[r].sha /\ s.attempt = rel[r].attempt /\ s.meta = rel[r].meta
    BY <1>1 DEF ARelease
  <2> HIDE DEF s
  <2> QED
    BY <2>1, <2>2, ReleaseStepsBounded DEF Bounded
<1>3. CASE FailRelease(r)
  <2> DEFINE s == [rel[r] EXCEPT !.failed = TRUE, !.meta = None]
  <2>1. /\ rel' = [rel EXCEPT ![r] = s] /\ UNCHANGED <<main, promotionVars, tag, releases>>
        /\ rel[r].step # "unused"
    BY <1>3 DEF FailRelease, published
  <2>2. s.sha = rel[r].sha /\ s.attempt = rel[r].attempt /\ s.meta = None
    BY <1>1 DEF ARelease
  <2> HIDE DEF s
  <2> QED
    BY <2>1, <2>2, ReleaseStepsBounded DEF Bounded
<1> QED
  BY <1>2, <1>3

LEMMA RerunReleaseBounded ==
  ASSUME PInv, Bounded, NEW r \in Release, NEW all \in BOOLEAN, RerunRelease(r, all)
  PROVE  Bounded'
<1> DEFINE step == IF all THEN "fetch" ELSE FirstStep(rel[r].step)
           n == rel[r].attempt + 1
           again == [rel[r] EXCEPT !.failed = FALSE, !.attempt = n]
           s == [again EXCEPT !.step = step]
<1>1. rel[r] \in ARelease /\ ReleaseOK(rel[r]) /\ tag \in 0..MaxCommits
  BY ReleaseIsTyped DEF Bounded
<1>2. rel' = [rel EXCEPT ![r] = s] /\ UNCHANGED <<main, promotionVars, tag, releases>>
  BY DEF RerunRelease, Goto, published
<1>3. n \in 0..MaxReruns /\ n >= 1
  <2>1. MaxReruns \in Nat /\ rel[r].attempt < MaxReruns
    BY ReleaseConstants DEF RerunRelease
  <2> QED
    BY <1>1, <2>1 DEF ReleaseOK
<1> HIDE DEF n, step
<1>4. again.sha = rel[r].sha /\ again.attempt = n /\ again.meta = rel[r].meta
      /\ again = [again EXCEPT !.failed = FALSE]
  BY <1>1 DEF ARelease
<1>5. s.sha = rel[r].sha /\ s.attempt = n /\ s.meta = rel[r].meta
  BY <1>1 DEF ARelease
<1> HIDE DEF s, again
<1>6. ReleaseOK(s)
  BY <1>1, <1>3, <1>5 DEF ReleaseOK
<1> QED
  BY <1>1, <1>2, <1>6, ReleaseMovesBounded DEF Bounded

LEMMA PublicationBounded ==
  ASSUME PInv, Bounded, NEW r \in Release,
         \/ EnsureTag(r)
         \/ \E fails \in BOOLEAN : ViewReleases(r, fails)
         \/ \E a \in rel[r].payload : CreateDraft(r, a)
         \/ \E x \in releases : Publish(r, x)
  PROVE  Bounded'
<1>1. rel[r] \in ARelease /\ ReleaseOK(rel[r])
  BY ReleaseIsTyped DEF Bounded
<1>2. ASSUME NEW step, step # "unused", rel' = [rel EXCEPT ![r] = [rel[r] EXCEPT !.step = step]],
             UNCHANGED <<main, promotionVars>>, rel[r].step # "unused",
             tag' = tag \/ tag' = rel[r].sha,
             \A x \in releases' : x.published \in BOOLEAN /\ x.by \in Release \X (1..MaxReruns)
      PROVE  Bounded'
  <2> DEFINE s == [rel[r] EXCEPT !.step = step]
  <2>1. s.sha = rel[r].sha /\ s.attempt = rel[r].attempt /\ s.meta = rel[r].meta
    BY <1>1 DEF ARelease
  <2>2. rel' = [rel EXCEPT ![r] = s]
    BY <1>2
  <2> HIDE DEF s
  <2> QED
    BY <1>2, <2>1, <2>2, ReleaseStepsBounded
<1>3. CASE EnsureTag(r)
  <2>1. /\ rel' = [rel EXCEPT ![r] = [rel[r] EXCEPT !.step = "view"]]
        /\ UNCHANGED <<main, promotionVars, releases>> /\ rel[r].step = "tag"
        /\ tag' = tag \/ tag' = rel[r].sha
    BY <1>3 DEF EnsureTag, Goto, At, published
  <2> QED
    BY <1>2, <2>1 DEF Bounded
<1>4. ASSUME NEW a \in rel[r].payload, CreateDraft(r, a) PROVE Bounded'
  <2> DEFINE x == [by |-> <<r, rel[r].attempt>>, authority |-> a, published |-> FALSE]
  <2>1. /\ UNCHANGED <<main, promotionVars, tag>> /\ rel[r].step = "create"
        /\ rel' = [rel EXCEPT ![r] = [rel[r] EXCEPT !.step = "publish"]]
        /\ releases' = releases \cup {x}
    BY <1>4 DEF CreateDraft, At, Goto
  <2>2. rel[r].attempt \in 1..MaxReruns
    <3>1. MaxReruns \in Nat
      BY ReleaseConstants
    <3> QED
      BY <1>1, <2>1, <3>1 DEF ReleaseOK
  <2>3. x.published \in BOOLEAN /\ x.by \in Release \X (1..MaxReruns)
    BY <2>2
  <2> HIDE DEF x
  <2> QED
    BY <1>2, <2>1, <2>3 DEF Bounded
<1>5. ASSUME NEW x \in releases, Publish(r, x) PROVE Bounded'
  <2> DEFINE y == [x EXCEPT !.published = TRUE]
  <2>1. /\ UNCHANGED <<main, promotionVars, tag>> /\ rel[r].step = "publish"
        /\ rel' = [rel EXCEPT ![r] = [rel[r] EXCEPT !.step = "done"]]
        /\ releases' = (releases \ {x}) \cup {y}
    BY <1>5 DEF Publish, At, Goto
  <2>2. y.published \in BOOLEAN /\ y.by = x.by
    OBVIOUS
  <2> HIDE DEF y
  <2> QED
    BY <1>2, <2>1, <2>2 DEF Bounded
<1>6. ASSUME NEW fails \in BOOLEAN, ViewReleases(r, fails) PROVE Bounded'
  <2>1. /\ rel' = [rel EXCEPT ![r] = [rel[r] EXCEPT !.step = "create"]]
        /\ UNCHANGED <<main, promotionVars, tag, releases>> /\ rel[r].step = "view"
    BY <1>6 DEF ViewReleases, Goto, At
  <2> QED
    BY <1>2, <2>1 DEF Bounded
<1> QED
  BY <1>3, <1>4, <1>5, <1>6

LEMMA NextBounded == PInv /\ Bounded /\ [Next]_vars => Bounded'
<1> SUFFICES ASSUME PInv, Bounded, [Next]_vars PROVE Bounded'
  OBVIOUS
<1>1. CASE UNCHANGED vars
  BY <1>1 DEF vars, promotionVars, releaseVars, published, Bounded
<1>2. CASE \E files \in Edits : Merge(files)
  BY <1>2, MergeBounded
<1>3. CASE PushTag
  <2>1. 1 \in 0..MaxCommits
    BY ReleaseConstants
  <2> QED
    BY <1>3, <2>1 DEF PushTag, promotionVars, published, Bounded
<1>4. ASSUME NEW p \in Evaluation,
             \/ Dispatch(p) \/ Rerun(p) \/ FailPromotion(p)
             \/ \E live \in Lock \cup {NoLock}, g \in Grades, yes \in BOOLEAN :
                  Evaluate(p, live, g, yes)
      PROVE  Bounded'
  BY <1>4, DispatchRerunFailBounded, EvaluateBounded
<1>5. ASSUME NEW r \in Release,
             \/ \E p \in Evaluation : Start(r, p)
             \/ \E b \in bundles, live \in Lock \cup {NoLock} : Authorize(r, b, live)
             \/ FetchRun(r) \/ EnsureTag(r) \/ FailRelease(r)
             \/ \E yes \in BOOLEAN : RerunRelease(r, yes) \/ ViewReleases(r, yes)
             \/ \E a \in rel[r].authority : Package(r, a)
             \/ \E a \in rel[r].payload : CreateDraft(r, a)
             \/ \E x \in releases : Publish(r, x)
      PROVE  Bounded'
  BY <1>5, StartBounded, AuthorizeBounded, FetchRunBounded, PackageFailBounded,
     RerunReleaseBounded, PublicationBounded
<1> QED
  BY <1>1, <1>2, <1>3, <1>4, <1>5 DEF Next

\* Commits, evaluations and release runs keep their types and stay within the
\* bounds, and only what an authority was granted for is ever packaged.
THEOREM ReleaseTypeCorrect == Spec => []TypeOK
<1>1. PInv /\ Bounded /\ Single => TypeOK
  <2> SUFFICES ASSUME PInv, Bounded, Single PROVE TypeOK
    OBVIOUS
  <2>1. Len(main) \in 1..MaxCommits
    BY ReleaseConstants DEF PInv, Types, Bounded
  <2>2. runs \in [Evaluation -> [step: {"unused", "running", "success", "failure", "refused"},
                                 sha: 0..MaxCommits, attempt: 0..MaxAttempts,
                                 grade: Grades \cup {0}]]
    BY DEF PInv, Types, Bounded, RunOK
  <2>3. ASSUME NEW r \in Release
        PROVE  /\ rel[r].step \in {"unused", "fetch", "authorize", "package", "tag", "view",
                                   "create", "publish", "done"}
               /\ rel[r].payload \subseteq rel[r].authority
    BY ReleaseIsTyped DEF ARelease, Holds
  <2> QED
    BY <2>1, <2>2, <2>3 DEF Bounded, ReleaseOK, Single, TypeOK
<1> QED
  BY <1>1, InitPInv, NextPInv, InitSingle, NextSingle, InitBounded, NextBounded, PTL DEF Spec

-------------------------------------------------------------------------------
(* What an evaluation uploads is true of the commit it evaluated; and what  *)
(* follows for the order in which a release has to be prepared.             *)

\* An upload describes its commit, whose policy is of its own corpus and Safe Core;
\* that of a promotion was admitted under the lock of the commit.
TrueOf(b, c) ==
  /\ b.policy = c.policy /\ b.eligible = c.eligible /\ b.core = c.core /\ Current(c)
  /\ b.run \in Promotion => b.lock = c.lock /\ c.lock # NoLock /\ Admits(c, b.grade)

UploadsAreTrue == \A b \in bundles : TrueOf(b, main[b.sha])

\* The corpus of a release was marked as eligible, and its Safe Core pinned, before
\* the calibration that its thresholds come from.
MarkedBeforeCalibration ==
  \A x \in releases :
    LET s == main[x.authority.sha] IN
    \E c \in bundles :
      /\ <<c.run, c.attempt>> = s.policy.from /\ c.sha < x.authority.bundle.sha
      /\ main[c.sha].eligible /\ main[c.sha].core = s.core

LEMMA MergeUploads ==
  ASSUME PInv, UploadsAreTrue, NEW files \in Edits, Merge(files) PROVE UploadsAreTrue'
<1>1. bundles' = bundles
  BY DEF Merge, promotionVars
<1>2. PICK c : main' = Append(main, c)
  BY DEF Merge
<1>3. main \in Seq(ACommit) /\ \A b \in bundles : b.sha \in 1..Len(main)
  BY DEF PInv, Types, RunsHold, OnMain
<1>4. \A b \in bundles : main'[b.sha] = main[b.sha]
  BY <1>2, <1>3
<1> QED
  BY <1>1, <1>4 DEF UploadsAreTrue

LEMMA EvaluateUploads ==
  ASSUME PInv, UploadsAreTrue, NEW p \in Evaluation, NEW live, NEW g, NEW yes,
         Evaluate(p, live, g, yes)
  PROVE  UploadsAreTrue'
<1> DEFINE c == main[runs[p].sha]
           b == BundleOf(p, g)
<1>1. UNCHANGED main
  BY DEF Evaluate
<1>2. CASE bundles' = bundles
  BY <1>1, <1>2 DEF UploadsAreTrue
<1>3. CASE bundles' # bundles
  <2>1. /\ p \in Promotion => c.lock # NoLock
        /\ Calibrated(c) /\ (p \in Promotion => Admits(c, g))
        /\ bundles' = bundles \cup {b}
    BY <1>3 DEF Evaluate
  <2>2. /\ b.policy = c.policy /\ b.eligible = c.eligible /\ b.core = c.core
        /\ b.run = p /\ b.grade = g /\ b.sha = runs[p].sha
        /\ p \in Promotion => b.lock = c.lock
    BY DEF BundleOf
  <2> HIDE DEF b
  <2>3. TrueOf(b, main[b.sha])
    BY <2>1, <2>2 DEF TrueOf, Calibrated
  <2> QED
    BY <1>1, <2>1, <2>3 DEF UploadsAreTrue
<1> QED
  BY <1>2, <1>3

LEMMA NextUploads == PInv /\ UploadsAreTrue /\ [Next]_vars => UploadsAreTrue'
<1> SUFFICES ASSUME PInv, UploadsAreTrue, [Next]_vars PROVE UploadsAreTrue'
  OBVIOUS
<1>1. CASE UNCHANGED <<main, bundles>>
  BY <1>1 DEF UploadsAreTrue
<1>2. CASE UNCHANGED vars \/ PushTag
  BY <1>1, <1>2 DEF vars, PushTag, promotionVars
<1>3. ASSUME NEW files \in Edits, Merge(files) PROVE UploadsAreTrue'
  BY <1>3, MergeUploads
<1>4. ASSUME NEW p \in Evaluation, Dispatch(p) \/ Rerun(p) \/ FailPromotion(p)
      PROVE  UploadsAreTrue'
  BY <1>1, <1>4 DEF Dispatch, Rerun, FailPromotion
<1>5. ASSUME NEW p \in Evaluation,
             \E live \in Lock \cup {NoLock}, g \in Grades, yes \in BOOLEAN : Evaluate(p, live, g, yes)
      PROVE  UploadsAreTrue'
  BY <1>5, EvaluateUploads
<1>6. ASSUME NEW r \in Release,
             \/ \E p \in Evaluation : Start(r, p)
             \/ \E b \in bundles, live \in Lock \cup {NoLock} : Authorize(r, b, live)
             \/ FetchRun(r) \/ EnsureTag(r) \/ FailRelease(r)
             \/ \E yes \in BOOLEAN : RerunRelease(r, yes) \/ ViewReleases(r, yes)
      PROVE  UNCHANGED <<main, bundles>>
  BY <1>6 DEF Start, Authorize, FetchRun, EnsureTag, FailRelease, RerunRelease, ViewReleases,
              promotionVars
<1>7. ASSUME NEW r \in Release,
             \/ \E a \in rel[r].authority : Package(r, a)
             \/ \E a \in rel[r].payload : CreateDraft(r, a)
             \/ \E x \in releases : Publish(r, x)
      PROVE  UNCHANGED <<main, bundles>>
  BY <1>7 DEF Package, CreateDraft, Publish, promotionVars
<1> QED
  BY <1>1, <1>2, <1>3, <1>4, <1>5, <1>6, <1>7 DEF Next

\* An evaluation is uploaded only if it was made with the policy, the corpus and the
\* Safe Core of its commit, and the three belong together: a commit whose policy was
\* calibrated on another corpus or core is never evaluated to the end, not even to
\* calibrate it again (scripts/promotion-admission.js:112-113).
THEOREM UploadsTrue == Spec => []UploadsAreTrue
<1>1. Init => UploadsAreTrue
  BY DEF Init, UploadsAreTrue
<1> QED
  BY <1>1, InitPInv, NextPInv, NextUploads, PTL DEF Spec

\* The corpus is marked before the calibration, or there is no release: in the order of
\* docs/PROMOTION_ADMISSION.md:88-96, which marks it after the policy, there is none.
THEOREM MarkedFirst == Spec => []MarkedBeforeCalibration
<1>1. PInv /\ UploadsAreTrue /\ ReleasedAfterCalibration => MarkedBeforeCalibration
  <2> SUFFICES ASSUME PInv, UploadsAreTrue, ReleasedAfterCalibration, NEW x \in releases
               PROVE  LET s == main[x.authority.sha] IN
                      \E c \in bundles :
                        /\ <<c.run, c.attempt>> = s.policy.from /\ c.sha < x.authority.bundle.sha
                        /\ main[c.sha].eligible /\ main[c.sha].core = s.core
    BY DEF MarkedBeforeCalibration
  <2> DEFINE s == main[x.authority.sha]
             b == x.authority.bundle
  <2>1. ValidBundle(b, s)
    BY DEF PInv, ReleasesHold, Good
  <2>2. b.policy = s.policy /\ b.core = s.core
    BY <2>1 DEF ValidBundle
  <2>3. PICK c \in bundles : /\ <<c.run, c.attempt>> = b.policy.from /\ c.sha < b.sha
                             /\ c.core = b.core /\ c.eligible = b.eligible
    BY DEF ReleasedAfterCalibration
  <2>4. b.eligible
    BY DEF ReleasedAfterCalibration
  <2>5. TrueOf(c, main[c.sha])
    BY DEF UploadsAreTrue
  <2> HIDE DEF s, b
  <2>6. /\ <<c.run, c.attempt>> = s.policy.from /\ c.sha < b.sha
        /\ main[c.sha].eligible /\ main[c.sha].core = s.core
    BY <2>2, <2>3, <2>4, <2>5 DEF TrueOf
  <2> QED
    BY <2>6 DEF s, b
<1> QED
  BY <1>1, PInvariance, UploadsTrue, CalibratedBefore, PTL
===============================================================================
