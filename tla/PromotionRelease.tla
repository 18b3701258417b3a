--------------------------- MODULE PromotionRelease ---------------------------
(***************************************************************************)
(* From a commit of main to an immutable release: promotion evaluations    *)
(* (.github/workflows/promotion-model-eval.yml over promotion-admission.js *)
(* and its neighbours), the policy reviewed from one of them, the commit   *)
(* that activates the product, and the release workflow                    *)
(* (immutable-release.yml over immutable-release-authority.js).  Runs of   *)
(* both workflows are interrupted and re-run while main and the protection *)
(* of main go on changing.                                                 *)
(*                                                                         *)
(* A digest is modelled by what it digests and a commit by its place on    *)
(* main, which is linear.  One product version, so one tag.  What an       *)
(* evaluation measures is one grade, and the thresholds of a policy are a  *)
(* minimum for it.  HistoricalCase details the evaluation and Governance   *)
(* the governance step.                                                    *)
(***************************************************************************)
EXTENDS Naturals, Sequences, FiniteSets

CONSTANTS
  Calibration,  \* runs of Promotion Model Evaluation, dispatched without
  Promotion,    \* and with promotion_mode
  Release,      \* runs of Immutable Release
  Core,         \* commits Safe Core may be pinned to
  Lock,         \* reviewed governance locks
  NoLock,       \* the draft lock, or a ruleset that agrees with no lock
  DraftPolicy,  \* reviewed = false
  None,         \* nothing read, downloaded or published
  Grades,       \* what an evaluation can measure
  InitialMain,  \* contents main may start from
  Edits,        \* sets of files one pull request may change
  MaxCommits,   \* bound: commits on main
  MaxAttempts,  \* bound: attempts of the evaluations together
  MaxReruns     \* bound: attempts of one release run

Evaluation == Calibration \cup Promotion
Policy == [core: Core, eligible: BOOLEAN, minimum: Grades,
           from: Evaluation \X (1..MaxAttempts)]
Commit == [lifecycle: {"development", "active"}, roadmap: {"pending", "done"},
           eligible: BOOLEAN, policy: Policy \cup {DraftPolicy}, lock: Lock \cup {NoLock},
           core: Core, other: {0, 1}]
\* An uploaded evaluation: the run context all its receipts carry, and what they bind
Bundle == [run: Evaluation, attempt: 1..MaxAttempts, sha: 1..MaxCommits,
           lock: Lock \cup {NoLock}, policy: Policy \cup {DraftPolicy}, eligible: BOOLEAN,
           core: Core, grade: Grades]

ASSUME ReleaseConstants ==
  /\ Calibration \cap Promotion = {} /\ IsFiniteSet(Evaluation)
  /\ NoLock \notin Lock /\ DraftPolicy \notin Policy /\ None \notin Bundle
  /\ Grades \subseteq Nat /\ {MaxCommits, MaxAttempts, MaxReruns} \subseteq Nat \ {0}
  /\ InitialMain \subseteq {c \in Commit : c.policy = DraftPolicy}
  /\ Edits \subseteq SUBSET {"lifecycle", "roadmap", "corpus", "policy", "lock", "core", "other"}

-------------------------------------------------------------------------------
(* promotion-policy-review.js and promotion-admission.js                   *)

\* buildReviewedPolicy accepts the report in a checkout of c with this minimum.
Reviewable(b, minimum, c) ==
  b.eligible = c.eligible /\ b.core = c.core /\ minimum <= b.grade

ForgetAttempt(b, minimum) ==    \* faulty variant: the run context loses its attempt
  [core |-> b.core, eligible |-> b.eligible, minimum |-> minimum, from |-> <<b.run, 0>>]
BuildReviewedPolicy(b, minimum) ==
  [core |-> b.core, eligible |-> b.eligible, minimum |-> minimum, from |-> <<b.run, b.attempt>>]

IgnoreCalibration(c) == TRUE    \* faulty variant: staleness is not looked for
\* evaluateAdmission fails for a reviewed policy calibrated for another corpus or core;
\* the digest of the corpus covers promotionEligible.
Current(c) ==
  c.policy # DraftPolicy => c.policy.core = c.core /\ c.policy.eligible = c.eligible
Calibrated(c) == Current(c)

\* evaluateAdmission with requirePromotionEligible leaves no gap (an evaluation gets
\* there only when it is safe)
Admits(c, grade) == c.policy # DraftPolicy /\ grade >= c.policy.minimum /\ c.eligible

-------------------------------------------------------------------------------
(* immutable-release-authority.js                                          *)

AnyFiles(parent, active) == parent.lifecycle = "development" /\ active.lifecycle = "active"
\* validateActivationCommit of two consecutive commits
Activates(parent, active) ==
  /\ parent.lifecycle = "development" /\ active.lifecycle = "active"
  /\ parent.roadmap = "pending" /\ active.roadmap = "done"
  /\ active = [parent EXCEPT !.lifecycle = "active", !.roadmap = "done"]

SameRun(b, meta) == b.run = meta.run /\ b.sha = meta.sha
\* validateArtifactRunContext of the five receipts with the run GitHub describes
OfThatAttempt(b, meta) ==
  b.run = meta.run /\ b.sha = meta.sha /\ b.attempt = meta.attempt

\* validatePromotionBundle in a checkout of c: the admission is computed again, with
\* requirePromotionEligible, which a calibration's receipt does not match
ValidBundle(b, c) ==
  /\ c.eligible /\ c.policy # DraftPolicy /\ c.lock # NoLock
  /\ b.policy = c.policy /\ b.lock = c.lock /\ b.eligible = c.eligible /\ b.core = c.core
  /\ b.run \in Promotion /\ Calibrated(c) /\ Admits(c, b.grade)

-------------------------------------------------------------------------------
VARIABLES
  main,      \* the commits of main
  runs,      \* promotion runs
  bundles,   \* the evaluations they uploaded
  rel,       \* release runs
  tag,       \* the commit tagged with the version, 0 if none
  releases,  \* the releases of that tag, drafts included
  misread    \* observation: a failed gh release view passed over one of them

vars == <<main, runs, bundles, rel, tag, releases, misread>>
promotionVars == <<runs, bundles>>
published == <<releases, misread>>
releaseVars == <<rel, tag, published>>

NotDispatched == [step |-> "unused", sha |-> 0, attempt |-> 0, grade |-> 0]
NotStarted == [step |-> "unused", failed |-> FALSE, sha |-> 0, input |-> None, attempt |-> 0,
               meta |-> None, authority |-> {}, payload |-> {}]

Init ==
  /\ \E c \in InitialMain : main = <<c>>
  /\ runs = [p \in Evaluation |-> NotDispatched] /\ bundles = {}
  /\ rel = [r \in Release |-> NotStarted]
  /\ tag = 0 /\ releases = {} /\ misread = FALSE

-------------------------------------------------------------------------------
(* Pull requests, administrators (external)                                *)

Tip == main[Len(main)]
Other(x, y, z) == IF x = y THEN z ELSE y

\* A change changes something, and a policy is only merged as promotion-policy-review.js
\* wrote it, or taken back.
ReviewedFrom(b) ==
  {BuildReviewedPolicy(b, m) :
     m \in {n \in Grades : \E i \in DOMAIN main : Reviewable(b, n, main[i])}}
Candidates == UNION {ReviewedFrom(b) : b \in bundles}

Merge(files) ==
  /\ Len(main) < MaxCommits
  /\ \E pol \in IF "policy" \in files THEN (Candidates \cup {DraftPolicy}) \ {Tip.policy}
               ELSE {Tip.policy},
        lk \in IF "lock" \in files THEN Lock \ {Tip.lock} ELSE {Tip.lock},
        co \in IF "core" \in files THEN Core \ {Tip.core} ELSE {Tip.core} :
       main' = Append(main,
         [lifecycle |-> IF "lifecycle" \in files
                        THEN Other(Tip.lifecycle, "active", "development") ELSE Tip.lifecycle,
          roadmap   |-> IF "roadmap" \in files
                        THEN Other(Tip.roadmap, "done", "pending") ELSE Tip.roadmap,
          eligible  |-> IF "corpus" \in files THEN ~Tip.eligible ELSE Tip.eligible,
          other     |-> IF "other" \in files THEN 1 - Tip.other ELSE Tip.other,
          policy |-> pol, lock |-> lk, core |-> co])
  /\ UNCHANGED <<promotionVars, releaseVars>>

\* Somebody has pushed the version's tag by hand, to the first commit, which stands
\* for any that is not released; it matters when a release looks.
PushTag ==
  /\ \E r \in Release : rel[r].step = "tag"
  /\ tag = 0 /\ tag' = 1
  /\ UNCHANGED <<main, promotionVars, rel, published>>

-------------------------------------------------------------------------------
(* promotion-model-eval.yml                                                *)

Attempts == {a \in Evaluation \X (1..MaxAttempts) : a[2] <= runs[a[1]].attempt}
Run(p, step, changes) == runs' = [runs EXCEPT ![p] = [changes EXCEPT !.step = step]]

\* workflow_dispatch on main
Dispatch(p) ==
  /\ runs[p].step = "unused" /\ Cardinality(Attempts) < MaxAttempts
  /\ Run(p, "running", [NotDispatched EXCEPT !.sha = Len(main), !.attempt = 1])
  /\ UNCHANGED <<main, bundles, releaseVars>>

\* The same commit and inputs, another attempt
Rerun(p) ==
  /\ runs[p].step \in {"success", "failure", "refused"}
  /\ Cardinality(Attempts) < MaxAttempts
  /\ Run(p, "running", [runs[p] EXCEPT !.attempt = @ + 1, !.grade = 0])
  /\ UNCHANGED <<main, bundles, releaseVars>>

BundleOf(p, grade) ==
  LET r == runs[p]  c == main[r.sha] IN
  [run |-> p, attempt |-> r.attempt, sha |-> r.sha, lock |-> IF p \in Promotion THEN c.lock ELSE NoLock,
   policy |-> c.policy, eligible |-> c.eligible, core |-> c.core, grade |-> grade]

\* In promotion mode the lock of the commit is compared with live, the lock that the
\* live ruleset agrees with, and the corpus has to be eligible.  Then qualification, the
\* live evaluation, the safety check, evaluateAdmission, its receipt validated again,
\* the calibration report and the upload: they read nothing but the checkout and each
\* other's files.  The run may still fail after the upload.
Evaluate(p, live, grade, concludes) ==
  LET c == main[runs[p].sha]
      governed == p \in Promotion => c.lock # NoLock /\ live = c.lock /\ c.eligible
      admitted == Calibrated(c) /\ (p \in Promotion => Admits(c, grade))
  IN
  /\ runs[p].step = "running" /\ governed
  /\ IF admitted
     THEN /\ Run(p, IF concludes THEN "success" ELSE "failure", [runs[p] EXCEPT !.grade = grade])
          /\ bundles' = bundles \cup {BundleOf(p, grade)}
     ELSE /\ Run(p, "refused", [runs[p] EXCEPT !.grade = grade])
          /\ UNCHANGED bundles
  /\ UNCHANGED <<main, releaseVars>>

\* A step fails before the upload (the safety check is one) or the run is cancelled.
FailPromotion(p) ==
  /\ runs[p].step = "running"
  /\ Run(p, "failure", runs[p])
  /\ UNCHANGED <<main, bundles, releaseVars>>

-------------------------------------------------------------------------------
(* immutable-release.yml: job authority                                    *)

At(r, step) == rel[r].step = step /\ ~rel[r].failed
Goto(r, step, changes) == rel' = [rel EXCEPT ![r] = [changes EXCEPT !.step = step]]

Running(r) == rel[r].step \notin {"unused", "done"} /\ ~rel[r].failed

\* workflow_dispatch on main; the concurrency group admits one run at a time.  A run
\* of a commit that is not active stops before it reads anything, and is left out.
Start(r, p) ==
  /\ At(r, "unused") /\ \A x \in Release : ~Running(x)
  /\ runs[p].step # "unused" /\ Tip.lifecycle = "active"
  /\ Goto(r, "fetch", [NotStarted EXCEPT !.sha = Len(main), !.input = p, !.attempt = 1])
  /\ UNCHANGED <<main, promotionVars, tag, published>>

\* The platform enforces immutability; GitHub describes the run and validatePromotionRun
\* finds that it succeeded (its refusal, like any other, is FailRelease).
FetchRun(r) ==
  LET p == rel[r].input IN
  /\ At(r, "fetch") /\ runs[p].step = "success"
  /\ Goto(r, "authorize",
          [rel[r] EXCEPT !.meta = [run |-> p, sha |-> runs[p].sha, attempt |-> runs[p].attempt]])
  /\ UNCHANGED <<main, promotionVars, tag, published>>

\* The artifact is downloaded: its name has the commit and the run, not the attempt.
\* The lock of the commit is compared with the live ruleset once more, exactly one CI
\* Gate has succeeded (or FailRelease), and buildReleaseAuthority accepts.
Authorize(r, b, live) ==
  LET meta == rel[r].meta  c == main[rel[r].sha] IN
  /\ At(r, "authorize")
  /\ b.run = rel[r].input /\ b.sha = meta.sha
  /\ c.lock # NoLock /\ live = c.lock
  /\ meta.sha + 1 = rel[r].sha /\ Activates(main[meta.sha], c)
  /\ OfThatAttempt(b, meta) /\ ValidBundle(b, c)
  /\ Goto(r, "package",
          [rel[r] EXCEPT !.meta = None, !.authority = @ \cup
             {[sha |-> rel[r].sha, attempt |-> meta.attempt, bundle |-> b]}])
  /\ UNCHANGED <<main, promotionVars, tag, published>>

-------------------------------------------------------------------------------
(* jobs package and publish                                                *)

\* The sidecars are downloaded by name from this run, whatever attempt made them, and
\* go into the payload.
Package(r, a) ==
  /\ At(r, "package") /\ a \in rel[r].authority
  /\ Goto(r, "tag", [rel[r] EXCEPT !.payload = @ \cup {a}])
  /\ UNCHANGED <<main, promotionVars, tag, published>>

ReuseTag(r) == TRUE             \* faulty variant: whatever it points to
TagFits(r) == tag = rel[r].sha
\* The platform is asked again (or FailRelease), the tag made or checked.  A request for
\* the tag that fails is taken for its absence, but GitHub creates no tag twice
\* (FailRelease).
EnsureTag(r) ==
  /\ At(r, "tag") /\ (tag # 0 => TagFits(r))
  /\ Goto(r, "view", rel[r])
  /\ tag' = IF tag = 0 THEN rel[r].sha ELSE tag
  /\ UNCHANGED <<main, promotionVars, published>>

PublishedOnly == {x \in releases : x.published}  \* faulty variant: drafts are overlooked
Existing == releases

\* gh release view: any failure of it is taken for "there is none".
ViewReleases(r, fails) ==
  /\ At(r, "view")
  /\ fails \/ Existing = {}
  /\ misread' = (misread \/ (fails /\ releases # {}))
  /\ Goto(r, "create", rel[r])
  /\ UNCHANGED <<main, promotionVars, tag, releases>>

IsPublished == \E x \in releases : x.published

\* gh release create, a second call: gh refuses a tag with a published release
\* (external), and makes a draft with a payload of this run ...
CreateDraft(r, a) ==
  /\ At(r, "create") /\ a \in rel[r].payload
  /\ ~IsPublished
  /\ Goto(r, "publish", rel[r])
  /\ releases' = releases \cup {[by |-> <<r, rel[r].attempt>>, authority |-> a, published |-> FALSE]}
  /\ UNCHANGED <<main, promotionVars, tag, misread>>

\* ... then published; GitHub refuses a second published release of a tag (external)
Publish(r, x) ==
  /\ At(r, "publish") /\ x \in releases /\ x.by = <<r, rel[r].attempt>>
  /\ ~IsPublished
  /\ Goto(r, "done", rel[r])
  /\ releases' = (releases \ {x}) \cup {[x EXCEPT !.published = TRUE]}
  /\ UNCHANGED <<main, promotionVars, tag, misread>>

\* A step refuses, fails or is cancelled, the requests for the evidence and the
\* verification of what was published too; the workspace is gone, artifacts, tag and
\* draft stay.
FailRelease(r) ==
  /\ ~rel[r].failed /\ rel[r].step # "unused"
  /\ rel' = [rel EXCEPT ![r] = [@ EXCEPT !.failed = TRUE, !.meta = None]]
  /\ UNCHANGED <<main, promotionVars, tag, published>>

\* "Re-run all jobs" or "re-run failed jobs": a job starts from its first step, the
\* artifacts of the run are kept.
FirstStep(step) ==
  IF step \in {"tag", "view", "create", "publish", "done"} THEN "tag"
  ELSE IF step = "package" THEN "package" ELSE "fetch"

RerunRelease(r, all) ==
  /\ rel[r].failed \/ rel[r].step = "done"
  /\ rel[r].attempt < MaxReruns
  /\ \A x \in Release : ~Running(x)
  /\ Goto(r, IF all THEN "fetch" ELSE FirstStep(rel[r].step),
             [rel[r] EXCEPT !.failed = FALSE, !.attempt = @ + 1])
  /\ UNCHANGED <<main, promotionVars, tag, published>>

-------------------------------------------------------------------------------
Next ==
  \/ \E files \in Edits : Merge(files)
  \/ PushTag
  \/ \E p \in Evaluation :
       \/ Dispatch(p) \/ Rerun(p) \/ FailPromotion(p)
       \/ \E live \in Lock \cup {NoLock}, g \in Grades, yes \in BOOLEAN : Evaluate(p, live, g, yes)
  \/ \E r \in Release :
       \/ \E p \in Evaluation : Start(r, p)
       \/ \E b \in bundles, live \in Lock \cup {NoLock} : Authorize(r, b, live)
       \/ FetchRun(r) \/ EnsureTag(r) \/ FailRelease(r)
       \/ \E yes \in BOOLEAN : RerunRelease(r, yes) \/ ViewReleases(r, yes)
       \/ \E a \in rel[r].authority : Package(r, a)
       \/ \E a \in rel[r].payload : CreateDraft(r, a)
       \/ \E x \in releases : Publish(r, x)

Spec == Init /\ [][Next]_vars

-------------------------------------------------------------------------------
TypeOK ==
  /\ main \in Seq(Commit) /\ Len(main) \in 1..MaxCommits
  /\ runs \in [Evaluation -> [step: {"unused", "running",
                                   "success", "failure", "refused"},
                              sha: 0..MaxCommits, attempt: 0..MaxAttempts,
                              grade: Grades \cup {0}]]
  /\ bundles \subseteq Bundle
  /\ \A r \in Release :
       /\ rel[r].step \in {"unused", "fetch", "authorize", "package", "tag",
                      "view", "create", "publish", "done"}
       /\ rel[r].sha \in 0..MaxCommits /\ rel[r].attempt \in 0..MaxReruns
       /\ rel[r].meta # None => rel[r].meta.attempt \in 1..MaxAttempts
       /\ rel[r].payload \subseteq rel[r].authority
  /\ tag \in 0..MaxCommits
  /\ \A x \in releases : x.published \in BOOLEAN /\ x.by \in Release \X (1..MaxReruns)
  /\ misread \in BOOLEAN

\* What is released differs from the commit that was evaluated by its activation
\* alone: no commit came between the two, and nothing else came with it
\* (docs/IMMUTABLE_RELEASE.md, "Required ordering").
ReleaseIsItsParentActivated ==
  \A x \in releases :
    LET s == x.authority.sha  b == x.authority.bundle IN
    /\ b.sha = s - 1
    /\ main[s] = [main[s - 1] EXCEPT !.lifecycle = "active", !.roadmap = "done"]

\* A run of the evaluation can be repeated while the release reads about it: what
\* is released rests on the artifact of the very attempt GitHub described.
EvidenceIsOfOneAttempt ==
  \A r \in Release : \A a \in rel[r].authority : a.attempt = a.bundle.attempt

\* A release rests on two evaluations: one in promotion mode on the released
\* commit's parent, and an earlier one, of the same corpus and the same Safe Core,
\* that itself met the thresholds reviewed from it.
ReleasedAfterCalibration ==
  \A x \in releases :
    LET b == x.authority.bundle  p == b.policy IN
    /\ b.run \in Promotion /\ b.eligible /\ b.lock # NoLock /\ b.grade >= p.minimum
    /\ \E c \in bundles :
         /\ <<c.run, c.attempt>> = p.from /\ c.sha < b.sha
         /\ c.core = b.core /\ c.eligible = b.eligible /\ c.grade >= p.minimum

\* The version's tag points to the commit that was released, even if somebody made
\* the tag first, and although publishing is interrupted and repeated.
TagIsTheSource == \A x \in releases : tag = x.authority.sha

\* An interrupted publication that left a draft is never doubled by its repetition,
\* unless gh release view failed over that draft; and the version is never published
\* twice.
OneReleaseOfTheTag ==
  /\ misread \/ Cardinality(releases) <= 1
  /\ Cardinality({x \in releases : x.published}) <= 1
===============================================================================
