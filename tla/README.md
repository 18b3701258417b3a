# Verification of codex-debug

TLA+ models of codex-debug, the TLC runs that check them on small instances, and
theorems about them that TLAPS proves for instances of every size. Paths in
this document are relative to the root of the repository (`src/debug.js`,
`ARCHITECTURE.md`).

## 1. What the system is

codex-debug takes a failure (a reproduction command, a log, a core), has a model
propose hypotheses and a patch, has a second model pass verify them, and lets a
user apply the patch, verify it and roll it back. Every investigation is stored
as an append-only *session*; applying a patch, resuming and rolling back create
child sessions. The claims of the program are in the sessions: a fix is
`verified` only against a reproducible failing baseline, a hypothesis is
`confirmed` only on top of that, a rollback restores exactly what was replaced.

Around the program stands the machinery that decides whether it may be released:
scripts that evaluate it on historical fixes, an admission decision with a policy
reviewed from an earlier evaluation, a lock on the protection of `main`, and a
workflow that publishes an immutable release from all of these.

### Components, their state and their operations

| Component | State it keeps | Operations | What makes it correct |
|---|---|---|---|
| Debug controller (`src/debug.js`, `src/contracts.js`) | nothing of its own between calls; per call the evidence, ledger, patch state and verification it is building | `runDebugSession`, `resumeDebugSession`, `applyDebugSessionPatch`, `rollbackDebugSession` | verdicts bound to the baseline; only authorised patches; a child's story consistent with its ancestors' |
| Model answers and hypothesis ledger (`src/codex.js`, `src/hypothesis-ledger.js`) | the ledger inside a session | `normalizeInvestigation`, `normalizeCausalVerification`, `applyCausalVerification`, `createHypothesisLedger`, `confirmHypothesis` | a model cannot confirm; a patch needs `supported` + `accept` |
| Reproduction series (`src/reproduction.js`, `src/runner.js`) | the results of a series | `runReproductionSeries`, `summarizeSeries`, `compareFailureSignatures` | flakes are never a baseline; a transition means what it is called |
| Historical cases (`scripts/historical-case.js`, `scripts/promotion-provenance.js`, `scripts/promotion-qualify.js`, `scripts/promotion-live-eval.js`) | a temporary clone; what has been recorded of the corpus | `materializeHistoricalCase`, `runTransitionInRepo`, the loop over the corpus | each series runs in its own commit; output speaks for every case; no clone is left |
| Patch transaction and rollback (`src/patch-transaction.js`, `src/patch.js`, `src/workspace-snapshot.js`) | snapshots under `.codex-debug/snapshots` | `applyPatchWithSnapshot`, `gitApply`, `createWorkspaceSnapshot`, `finalizeWorkspaceSnapshot`, `writeWorkspaceSnapshot`, `rollbackWorkspaceSnapshot` | all or nothing; every patched file recorded; no later edit overwritten |
| Session store (`src/session-store.js`) | session files under `.codex-debug/sessions` | `writeSession`, `readSession`, `listSessions` | an id given out once; no partial file read; nothing lost |
| Extension window and isolated worker (`extension.js`, `src/worker-runner.js`, `src/debug-worker.js`) | per window `workerBusy` and `lastResult`; per call one promise | `executeWorker`, `chooseSession`, `runIsolatedDebug` | settles exactly once, never stays busy, acts on what was confirmed |
| Safe Bisect (`src/bisect.js`) | the tests made so far | `buildBisectPlan`, `runSafeBisect` | the commit named failed and its predecessor passed |
| Git state fingerprint (`src/git-context.js`, `src/git-causality.js`) | none | `collectGitContext`, `fileState` | a change of content changes the fingerprint |
| Repository governance (`scripts/promotion-authority-bootstrap.js`, `scripts/promotion-repository-governance.js`, `scripts/promotion-repository-governance-lock.js`) | a ruleset behind an external API, a snapshot, a candidate, the reviewed lock | find-or-create, lock, list-and-fetch, compare, dispatch | one ruleset of the name; the live one is the reviewed one |
| Promotion evaluation and admission (`scripts/promotion-admission.js`, `scripts/promotion-policy-review.js`, `scripts/promotion-calibration-report.js`, `.github/workflows/promotion-model-eval.yml`, ...) | evaluation artifacts, the policy on `main` | evaluate, admit, report, review | nothing admitted on a policy of something else |
| Immutable release (`scripts/immutable-release-authority.js`, `.github/workflows/immutable-release.yml`) | authority and payload artifacts, a tag, a draft or published release | authorise, package, tag, draft, publish | what is published is what was evaluated, activated and nothing else |
| Symbolization (`src/symbolizer.js`, `src/embedded*.js`, `src/platform-*.js`) | caches within a call | symbol lookup by tool | an address resolves to the right image |
| Evidence and parsers, CLI, reports; contract checks and benchmarks | none | text in, text out; assertions | - |

### How they interact

The CLI process and each extension worker is a separate thread or process running
one controller operation; several may work on one workspace. They share the files of
the workspace, the snapshots and the session store, and **no lock protects any
of these**. The user edits files and moves HEAD at any time. The controller
calls git and the reproduction command synchronously, and awaits the two model
passes; between each of these steps everything outside the process may change.
A session written by one process is the input of another's resume, apply or
rollback, possibly much later, and is revalidated then by
`validateStoredSession`. A window of the extension learns of its worker by
events only, and names stored sessions by their id.

The scripts use the same reproduction series as the controller, on clones of the
repository. Their output goes into the admission decision inside one workflow
run; the artifact of that run is read by a release run, together with GitHub's
description of it, with the commits of `main`, and with the live ruleset, which
anybody with the rights may change between any two requests. Any job may be
cancelled and any run repeated, in whole or from its failed jobs on.

### What is hard about it

- *Check, then act.* Freshness of the workspace before a patch; drift of the files
  before a restore; existence of a session id before it is linked; the list of
  rulesets before one is created; the description of a run before its artifact is
  downloaded; the tag and the releases before they are made.
- *Two places that must agree.* The verdict is computed in `src/debug.js` and
  rechecked in `src/contracts.js` from stored fields; the admission is computed by
  the evaluation and again by the release.
- *Long legal call sequences.* run, apply, resume, rollback, re-apply, resume of a
  rollback child, in chains and in sibling branches; calibrate, review, promote,
  activate, release.
- *Partial failure.* `git apply` succeeded and saving the snapshot fails; a restore
  that puts back one file of two; a temporary name that cannot be removed; a
  request that succeeds and whose answer is lost.
- *Death in the middle* of a transaction, of a session write, of a worker, of a
  script with a clone on disk, of a publication.
- *State left from before.* One clone serves two commits; a re-run finds the
  artifacts, the tag and the draft of the attempt before.
- *Answers that leave things out.* A verifier that does not mention a hypothesis; an
  API that does not show who may bypass a ruleset.

`PROJECT.json` lists each hazard with its line and the property that watches it.

## 2. Modules

| Module | Models | Composed with |
|---|---|---|
| `Reproduction` | `src/reproduction.js` as operators: summaries, strength of a baseline, transitions; `classifySeries` of `src/bisect.js` | extended by the next two, `DebugSession` and `SafeBisect` |
| `ReproductionSeries` | two series execution by execution, and their judgement | `Reproduction` |
| `HistoricalCase` | the users of series: the controller's pair, and the three scripts that go through a corpus | runs the actions of `ReproductionSeries` |
| `DebugSession` | the controller, `src/debug.js` with `src/contracts.js`, `src/codex.js` (normalisation), `src/hypothesis-ledger.js` | `Reproduction` |
| `AtomicPatch` | abstract: apply and rollback each happen at once | - |
| `PatchTransaction` | `src/patch-transaction.js`, `src/patch.js`, `src/workspace-snapshot.js`, file by file | implements `AtomicPatch` |
| `SessionRegistry` | abstract: an id is given out once, never changes | - |
| `SessionStore` | `src/session-store.js`, system call by system call | implements `SessionRegistry` |
| `WorkerHost` | `extension.js`, `src/worker-runner.js`, `src/debug-worker.js` | runs the actions of `SessionStore`; the whole implements `SessionRegistry` |
| `SafeBisect` | `src/bisect.js` | `Reproduction` |
| `Governance` | the three governance scripts against the rulesets API | - |
| `PromotionRelease` | the two workflows over the admission, review and release scripts | `HistoricalCase` and `Governance` detail two of its steps |
| `DebugSession_proofs`, `PatchTransaction_proofs`, `SafeBisect_proofs`, `SessionStore_proofs`, `WorkerHost_proofs`, `Governance_proofs`, `PromotionRelease_proofs`, `HistoricalCase_proofs` | theorems | the module of the name; `WorkerHost_proofs` cites `SessionStore_proofs` |
| `MC*` | small instances | - |

A definition named in a comment as a *faulty variant* (`ReuseTag`, `LookAway`,
...) is not part of the model: it is what a plausible mistake in
the code would make of the definition after it. Each property is broken by one
of them, which shows that the property does constrain the code.

### DebugSession

State: the workspace `ws` (HEAD and files), the snapshots, the stored sessions
in order, and `op[p]`, the step process *p* is at with the record it is building.
An operation of the code is cut at every access to something shared:

- run: `StartRun` (first `collectGitContext`), `RunBaseline` or `ReadEvidence`,
  `Investigate` (both model passes, the ledger), `DecideApply` (freshness check)
  or `CheckOnly`, `Transact`, `ObserveRun` (second `collectGitContext`), `Verify`
  or `SkipVerify`, `Persist`;
- resume: `StartResume`, `Verify`, `Persist`; apply: `StartApply`, `Transact`,
  `ObserveApply`, `Persist`; rollback: `StartRollback`, `Restore`, `Persist`.

`Abandon` ends an operation at any step without a session (an error, a refusal, a
crash). `Edit` and `MoveHead` are the user. A digest is modelled by equality of
what it digests, so the receipt and the stored record cannot disagree: tampering
with stored files is outside this model, disagreement of the code with its own
contract is not. The ids of hypotheses are the model's own and nothing removes
duplicates (`src/codex.js:19`, `src/hypothesis-ledger.js:4-6`), so a draft brings its `ids`,
and one verification confirms every supported entry that has the id of the first
(`ConfirmHypothesis`): what is paid for by a verified session is an id
(`ConfirmedIds`), not an entry. The id of a snapshot is a digest of what was captured and a
millisecond: `SnapshotIds` lets it recur for the same content, the later snapshot replaces
the earlier one, and a rollback compares the digest that its session recorded.
Digests of equal content are equal here, although the code's also cover two time stamps; it
may refuse a rollback that the model lets through, never the reverse. Results of a command, answers of the models and files a command
writes are chosen from constant sets. `base` and `seen` in a record are history
variables, read by one property.

The patch and the rollback are single steps here, the comparison with the snapshot and the
restore included. `PatchTransaction` is where they are taken apart, and `RefinesAtomic` says
when the single step is right: with nobody else writing, up to the first crash, reported partial
restore or half-failed `git apply`. What is left after one of these looks here like
`Abandon` followed by edits.

### PatchTransaction

One transaction per process, its step in `tx[p]`. Every path is captured,
written by git, finalized, compared, restored and confirmed in a step of its own,
in any order. The constant `Faults` says what may go wrong during a transaction:
user edits, crashes, a `git apply` that fails while it writes, failing saves, failing restores. `origin` and `alarm` are
history variables for the properties: `alarm` remembers that something happened
after which less is promised (a crash, a reported partial restore, a patch left half written, an
edit in mid-transaction, two transactions at once). `GitWriteFails` is the `git apply` that
throws after it has written some files. The controller sets `applied` only after `git apply` has
returned, so it restores nothing and the caller gets what it gets of a refusal; the model calls this
outcome `halfwritten` to keep the two apart.

Simplifications: the staging directory of a restore is private and left out; a crash
during `git apply` is `Crash` between two files of `GitWrite`; each `Save` makes a new
snapshot (that ids recur is in `DebugSession`).

### SessionStore and WorkerHost

A writer is at a system call of `writeSession`: `existsSync`, create, fill, link,
unlink. A reader does `lstat` and then reads. A file is visible under two names
between link and unlink, and a reader refuses a file with two links.

In `WorkerHost` each writer is one operation the user invokes. `Pick` is
`chooseSession`: the window reads a stored session and shows it. `Invoke` is
`executeWorker` up to the `await`: it is refused while `busy`, starts a thread, or
cannot. The thread reads its session again by id (`ReadInput`), writes (`Write`, the
store's steps) and posts; or it throws, or dies without an answer (`Die`, in the
middle of any system call), and `Exit` follows. `Deliver` is an event handler of
`worker-runner.js` with what it triggers: the promise, the `finally` that clears the
flag, and the assignment of `lastResult`. Node emits `exit` after the other events;
these may arrive in either order. `Reload` takes the window with its workers.
What an operation does before it writes is `DebugSession`, here only its failure.

### HistoricalCase

`step` follows `materializeHistoricalCase`: the temporary directory, fetch and check of
the commits (`FetchAndCheck`), `CheckOut` and `InstallCore` before each series, `RunHere`,
`EndBad` and `EndFixed` over the actions of `ReproductionSeries`; then what
`promotion-live-eval.js` adds (`Observe`, `Analyze`, `AnalyzeVariant`), `Record`, and
`CleanUp`, which is both the `finally` of a case and the `catch` of its preparation. The
clone is the commit checked out, the Core in it and what a reproduction has left behind
(`Debris`): files, which `git clean -fdx` removes; nested repositories, which it does not with one
`-f`; and what was put into the HOME that all executions of a case share. `Fail` is any
throwing git call or analysis; `Kill` the process.

Simplifications: making the HOME directory lies before the `try` (`scripts/historical-case.js:92-93`)
and is one step with the temporary directory, so a failure between them, which would leave the
directory, is not modelled; nor is a failing `rmSync`.

### SafeBisect

Position 0 is the good commit, positions 1..size the plan; `lo` and `hi` of the
code are one less. What a candidate's series shows is arbitrary.

### Governance

`live` is the set of rulesets on the server, `clock` stamps their changes.
Administrators create, edit and delete rulesets between any two requests. A bootstrap
is one `gh` call per step: `List`, `Create` (whose answer may be lost after it took
effect), `Fetch` (which writes the candidate lock), and the dispatch of a calibration.
`Export` and `LockSnapshot` are the other way to a candidate; `MergeLock` is its review.
The workflow reads the lock, lists (`EvalList`), fetches one by one (`EvalDetail`) and
compares (`EvalDecide`), always on `PublicProjection`, since its token is not shown
the bypass actors. `eval.got` and `adminSnapshot` keep what they really were, for the
properties. An administrator does not knowingly give a second ruleset the same name.

### PromotionRelease

`main` is a sequence of commits, each the files the machinery looks at: lifecycle, roadmap,
corpus eligibility, policy, lock, Core, and everything else. `Merge` is a pull request; a
policy is merged only as `promotion-policy-review.js` writes it (`ReviewedFrom`) or taken
back. `Dispatch`, `Rerun`, `Evaluate` and `FailPromotion` are runs of
`promotion-model-eval.yml`; `Evaluate` is its whole job after the checkout, which reads nothing
that others change except the live ruleset. A release run goes through `FetchRun`, `Authorize`,
`Package`, `EnsureTag`, `ViewReleases`, `CreateDraft` and `Publish`, may fail at any of them
(`FailRelease`) and be repeated in whole or from its failed job on (`RerunRelease`), with the
artifacts of every earlier attempt still there; the concurrency group admits one run at a
time. `ViewReleases` and `CreateDraft` are two calls, and whatever makes `gh release view`
fail, an outage or a rate limit too, is taken for "no release". A repeated run over a
leftover draft can so make a second one; `misread` remembers that this happened, and
`OneReleaseOfTheTag` then promises only that at most one release is published, which rests on
GitHub refusing a second one (external). `PushTag` is somebody who makes the
version's tag by hand.

Simplifications: one product version, so one tag; linear `main`; the evaluation's metrics are
one grade and the policy's thresholds a minimum for it; which grade comes out is an
input (section 6 says why the present live evaluation produces none). What only makes
a job stop (immutability not enforced, a red CI gate) is `FailRelease`. Nobody moves the
tag after its check (`--verify-tag` asks only that it exists).

## 3. Runs

| Run | Instance | Shows |
|---|---|---|
| `session_wide` | one process, two files, two commands, flaky series, a command that writes a file, no repository at first, accepting and rejecting verifiers, drafts claiming `confirmed`; 2 sessions | authorisation and verdict binding over wide inputs |
| `session_pair` | two processes, one file; one run and up to three more operations on its descendants; 2 snapshot ids, 4 hypotheses of which three share an id | chains of operations and their interleaving: evidence, ledger and confirmations are inherited truthfully, rollback children propose again, a rollback undoes exactly what its session applied |
| `patch_transaction` | two processes, a patch over two files, 1 snapshot; crashes, half-failed `git apply`, failing saves, failing restores, a user editing in mid-transaction; at most one crash, edit or half-written patch per behaviour (`Once`) | truthful outcomes, nothing patched goes unrecorded, refinement of `AtomicPatch` |
| `worker_host` | two windows; two operations that draw the same id in different windows and one on a stored session; start failures, throws, silent deaths, reloads, failing writes and unlinks | the flag, the last result and the confirmed session are what they seem; every promise settles; refinement of `SessionRegistry` |
| `safe_bisect` | paths of up to 18 commits against a limit of 17 | proven means a transition; logarithmically many tests |
| `historical_case` | two good cases (one pins a Core only before the fix, the other only after) and a corpus whose bad commit is not the parent; series of 1 to 3 executions (requests 0, 2, 3; 0 is clamped to 1), three signatures of which a summary keeps two (`MaxSignatures`; twelve in the code), two commands; failing git, failing model, kill | series start clean, output is complete, clones are removed, scripts end; baseline strength and transitions are as documented |
| `governance` | two bootstraps, a complete and an incomplete ruleset body, 3 changes on the server | the judgement without seeing bypass actors is right; repetition does not duplicate |
| `promotion_release` | one calibration, one promotion and one release run; 4 commits, 3 evaluation attempts, 2 release attempts, 2 Cores, 2 grades | what is released was evaluated, calibrated, activated and tagged |

The four `finding_*` runs check one documented statement each and find it violated;
section 6 describes them.

Why the bounds are enough. The interesting session chains are run-apply-resume,
run-apply-rollback-resume and apply-rollback-apply: four sessions hold each of
them with one to spare for a sibling. Two snapshots let a second apply follow a
rollback. With three hypotheses under one id, one supported, one put forward as confirmed and
one open, and a fourth of its own id, there is something to confirm together, something to
leave alone and something to pay for separately. One signature, one reproducing command and a second unrelated command
are all the verdict distinguishes; three executions are the fewest with a flake
next to an agreeing pair. Two files separate "all" from "some" in a transaction; a
second transaction is what can come between the first one's steps. Three
operations give a collision of ids and somebody who works on its result. Three
changes of rulesets let one be created, replaced and edited while it is being read. Four
commits hold the longest necessary chain (calibrated, policy, activated) and a commit that
does not belong; the third evaluation attempt is the repetition the release can
mistake for the one it knows. Name has one element in `governance`, so a ruleset is
not renamed there; the proofs allow it.

Symmetry is used only over interchangeable processes and never with liveness.
`CHECK_DEADLOCK FALSE` is given where the bounds, or the end of every operation,
really stop the system.

### Fairness

The programs are synchronous within a session write, a search or a script; commands,
git and model calls have timeouts. Two runs use fairness:

- `worker_host`: weak fairness on each thread's own steps (`ThreadStep`) and on
  the delivery of its events, none on the user, deaths, reloads or faults.
  `EveryCallSettles` then says no call is pending for ever. `NobodyLosesAnId` excuses an
  id one of whose own writers failed, since the code retries nothing.
- `historical_case`: weak fairness on `ScriptStep \/ Fail`: while a script is not over it
  goes on or fails. `EveryScriptEnds` holds although every git call may fail.

`finding_live_eval` uses the latter too, with no faults.

## 4. Theorems

All hold for arbitrary values of the constants, under the named assumptions in the
modules, which TLC evaluates on the instances.

**`DebugSession_proofs`**: `TypeCorrect`, `PatchesAreAuthorized`, `VerifiedSessionsAreBound`,
`RollbackIsProposed`, `EvidenceIsKept`, `ConfirmationsArePaid`, `RollbackIsUndo`;
`UnusableSessions`, `VerifiedMoved`, `ConfirmedNotRefused`.
The first two rest on `Inv`: `TypeOK`, `OnlyAuthorizedPatches`, and `StepInv`, which
says which patch fields a process's record may already have at the step it is at (no
snapshot before the transaction, a patch in the invocation at it, a snapshot at
restoring). Without `StepInv` the type of what a step stores cannot be shown.
`VerifiedIsBound` is about stored sessions only and is not inductive: what is stored
was built over many steps. `Bound` strengthens it. `BoundRecord` says of every record,
stored or in the making, that its evidence names the command its reproduction summary
was made with and that a verification that passed stands in the relation the contract
asks for to that evidence (`PassedIsBound`); `BoundStep` says that before `persist`
no verification has a verdict and that only runs and resumes reach `verify`. Summaries
are covered by a lemma that counts failures in a series. For children the argument goes
through the parent: the starting actions copy evidence from a stored session, which is
itself bound.
`Lines` is the lineage: a record has its parent's evidence and investigation, its ledger up to
what was confirmed (`Descends`), the digest of a snapshot taken of its own patch (`SnapshotFits`),
and, once a rollback is done, what the parent had applied (`TakesBack`); `LineageStep` says when
each starts to hold. With `Bound` it gives the status of a rollback's child: no verdict, no
mutation, no applied patch, an accepted one. `RollbackIsUndo` does not need to know who took a
snapshot last: the snapshot on disk must agree with the digest of the record, and that fits the
record's patch.

`ConfirmationsArePaid` bounds a cardinality by a sum along the lineage. `Earned` says that
a record confirms hypotheses of at most one id more than its parent, and none unless it passed;
for a set of ids of any size this is `OneMore`, a fact about cardinalities. The sum
`VerifiedUpTo` is a recursive function on the stored sessions and needs no induction: storing
a session extends it by one place, a function that satisfies the recursion for the longer
sequence is built from the old one (`CountExtends`), and `Paid` keeps that such a function exists
and bounds the confirmations.

`UnusableSessions`, `VerifiedMoved` and `ConfirmedNotRefused` are about what section 6 reports.
A finding shows that a statement fails; these show by how much, for every value of the
constants. They rest on `Traces`: a run never holds a patch that was taken back, an observed
mutation is a difference of fingerprints, and a supported entry of the ledger was supported
or not mentioned by the verifier.

**`PatchTransaction_proofs`**: `TransactionTyping`, `OutcomesAreTrue`, `NothingUnrecorded`,
`RollbackSparesEdits`, `ImplementsAtomic`. The invariant has three parts. `Shape` follows from a
transaction's own fields: at each step, which paths it has captured, written, failed to put
back. It holds whoever else writes, and gives `AllOrNothing`. `Tended` says that, up to a crash, a
partial restore or a half-written patch, a patched file that no snapshot records is in the hands of an apply that is still to record it
or put it back (`Tends`). `Alone` holds as long as no edit and no other transaction came in
between: one transaction is under way at most, and what it has captured, compared, written
or finalized is what the files hold (`Faithful`). The refinement rests on `Alone`: until
the first alarm what the workspace counts as (`Settled`) is the view of the one transaction
under way (`View`). Capturing, writing, finalizing and undoing leave the view as it is; `Save`
turns it into the patched files at once and the last `Confirm` into the restored ones.
From the first alarm on, `AtomicPatch` promises nothing about the files.

**`SafeBisect_proofs`**: `BisectTypeCorrect`, `ProvenTransitions`. The inductive invariant is
`Bracket`: `lo < hi`, both were tested, everything tested passed up to `lo` and
failed from `hi` on; so when they are neighbours `hi` is the commit to name.
`BisectHalves` is about the number of tests: each candidate tested doubles what it rules
out, so 2 to the number of tested candidates is at most what the path allows. That a power of
two doubles would be an induction; here it is the size of a power set, which a library
theorem gives (`FS_SUBSET`).

**`SessionStore_proofs` and `WorkerHost_proofs`**: `HostTyping`, `LastIsStored`,
`ConfirmedIsRead`, `BusyTellsTheTruth`, `StoreRefinesRegistry`, `CallsAreAnswerable`,
`WorkersFinish`. The store's invariant `SInv`
says that whatever is linked is complete and belongs to the one writer whose `link`
succeeded (`LinksHold`), that a writer that answered "ok" is linked (`AnswersHold`), and that
what a reader holds is linked (`ReadersHold`). It is preserved by every step
of the store, hence by every step of the host, a worker's death in mid-write included.
`HInv` adds how the promise, the thread and its events go together (`CallsHold`), that an
"ok" in flight is a stored session (`OksHold`), that what an operation was confirmed on is
linked and is what its thread finds (`InputsHold`), and that one call is pending per busy window.
`StoreRefinesRegistry` is a full refinement, `HostSpec => Registry!Spec`: initial states, and
each step registers, reads or stutters, since nothing linked is ever unlinked (`Kept`).
The last two are what makes `EveryCallSettles` true, short of fairness. `CallsAreAnswerable`:
while a call is pending its thread runs or has sent something that was not delivered.
`WorkersFinish`: `WorkLeft` bounds the steps a thread can still take; each of its steps lowers it
and nobody else's raises it. It needs `Resting`, that a reader between two reads is back at its
initial state.

**`Governance_proofs`**: `Typing`, `ReadyIsSound`, `BootstrapIsIdempotent`. The
workflow never sees bypass actors, so why a matching projection means the reviewed ruleset has to
come from history: `Stamped` says that two records of the same id and time stamp,
wherever they are kept, are the same ruleset, and `LocksHold` that every lock was made of one
without gaps. For the bootstrap, `NoneUnderWay` says that as long as nobody overlapped, who
is about to create would create the only one; two bootstraps that both list before either
creates make two rulesets, and the property excuses them (`raced`).

**`PromotionRelease_proofs`**: `ReleaseIsTheParent`, `OneAttempt`, `CalibratedBefore`,
`TagOfTheRelease`, `NeverDoubled`, `ReleaseTypeCorrect`, `UploadsTrue`, `MarkedFirst`. `PInv` says what a release run holds at each step
(`Holds`): every authority among its artifacts, of whatever attempt, was accepted for its commit
(`Good`), and past the tag step the tag is that commit; that every policy on `main` has
its evaluation on an earlier commit (`PoliciesHold`); and that every release, draft or published,
has an accepted authority for the commit of the tag (`ReleasesHold`). `NeverDoubled` rests on
`Single`: one run is under way at a time, and it reaches `CreateDraft` without a failed view
only if there was no release. Its types leave out the bounds;
`ReleaseTypeCorrect` adds them (`Bounded`). The attempts of all evaluation runs together are counted as a set of
pairs, which is why `ReleaseConstants` asks for finitely many runs.
`UploadsTrue` says what an artifact proves by existing: its evaluation ran with the policy and
corpus marking of its commit, and the policy was the draft or calibrated on exactly these. From it
follows `MarkedFirst`: behind every release is a calibration of a commit on which the corpus was
already marked.

**`HistoricalCase_proofs`**: `HistoryTyping`, `ReproducibleIsSound`, `TransitionIsSound`,
`SeriesAreClean`, `NothingStays`, `OutputCoversCorpus`, `EveryStepComesCloser`. Lemmas on `Summarize` say that a failure is
stable exactly when its failing executions have one signature (`StableMeansOneSignature`,
`ReproducibleMeans`), and what each verdict says of the two series (`VerdictMeans`). A summary
keeps `MaxSignatures` signatures, at least two; all verdicts but `different-failure` say what they
mean whatever was cut, that one only if nothing was. The
invariant has three parts: `SeriesHold`, a series that ended has the executions asked for and
a judged pair was judged by its summaries; `PlaceHolds`, what the clone holds at each step of the
script, so that the first execution of a series finds the commit checked out, its pinned core and
no debris but what the cleaning spares; `LoopHolds`, that what is recorded is what the corpus lists before the case the
script is at. `EveryStepComesCloser` is the reason why a script ends: the cases left, the steps left
in the case and the executions left in the series are natural numbers (`Measured`), and every
step makes them lexicographically smaller (`ComesCloser`).

Only model-checked: the liveness properties `EveryCallSettles`, `NobodyLosesAnId` and
`EveryScriptEnds`, since fairness and ENABLED are beyond the prover. The measures above are
the part of the first and the last that is within its reach. Every invariant, action property and refinement
that a passing run checks is stated by a theorem.

## 5. What is not modelled

`PROJECT.json` gives every component with its status. Left out within modelled
components:

- digests and receipts as strings (they are equality here), path policy and directory
  hardening (guards on the static shape of a path), prompts, reports, telemetry;
- what *verify last fix* does when the last result has no reproducible baseline or its resume is
  refused (`extension.js:28`): it starts the worker's `command` action, stores no session and reports
  the result as unbound; dialogs and messages of the extension;
- parsing of porcelain output, the cap on changed paths and the reading order in the
  fingerprint (`src/git-context.js`), the heuristics of `src/git-causality.js`;
- of the clamp of the number of runs (`src/reproduction.js:7`) the runs exercise the lower end;
  the theorems hold for both, fractions are left out;
- the metrics of an evaluation, schema checks of its records, readiness counts of the corpus;
- the per-candidate clone of Safe Bisect, the scrubbed environments.

Left out entirely: symbolization and evidence parsing (functions of text and external
tools without control state), the command line and reports, contract checks
and benchmarks.

## 6. Where the code departs from its documentation

- `finding_rollback_resume`: a resume of a rollback child copies `rolledBack` but not
  the rollback lineage. If its verification passes (the user fixed the bug by other
  means) a `verified` session is stored that no later operation accepts, against
  README.md:65-71. `UnusableSessions`: there are no other verified sessions of that kind.
- `finding_baseline_mutation`: the mutation is measured from before the baseline
  series, so a command that writes a file provides its own mutation; README.md:69
  asks for one after the baseline. `VerifiedMoved`: there always is one since before the baseline.
- `finding_omitted_hypothesis`: a hypothesis the verifier does not mention keeps the
  generator's `supported` and can be confirmed; SECURITY.md:32 says only
  verifier-supported ones can. `ConfirmedNotRefused`: one the verifier left open or refuted
  never is.
- `finding_live_eval`: `materializeHistoricalCase` returns with the clone at the fixed commit
  (`scripts/historical-case.js:83-88`), and `scripts/promotion-live-eval.js:51-52` runs the
  reproduction there again and throws unless it fails. If the outcome depends on the
  commit only, no case is ever analysed and no record is written, against MODEL_EVALUATION.md:12.

Divergences visible in the models without a run of their own:

- ARCHITECTURE.md:79 calls the application of a patch a transaction. A `git apply` that fails after it
  wrote some files leaves them written and unrecorded, and is reported like a patch that did not
  fit (`GitWriteFails`); `AllOrNothing`, `PatchedIsRecorded` and `RefinesAtomic` have to except it.
- `.github/workflows/immutable-release.yml:290` takes every failure of `gh release view` for the
  absence of a release (`ViewReleases`), so a repeated run can make a second draft.
- `git clean -fdx` (`scripts/historical-case.js:72`) skips nested repositories, and the two series of a case
  share one HOME: `SeriesStartClean` promises less for the second series than for the first.
- Hypotheses that share an id are confirmed by one verification together, although it was
  for one of them (`src/hypothesis-ledger.js:6`).
- An edit between the freshness check and the patch goes unnoticed (`DecideApply` and
  `Transact` are two steps; ARCHITECTURE.md:77 rules it out).
- An edit between the drift check and the restore is overwritten: `RestoresOnlyUndrifted`
  has to except it (README.md:192 says later edits are never overwritten).
- `buildBisectPlan` accepts a good commit on a merged side branch; the first commit of the
  plan then has a first parent that is never tested.
- docs/PROMOTION_ADMISSION.md:88-96 marks the corpus `promotionEligible` after the calibration and
  the policy. The corpus digest covers that field (`scripts/promotion-corpus.js:105`), so
  the policy is stale from then on and the promotion run cannot be admitted
  (`scripts/promotion-admission.js:112-113`; `Calibrated` in the model). Recalibrating is
  refused for the same reason until the policy is taken back to the draft. Only the order in
  which the corpus is marked first leads to a release, which is what `MarkedFirst` proves.
- Re-running only the failed jobs of a release publishes on an authority computed by an
  earlier attempt, however long ago; only immutability is asked for again.

## 7. Plan

Done: every module of section 2, and the theorems of section 4.

What is left, in this order:

1. `GitFingerprint`: status and contents read one after the other, the cap on paths;
   abstract specification: the fingerprint of one moment.
2. `KernelSymbols`: nearest-symbol lookup against a reference definition.
