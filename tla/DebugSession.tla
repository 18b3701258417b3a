----------------------------- MODULE DebugSession -----------------------------
(***************************************************************************)
(* The debug controller (src/debug.js) with the contracts it is held to    *)
(* (src/contracts.js): controller processes (CLI invocations, extension    *)
(* workers) run, resume, apply and roll back debug sessions over one       *)
(* workspace and one append-only session store, while the user edits files *)
(* and moves HEAD between any two of their steps.                          *)
(*                                                                         *)
(* An operation is a sequence of steps, one per access to the workspace or *)
(* the store.  The applied patch and the rollback are one step each here;  *)
(* PatchTransaction opens them up.  Digests are modelled by equality of    *)
(* what they digest, so receipts and stored records cannot disagree.       *)
(***************************************************************************)
EXTENDS Reproduction

CONSTANTS
  Proc,           \* controller processes
  Path, Content,  \* files of the workspace and what they can hold (or absence)
  Visible,        \* paths the state fingerprint covers (not ignored, within its cap)
  Writable,       \* paths a reproduction command may write while it runs
  Commit, NoRepo, \* commits HEAD may name; no Git repository at all
  InitialFiles, InitialHead,
  Runs,           \* the series of executions that can be observed
  Patch, NoPatch, \* model patches; none proposed
  NHyp,           \* hypotheses of an investigation, in ledger order
  Draft, Verdict, \* what the generator and the verifier may answer
  MaxSessions, MaxRoots, MaxSnapshots   \* bounds: sessions, runs among them, snapshots

FixStatus == {"unresolved", "diagnosed", "proposed", "applied-unverified",
              "verified", "regressed"}
Hyp == 1..NHyp

DraftStatus    == {"open", "supported", "refuted", "confirmed"}
VerdictStatus  == {"open", "supported", "refuted"}
HypothesisStatus == {"open", "supported", "refuted", "confirmed"}
Assessment  == {"supported", "insufficient", "contradicted"}
Disposition == {"accept", "reject", "none"}

\* The ids of the hypotheses are the generator's own: two may share one.
Drafts   == [patch: Patch \cup {NoPatch}, hyps: [Hyp -> DraftStatus], ids: [Hyp -> Hyp]]
\* A verifier answers by id, and need not mention every one: "omitted".
Verdicts == [assessment: Assessment, disposition: Disposition,
             hyps: [Hyp -> VerdictStatus \cup {"omitted"}]]

ASSUME SessionConstants ==
  /\ Visible \subseteq Path /\ Writable \subseteq Path
  /\ NoRepo \notin Commit /\ InitialHead \in Commit \cup {NoRepo}
  /\ InitialFiles \in [Path -> Content]
  /\ Runs \subseteq Seq(Result) /\ <<>> \notin Runs
  /\ NoPatch \notin Patch
  \* A patch rewrites its paths, and applies where every hunk finds its context.
  /\ \A d \in Patch : /\ d.paths \in SUBSET Path /\ d.paths # {}
                      /\ DOMAIN d.rewrite \subseteq Content
                      /\ \A c \in DOMAIN d.rewrite : d.rewrite[c] \in Content
  /\ NHyp \in Nat /\ {MaxSessions, MaxRoots, MaxSnapshots} \subseteq Nat
  /\ Draft \subseteq Drafts /\ Verdict \subseteq Verdicts

VARIABLES
  ws,        \* the workspace: [head, files]
  snaps,     \* rollback snapshots under .codex-debug/snapshots, in creation order
  sessions,  \* stored sessions under .codex-debug/sessions, in creation order
  op         \* op[p]: the step process p is at and the record it is building

vars == <<ws, snaps, sessions, op>>

Workspace == [head: Commit \cup {NoRepo}, files: [Path -> Content]]

-------------------------------------------------------------------------------
(* Workspace state fingerprint: collectGitContext in src/git-context.js.   *)

Fingerprint(w) ==
  [head  |-> w.head,
   files |-> IF w.head = NoRepo THEN <<>> ELSE [x \in Visible |-> w.files[x]]]
HasFingerprint(f) == f.head # NoRepo
Fingerprints == {Fingerprint(w) : w \in Workspace}

\* Boolean(a && b && a!==b)
Moved(f, g) == HasFingerprint(f) /\ HasFingerprint(g) /\ f # g

\* assertWorkspaceMatchesEvidence does not throw EPATCHSTALE.
Fresh(f, evidence) == HasFingerprint(evidence.fp) => f = evidence.fp

-------------------------------------------------------------------------------
(* Model answers: src/codex.js and src/hypothesis-ledger.js.               *)

\* normalizeCausalVerification
NormalizeVerdict(v, draft) ==
  [v EXCEPT !.disposition =
     IF draft.patch = NoPatch THEN "none"
     ELSE IF v.assessment # "supported" /\ @ = "accept" THEN "reject"
     ELSE @]

KeepDraftPatch(draft, v) == draft.patch  \* faulty variant: the disposition is ignored
\* applyCausalVerification: which patch survives, and under which statuses.
AcceptedPatch(draft, v) ==
  IF v.disposition = "accept" /\ v.assessment = "supported" THEN draft.patch ELSE NoPatch

NoVerdict == [assessment |-> "none", disposition |-> "none",
              hyps |-> [h \in Hyp |-> "omitted"]]

ApplyVerdict(draft, v) ==
  [patch   |-> AcceptedPatch(draft, v),
   hyps    |-> [h \in Hyp |-> IF v.hyps[draft.ids[h]] = "omitted" THEN draft.hyps[h]
                             ELSE v.hyps[draft.ids[h]]],
   ids     |-> draft.ids,
   verdict |-> v]

\* deterministicInvestigation: one open hypothesis, no patch, no verifier.
DeterministicInvestigation ==
  [patch |-> NoPatch, hyps |-> [h \in Hyp |-> "open"], ids |-> [h \in Hyp |-> h],
   verdict |-> NoVerdict]

\* What the model passes, or --deterministic-only, can come to.
Answers == {DeterministicInvestigation}
             \cup {ApplyVerdict(d, NormalizeVerdict(v, d)) : d \in Draft, v \in Verdict}

\* createHypothesisLedger: a model cannot bring in a confirmed hypothesis.
NormalizeHypothesis(status) == IF status = "confirmed" THEN "supported" ELSE status
CreateLedger(inv) == [h \in Hyp |-> NormalizeHypothesis(inv.hyps[h])]

AllSupported(ledger) == {h \in Hyp : ledger[h] = "supported"}      \* faulty variant
\* ledger.entries.find(h => h.status === 'supported')
FirstSupported(ledger) ==
  {h \in Hyp : ledger[h] = "supported" /\ \A g \in 1..(h - 1) : ledger[g] # "supported"}

\* Faulty variant of the next: whatever carries the id.
ConfirmEveryBearer(ledger, ids, found) ==
  [h \in Hyp |-> IF ids[h] \in found THEN "confirmed" ELSE ledger[h]]
\* item.id === id && item.status === 'supported', for every entry; found holds
\* the id looked for, or nothing.
ConfirmHypothesis(ledger, ids, found) ==
  [h \in Hyp |-> IF ids[h] \in found /\ ledger[h] = "supported" THEN "confirmed" ELSE ledger[h]]

-------------------------------------------------------------------------------
(* Verdicts on a fix: src/debug.js:43-78.                                  *)

Strong(before) == before.reproducible
AllPass(after) == after.runs > 0 /\ after.failures = 0

\* Faulty variant of verificationStatus: the command identity is not asked for.
StatusAnyCommand(before, after, mutated) ==
  IF AllPass(after) /\ Strong(before) /\ mutated THEN "passed" ELSE "failed"

VerificationStatus(before, after, mutated) ==
  IF AllPass(after) /\ Strong(before) /\ mutated /\ SameCommand(before, after)
  THEN "passed"
  ELSE IF AllPass(after) THEN "passed-unbound" ELSE "failed"

ConfirmSupported(ledger, ids, before, after) ==
  IF Strong(before) /\ SameCommand(before, after) /\ AllPass(after)
  THEN ConfirmHypothesis(ledger, ids, {ids[h] : h \in FirstSupported(ledger)})
  ELSE ledger

\* makeVerification; rollback names the snapshot a rollback consumed, 0 for none.
MakeVerification(before, after, mutated, cmd, rollback) ==
  [status     |-> IF after.runs > 0 THEN VerificationStatus(before, after, mutated)
                  ELSE "not-run",
   before     |-> before,
   after      |-> after,
   transition |-> IF after.runs > 0 THEN CompareSignatures(before, after) ELSE "not-run",
   cmd        |-> cmd,
   mutated    |-> mutated,
   rollback   |-> rollback]

DetermineFixStatus(inv, patch, verif) ==
  IF verif.status = "passed" THEN "verified"
  ELSE IF (patch.applied \/ verif.mutated) /\ verif.status = "failed" THEN "regressed"
  ELSE IF patch.applied THEN "applied-unverified"
  ELSE IF inv.patch # NoPatch THEN "proposed"
  ELSE IF inv.verdict.assessment \in {"insufficient", "contradicted"} THEN "unresolved"
  ELSE "diagnosed"

-------------------------------------------------------------------------------
(* What a stored session must satisfy to be used: src/contracts.js:15-56.  *)

HasAuthorizedPatch(inv) ==
  \/ inv.patch = NoPatch
  \/ inv.verdict.assessment = "supported" /\ inv.verdict.disposition = "accept"

VerifiedBinding(s) ==
  (s.fix = "verified" \/ s.verif.status = "passed") =>
    /\ s.fix = "verified" /\ s.verif.status = "passed"
    /\ s.evidence.command \in Cmd
    /\ s.evidence.command = s.evidence.reproduction.cmd
    /\ s.evidence.command = s.verif.after.cmd
    /\ s.evidence.command = s.verif.cmd
    /\ s.evidence.reproduction = s.verif.before
    /\ s.evidence.reproduction.reproducible
    /\ s.evidence.reproduction.failures > 0
    /\ s.verif.mutated
    /\ s.verif.after.runs > 0
    /\ s.verif.after.failures = 0
    /\ s.verif.after.passes = s.verif.after.runs
    /\ s.verif.transition = "resolved"

RollbackBinding(s) ==
  s.patch.rolledBack =>
    /\ ~s.patch.applied
    /\ s.rollback # 0                       \* lineage.rollback
    /\ s.rollback = s.patch.snapshot
    /\ s.verif.rollback = s.rollback
    /\ s.parent # 0
    /\ s.fix \notin {"verified", "applied-unverified"}

Valid(s) == HasAuthorizedPatch(s.inv) /\ VerifiedBinding(s) /\ RollbackBinding(s)

-------------------------------------------------------------------------------
(* Records and steps.                                                      *)

\* The patch state: the snapshot by its id and, as its digest, by what it says.
EmptyPatch == [applied |-> FALSE, snapshot |-> 0, rolledBack |-> FALSE,
               digest  |-> [before |-> <<>>, after |-> <<>>]]

\* The record runDebugSession starts from.  base and seen are history, read by
\* properties only: the files when the baseline ended, and when the mutation
\* was looked for.
NewRecord(w) ==
  [kind     |-> "run",
   parent   |-> 0,
   fix      |-> "unresolved",
   evidence |-> [fp |-> Fingerprint(w), command |-> NoCmd, reproduction |-> NoSummary],
   inv      |-> DeterministicInvestigation,
   ledger   |-> CreateLedger(DeterministicInvestigation),
   patch    |-> EmptyPatch,
   verif    |-> MakeVerification(NoSummary, NoSummary, FALSE, NoCmd, 0),
   rollback |-> 0,
   base     |-> w.files,
   seen     |-> w.files]

\* Resume, apply and rollback build a child on what the parent recorded.  A
\* resume keeps the parent's patch state but not its lineage.rollback.
Child(i, kind, mutated, w) ==
  [sessions[i] EXCEPT
     !.kind = kind, !.parent = i, !.rollback = 0, !.seen = w.files,
     !.verif = MakeVerification(sessions[i].evidence.reproduction, NoSummary, mutated, NoCmd, 0)]

Steps == {"idle", "baseline", "investigate", "patch", "transact", "observe",
          "verify", "restore", "persist"}

Idle ==
  LET w == [head |-> InitialHead, files |-> InitialFiles]
  IN [step |-> "idle", ctx |-> Fingerprint(w), rec |-> NewRecord(w)]

Init ==
  /\ ws = [head |-> InitialHead, files |-> InitialFiles]
  /\ snaps = <<>>
  /\ sessions = <<>>
  /\ op = [p \in Proc |-> Idle]

At(p, step) == op[p].step = step
\* The next step of p, with what it recorded at this one.
Go(p, step, rec) ==
  op' = [op EXCEPT ![p] = [step |-> step, ctx |-> op[p].ctx, rec |-> rec]]
Begin(p, step, rec) ==
  op' = [op EXCEPT ![p] = [step |-> step, ctx |-> Fingerprint(ws), rec |-> rec]]

\* Bounds on the sessions a behaviour stores, and on the runs among them.
Busy == {p \in Proc : op[p].step # "idle"}
Room == Len(sessions) + Cardinality(Busy) < MaxSessions
RootRoom ==
  Cardinality({i \in DOMAIN sessions : sessions[i].kind = "run"})
    + Cardinality({p \in Busy : op[p].rec.kind = "run"}) < MaxRoots

\* A command may leave files behind.
FilesAfterCommand(files) ==
  {g \in [Path -> Content] : \A x \in Path \ Writable : g[x] = files[x]}

-------------------------------------------------------------------------------
(* runDebugSession: src/debug.js:91-169.                                   *)

\* collectGitContext, before anything runs
StartRun(p) ==
  /\ At(p, "idle") /\ Room /\ RootRoom
  /\ Begin(p, "baseline", NewRecord(ws))
  /\ UNCHANGED <<ws, snaps, sessions>>

\* --command: the reproduction series
RunBaseline(p, c) ==
  /\ At(p, "baseline")
  /\ \E results \in Runs, files \in FilesAfterCommand(ws.files) :
       /\ ws' = [ws EXCEPT !.files = files]
       /\ Go(p, "investigate",
             [op[p].rec EXCEPT !.evidence.command = c,
                               !.evidence.reproduction = Summarize(c, results),
                               !.base = files])
  /\ UNCHANGED <<snaps, sessions>>

\* a log, a core or inline text instead of a command
ReadEvidence(p) ==
  /\ At(p, "baseline")
  /\ Go(p, "investigate", [op[p].rec EXCEPT !.base = ws.files])
  /\ UNCHANGED <<ws, snaps, sessions>>

\* the two model passes, awaited, and the ledger built from their outcome
Investigate(p) ==
  /\ At(p, "investigate")
  /\ \E inv \in Answers :
       Go(p, "patch", [op[p].rec EXCEPT !.inv = inv, !.ledger = CreateLedger(inv)])
  /\ UNCHANGED <<ws, snaps, sessions>>

\* --apply: the workspace must still be the one the evidence was taken from
DecideApply(p) ==
  /\ At(p, "patch")
  /\ op[p].rec.inv.patch # NoPatch
  /\ Fresh(Fingerprint(ws), op[p].rec.evidence)
  /\ Go(p, "transact", op[p].rec)
  /\ UNCHANGED <<ws, snaps, sessions>>

\* without --apply the patch is only checked, and a failed check is recorded
CheckOnly(p) ==
  /\ At(p, "patch")
  /\ Go(p, "observe", op[p].rec)
  /\ UNCHANGED <<ws, snaps, sessions>>

PatchApplies(d, files) == \A x \in d.paths : files[x] \in DOMAIN d.rewrite
Patched(d, files) ==
  [x \in Path |-> IF x \in d.paths THEN d.rewrite[files[x]] ELSE files[x]]
Taken(files, paths) == [x \in paths |-> files[x]]

\* createWorkspaceSnapshot's id digests what it captured with the millisecond:
\* a new one, unless the same was captured before and the clock read the same.
SnapshotIds(before) ==
  {i \in DOMAIN snaps : snaps[i].before = before} \cup {Len(snaps) + 1}
\* writeWorkspaceSnapshot renames over a snapshot that has the id.
WithSnapshot(id, snap) ==
  IF id \in DOMAIN snaps THEN [snaps EXCEPT ![id] = snap] ELSE Append(snaps, snap)

\* applyPatchWithSnapshot, seen as one step (src/patch-transaction.js)
Transact(p) ==
  LET d    == op[p].rec.inv.patch
      snap == [before |-> Taken(ws.files, d.paths),
               after  |-> Taken(Patched(d, ws.files), d.paths)]
  IN /\ At(p, "transact")
     /\ PatchApplies(d, ws.files)
     /\ ws' = [ws EXCEPT !.files = Patched(d, @)]
     /\ \E id \in SnapshotIds(snap.before) :
          /\ id <= MaxSnapshots
          /\ snaps' = WithSnapshot(id, snap)
          /\ Go(p, "observe",
                [op[p].rec EXCEPT !.patch = [applied |-> TRUE, snapshot |-> id,
                                             rolledBack |-> FALSE, digest |-> snap]])
     /\ UNCHANGED sessions

\* postMutationContext and mutationObserved
ObserveRun(p) ==
  /\ At(p, "observe") /\ op[p].rec.kind = "run"
  /\ LET rec     == op[p].rec
         mutated == Moved(rec.evidence.fp, Fingerprint(ws))
     IN Go(p, "verify",
           [rec EXCEPT !.seen = ws.files,
                       !.verif = MakeVerification(rec.evidence.reproduction, NoSummary,
                                                  mutated, NoCmd, 0)])
  /\ UNCHANGED <<ws, snaps, sessions>>

\* no --verify-command, and no applied patch to run --command against
SkipVerify(p) ==
  /\ At(p, "verify") /\ op[p].rec.kind = "run"
  /\ ~(op[p].rec.patch.applied /\ op[p].rec.evidence.command # NoCmd)
  /\ Go(p, "persist", op[p].rec)
  /\ UNCHANGED <<ws, snaps, sessions>>

\* the post-change series of a run or of a resume
Verify(p, c) ==
  /\ At(p, "verify")
  /\ \E results \in Runs, files \in FilesAfterCommand(ws.files) :
       LET rec   == op[p].rec
           after == Summarize(c, results)
           verif == MakeVerification(rec.evidence.reproduction, after, rec.verif.mutated, c, 0)
       IN /\ ws' = [ws EXCEPT !.files = files]
          /\ Go(p, "persist",
                [rec EXCEPT !.verif = verif,
                            !.ledger = IF verif.status = "passed"
                                       THEN ConfirmSupported(@, rec.inv.ids,
                                                             rec.evidence.reproduction, after)
                                       ELSE @])
  /\ UNCHANGED <<snaps, sessions>>

-------------------------------------------------------------------------------
(* resumeDebugSession: src/debug.js:171-198.                               *)

StartResume(p, i) ==
  /\ At(p, "idle") /\ Room
  /\ Valid(sessions[i])
  /\ sessions[i].evidence.reproduction.reproducible       \* else ERESUMEBASELINE
  /\ Begin(p, "verify",
           Child(i, "resume", Moved(sessions[i].evidence.fp, Fingerprint(ws)), ws))
  /\ UNCHANGED <<ws, snaps, sessions>>

(* applyDebugSessionPatch: src/debug.js:200-218.                           *)

StartApply(p, i) ==
  /\ At(p, "idle") /\ Room
  /\ Valid(sessions[i])
  /\ sessions[i].inv.patch # NoPatch                      \* else ENOSESSIONPATCH
  /\ Fresh(Fingerprint(ws), sessions[i].evidence)         \* else EPATCHSTALE
  /\ Begin(p, "transact", Child(i, "apply", FALSE, ws))
  /\ UNCHANGED <<ws, snaps, sessions>>

\* after = collectGitContext(...), compared with the context taken at the start
ObserveApply(p) ==
  /\ At(p, "observe") /\ op[p].rec.kind = "apply"
  /\ LET rec == op[p].rec IN
     Go(p, "persist",
        [rec EXCEPT !.seen = ws.files,
                    !.verif = MakeVerification(rec.evidence.reproduction, NoSummary,
                                               op[p].ctx # Fingerprint(ws), NoCmd, 0)])
  /\ UNCHANGED <<ws, snaps, sessions>>

(* rollbackDebugSession: src/debug.js:220-293.                             *)

NotConsumed(s) == ~s.patch.rolledBack                     \* else EROLLBACKCONSUMED

StartRollback(p, i) ==
  /\ At(p, "idle") /\ Room
  /\ Valid(sessions[i])
  /\ NotConsumed(sessions[i])
  /\ sessions[i].patch.snapshot # 0                       \* else ENOROLLBACKSNAPSHOT
  /\ Begin(p, "restore", Child(i, "rollback", FALSE, ws))
  /\ UNCHANGED <<ws, snaps, sessions>>

AnyFiles(snap, files) == TRUE                 \* faulty variant of the next
\* No recorded path differs from what the patch left (else EROLLBACKDRIFT).
Undrifted(snap, files) == \A x \in DOMAIN snap.after : files[x] = snap.after[x]
Restored(snap, files) ==
  [x \in Path |-> IF x \in DOMAIN snap.before THEN snap.before[x] ELSE files[x]]

KeepPatchState(patch) == [patch EXCEPT !.rolledBack = TRUE]      \* faulty variant
RolledBackPatch(patch) == [patch EXCEPT !.applied = FALSE, !.rolledBack = TRUE]

\* rollbackWorkspaceSnapshot, seen as one step (src/workspace-snapshot.js)
Restore(p) ==
  LET rec == op[p].rec
      id  == rec.patch.snapshot
  IN /\ At(p, "restore")
     /\ snaps[id] = rec.patch.digest                      \* else ESNAPSHOTBINDING
     /\ Undrifted(snaps[id], ws.files)
     /\ ws' = [ws EXCEPT !.files = Restored(snaps[id], @)]
     /\ Go(p, "persist",
           [rec EXCEPT !.patch = RolledBackPatch(@), !.rollback = id,
                       !.verif = MakeVerification(rec.evidence.reproduction, NoSummary,
                                                  FALSE, NoCmd, id)])
     /\ UNCHANGED <<snaps, sessions>>

-------------------------------------------------------------------------------
\* Faulty variant: a status of its own that the contract does not know.
StatusOfKind(rec) ==
  IF rec.kind = "rollback" THEN "rolled-back"
  ELSE DetermineFixStatus(rec.inv, rec.patch, rec.verif)
\* The receipt and writeSession.
FinalStatus(rec) ==
  IF rec.kind = "apply" THEN "applied-unverified"
  ELSE DetermineFixStatus(rec.inv, rec.patch, rec.verif)

Persist(p) ==
  /\ At(p, "persist")
  /\ sessions' = Append(sessions, [op[p].rec EXCEPT !.fix = FinalStatus(op[p].rec)])
  /\ op' = [op EXCEPT ![p] = Idle]
  /\ UNCHANGED <<ws, snaps>>

\* An operation ends without a stored session: a refusal, a model or command
\* error, a failed write, --no-persist, or the process dies.
Abandon(p) ==
  /\ ~At(p, "idle")
  /\ op' = [op EXCEPT ![p] = Idle]
  /\ UNCHANGED <<ws, snaps, sessions>>

\* The user, between any two steps.
Edit(x, c) ==
  /\ ws.files[x] # c
  /\ ws' = [ws EXCEPT !.files[x] = c]
  /\ UNCHANGED <<snaps, sessions, op>>

MoveHead(h) ==
  /\ ws.head # h
  /\ ws' = [ws EXCEPT !.head = h]
  /\ UNCHANGED <<snaps, sessions, op>>

RunStep(p) ==
  \/ StartRun(p) \/ ReadEvidence(p) \/ Investigate(p) \/ DecideApply(p)
  \/ CheckOnly(p) \/ ObserveRun(p) \/ SkipVerify(p)
  \/ \E c \in Cmd : RunBaseline(p, c) \/ Verify(p, c)

ChildStep(p) ==
  \/ ObserveApply(p) \/ Restore(p)
  \/ \E i \in DOMAIN sessions : StartResume(p, i) \/ StartApply(p, i) \/ StartRollback(p, i)

User == (\E x \in Path, c \in Content : Edit(x, c)) \/ (\E h \in Commit : MoveHead(h))

Next ==
  \/ \E p \in Proc : RunStep(p) \/ ChildStep(p) \/ Transact(p) \/ Persist(p) \/ Abandon(p)
  \/ User

Spec == Init /\ [][Next]_vars

-------------------------------------------------------------------------------
(* Types.                                                                  *)

Evidence == [fp: Fingerprints, command: Cmd \cup {NoCmd}, reproduction: Summary]
Investigation == [patch: Patch \cup {NoPatch}, hyps: [Hyp -> DraftStatus],
                  ids: [Hyp -> Hyp], verdict: Verdicts \cup {NoVerdict}]
Snapshot ==
  UNION {[before: [paths -> Content], after: [paths -> Content]] : paths \in SUBSET Path}
PatchState == [applied: BOOLEAN, snapshot: Nat, rolledBack: BOOLEAN, digest: Snapshot]
Verification ==
  [status: {"not-run", "passed", "passed-unbound", "failed"},
   before: Summary, after: Summary, transition: Transition,
   cmd: Cmd \cup {NoCmd}, mutated: BOOLEAN, rollback: Nat]
Record ==
  [kind: {"run", "resume", "apply", "rollback"}, parent: Nat, fix: FixStatus,
   evidence: Evidence, inv: Investigation, ledger: [Hyp -> HypothesisStatus],
   patch: PatchState, verif: Verification, rollback: Nat,
   base: [Path -> Content], seen: [Path -> Content]]
Operation == [step: Steps, ctx: Fingerprints, rec: Record]

TypeOK ==
  /\ ws \in Workspace
  /\ snaps \in Seq(Snapshot)
  /\ sessions \in Seq(Record)
  /\ op \in [Proc -> Operation]

-------------------------------------------------------------------------------
(* Properties.                                                             *)

Stored == DOMAIN sessions

\* The verdict the controller computes (src/debug.js:43-78) and the contract it
\* is rechecked against when the session is next used (src/contracts.js:46-51)
\* were written separately: whatever operations led to it, a stored verified
\* session satisfies the contract, and no other session carries a "passed".
VerifiedIsBound == \A i \in Stored : VerifiedBinding(sessions[i])

\* A patch reaches the workspace, now or at any ancestor, only with the causal
\* verifier's acceptance on record: at no step does a record hold an
\* unauthorised patch, an applied patch without an investigation patch, or a
\* snapshot that does not exist.
AuthorizedRecord(rec) ==
  /\ HasAuthorizedPatch(rec.inv)
  /\ rec.patch.applied => rec.patch.snapshot # 0
  /\ rec.patch.snapshot # 0 => /\ rec.inv.patch # NoPatch
                               /\ rec.patch.snapshot \in DOMAIN snaps
OnlyAuthorizedPatches ==
  /\ \A i \in Stored : AuthorizedRecord(sessions[i])
  /\ \A p \in Proc : AuthorizedRecord(op[p].rec)

\* README.md:77: the child a rollback stores is "proposed", even when the patch
\* it took back had been verified, and what it took back its parent had applied.
RollbackChildIsProposed ==
  \A i \in Stored :
    sessions[i].kind = "rollback" =>
      /\ sessions[i].fix = "proposed"
      /\ sessions[i].patch.rolledBack /\ ~sessions[i].patch.applied
      /\ LET parent == sessions[sessions[i].parent]
         IN parent.patch.applied /\ parent.patch.snapshot = sessions[i].rollback

\* The verified sessions on the chain from i to the run it started with.
VerifiedUpTo[i \in Stored] ==
  (IF sessions[i].fix = "verified" THEN 1 ELSE 0)
  + (IF sessions[i].parent = 0 THEN 0 ELSE VerifiedUpTo[sessions[i].parent])
Confirmed(s) == {h \in Hyp : s.ledger[h] = "confirmed"}

\* The identities among the confirmed hypotheses.
ConfirmedIds(s) == {s.inv.ids[h] : h \in Confirmed(s)}

\* Every session descends from a stored run, from which it has the evidence and
\* the investigation unchanged; its ledger differs from its parent's at most by
\* supported hypotheses that became confirmed, even where an open or a refuted
\* one has the id of the one the verification was for.
ChildKeepsEvidence ==
  \A i \in Stored :
    LET s == sessions[i] IN
    /\ s.parent < i
    /\ s.kind = "run" <=> s.parent = 0
    /\ s.parent # 0 =>
         LET q == sessions[s.parent] IN
         /\ s.evidence = q.evidence /\ s.inv = q.inv
         /\ \A h \in Hyp :
              s.ledger[h] # q.ledger[h] => s.ledger[h] = "confirmed" /\ q.ledger[h] = "supported"

\* Each confirmed id was paid for by a verified session of its own on the way
\* from the run: one passing verification never confirms two ids, and a resume,
\* an apply or a rollback never carries in a confirmation from nowhere.
\* Supported hypotheses that share an id are confirmed together.
ConfirmationsArePaidFor ==
  \A i \in Stored : Cardinality(ConfirmedIds(sessions[i])) <= VerifiedUpTo[i]

\* A rollback step puts back, on the paths of its own patch, exactly what that
\* patch had overwritten, and only if nothing had changed there since: not what
\* another apply left under the same snapshot id.
RollbackUndoesApply ==
  [][\A p \in Proc :
       (op[p].step = "restore" /\ op'[p].step = "persist") =>
         LET snap == snaps[op[p].rec.patch.snapshot]
             d    == op[p].rec.inv.patch
         IN /\ DOMAIN snap.before = d.paths
            /\ \A x \in d.paths : ws.files[x] = d.rewrite[ws'.files[x]]
            /\ \A x \in Path \ d.paths : ws'.files[x] = ws.files[x]]_vars

-------------------------------------------------------------------------------
(* What the documentation says and the code does not do.                   *)

\* README.md:65-71: "verified requires" that "the stored session still validates
\* its evidence, investigation, ledger, verification, patch-state and lineage":
\* what a resume stores can be resumed, applied or rolled back in its turn.
VerifiedSessionsValidate ==
  \A i \in Stored : sessions[i].fix = "verified" => Valid(sessions[i])

\* README.md:69: verified requires "an independently observed workspace
\* content-state mutation after that baseline".
VerifiedAfterMutation ==
  \A i \in Stored :
    sessions[i].fix = "verified" =>
      \E x \in Path : sessions[i].seen[x] # sessions[i].base[x]

\* README.md:75: "A hypothesis can become confirmed only when it was already
\* causally supported": the causal verifier supported it.
ConfirmedWasVerifierSupported ==
  \A i \in Stored : \A h \in Confirmed(sessions[i]) :
    sessions[i].inv.verdict.hyps[sessions[i].inv.ids[h]] = "supported"
===============================================================================
