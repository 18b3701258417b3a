-------------------------- MODULE DebugSession_proofs --------------------------
(***************************************************************************)
(* Proofs about DebugSession, for any number of controller processes,      *)
(* files, commands, model answers and sessions.                            *)
(*                                                                         *)
(* TypeOK is not inductive: a step that applies a patch needs a patch, and *)
(* one that restores a snapshot needs the snapshot.  Inv adds what each    *)
(* step relies on.  Bound, proved over Inv, is what the verdict of a       *)
(* session under way and of a stored one owes to its evidence.  Lines,     *)
(* over both, is what a record owes to its parent and its snapshot to its  *)
(* patch.  Earned and Paid account for confirmations: what a record gained *)
(* over its parent, and the sum along a lineage, a recursive function over *)
(* the stored sessions whose bound is kept step by step rather than proved *)
(* by induction.  Traces is what a record keeps of where its mutation and  *)
(* its ledger are from, whatever the documentation says of them.           *)
(***************************************************************************)
EXTENDS DebugSession, FiniteSetTheorems, TLAPS

-------------------------------------------------------------------------------
(* Summaries.                                                              *)

\* The failing executions of a series are finitely many, no more than it has.
LEMMA FailingFacts ==
  ASSUME NEW results \in Seq(Result)
  PROVE  /\ Cardinality(Failing(results)) \in 0..Len(results)
         /\ Failing(results) # {} => Cardinality(Failing(results)) > 0
<1>1. /\ IsFiniteSet(1..Len(results)) /\ Cardinality(1..Len(results)) = Len(results)
  <2>1. Len(results) \in Nat
    OBVIOUS
  <2>2. QED
    BY <2>1, FS_Interval, SMT
<1>2. Failing(results) \subseteq 1..Len(results)
  BY DEF Failing
<1>3. /\ IsFiniteSet(Failing(results))
      /\ Cardinality(Failing(results)) <= Cardinality(1..Len(results))
  BY <1>1, <1>2, FS_Subset
<1>4. Cardinality(Failing(results)) \in Nat
  BY <1>3, FS_CardinalityType
<1>5. Failing(results) # {} => Cardinality(Failing(results)) # 0
  BY <1>3, FS_EmptySet
<1> QED
  BY <1>1, <1>3, <1>4, <1>5

\* What a summary says of its own series: every run passed or failed, and a
\* reproducible failure has failures.
Consistent(s) ==
  /\ s.passes + s.failures = s.runs
  /\ s.reproducible => s.failures > 0

\* A summary has its type and its counts agree with one another.
LEMMA SummarizeFacts ==
  ASSUME NEW c \in Cmd, NEW results \in Runs
  PROVE  /\ Summarize(c, results) \in Summary
         /\ Summarize(c, results).cmd = c
         /\ Summarize(c, results).runs > 0
         /\ Consistent(Summarize(c, results))
<1>1. results \in Seq(Result) /\ results # <<>>
  BY SessionConstants
<1>2. Len(results) \in Nat /\ Len(results) > 0
  BY <1>1
<1>3. /\ Cardinality(Failing(results)) \in 0..Len(results)
      /\ Failing(results) # {} => Cardinality(Failing(results)) > 0
  BY <1>1, FailingFacts
<1>4. Kept(results) \subseteq Sig
  <2>1. \A i \in DOMAIN results : results[i] \in Result
    BY <1>1
  <2>2. \A i \in Failing(results) : results[i].sig \in Sig
    BY <2>1 DEF Failing, Result
  <2> QED
    BY <2>2 DEF Kept, Signatures
<1>5. StableFailure(results) \in BOOLEAN /\ ReproducibleFailure(results) \in BOOLEAN
  BY DEF StableFailure, ReproducibleFailure
<1>6. ReproducibleFailure(results) => Failing(results) # {}
  BY DEF ReproducibleFailure, StableFailure
<1> QED
  BY <1>1, <1>2, <1>3, <1>4, <1>5, <1>6 DEF Summarize, Summary, Consistent

\* So has the summary of no series at all.
LEMMA NoSummaryFacts == NoSummary \in Summary /\ Consistent(NoSummary)
  BY DEF NoSummary, Summary, Consistent

-------------------------------------------------------------------------------
(* Model answers.                                                          *)

\* What the model passes come to has its type and only authorised patches.
LEMMA AnswersFacts ==
  ASSUME NEW inv \in Answers
  PROVE  /\ inv \in Investigation
         /\ HasAuthorizedPatch(inv)
         /\ CreateLedger(inv) \in [Hyp -> HypothesisStatus]
<1>1. CASE inv = DeterministicInvestigation
  BY <1>1 DEF DeterministicInvestigation, Investigation, HasAuthorizedPatch, CreateLedger,
     NormalizeHypothesis, DraftStatus, HypothesisStatus, Verdicts
<1>2. CASE inv \in {ApplyVerdict(d, NormalizeVerdict(v, d)) : d \in Draft, v \in Verdict}
  <2>1. PICK d \in Draft, v \in Verdict : inv = ApplyVerdict(d, NormalizeVerdict(v, d))
    BY <1>2
  <2>2. d \in Drafts /\ v \in Verdicts
    BY SessionConstants
  <2> DEFINE w == NormalizeVerdict(v, d)
  <2>3. w \in Verdicts
    BY <2>2 DEF NormalizeVerdict, Verdicts, Disposition, Assessment
  <2> HIDE DEF w
  <2>4. inv = ApplyVerdict(d, w)
    BY <2>1 DEF w
  <2>5. \A h \in Hyp : /\ d.ids[h] \in Hyp /\ w.hyps[d.ids[h]] \in VerdictStatus \cup {"omitted"}
                       /\ d.hyps[h] \in DraftStatus
    BY <2>2, <2>3 DEF Verdicts, Drafts
  <2>6. inv.hyps \in [Hyp -> DraftStatus] /\ inv.ids \in [Hyp -> Hyp]
    <3>1. inv.ids = d.ids
      BY <2>4 DEF ApplyVerdict
    <3> QED
      BY <2>2, <2>4, <2>5, <3>1 DEF ApplyVerdict, VerdictStatus, DraftStatus, Drafts
  <2>7. inv.patch \in Patch \cup {NoPatch} /\ HasAuthorizedPatch(inv)
    BY <2>2, <2>4 DEF ApplyVerdict, AcceptedPatch, HasAuthorizedPatch, Drafts
  <2>8. inv = [patch |-> inv.patch, hyps |-> inv.hyps, ids |-> inv.ids, verdict |-> w]
    BY <2>4 DEF ApplyVerdict
  <2>9. inv \in Investigation
    BY <2>3, <2>6, <2>7, <2>8 DEF Investigation
  <2>10. CreateLedger(inv) \in [Hyp -> HypothesisStatus]
    BY <2>6 DEF CreateLedger, NormalizeHypothesis, DraftStatus, HypothesisStatus
  <2> QED
    BY <2>7, <2>9, <2>10
<1> QED
  BY <1>1, <1>2 DEF Answers

-------------------------------------------------------------------------------
(* Records under way.                                                      *)

\* What the step a process is at relies on.
StepInv ==
  \A p \in Proc :
    /\ op[p].step \in {"baseline", "investigate"} => op[p].rec.patch.snapshot = 0
    /\ op[p].step = "transact" => op[p].rec.inv.patch # NoPatch
    /\ op[p].step = "restore" => op[p].rec.patch.snapshot # 0

Inv == TypeOK /\ OnlyAuthorizedPatches /\ StepInv

\* makeVerification returns a verification.
LEMMA VerificationType ==
  ASSUME NEW before \in Summary, NEW after \in Summary, NEW mutated \in BOOLEAN,
         NEW cmd \in Cmd \cup {NoCmd}, NEW rollback \in Nat
  PROVE  MakeVerification(before, after, mutated, cmd, rollback) \in Verification
BY DEF MakeVerification, Verification, VerificationStatus, CompareSignatures, Transition

\* A workspace has a fingerprint.
LEMMA FingerprintType == ASSUME NEW w \in Workspace PROVE Fingerprint(w) \in Fingerprints
BY DEF Fingerprints

\* The record a run starts from has its type.
LEMMA NewRecordType ==
  ASSUME NEW w \in Workspace
  PROVE  NewRecord(w) \in Record /\ AuthorizedRecord(NewRecord(w))
<1> DEFINE r == NewRecord(w)
<1>1. r.evidence \in Evidence
  BY NoSummaryFacts, FingerprintType DEF NewRecord, Evidence
<1>2. /\ r.inv \in Investigation /\ HasAuthorizedPatch(r.inv)
      /\ r.ledger \in [Hyp -> HypothesisStatus]
  BY AnswersFacts DEF NewRecord, Answers
<1>3. r.verif \in Verification
  BY NoSummaryFacts, VerificationType DEF NewRecord
<1>4. r.patch \in PatchState /\ ~r.patch.applied /\ r.patch.snapshot = 0
  <2>1. <<>> \in [{} -> Content] /\ {} \in SUBSET Path
    OBVIOUS
  <2>2. [before |-> <<>>, after |-> <<>>] \in Snapshot
    BY <2>1 DEF Snapshot
  <2> QED
    BY <2>2 DEF NewRecord, PatchState, EmptyPatch
<1>5. r.base \in [Path -> Content] /\ r.seen \in [Path -> Content]
  BY DEF NewRecord, Workspace
<1> QED
  BY <1>1, <1>2, <1>3, <1>4, <1>5 DEF NewRecord, Record, FixStatus, AuthorizedRecord

\* So has the record of a child of a stored session.
LEMMA ChildType ==
  ASSUME TypeOK, NEW i \in DOMAIN sessions, NEW kind \in {"resume", "apply", "rollback"},
         NEW mutated \in BOOLEAN, NEW w \in Workspace
  PROVE  /\ Child(i, kind, mutated, w) \in Record
         /\ AuthorizedRecord(sessions[i]) => AuthorizedRecord(Child(i, kind, mutated, w))
<1>1. sessions[i] \in Record /\ i \in Nat
  BY DEF TypeOK
<1>2. MakeVerification(sessions[i].evidence.reproduction, NoSummary, mutated, NoCmd, 0)
        \in Verification
  BY <1>1, NoSummaryFacts, VerificationType DEF Record, Evidence
<1>3. w.files \in [Path -> Content]
  BY DEF Workspace
<1> QED
  BY <1>1, <1>2, <1>3 DEF Child, Record, AuthorizedRecord

\* One process moves on and stores nothing: what is left to show of the step.
LEMMA OneProcessMoves ==
  ASSUME Inv, NEW p \in Proc, NEW step \in Steps, NEW ctx \in Fingerprints, NEW r \in Record,
         op' = [op EXCEPT ![p] = [step |-> step, ctx |-> ctx, rec |-> r]],
         ws' \in Workspace, sessions' = sessions,
         snaps' \in Seq(Snapshot), Len(snaps) <= Len(snaps'),
         HasAuthorizedPatch(r.inv),
         r.patch.applied => r.patch.snapshot # 0,
         r.patch.snapshot # 0 => r.inv.patch # NoPatch /\ r.patch.snapshot \in DOMAIN snaps',
         step \in {"baseline", "investigate"} => r.patch.snapshot = 0,
         step = "transact" => r.inv.patch # NoPatch,
         step = "restore" => r.patch.snapshot # 0
  PROVE  Inv'
<1>1. TypeOK'
  BY DEF Inv, TypeOK, Operation
<1>2. op'[p] = [step |-> step, ctx |-> ctx, rec |-> r] /\ \A q \in Proc \ {p} : op'[q] = op[q]
  BY DEF Inv, TypeOK
<1>3. \A n \in Nat : n \in DOMAIN snaps => n \in DOMAIN snaps'
  BY DEF Inv, TypeOK
<1>4. OnlyAuthorizedPatches'
  <2>1. \A i \in Stored' : AuthorizedRecord(sessions[i])'
    <3> SUFFICES ASSUME NEW i \in DOMAIN sessions PROVE AuthorizedRecord(sessions[i])'
      BY DEF Stored
    <3>1. AuthorizedRecord(sessions[i]) /\ sessions[i] \in Record
      BY DEF Inv, OnlyAuthorizedPatches, Stored, TypeOK
    <3>2. sessions[i].patch.snapshot \in Nat
      BY <3>1 DEF Record, PatchState
    <3> QED
      BY <1>3, <3>1, <3>2 DEF AuthorizedRecord
  <2>2. ASSUME NEW q \in Proc PROVE AuthorizedRecord(op[q].rec)'
    <3>1. CASE q = p
      BY <1>2, <3>1 DEF AuthorizedRecord
    <3>2. CASE q # p
      <4>1. AuthorizedRecord(op[q].rec) /\ op[q].rec \in Record
        BY DEF Inv, OnlyAuthorizedPatches, TypeOK, Operation
      <4>2. op[q].rec.patch.snapshot \in Nat
        BY <4>1 DEF Record, PatchState
      <4> QED
        BY <1>2, <1>3, <3>2, <4>1, <4>2 DEF AuthorizedRecord
    <3> QED
      BY <3>1, <3>2
  <2> QED
    BY <2>1, <2>2 DEF OnlyAuthorizedPatches
<1>5. StepInv'
  BY <1>2 DEF Inv, StepInv
<1> QED
  BY <1>1, <1>4, <1>5 DEF Inv

\* What Inv says of the record a process is building.
LEMMA RecordFacts ==
  ASSUME Inv, NEW p \in Proc
  PROVE  /\ op[p].rec \in Record /\ op[p].ctx \in Fingerprints
         /\ AuthorizedRecord(op[p].rec)
         /\ ws \in Workspace /\ snaps \in Seq(Snapshot)
BY DEF Inv, TypeOK, Operation, OnlyAuthorizedPatches

\* A process moves on with a record that differs from the one it had in parts
\* that no step relies on.
LEMMA PlainMove ==
  ASSUME Inv, NEW p \in Proc, NEW r \in Record,
         NEW step \in Steps \ {"baseline", "transact", "restore"},
         step = "investigate" => op[p].step = "baseline",
         Go(p, step, r), r.inv = op[p].rec.inv, r.patch = op[p].rec.patch,
         ws' \in Workspace, UNCHANGED <<snaps, sessions>>
  PROVE  Inv'
<1>1. AuthorizedRecord(op[p].rec) /\ op[p].ctx \in Fingerprints /\ snaps \in Seq(Snapshot)
  BY RecordFacts
<1>2. op' = [op EXCEPT ![p] = [step |-> step, ctx |-> op[p].ctx, rec |-> r]]
  BY DEF Go
<1>3. Len(snaps) <= Len(snaps') /\ snaps' \in Seq(Snapshot)
  BY <1>1
<1>4. step = "investigate" => r.patch.snapshot = 0
  BY DEF Inv, StepInv
<1>5. step \in Steps /\ step \notin {"baseline", "transact", "restore"}
  OBVIOUS
<1> QED
  BY <1>1, <1>2, <1>3, <1>4, <1>5, OneProcessMoves DEF AuthorizedRecord

-------------------------------------------------------------------------------
(* One lemma per action of a controller process.                           *)

\* Starting a run (src/debug.js:91-93) preserves the invariant.
LEMMA StartRunInv == ASSUME Inv, NEW p \in Proc, StartRun(p) PROVE Inv'
<1>1. ws \in Workspace /\ snaps \in Seq(Snapshot) /\ Len(snaps) \in Nat
  BY RecordFacts
<1>2. Fingerprint(ws) \in Fingerprints
  BY <1>1, FingerprintType
<1>3. /\ NewRecord(ws) \in Record /\ AuthorizedRecord(NewRecord(ws))
      /\ NewRecord(ws).patch.snapshot = 0
  BY <1>1, NewRecordType DEF NewRecord, EmptyPatch
<1>4. op' = [op EXCEPT ![p] = [step |-> "baseline", ctx |-> Fingerprint(ws),
                               rec |-> NewRecord(ws)]]
  BY DEF StartRun, Begin
<1>5. "baseline" \in Steps
  BY DEF Steps
<1>6. UNCHANGED <<ws, snaps, sessions>> /\ Len(snaps) <= Len(snaps')
  BY <1>1 DEF StartRun
<1> DEFINE r == NewRecord(ws)
<1> HIDE DEF r
<1>7. /\ r \in Record /\ AuthorizedRecord(r) /\ r.patch.snapshot = 0
      /\ op' = [op EXCEPT ![p] = [step |-> "baseline", ctx |-> Fingerprint(ws), rec |-> r]]
  BY <1>3, <1>4 DEF r
<1> QED
  BY <1>1, <1>2, <1>5, <1>6, <1>7, OneProcessMoves DEF AuthorizedRecord

\* A command that ran leaves a workspace behind.
LEMMA CommandFiles ==
  ASSUME ws \in Workspace, NEW files \in FilesAfterCommand(ws.files)
  PROVE  files \in [Path -> Content] /\ [ws EXCEPT !.files = files] \in Workspace
BY DEF FilesAfterCommand, Workspace

\* So does the baseline series.
LEMMA RunBaselineInv == ASSUME Inv, NEW p \in Proc, NEW c \in Cmd, RunBaseline(p, c) PROVE Inv'
<1>1. PICK results \in Runs, files \in FilesAfterCommand(ws.files) :
        /\ ws' = [ws EXCEPT !.files = files]
        /\ Go(p, "investigate",
              [op[p].rec EXCEPT !.evidence.command = c,
                                !.evidence.reproduction = Summarize(c, results),
                                !.base = files])
  BY DEF RunBaseline
<1> DEFINE sum == Summarize(c, results)
           r == [op[p].rec EXCEPT !.evidence.command = c,
                                  !.evidence.reproduction = sum,
                                  !.base = files]
<1>2. sum \in Summary
  BY SummarizeFacts
<1>3. op[p].rec \in Record /\ ws \in Workspace
  BY RecordFacts
<1>4. files \in [Path -> Content] /\ ws' \in Workspace
  BY <1>1, <1>3, CommandFiles
<1>5. Go(p, "investigate", r)
  BY <1>1
<1> HIDE DEF sum
<1>6. r \in Record /\ r.inv = op[p].rec.inv /\ r.patch = op[p].rec.patch
  BY <1>2, <1>3, <1>4 DEF Record, Evidence
<1>7. UNCHANGED <<snaps, sessions>> /\ op[p].step = "baseline"
  BY DEF RunBaseline, At
<1>8. "investigate" \in Steps \ {"baseline", "transact", "restore"}
  BY DEF Steps
<1> HIDE DEF r
<1> QED
  BY <1>4, <1>5, <1>6, <1>7, <1>8, PlainMove

\* So does reading a log or a core instead.
LEMMA ReadEvidenceInv == ASSUME Inv, NEW p \in Proc, ReadEvidence(p) PROVE Inv'
<1> DEFINE r == [op[p].rec EXCEPT !.base = ws.files]
<1>1. op[p].rec \in Record /\ ws \in Workspace
  BY RecordFacts
<1>2. r \in Record /\ r.inv = op[p].rec.inv /\ r.patch = op[p].rec.patch
  BY <1>1 DEF Record, Workspace
<1>3. Go(p, "investigate", r) /\ UNCHANGED <<ws, snaps, sessions>> /\ op[p].step = "baseline"
  BY DEF ReadEvidence, At
<1>4. "investigate" \in Steps \ {"baseline", "transact", "restore"}
  BY DEF Steps
<1> HIDE DEF r
<1> QED
  BY <1>1, <1>2, <1>3, <1>4, PlainMove

\* So does an investigation: the patch it brings in, if any, is authorised.
LEMMA InvestigateInv == ASSUME Inv, NEW p \in Proc, Investigate(p) PROVE Inv'
<1>1. PICK inv \in Answers :
        Go(p, "patch", [op[p].rec EXCEPT !.inv = inv, !.ledger = CreateLedger(inv)])
  BY DEF Investigate
<1> DEFINE ledger == CreateLedger(inv)
           r == [op[p].rec EXCEPT !.inv = inv, !.ledger = ledger]
<1>2. inv \in Investigation /\ HasAuthorizedPatch(inv) /\ ledger \in [Hyp -> HypothesisStatus]
  BY AnswersFacts
<1>3. /\ op[p].rec \in Record /\ AuthorizedRecord(op[p].rec) /\ op[p].rec.patch.snapshot = 0
      /\ op[p].ctx \in Fingerprints /\ ws \in Workspace
      /\ snaps \in Seq(Snapshot) /\ Len(snaps) \in Nat
  BY RecordFacts DEF Investigate, At, Inv, StepInv
<1> HIDE DEF ledger
<1>4. /\ r \in Record /\ r.inv = inv /\ r.patch.snapshot = 0 /\ ~r.patch.applied
  BY <1>2, <1>3 DEF Record, AuthorizedRecord
<1>5. op' = [op EXCEPT ![p] = [step |-> "patch", ctx |-> op[p].ctx, rec |-> r]]
  BY <1>1 DEF Go, ledger
<1>6. UNCHANGED <<ws, snaps, sessions>> /\ "patch" \in Steps /\ Len(snaps) <= Len(snaps')
  BY <1>3 DEF Investigate, Steps
<1> HIDE DEF r
<1> QED
  BY <1>2, <1>3, <1>4, <1>5, <1>6, OneProcessMoves

\* Deciding to apply: the record has a patch and no snapshot yet.
LEMMA DecideApplyInv == ASSUME Inv, NEW p \in Proc, DecideApply(p) PROVE Inv'
<1>1. /\ op[p].rec \in Record /\ AuthorizedRecord(op[p].rec) /\ op[p].ctx \in Fingerprints
      /\ ws \in Workspace /\ snaps \in Seq(Snapshot) /\ Len(snaps) \in Nat
  BY RecordFacts
<1>2. /\ op[p].rec.inv.patch # NoPatch /\ UNCHANGED <<ws, snaps, sessions>>
      /\ op' = [op EXCEPT ![p] = [step |-> "transact", ctx |-> op[p].ctx, rec |-> op[p].rec]]
      /\ "transact" \in Steps /\ Len(snaps) <= Len(snaps')
  BY <1>1 DEF DecideApply, Go, Steps
<1> QED
  BY <1>1, <1>2, OneProcessMoves DEF AuthorizedRecord

\* Deciding not to apply.
LEMMA CheckOnlyInv == ASSUME Inv, NEW p \in Proc, CheckOnly(p) PROVE Inv'
<1>1. op[p].rec \in Record /\ ws \in Workspace
  BY RecordFacts
<1>2. Go(p, "observe", op[p].rec) /\ UNCHANGED <<ws, snaps, sessions>>
  BY DEF CheckOnly
<1>3. "observe" \in Steps \ {"baseline", "transact", "restore"}
  BY DEF Steps
<1> QED
  BY <1>1, <1>2, <1>3, PlainMove

\* Applying the patch: the record comes to name the snapshot just saved.
LEMMA TransactInv == ASSUME Inv, NEW p \in Proc, Transact(p) PROVE Inv'
<1> DEFINE d == op[p].rec.inv.patch
           before == Taken(ws.files, d.paths)
           after == Taken(Patched(d, ws.files), d.paths)
           snap == [before |-> before, after |-> after]
<1>1. /\ op[p].rec \in Record /\ AuthorizedRecord(op[p].rec) /\ op[p].ctx \in Fingerprints
      /\ ws \in Workspace /\ snaps \in Seq(Snapshot) /\ Len(snaps) \in Nat
  BY RecordFacts
<1>2. d \in Patch /\ d # NoPatch
  BY <1>1 DEF Transact, At, Inv, StepInv, Record, Investigation
<1>3. /\ d.paths \in SUBSET Path
      /\ \A c \in DOMAIN d.rewrite : d.rewrite[c] \in Content
      /\ \A x \in d.paths : ws.files[x] \in DOMAIN d.rewrite
  BY <1>2, SessionConstants DEF Transact, PatchApplies
<1>4. PICK id \in SnapshotIds(before) :
        /\ snaps' = WithSnapshot(id, snap)
        /\ Go(p, "observe",
              [op[p].rec EXCEPT !.patch = [applied |-> TRUE, snapshot |-> id,
                                           rolledBack |-> FALSE, digest |-> snap]])
  BY DEF Transact
<1>5. ws' = [ws EXCEPT !.files = Patched(d, @)] /\ sessions' = sessions
  BY DEF Transact
<1> HIDE DEF d
<1>6. ws.files \in [Path -> Content] /\ Patched(d, ws.files) \in [Path -> Content]
  BY <1>1, <1>3 DEF Patched, Workspace
<1>7. before \in [d.paths -> Content] /\ after \in [d.paths -> Content]
  BY <1>3, <1>6 DEF Taken
<1> HIDE DEF before, after
<1>8. snap \in Snapshot
  BY <1>3, <1>7 DEF Snapshot
<1> HIDE DEF snap
<1>9. /\ id \in Nat /\ id # 0 /\ id \in DOMAIN snaps'
      /\ snaps' \in Seq(Snapshot) /\ Len(snaps) <= Len(snaps')
  <2>1. CASE id \in DOMAIN snaps
    <3>1. snaps' = [snaps EXCEPT ![id] = snap]
      BY <1>4, <2>1 DEF WithSnapshot
    <3> QED
      BY <1>1, <1>8, <2>1, <3>1
  <2>2. CASE id \notin DOMAIN snaps
    <3>1. id = Len(snaps) + 1 /\ snaps' = Append(snaps, snap)
      BY <1>4, <2>2 DEF SnapshotIds, WithSnapshot
    <3> QED
      BY <1>1, <1>8, <3>1
  <2> QED
    BY <2>1, <2>2
<1> DEFINE state == [applied |-> TRUE, snapshot |-> id, rolledBack |-> FALSE, digest |-> snap]
           r == [op[p].rec EXCEPT !.patch = state]
<1>10. state \in PatchState /\ state.snapshot = id
  BY <1>8, <1>9 DEF PatchState
<1>11. op' = [op EXCEPT ![p] = [step |-> "observe", ctx |-> op[p].ctx, rec |-> r]]
  BY <1>4 DEF Go
<1> HIDE DEF state
<1>12. /\ r \in Record /\ r.inv = op[p].rec.inv /\ r.patch = state
  BY <1>1, <1>10 DEF Record
<1>13. ws' \in Workspace /\ "observe" \in Steps
  BY <1>1, <1>5, <1>6 DEF Workspace, Steps
<1> HIDE DEF r
<1>14. /\ HasAuthorizedPatch(r.inv) /\ r.patch.snapshot # 0 /\ r.inv.patch # NoPatch
       /\ r.patch.snapshot \in DOMAIN snaps'
  BY <1>1, <1>2, <1>9, <1>10, <1>12 DEF AuthorizedRecord, d
<1> QED
  BY <1>1, <1>5, <1>9, <1>11, <1>12, <1>13, <1>14, OneProcessMoves

\* All that it changes of the record is the patch state.
LEMMA Transacted ==
  ASSUME NEW p \in Proc, Transact(p)
  PROVE  \E state : /\ Go(p, "observe", [op[p].rec EXCEPT !.patch = state])
                     /\ ~state.rolledBack
<1> DEFINE d == op[p].rec.inv.patch
           snap == [before |-> Taken(ws.files, d.paths),
                    after  |-> Taken(Patched(d, ws.files), d.paths)]
<1>1. PICK id : Go(p, "observe", [op[p].rec EXCEPT !.patch =
                  [applied |-> TRUE, snapshot |-> id, rolledBack |-> FALSE, digest |-> snap]])
  BY DEF Transact
<1> DEFINE state == [applied |-> TRUE, snapshot |-> id, rolledBack |-> FALSE, digest |-> snap]
<1>2. Go(p, "observe", [op[p].rec EXCEPT !.patch = state]) /\ ~state.rolledBack
  BY <1>1
<1> HIDE DEF state
<1> QED
  BY <1>2

\* Looking for a mutation after a run.
LEMMA ObserveRunInv == ASSUME Inv, NEW p \in Proc, ObserveRun(p) PROVE Inv'
<1> DEFINE mutated == Moved(op[p].rec.evidence.fp, Fingerprint(ws))
           verif == MakeVerification(op[p].rec.evidence.reproduction, NoSummary, mutated, NoCmd, 0)
           r == [op[p].rec EXCEPT !.seen = ws.files, !.verif = verif]
<1>1. op[p].rec \in Record /\ ws \in Workspace
  BY RecordFacts
<1>2. mutated \in BOOLEAN
  BY DEF Moved
<1> HIDE DEF mutated
<1>3. verif \in Verification
  BY <1>1, <1>2, NoSummaryFacts, VerificationType DEF Record, Evidence
<1>4. Go(p, "verify", r) /\ UNCHANGED <<ws, snaps, sessions>>
  BY DEF ObserveRun, mutated
<1> HIDE DEF verif
<1>5. /\ r \in Record /\ r.inv = op[p].rec.inv /\ r.patch = op[p].rec.patch
  BY <1>1, <1>3 DEF Record, Workspace
<1>6. "verify" \in Steps \ {"baseline", "transact", "restore"}
  BY DEF Steps
<1> HIDE DEF r
<1> QED
  BY <1>1, <1>4, <1>5, <1>6, PlainMove

\* Ending a run without a verification.
LEMMA SkipVerifyInv == ASSUME Inv, NEW p \in Proc, SkipVerify(p) PROVE Inv'
<1>1. op[p].rec \in Record /\ ws \in Workspace
  BY RecordFacts
<1>2. Go(p, "persist", op[p].rec) /\ UNCHANGED <<ws, snaps, sessions>>
  BY DEF SkipVerify
<1>3. "persist" \in Steps \ {"baseline", "transact", "restore"}
  BY DEF Steps
<1> QED
  BY <1>1, <1>2, <1>3, PlainMove

\* Confirming a hypothesis leaves a ledger.
LEMMA LedgerType ==
  ASSUME NEW ledger \in [Hyp -> HypothesisStatus], NEW ids, NEW before, NEW after
  PROVE  ConfirmSupported(ledger, ids, before, after) \in [Hyp -> HypothesisStatus]
BY DEF ConfirmSupported, ConfirmHypothesis, HypothesisStatus

\* The post-change series and its verdict.
LEMMA VerifyInv == ASSUME Inv, NEW p \in Proc, NEW c \in Cmd, Verify(p, c) PROVE Inv'
<1>1. PICK results \in Runs, files \in FilesAfterCommand(ws.files) :
        LET rec   == op[p].rec
            after == Summarize(c, results)
            verif == MakeVerification(rec.evidence.reproduction, after, rec.verif.mutated, c, 0)
        IN /\ ws' = [ws EXCEPT !.files = files]
           /\ Go(p, "persist",
                 [rec EXCEPT !.verif = verif,
                             !.ledger = IF verif.status = "passed"
                                        THEN ConfirmSupported(@, rec.inv.ids,
                                                              rec.evidence.reproduction, after)
                                        ELSE @])
  BY DEF Verify
<1> DEFINE rec == op[p].rec
           after == Summarize(c, results)
           verif == MakeVerification(rec.evidence.reproduction, after, rec.verif.mutated, c, 0)
           ledger == IF verif.status = "passed"
                     THEN ConfirmSupported(rec.ledger, rec.inv.ids,
                                           rec.evidence.reproduction, after)
                     ELSE rec.ledger
           r == [rec EXCEPT !.verif = verif, !.ledger = ledger]
<1>2. rec \in Record /\ ws \in Workspace
  BY RecordFacts
<1>3. after \in Summary
  BY SummarizeFacts
<1>4. files \in [Path -> Content] /\ ws' \in Workspace
  BY <1>1, <1>2, CommandFiles
<1>5. Go(p, "persist", r)
  BY <1>1
<1> HIDE DEF after
<1>6. verif \in Verification
  BY <1>2, <1>3, VerificationType DEF Record, Evidence, Verification
<1> HIDE DEF verif
<1>7. ledger \in [Hyp -> HypothesisStatus]
  BY <1>2, LedgerType DEF Record
<1> HIDE DEF ledger
<1>8. r \in Record /\ r.inv = op[p].rec.inv /\ r.patch = op[p].rec.patch
  BY <1>2, <1>6, <1>7 DEF Record
<1>9. UNCHANGED <<snaps, sessions>> /\ "persist" \in Steps \ {"baseline", "transact", "restore"}
  BY DEF Verify, Steps
<1> HIDE DEF r, rec
<1> QED
  BY <1>4, <1>5, <1>8, <1>9, PlainMove

\* A child begins on a session that validated; bounds are not needed here.
LEMMA ChildBegins ==
  ASSUME Inv, NEW p \in Proc, NEW i \in DOMAIN sessions, NEW step \in {"verify", "transact", "restore"},
         NEW kind \in {"resume", "apply", "rollback"}, NEW mutated \in BOOLEAN,
         Begin(p, step, Child(i, kind, mutated, ws)), UNCHANGED <<ws, snaps, sessions>>,
         step = "transact" => sessions[i].inv.patch # NoPatch,
         step = "restore" => sessions[i].patch.snapshot # 0
  PROVE  Inv'
<1> DEFINE r == Child(i, kind, mutated, ws)
<1>1. /\ ws \in Workspace /\ snaps \in Seq(Snapshot) /\ Len(snaps) <= Len(snaps')
      /\ sessions[i] \in Record /\ AuthorizedRecord(sessions[i])
  BY DEF Inv, TypeOK, OnlyAuthorizedPatches, Stored
<1>2. r \in Record /\ AuthorizedRecord(r)
  BY <1>1, ChildType DEF Inv
<1>3. r.inv = sessions[i].inv /\ r.patch = sessions[i].patch
  BY <1>1 DEF Child, Record
<1>4. Fingerprint(ws) \in Fingerprints
  BY <1>1, FingerprintType
<1>5. op' = [op EXCEPT ![p] = [step |-> step, ctx |-> Fingerprint(ws), rec |-> r]]
  BY DEF Begin
<1>6. step \in Steps /\ step \notin {"baseline", "investigate"}
  BY DEF Steps
<1> HIDE DEF r
<1> QED
  BY <1>1, <1>2, <1>3, <1>4, <1>5, <1>6, OneProcessMoves DEF AuthorizedRecord

\* A resume starts on a stored session.
LEMMA StartResumeInv ==
  ASSUME Inv, NEW p \in Proc, NEW i \in DOMAIN sessions, StartResume(p, i) PROVE Inv'
<1>1. Moved(sessions[i].evidence.fp, Fingerprint(ws)) \in BOOLEAN
  BY DEF Moved
<1> QED
  BY <1>1, ChildBegins DEF StartResume

\* An apply starts on a stored session that has a patch.
LEMMA StartApplyInv ==
  ASSUME Inv, NEW p \in Proc, NEW i \in DOMAIN sessions, StartApply(p, i) PROVE Inv'
BY ChildBegins DEF StartApply

\* A rollback starts on a stored session that has a snapshot.
LEMMA StartRollbackInv ==
  ASSUME Inv, NEW p \in Proc, NEW i \in DOMAIN sessions, StartRollback(p, i) PROVE Inv'
BY ChildBegins DEF StartRollback

\* Looking at the workspace after an apply.
LEMMA ObserveApplyInv == ASSUME Inv, NEW p \in Proc, ObserveApply(p) PROVE Inv'
<1> DEFINE mutated == op[p].ctx # Fingerprint(ws)
           verif == MakeVerification(op[p].rec.evidence.reproduction, NoSummary, mutated, NoCmd, 0)
           r == [op[p].rec EXCEPT !.seen = ws.files, !.verif = verif]
<1>1. op[p].rec \in Record /\ ws \in Workspace
  BY RecordFacts
<1>2. mutated \in BOOLEAN
  OBVIOUS
<1>3. Go(p, "persist", r) /\ UNCHANGED <<ws, snaps, sessions>>
  BY DEF ObserveApply
<1> HIDE DEF mutated
<1>4. verif \in Verification
  BY <1>1, <1>2, NoSummaryFacts, VerificationType DEF Record, Evidence
<1> HIDE DEF verif
<1>5. /\ r \in Record /\ r.inv = op[p].rec.inv /\ r.patch = op[p].rec.patch
  BY <1>1, <1>4 DEF Record, Workspace
<1>6. "persist" \in Steps \ {"baseline", "transact", "restore"}
  BY DEF Steps
<1> HIDE DEF r
<1> QED
  BY <1>1, <1>3, <1>5, <1>6, PlainMove

\* Restoring a snapshot: the record keeps its patch and names the same snapshot.
LEMMA RestoreInv == ASSUME Inv, NEW p \in Proc, Restore(p) PROVE Inv'
<1> DEFINE rec == op[p].rec
           id == rec.patch.snapshot
           verif == MakeVerification(rec.evidence.reproduction, NoSummary, FALSE, NoCmd, id)
           r == [rec EXCEPT !.patch = RolledBackPatch(rec.patch), !.rollback = id, !.verif = verif]
<1>1. /\ rec \in Record /\ AuthorizedRecord(rec) /\ op[p].ctx \in Fingerprints
      /\ ws \in Workspace /\ snaps \in Seq(Snapshot) /\ Len(snaps) \in Nat
  BY RecordFacts
<1>2. id \in Nat /\ id # 0 /\ id \in DOMAIN snaps
  BY <1>1 DEF Restore, At, Inv, StepInv, Record, PatchState, AuthorizedRecord
<1>3. snaps[id] \in Snapshot
  BY <1>1, <1>2
<1>4. PICK paths \in SUBSET Path : snaps[id] \in [before: [paths -> Content],
                                                  after: [paths -> Content]]
  BY <1>3 DEF Snapshot
<1>5. ws.files \in [Path -> Content]
  BY <1>1 DEF Workspace
<1>6. Restored(snaps[id], ws.files) \in [Path -> Content]
  BY <1>4, <1>5 DEF Restored
<1>7. /\ ws' = [ws EXCEPT !.files = Restored(snaps[id], @)]
      /\ op' = [op EXCEPT ![p] = [step |-> "persist", ctx |-> op[p].ctx, rec |-> r]]
      /\ UNCHANGED <<snaps, sessions>>
  BY DEF Restore, Go
<1>8. ws' \in Workspace
  BY <1>1, <1>6, <1>7 DEF Workspace
<1>9. verif \in Verification
  BY <1>1, <1>2, NoSummaryFacts, VerificationType DEF Record, Evidence
<1>10. /\ RolledBackPatch(rec.patch) \in PatchState
       /\ RolledBackPatch(rec.patch).snapshot = id /\ ~RolledBackPatch(rec.patch).applied
  BY <1>1 DEF RolledBackPatch, Record, PatchState
<1> HIDE DEF verif
<1>11. /\ r \in Record /\ r.inv = rec.inv /\ r.patch = RolledBackPatch(rec.patch)
  BY <1>1, <1>2, <1>9, <1>10 DEF Record
<1>12. "persist" \in Steps /\ Len(snaps) <= Len(snaps')
  BY <1>1, <1>7 DEF Steps
<1> HIDE DEF r
<1> QED
  BY <1>1, <1>2, <1>7, <1>8, <1>10, <1>11, <1>12, OneProcessMoves DEF AuthorizedRecord

-------------------------------------------------------------------------------
(* A process stores its record or gives up.                                *)

\* A process with nothing to do holds a record that satisfies the invariant.
LEMMA IdleFacts == Idle \in Operation /\ AuthorizedRecord(Idle.rec) /\ Idle.step = "idle"
<1> DEFINE w == [head |-> InitialHead, files |-> InitialFiles]
<1>1. w \in Workspace
  BY SessionConstants DEF Workspace
<1>2. NewRecord(w) \in Record /\ AuthorizedRecord(NewRecord(w)) /\ Fingerprint(w) \in Fingerprints
  BY <1>1, NewRecordType, FingerprintType
<1>3. Idle = [step |-> "idle", ctx |-> Fingerprint(w), rec |-> NewRecord(w)]
  BY DEF Idle
<1> HIDE DEF w
<1> QED
  BY <1>2, <1>3 DEF Operation, Steps

\* Every status is one of the six.
LEMMA FinalStatusType == ASSUME NEW rec PROVE FinalStatus(rec) \in FixStatus
BY DEF FinalStatus, DetermineFixStatus, FixStatus

\* Storing a session: what was true of the record is true of the session.
LEMMA PersistInv == ASSUME Inv, NEW p \in Proc, Persist(p) PROVE Inv'
<1> DEFINE s == [op[p].rec EXCEPT !.fix = FinalStatus(op[p].rec)]
<1>1. op[p].rec \in Record /\ AuthorizedRecord(op[p].rec)
  BY RecordFacts
<1>2. FinalStatus(op[p].rec) \in FixStatus
  BY FinalStatusType
<1>3. s \in Record /\ s.inv = op[p].rec.inv /\ s.patch = op[p].rec.patch
  BY <1>1, <1>2 DEF Record
<1>4. /\ sessions' = Append(sessions, s) /\ op' = [op EXCEPT ![p] = Idle]
      /\ UNCHANGED <<ws, snaps>>
  BY DEF Persist
<1> HIDE DEF s
<1>5. sessions \in Seq(Record) /\ op \in [Proc -> Operation] /\ TypeOK
  BY DEF Inv, TypeOK
<1>6. TypeOK'
  BY <1>3, <1>4, <1>5, IdleFacts DEF TypeOK
<1>7. /\ DOMAIN sessions' = 1..(Len(sessions) + 1) /\ Len(sessions) \in Nat
      /\ \A i \in 1..Len(sessions) : sessions'[i] = sessions[i]
      /\ sessions'[Len(sessions) + 1] = s
  BY <1>3, <1>4, <1>5
<1>8. \A rec : AuthorizedRecord(rec) => AuthorizedRecord(rec)'
  BY <1>4 DEF AuthorizedRecord
<1>9. \A q \in Proc : AuthorizedRecord(op'[q].rec)
  BY <1>4, <1>5, IdleFacts DEF Inv, OnlyAuthorizedPatches
<1>10. AuthorizedRecord(s)
  BY <1>1, <1>3 DEF AuthorizedRecord
<1>11. \A i \in DOMAIN sessions' : AuthorizedRecord(sessions'[i])
  BY <1>5, <1>7, <1>10 DEF Inv, OnlyAuthorizedPatches, Stored
<1>12. OnlyAuthorizedPatches'
  BY <1>4, <1>9, <1>11 DEF OnlyAuthorizedPatches, Stored, AuthorizedRecord
<1>13. StepInv'
  BY <1>4, <1>5, IdleFacts DEF Inv, StepInv
<1> QED
  BY <1>6, <1>12, <1>13 DEF Inv

\* Ending without a session.
LEMMA AbandonInv == ASSUME Inv, NEW p \in Proc, Abandon(p) PROVE Inv'
<1>1. op' = [op EXCEPT ![p] = Idle] /\ UNCHANGED <<ws, snaps, sessions>> /\ op \in [Proc -> Operation]
  BY DEF Abandon, Inv, TypeOK
<1>2. TypeOK'
  BY <1>1, IdleFacts DEF Inv, TypeOK
<1>3. OnlyAuthorizedPatches'
  BY <1>1, IdleFacts DEF Inv, OnlyAuthorizedPatches, Stored, AuthorizedRecord
<1>4. StepInv'
  BY <1>1, IdleFacts DEF Inv, StepInv
<1> QED
  BY <1>2, <1>3, <1>4 DEF Inv

\* The user changes nothing but the workspace.
LEMMA UserInv == ASSUME Inv, User PROVE Inv'
<1>1. UNCHANGED <<snaps, sessions, op>>
  BY DEF User, Edit, MoveHead
<1>2. ws' \in Workspace
  BY DEF User, Edit, MoveHead, Inv, TypeOK, Workspace
<1> QED
  BY <1>1, <1>2 DEF Inv, TypeOK, OnlyAuthorizedPatches, Stored, AuthorizedRecord, StepInv

-------------------------------------------------------------------------------
\* The invariant holds initially.
LEMMA InitInv == Init => Inv
<1> SUFFICES ASSUME Init PROVE Inv
  OBVIOUS
<1>1. TypeOK
  BY IdleFacts, SessionConstants DEF Init, TypeOK, Workspace
<1>2. OnlyAuthorizedPatches /\ StepInv
  BY IdleFacts DEF Init, OnlyAuthorizedPatches, StepInv, Stored
<1> QED
  BY <1>1, <1>2 DEF Inv

\* Every step preserves the invariant.
LEMMA NextInv == Inv /\ [Next]_vars => Inv'
<1> SUFFICES ASSUME Inv, [Next]_vars PROVE Inv'
  OBVIOUS
<1>1. CASE UNCHANGED vars
  BY <1>1 DEF vars, Inv, TypeOK, OnlyAuthorizedPatches, Stored, AuthorizedRecord, StepInv
<1>2. CASE User
  BY <1>2, UserInv
<1>3. ASSUME NEW p \in Proc, RunStep(p) PROVE Inv'
  BY <1>3, StartRunInv, ReadEvidenceInv, InvestigateInv, DecideApplyInv, CheckOnlyInv,
     ObserveRunInv, SkipVerifyInv, RunBaselineInv, VerifyInv DEF RunStep
<1>4. ASSUME NEW p \in Proc, ChildStep(p) PROVE Inv'
  BY <1>4, ObserveApplyInv, RestoreInv, StartResumeInv, StartApplyInv, StartRollbackInv
     DEF ChildStep
<1>5. ASSUME NEW p \in Proc, Transact(p) \/ Persist(p) \/ Abandon(p) PROVE Inv'
  BY <1>5, TransactInv, PersistInv, AbandonInv
<1> QED
  BY <1>1, <1>2, <1>3, <1>4, <1>5 DEF Next

\* Whatever the processes, the user and the models do, the controller's state
\* is of its declared type, and no record ever carries a patch that the causal
\* verifier did not accept, or an applied patch without its rollback snapshot.
THEOREM Inductive == Spec => []Inv
BY InitInv, NextInv, PTL DEF Spec

\* Every record the controller builds or stores has its type.
THEOREM TypeCorrect == Spec => []TypeOK
<1>1. Inv => TypeOK
  BY DEF Inv
<1> QED
  BY <1>1, Inductive, PTL

\* No patch reaches the workspace without the causal verifier's acceptance, and no
\* record names a snapshot that does not exist (src/contracts.js:15, src/debug.js:144-150).
THEOREM PatchesAreAuthorized == Spec => []OnlyAuthorizedPatches
<1>1. Inv => OnlyAuthorizedPatches
  BY DEF Inv
<1> QED
  BY <1>1, Inductive, PTL

-------------------------------------------------------------------------------
(* Verdicts.                                                               *)

\* A passing verdict is bound to the evidence it was computed from.
PassedIsBound(rec) ==
  rec.verif.status = "passed" =>
    /\ rec.evidence.reproduction = rec.verif.before
    /\ rec.evidence.reproduction.reproducible
    /\ rec.evidence.reproduction.failures > 0
    /\ rec.evidence.command \in Cmd
    /\ rec.evidence.command = rec.verif.after.cmd
    /\ rec.evidence.command = rec.verif.cmd
    /\ rec.verif.mutated
    /\ rec.verif.after.runs > 0
    /\ rec.verif.after.failures = 0
    /\ rec.verif.after.passes = rec.verif.after.runs
    /\ rec.verif.transition = "resolved"

BoundRecord(rec) ==
  /\ Consistent(rec.evidence.reproduction)
  /\ rec.evidence.command = rec.evidence.reproduction.cmd
  /\ PassedIsBound(rec)
  /\ rec.kind \in {"apply", "rollback"} => rec.verif.status = "not-run"

\* Until a record is about to be stored it carries no verdict, and only a run
\* or a resume ever gets one.
BoundStep(step, rec) ==
  /\ BoundRecord(rec)
  /\ step # "persist" => rec.verif.status = "not-run"
  /\ step = "verify" => rec.kind \in {"run", "resume"}

Bound ==
  /\ \A i \in Stored : /\ BoundRecord(sessions[i])
                       /\ sessions[i].fix = "verified" <=> sessions[i].verif.status = "passed"
  /\ \A p \in Proc : BoundStep(op[p].step, op[p].rec)

\* A verification without a post-change series is "not-run".
LEMMA NotRun ==
  ASSUME NEW before, NEW mutated, NEW cmd, NEW rollback
  PROVE  MakeVerification(before, NoSummary, mutated, cmd, rollback).status = "not-run"
BY DEF MakeVerification, NoSummary

\* What verificationStatus and compareFailureSignatures guarantee of a "passed".
LEMMA PassedFacts ==
  ASSUME NEW before \in Summary, Consistent(before), NEW after \in Summary, Consistent(after),
         NEW mutated \in BOOLEAN, NEW v, v = MakeVerification(before, after, mutated, after.cmd, 0),
         v.status = "passed"
  PROVE  /\ v.before = before /\ v.after = after /\ v.cmd = after.cmd /\ v.mutated
         /\ before.reproducible /\ before.failures > 0
         /\ before.cmd \in Cmd /\ before.cmd = after.cmd
         /\ after.runs > 0 /\ after.failures = 0 /\ after.passes = after.runs
         /\ v.transition = "resolved"
<1>1. /\ v.before = before /\ v.after = after /\ v.cmd = after.cmd /\ v.mutated = mutated
      /\ v.status = IF after.runs > 0 THEN VerificationStatus(before, after, mutated) ELSE "not-run"
      /\ v.transition = IF after.runs > 0 THEN CompareSignatures(before, after) ELSE "not-run"
  BY DEF MakeVerification
<1>2. after.runs > 0 /\ VerificationStatus(before, after, mutated) = "passed"
  BY <1>1
<1>3. AllPass(after) /\ Strong(before) /\ mutated /\ SameCommand(before, after)
  BY <1>2 DEF VerificationStatus
<1>4. before.reproducible /\ before.failures > 0
  BY <1>3 DEF Strong, Consistent
<1>5. before.cmd \in Cmd /\ before.cmd = after.cmd /\ after.failures = 0
  BY <1>3 DEF SameCommand, AllPass
<1>6. after.passes = after.runs
  BY <1>5 DEF Consistent, Summary
<1>7. CompareSignatures(before, after) = "resolved"
  BY <1>3, <1>4, <1>5 DEF CompareSignatures, Summary
<1> QED
  BY <1>1, <1>2, <1>3, <1>4, <1>5, <1>6, <1>7

\* A step of one process that stores nothing: only its own record matters.
LEMMA OneProcessBound ==
  ASSUME Inv, Bound, NEW p \in Proc, NEW step, NEW ctx, NEW r, sessions' = sessions,
         op' = [op EXCEPT ![p] = [step |-> step, ctx |-> ctx, rec |-> r]],
         BoundStep(step, r)
  PROVE  Bound'
<1>1. op'[p] = [step |-> step, ctx |-> ctx, rec |-> r] /\ \A q \in Proc \ {p} : op'[q] = op[q]
  BY DEF Inv, TypeOK
<1> QED
  BY <1>1 DEF Bound, Stored

\* A step that changes neither the verdict nor the evidence nor the kind.
LEMMA SameVerdict ==
  ASSUME Inv, Bound, NEW p \in Proc, NEW step, NEW r, Go(p, step, r), sessions' = sessions,
         r.verif = op[p].rec.verif, r.evidence = op[p].rec.evidence, r.kind = op[p].rec.kind,
         op[p].step # "persist", step # "verify"
  PROVE  Bound'
<1>1. BoundStep(op[p].step, op[p].rec)
  BY DEF Bound
<1>2. BoundStep(step, r)
  BY <1>1 DEF BoundStep, BoundRecord, PassedIsBound
<1> QED
  BY <1>2, OneProcessBound DEF Go

\* A step that leaves a record without a verdict.
LEMMA NoVerdictYet ==
  ASSUME Inv, Bound, NEW p \in Proc, NEW step, NEW r, Go(p, step, r), sessions' = sessions,
         r.verif.status = "not-run", r.evidence = op[p].rec.evidence,
         step = "verify" => r.kind \in {"run", "resume"}
  PROVE  Bound'
<1>1. BoundRecord(op[p].rec)
  BY DEF Bound, BoundStep
<1>2. BoundStep(step, r)
  BY <1>1 DEF BoundStep, BoundRecord, PassedIsBound
<1> QED
  BY <1>2, OneProcessBound DEF Go

\* A new run has no verdict.
LEMMA NewRecordBound ==
  ASSUME NEW w, NEW step, step # "verify"
  PROVE  BoundStep(step, NewRecord(w))
BY NoSummaryFacts, NotRun DEF NewRecord, BoundStep, BoundRecord, PassedIsBound, NoSummary

\* Starting a run.
LEMMA StartRunBound == ASSUME Inv, Bound, NEW p \in Proc, StartRun(p) PROVE Bound'
<1>1. BoundStep("baseline", NewRecord(ws))
  BY NewRecordBound
<1> QED
  BY <1>1, OneProcessBound DEF StartRun, Begin

\* The baseline series: evidence and summary name the same command.
LEMMA RunBaselineBound ==
  ASSUME Inv, Bound, NEW p \in Proc, NEW c \in Cmd, RunBaseline(p, c) PROVE Bound'
<1>1. PICK results \in Runs, files \in FilesAfterCommand(ws.files) :
        Go(p, "investigate", [op[p].rec EXCEPT !.evidence.command = c,
                                               !.evidence.reproduction = Summarize(c, results),
                                               !.base = files])
  BY DEF RunBaseline
<1> DEFINE sum == Summarize(c, results)
           r == [op[p].rec EXCEPT !.evidence.command = c, !.evidence.reproduction = sum,
                                  !.base = files]
<1>2. Consistent(sum) /\ sum.cmd = c
  BY SummarizeFacts
<1>3. op[p].rec \in Record
  BY RecordFacts
<1>4. op[p].rec.verif.status = "not-run"
  BY DEF Bound, BoundStep, RunBaseline, At
<1>5. Go(p, "investigate", r) /\ sessions' = sessions
  BY <1>1 DEF RunBaseline
<1> HIDE DEF sum
<1>6. /\ r.evidence.reproduction = sum /\ r.evidence.command = c /\ r.verif = op[p].rec.verif
  BY <1>3 DEF Record, Evidence
<1>7. BoundStep("investigate", r)
  BY <1>2, <1>4, <1>6 DEF BoundStep, BoundRecord, PassedIsBound
<1> HIDE DEF r
<1> QED
  BY <1>5, <1>7, OneProcessBound DEF Go

\* The steps that touch neither evidence nor verdict.
LEMMA PlainStepsBound ==
  ASSUME Inv, Bound, NEW p \in Proc,
         \/ ReadEvidence(p) \/ Investigate(p) \/ DecideApply(p)
         \/ CheckOnly(p) \/ Transact(p) \/ SkipVerify(p)
  PROVE  Bound'
<1>1. op[p].rec \in Record
  BY RecordFacts
<1>2. CASE ReadEvidence(p)
  <2> DEFINE r == [op[p].rec EXCEPT !.base = ws.files]
  <2>1. Go(p, "investigate", r) /\ sessions' = sessions /\ op[p].step = "baseline"
    BY <1>2 DEF ReadEvidence, At
  <2>2. r.verif = op[p].rec.verif /\ r.evidence = op[p].rec.evidence /\ r.kind = op[p].rec.kind
    BY <1>1 DEF Record
  <2> HIDE DEF r
  <2> QED
    BY <2>1, <2>2, SameVerdict
<1>3. CASE Investigate(p)
  <2>1. PICK inv \in Answers :
          Go(p, "patch", [op[p].rec EXCEPT !.inv = inv, !.ledger = CreateLedger(inv)])
    BY <1>3 DEF Investigate
  <2> DEFINE r == [op[p].rec EXCEPT !.inv = inv, !.ledger = CreateLedger(inv)]
  <2>2. Go(p, "patch", r) /\ sessions' = sessions /\ op[p].step = "investigate"
    BY <1>3, <2>1 DEF Investigate, At
  <2>3. r.verif = op[p].rec.verif /\ r.evidence = op[p].rec.evidence /\ r.kind = op[p].rec.kind
    BY <1>1 DEF Record
  <2> HIDE DEF r
  <2> QED
    BY <2>2, <2>3, SameVerdict
<1>4. CASE DecideApply(p)
  BY <1>4, SameVerdict DEF DecideApply, At
<1>5. CASE CheckOnly(p)
  BY <1>5, SameVerdict DEF CheckOnly, At
<1>6. CASE Transact(p)
  <2>0. PICK state : Go(p, "observe", [op[p].rec EXCEPT !.patch = state]) /\ ~state.rolledBack
    BY <1>6, Transacted
  <2> DEFINE r == [op[p].rec EXCEPT !.patch = state]
  <2>1. Go(p, "observe", r) /\ sessions' = sessions /\ op[p].step = "transact"
    BY <1>6, <2>0 DEF Transact, At
  <2>2. r.verif = op[p].rec.verif /\ r.evidence = op[p].rec.evidence /\ r.kind = op[p].rec.kind
    BY <1>1 DEF Record
  <2> HIDE DEF r
  <2> QED
    BY <2>1, <2>2, SameVerdict
<1>7. CASE SkipVerify(p)
  BY <1>7, SameVerdict DEF SkipVerify, At
<1> QED
  BY <1>2, <1>3, <1>4, <1>5, <1>6, <1>7

\* Looking for a mutation resets the verdict.
LEMMA ObserveRunBound == ASSUME Inv, Bound, NEW p \in Proc, ObserveRun(p) PROVE Bound'
<1> DEFINE verif == MakeVerification(op[p].rec.evidence.reproduction, NoSummary,
                                     Moved(op[p].rec.evidence.fp, Fingerprint(ws)), NoCmd, 0)
           r == [op[p].rec EXCEPT !.seen = ws.files, !.verif = verif]
<1>1. op[p].rec \in Record
  BY RecordFacts
<1>2. Go(p, "verify", r) /\ sessions' = sessions /\ op[p].rec.kind = "run"
  BY DEF ObserveRun
<1>3. verif.status = "not-run"
  BY NotRun
<1> HIDE DEF verif
<1>4. r.verif = verif /\ r.evidence = op[p].rec.evidence /\ r.kind = op[p].rec.kind
  BY <1>1 DEF Record
<1> HIDE DEF r
<1> QED
  BY <1>2, <1>3, <1>4, NoVerdictYet

\* So it does after an apply.
LEMMA ObserveApplyBound == ASSUME Inv, Bound, NEW p \in Proc, ObserveApply(p) PROVE Bound'
<1> DEFINE verif == MakeVerification(op[p].rec.evidence.reproduction, NoSummary,
                                     op[p].ctx # Fingerprint(ws), NoCmd, 0)
           r == [op[p].rec EXCEPT !.seen = ws.files, !.verif = verif]
<1>1. op[p].rec \in Record
  BY RecordFacts
<1>2. Go(p, "persist", r) /\ sessions' = sessions
  BY DEF ObserveApply
<1>3. verif.status = "not-run"
  BY NotRun
<1> HIDE DEF verif
<1>4. r.verif = verif /\ r.evidence = op[p].rec.evidence
  BY <1>1 DEF Record
<1> HIDE DEF r
<1> QED
  BY <1>2, <1>3, <1>4, NoVerdictYet

\* A rollback has no verdict.
LEMMA RestoreBound == ASSUME Inv, Bound, NEW p \in Proc, Restore(p) PROVE Bound'
<1> DEFINE rec == op[p].rec
           id == rec.patch.snapshot
           verif == MakeVerification(rec.evidence.reproduction, NoSummary, FALSE, NoCmd, id)
           r == [rec EXCEPT !.patch = RolledBackPatch(rec.patch), !.rollback = id, !.verif = verif]
<1>1. rec \in Record
  BY RecordFacts
<1>2. Go(p, "persist", r) /\ sessions' = sessions
  BY DEF Restore
<1>3. verif.status = "not-run"
  BY NotRun
<1> HIDE DEF verif
<1>4. r.verif = verif /\ r.evidence = rec.evidence
  BY <1>1 DEF Record
<1> HIDE DEF r
<1> QED
  BY <1>2, <1>3, <1>4, NoVerdictYet

\* The verdict of a post-change series is bound to the baseline in the evidence.
LEMMA VerifyBound ==
  ASSUME Inv, Bound, NEW p \in Proc, NEW c \in Cmd, Verify(p, c) PROVE Bound'
<1>1. PICK results \in Runs, files \in FilesAfterCommand(ws.files) :
        LET rec   == op[p].rec
            after == Summarize(c, results)
            verif == MakeVerification(rec.evidence.reproduction, after, rec.verif.mutated, c, 0)
        IN Go(p, "persist",
              [rec EXCEPT !.verif = verif,
                          !.ledger = IF verif.status = "passed"
                                     THEN ConfirmSupported(@, rec.inv.ids,
                                                           rec.evidence.reproduction, after)
                                     ELSE @])
  BY DEF Verify
<1> DEFINE rec == op[p].rec
           before == rec.evidence.reproduction
           after == Summarize(c, results)
           mutated == rec.verif.mutated
           verif == MakeVerification(before, after, mutated, c, 0)
           r == [rec EXCEPT !.verif = verif,
                            !.ledger = IF verif.status = "passed"
                                       THEN ConfirmSupported(@, rec.inv.ids, before, after)
                                       ELSE @]
<1>2. rec \in Record
  BY RecordFacts
<1>3. /\ after \in Summary /\ Consistent(after) /\ after.cmd = c
  BY SummarizeFacts
<1>4. /\ BoundRecord(rec) /\ rec.kind \in {"run", "resume"}
      /\ Go(p, "persist", r) /\ sessions' = sessions
  BY <1>1 DEF Bound, BoundStep, Verify, At
<1> HIDE DEF after
<1>5. before \in Summary /\ mutated \in BOOLEAN /\ Consistent(before)
  BY <1>2, <1>4 DEF Record, Evidence, Verification, BoundRecord
<1>6. verif.status = "passed" =>
        /\ verif.before = before /\ verif.after = after /\ verif.cmd = c /\ verif.mutated
        /\ before.reproducible /\ before.failures > 0
        /\ before.cmd \in Cmd /\ before.cmd = c
        /\ after.runs > 0 /\ after.failures = 0 /\ after.passes = after.runs
        /\ verif.transition = "resolved"
  <2>1. verif = MakeVerification(before, after, mutated, after.cmd, 0)
    BY <1>3
  <2> HIDE DEF verif, before, mutated
  <2> QED
    BY <1>3, <1>5, <2>1, PassedFacts
<1> HIDE DEF verif
<1>7. r.verif = verif /\ r.evidence = rec.evidence /\ r.kind = rec.kind
  BY <1>2 DEF Record
<1> HIDE DEF r
<1>8. BoundStep("persist", r)
  BY <1>3, <1>4, <1>6, <1>7 DEF BoundStep, BoundRecord, PassedIsBound
<1> QED
  BY <1>4, <1>8, OneProcessBound DEF Go

\* A child takes over evidence that is bound, and no verdict.
LEMMA ChildBound ==
  ASSUME Inv, Bound, NEW p \in Proc, NEW i \in DOMAIN sessions, NEW step, NEW kind, NEW mutated,
         Begin(p, step, Child(i, kind, mutated, ws)), sessions' = sessions,
         step = "verify" => kind \in {"run", "resume"}
  PROVE  Bound'
<1> DEFINE r == Child(i, kind, mutated, ws)
<1>1. sessions[i] \in Record /\ BoundRecord(sessions[i])
  BY DEF Inv, TypeOK, Bound, Stored
<1>2. /\ r.evidence = sessions[i].evidence /\ r.kind = kind
      /\ r.verif = MakeVerification(sessions[i].evidence.reproduction, NoSummary, mutated, NoCmd, 0)
  BY <1>1 DEF Child, Record
<1>3. r.verif.status = "not-run"
  BY <1>2, NotRun
<1> HIDE DEF r
<1>4. BoundStep(step, r)
  BY <1>1, <1>2, <1>3 DEF BoundStep, BoundRecord, PassedIsBound
<1>5. op' = [op EXCEPT ![p] = [step |-> step, ctx |-> Fingerprint(ws), rec |-> r]]
  BY DEF Begin, r
<1> QED
  BY <1>4, <1>5, OneProcessBound

\* The three operations that start on a stored session.
LEMMA ChildStepsBound ==
  ASSUME Inv, Bound, NEW p \in Proc, NEW i \in DOMAIN sessions,
         StartResume(p, i) \/ StartApply(p, i) \/ StartRollback(p, i)
  PROVE  Bound'
BY ChildBound DEF StartResume, StartApply, StartRollback

\* A process with nothing to do has no verdict.
LEMMA IdleBound == BoundStep("idle", Idle.rec) /\ Idle.step = "idle"
BY NewRecordBound DEF Idle

\* Storing a session: "verified" is stored exactly with a "passed".
LEMMA PersistBound == ASSUME Inv, Bound, NEW p \in Proc, Persist(p) PROVE Bound'
<1> DEFINE s == [op[p].rec EXCEPT !.fix = FinalStatus(op[p].rec)]
<1>1. op[p].rec \in Record /\ BoundRecord(op[p].rec)
  BY RecordFacts DEF Bound, BoundStep
<1>2. /\ s.verif = op[p].rec.verif /\ s.evidence = op[p].rec.evidence
      /\ s.kind = op[p].rec.kind /\ s.fix = FinalStatus(op[p].rec)
  BY <1>1 DEF Record
<1>3. FinalStatus(op[p].rec) = "verified" <=> op[p].rec.verif.status = "passed"
  BY <1>1 DEF FinalStatus, DetermineFixStatus, BoundRecord
<1>4. sessions' = Append(sessions, s) /\ op' = [op EXCEPT ![p] = Idle]
  BY DEF Persist
<1> HIDE DEF s
<1>5. BoundRecord(s) /\ (s.fix = "verified" <=> s.verif.status = "passed")
  BY <1>1, <1>2, <1>3 DEF BoundRecord, PassedIsBound
<1>6. sessions \in Seq(Record) /\ op \in [Proc -> Operation]
  BY DEF Inv, TypeOK
<1>7. \A i \in DOMAIN sessions' : \/ i \in DOMAIN sessions /\ sessions'[i] = sessions[i]
                                 \/ sessions'[i] = s
  BY <1>4, <1>6
<1>8. \A i \in DOMAIN sessions' :
        BoundRecord(sessions'[i])
        /\ (sessions'[i].fix = "verified" <=> sessions'[i].verif.status = "passed")
  BY <1>5, <1>7 DEF Bound, Stored
<1>9. \A q \in Proc : BoundStep(op'[q].step, op'[q].rec)
  BY <1>4, <1>6, IdleBound DEF Bound
<1> QED
  BY <1>8, <1>9 DEF Bound, Stored

\* Ending without a session.
LEMMA AbandonBound == ASSUME Inv, Bound, NEW p \in Proc, Abandon(p) PROVE Bound'
<1>1. op' = [op EXCEPT ![p] = Idle] /\ sessions' = sessions /\ op \in [Proc -> Operation]
  BY DEF Abandon, Inv, TypeOK
<1> QED
  BY <1>1, IdleBound DEF Bound, Stored

\* The binding holds initially.
LEMMA InitBound == Init => Bound
BY IdleBound DEF Init, Bound, Stored

\* Every step preserves the binding.
LEMMA NextBound == Inv /\ Bound /\ [Next]_vars => Bound'
<1> SUFFICES ASSUME Inv, Bound, [Next]_vars PROVE Bound'
  OBVIOUS
<1>1. CASE UNCHANGED vars
  BY <1>1 DEF vars, Bound, Stored
<1>2. CASE User
  BY <1>2 DEF User, Edit, MoveHead, Bound, Stored
<1>3. ASSUME NEW p \in Proc, RunStep(p) PROVE Bound'
  BY <1>3, StartRunBound, PlainStepsBound, ObserveRunBound, RunBaselineBound, VerifyBound
     DEF RunStep
<1>4. ASSUME NEW p \in Proc, ChildStep(p) PROVE Bound'
  BY <1>4, ObserveApplyBound, RestoreBound, ChildStepsBound DEF ChildStep
<1>5. ASSUME NEW p \in Proc, Transact(p) \/ Persist(p) \/ Abandon(p) PROVE Bound'
  BY <1>5, PlainStepsBound, PersistBound, AbandonBound
<1> QED
  BY <1>1, <1>2, <1>3, <1>4, <1>5 DEF Next

\* A session stored as verified, and any session that carries a passing verdict,
\* satisfies the contract it will be held to when it is next used: the verdict
\* logic of src/debug.js and the validation of src/contracts.js agree.
THEOREM VerifiedSessionsAreBound == Spec => []VerifiedIsBound
<1>1. Spec => []Bound
  BY InitInv, NextInv, InitBound, NextBound, PTL DEF Spec
<1>2. Bound => VerifiedIsBound
  BY DEF Bound, BoundRecord, PassedIsBound, VerifiedIsBound, VerifiedBinding
<1> QED
  BY <1>1, <1>2, PTL

-------------------------------------------------------------------------------
(* Lineage: what a record owes to its parent, and its snapshot to its patch. *)

\* Evidence and investigation are the parent's; so is the ledger, but for
\* supported hypotheses that became confirmed.
Descends(rec, all) ==
  /\ rec.kind = "run" <=> rec.parent = 0
  /\ rec.parent # 0 =>
       /\ rec.parent \in DOMAIN all
       /\ rec.evidence = all[rec.parent].evidence
       /\ rec.inv = all[rec.parent].inv
       /\ \A h \in Hyp :
            rec.ledger[h] # all[rec.parent].ledger[h] =>
              rec.ledger[h] = "confirmed" /\ all[rec.parent].ledger[h] = "supported"

\* A rollback that is done took back what its parent had applied.
TakesBack(rec, all) ==
  rec.kind = "rollback" =>
    /\ rec.patch.rolledBack /\ ~rec.patch.applied /\ rec.patch.snapshot # 0
    /\ rec.parent # 0
    /\ all[rec.parent].patch.applied
    /\ all[rec.parent].patch.snapshot = rec.rollback

\* The snapshot whose digest a record holds was taken of its own patch.
SnapshotFits(rec) ==
  rec.patch.snapshot # 0 =>
    /\ rec.patch.applied \/ rec.patch.rolledBack
    /\ DOMAIN rec.patch.digest.before = rec.inv.patch.paths
    /\ DOMAIN rec.patch.digest.after = rec.inv.patch.paths
    /\ \A x \in rec.inv.patch.paths :
         rec.patch.digest.after[x] = rec.inv.patch.rewrite[rec.patch.digest.before[x]]

LineageStep(step, rec, all) ==
  /\ Descends(rec, all) /\ SnapshotFits(rec)
  /\ step \in {"baseline", "investigate", "patch"} => rec.kind = "run"
  /\ step # "persist" /\ rec.parent # 0 => rec.ledger = all[rec.parent].ledger
  /\ step = "restore" => /\ rec.parent # 0
                         /\ rec.patch = all[rec.parent].patch /\ ~rec.patch.rolledBack
  /\ rec.kind = "rollback" => step \in {"restore", "persist"}
  /\ step = "persist" => TakesBack(rec, all) /\ (rec.kind = "rollback" => ~rec.verif.mutated)

LineageStored(i, s, all) ==
  /\ Descends(s, all) /\ TakesBack(s, all) /\ SnapshotFits(s)
  /\ s.parent < i
  /\ s.kind = "rollback" => s.fix = "proposed"

Lines ==
  /\ \A i \in Stored : LineageStored(i, sessions[i], sessions)
  /\ \A p \in Proc : LineageStep(op[p].step, op[p].rec, sessions)

\* A record with the patch, and a patch state with the snapshot, of one it fits.
LEMMA FitsToo ==
  ASSUME NEW rec, NEW r, NEW id, NEW digest, SnapshotFits(rec),
         rec.patch.snapshot = id, r.patch.snapshot = id, r.inv = rec.inv,
         rec.patch.digest = digest, r.patch.digest = digest,
         r.patch.applied \/ r.patch.rolledBack
  PROVE  SnapshotFits(r)
<1> SUFFICES ASSUME id # 0 PROVE SnapshotFits(r)
  BY DEF SnapshotFits
<1>1. /\ DOMAIN digest.before = rec.inv.patch.paths
      /\ DOMAIN digest.after = rec.inv.patch.paths
      /\ \A x \in rec.inv.patch.paths :
           digest.after[x] = rec.inv.patch.rewrite[digest.before[x]]
  BY Zenon DEF SnapshotFits
<1> QED
  BY <1>1, Zenon DEF SnapshotFits

\* A step of one process that stores nothing.
LEMMA OneProcessLines ==
  ASSUME Inv, Lines, NEW p \in Proc, NEW step, NEW ctx, NEW r, sessions' = sessions,
         op' = [op EXCEPT ![p] = [step |-> step, ctx |-> ctx, rec |-> r]],
         LineageStep(step, r, sessions)
  PROVE  Lines'
<1>1. op'[p] = [step |-> step, ctx |-> ctx, rec |-> r] /\ \A q \in Proc \ {p} : op'[q] = op[q]
  BY DEF Inv, TypeOK
<1>2. \A i \in DOMAIN sessions' : LineageStored(i, sessions'[i], sessions')
  BY DEF Lines, Stored
<1>3. \A q \in Proc : LineageStep(op'[q].step, op'[q].rec, sessions')
  BY <1>1 DEF Lines
<1> QED
  BY <1>2, <1>3 DEF Lines, Stored

\* A process moves on with a record that has the same lineage and patch.
LEMMA SameLineage ==
  ASSUME Inv, Lines, NEW p \in Proc, NEW step, NEW r, Go(p, step, r),
         sessions' = sessions, LineageStep(step, r, sessions)
  PROVE  Lines'
BY OneProcessLines DEF Go

\* A run that has not stored yet has no parent.
LEMMA RunSteps ==
  ASSUME Inv, Lines, NEW p \in Proc,
         \/ \E c \in Cmd : RunBaseline(p, c)
         \/ ReadEvidence(p) \/ Investigate(p) \/ DecideApply(p)
         \/ CheckOnly(p) \/ ObserveRun(p) \/ ObserveApply(p) \/ SkipVerify(p)
  PROVE  Lines'
<1>1. op[p].rec \in Record /\ LineageStep(op[p].step, op[p].rec, sessions)
  BY RecordFacts DEF Lines
<1> DEFINE rec == op[p].rec
<1>2. ASSUME op[p].step \in {"baseline", "investigate", "patch"} \/ rec.kind = "run",
             NEW step \in {"investigate", "patch", "transact", "observe", "verify", "persist"},
             NEW r, Go(p, step, r), UNCHANGED <<sessions, snaps>>,
             r.kind = rec.kind, r.parent = rec.parent, r.patch = rec.patch,
             r.inv = rec.inv \/ rec.patch.snapshot = 0
      PROVE  Lines'
  <2>1. r.kind = "run" /\ r.parent = 0
    BY <1>1, <1>2 DEF LineageStep, Descends
  <2>2. SnapshotFits(r)
    BY <1>1, <1>2 DEF LineageStep, SnapshotFits
  <2>3. LineageStep(step, r, sessions)
    BY <1>2, <2>1, <2>2 DEF LineageStep, Descends, TakesBack
  <2> QED
    BY <1>2, <2>3, SameLineage
<1>3. ASSUME NEW c \in Cmd, RunBaseline(p, c) PROVE Lines'
  <2>1. PICK results \in Runs, files \in FilesAfterCommand(ws.files) :
          Go(p, "investigate", [rec EXCEPT !.evidence.command = c,
                                           !.evidence.reproduction = Summarize(c, results),
                                           !.base = files])
    BY <1>3 DEF RunBaseline
  <2> DEFINE r == [rec EXCEPT !.evidence.command = c,
                              !.evidence.reproduction = Summarize(c, results), !.base = files]
  <2>2. r.kind = rec.kind /\ r.parent = rec.parent /\ r.patch = rec.patch /\ r.inv = rec.inv
    BY <1>1 DEF Record
  <2>3. Go(p, "investigate", r) /\ UNCHANGED <<sessions, snaps>> /\ op[p].step = "baseline"
    BY <1>3, <2>1 DEF RunBaseline, At
  <2> HIDE DEF r, rec
  <2> QED
    BY <1>2, <2>2, <2>3
<1>4. CASE ReadEvidence(p)
  <2> DEFINE r == [rec EXCEPT !.base = ws.files]
  <2>2. r.kind = rec.kind /\ r.parent = rec.parent /\ r.patch = rec.patch /\ r.inv = rec.inv
    BY <1>1 DEF Record
  <2>3. Go(p, "investigate", r) /\ UNCHANGED <<sessions, snaps>> /\ op[p].step = "baseline"
    BY <1>4 DEF ReadEvidence, At
  <2> HIDE DEF r, rec
  <2> QED
    BY <1>2, <2>2, <2>3
<1>5. CASE Investigate(p)
  <2>1. PICK inv \in Answers :
          Go(p, "patch", [rec EXCEPT !.inv = inv, !.ledger = CreateLedger(inv)])
    BY <1>5 DEF Investigate
  <2> DEFINE r == [rec EXCEPT !.inv = inv, !.ledger = CreateLedger(inv)]
  <2>2. r.kind = rec.kind /\ r.parent = rec.parent /\ r.patch = rec.patch
    BY <1>1 DEF Record
  <2>3. Go(p, "patch", r) /\ UNCHANGED <<sessions, snaps>> /\ op[p].step = "investigate"
    BY <1>5, <2>1 DEF Investigate, At
  <2>4. rec.patch.snapshot = 0
    BY <2>3 DEF Inv, StepInv
  <2> HIDE DEF r, rec
  <2> QED
    BY <1>2, <2>2, <2>3, <2>4
<1>6. CASE DecideApply(p) \/ CheckOnly(p) \/ SkipVerify(p)
  <2>1. /\ Go(p, "transact", rec) \/ Go(p, "observe", rec) \/ Go(p, "persist", rec)
        /\ UNCHANGED <<sessions, snaps>>
        /\ op[p].step = "patch" \/ rec.kind = "run"
    BY <1>6 DEF DecideApply, CheckOnly, SkipVerify, At
  <2> HIDE DEF rec
  <2> QED
    BY <1>2, <2>1
<1>7. CASE ObserveRun(p)
  <2> DEFINE verif == MakeVerification(rec.evidence.reproduction, NoSummary,
                                       Moved(rec.evidence.fp, Fingerprint(ws)), NoCmd, 0)
             r == [rec EXCEPT !.seen = ws.files, !.verif = verif]
  <2>1. Go(p, "verify", r) /\ UNCHANGED <<sessions, snaps>> /\ rec.kind = "run"
    BY <1>7 DEF ObserveRun
  <2> HIDE DEF verif
  <2>2. r.kind = rec.kind /\ r.parent = rec.parent /\ r.patch = rec.patch /\ r.inv = rec.inv
    BY <1>1 DEF Record
  <2> HIDE DEF r, rec
  <2> QED
    BY <1>2, <2>1, <2>2
<1>8. CASE ObserveApply(p)
  <2> DEFINE verif == MakeVerification(rec.evidence.reproduction, NoSummary,
                                       op[p].ctx # Fingerprint(ws), NoCmd, 0)
             r == [rec EXCEPT !.seen = ws.files, !.verif = verif]
  <2>1. Go(p, "persist", r) /\ UNCHANGED <<sessions, snaps>> /\ rec.kind = "apply"
        /\ op[p].step = "observe"
    BY <1>8 DEF ObserveApply, At
  <2> HIDE DEF verif
  <2>2. /\ r.kind = rec.kind /\ r.parent = rec.parent /\ r.patch = rec.patch /\ r.inv = rec.inv
        /\ r.evidence = rec.evidence /\ r.ledger = rec.ledger
    BY <1>1 DEF Record
  <2>3. Descends(rec, sessions) /\ SnapshotFits(rec) /\ op[p].step # "persist"
    BY <1>1, <2>1 DEF LineageStep
  <2> HIDE DEF r, rec
  <2>4. Descends(r, sessions)
    BY <2>2, <2>3 DEF Descends
  <2>5. SnapshotFits(r)
    BY <2>2, <2>3 DEF SnapshotFits
  <2>6. LineageStep("persist", r, sessions)
    BY <2>1, <2>2, <2>4, <2>5 DEF LineageStep, TakesBack
  <2> QED
    BY <2>1, <2>6, SameLineage
<1> QED
  BY <1>3, <1>4, <1>5, <1>6, <1>7, <1>8

\* A new run has neither a parent nor a snapshot.
LEMMA NewRecordLines ==
  ASSUME NEW w, NEW step \in {"idle", "baseline"}, NEW all
  PROVE  /\ LineageStep(step, NewRecord(w), all)
         /\ ~NewRecord(w).patch.applied
BY DEF NewRecord, EmptyPatch, LineageStep, Descends, SnapshotFits

LEMMA IdleLines ==
  ASSUME NEW all
  PROVE  LineageStep(Idle.step, Idle.rec, all)
BY NewRecordLines DEF Idle

LEMMA StartRunLines == ASSUME Inv, Lines, NEW p \in Proc, StartRun(p) PROVE Lines'
<1>1. LineageStep("baseline", NewRecord(ws), sessions)
  BY NewRecordLines
<1> QED
  BY <1>1, OneProcessLines DEF StartRun, Begin

\* A child is its parent's, ledger and patch included.
LEMMA ChildLines ==
  ASSUME Inv, Lines, NEW p \in Proc, NEW i \in DOMAIN sessions, NEW mutated,
         NEW step, NEW kind,
         \/ step = "verify" /\ kind = "resume"
         \/ step = "transact" /\ kind = "apply"
         \/ step = "restore" /\ kind = "rollback" /\ ~sessions[i].patch.rolledBack,
         Begin(p, step, Child(i, kind, mutated, ws)), UNCHANGED <<snaps, sessions>>
  PROVE  Lines'
<1> DEFINE r == Child(i, kind, mutated, ws)
<1>1. /\ sessions[i] \in Record /\ LineageStored(i, sessions[i], sessions)
      /\ i \in Nat /\ i # 0
  BY DEF Inv, TypeOK, Lines, Stored
<1>2. /\ r.kind = kind /\ r.parent = i /\ r.evidence = sessions[i].evidence
      /\ r.inv = sessions[i].inv /\ r.ledger = sessions[i].ledger
      /\ r.patch = sessions[i].patch
  BY <1>1 DEF Child, Record
<1>3. op' = [op EXCEPT ![p] = [step |-> step, ctx |-> Fingerprint(ws), rec |-> r]]
  BY DEF Begin
<1> HIDE DEF r
<1>4. SnapshotFits(r)
  BY <1>1, <1>2 DEF LineageStored, SnapshotFits
<1>5. Descends(r, sessions)
  BY <1>1, <1>2 DEF Descends
<1>6. LineageStep(step, r, sessions)
  BY <1>1, <1>2, <1>4, <1>5 DEF LineageStep
<1> QED
  BY <1>1, <1>3, <1>6, OneProcessLines

\* The three operations that start on a stored session.
LEMMA ChildStartsLines ==
  ASSUME Inv, Lines, NEW p \in Proc, NEW i \in DOMAIN sessions,
         StartResume(p, i) \/ StartApply(p, i) \/ StartRollback(p, i)
  PROVE  Lines'
BY ChildLines DEF StartResume, StartApply, StartRollback, NotConsumed

\* A verification may confirm one supported hypothesis, and changes nothing else.
LEMMA VerifyLines ==
  ASSUME Inv, Bound, Lines, NEW p \in Proc, NEW c \in Cmd, Verify(p, c) PROVE Lines'
<1>1. PICK results \in Runs, files \in FilesAfterCommand(ws.files) :
        LET rec   == op[p].rec
            after == Summarize(c, results)
            verif == MakeVerification(rec.evidence.reproduction, after, rec.verif.mutated, c, 0)
        IN Go(p, "persist",
              [rec EXCEPT !.verif = verif,
                          !.ledger = IF verif.status = "passed"
                                     THEN ConfirmSupported(@, rec.inv.ids,
                                                           rec.evidence.reproduction, after)
                                     ELSE @])
  BY DEF Verify
<1> DEFINE rec == op[p].rec
           after == Summarize(c, results)
           verif == MakeVerification(rec.evidence.reproduction, after, rec.verif.mutated, c, 0)
           ledger == IF verif.status = "passed"
                     THEN ConfirmSupported(rec.ledger, rec.inv.ids,
                                           rec.evidence.reproduction, after)
                     ELSE rec.ledger
           r == [rec EXCEPT !.verif = verif, !.ledger = ledger]
<1>2. /\ rec \in Record /\ LineageStep("verify", rec, sessions)
      /\ rec.kind \in {"run", "resume"} /\ UNCHANGED <<snaps, sessions>>
  BY RecordFacts DEF Lines, Bound, BoundStep, Verify, At
<1>3. Go(p, "persist", r)
  BY <1>1
<1> HIDE DEF after, verif
<1>4. \A h \in Hyp : ledger[h] # rec.ledger[h] =>
                       ledger[h] = "confirmed" /\ rec.ledger[h] = "supported"
  BY <1>2 DEF ConfirmSupported, ConfirmHypothesis, FirstSupported, Record
<1> HIDE DEF ledger
<1>5. /\ r.kind = rec.kind /\ r.parent = rec.parent /\ r.evidence = rec.evidence
      /\ r.inv = rec.inv /\ r.patch = rec.patch /\ r.ledger = ledger
  BY <1>2 DEF Record
<1> HIDE DEF r, rec
<1>6. rec.parent # 0 => rec.ledger = sessions[rec.parent].ledger
  BY <1>2 DEF LineageStep
<1>7. Descends(r, sessions)
  BY <1>2, <1>4, <1>5, <1>6 DEF LineageStep, Descends
<1>8. SnapshotFits(r)
  BY <1>2, <1>5 DEF LineageStep, SnapshotFits
<1>9. LineageStep("persist", r, sessions)
  BY <1>2, <1>5, <1>7, <1>8 DEF LineageStep, TakesBack
<1> QED
  BY <1>2, <1>3, <1>9, SameLineage

\* A rollback takes back the snapshot its parent's patch state names.
LEMMA RestoreLines == ASSUME Inv, Lines, NEW p \in Proc, Restore(p) PROVE Lines'
<1> DEFINE rec == op[p].rec
           id == rec.patch.snapshot
           verif == MakeVerification(rec.evidence.reproduction, NoSummary, FALSE, NoCmd, id)
           r == [rec EXCEPT !.patch = RolledBackPatch(rec.patch), !.rollback = id, !.verif = verif]
<1>1. /\ rec \in Record /\ LineageStep("restore", rec, sessions)
      /\ id # 0 /\ UNCHANGED <<snaps, sessions>>
  BY RecordFacts DEF Lines, Restore, At, Inv, StepInv
<1>2. Go(p, "persist", r)
  BY DEF Restore
<1>3. ~verif.mutated
  BY DEF MakeVerification
<1> HIDE DEF verif
<1>4. /\ ~RolledBackPatch(rec.patch).applied /\ RolledBackPatch(rec.patch).rolledBack
      /\ RolledBackPatch(rec.patch).snapshot = id
      /\ RolledBackPatch(rec.patch).digest = rec.patch.digest
  BY <1>1 DEF RolledBackPatch, Record, PatchState
<1>5. /\ r.kind = rec.kind /\ r.parent = rec.parent /\ r.evidence = rec.evidence
      /\ r.inv = rec.inv /\ r.ledger = rec.ledger /\ r.patch = RolledBackPatch(rec.patch)
      /\ r.verif = verif /\ r.rollback = id
  BY <1>1 DEF Record
<1>6. /\ Descends(rec, sessions) /\ SnapshotFits(rec)
      /\ rec.parent # 0 /\ rec.patch = sessions[rec.parent].patch /\ ~rec.patch.rolledBack
  BY <1>1 DEF LineageStep
<1>7. sessions[rec.parent].patch.applied /\ sessions[rec.parent].patch.snapshot = id
  BY <1>1, <1>6 DEF SnapshotFits
<1> HIDE DEF r, rec, id
<1>8. Descends(r, sessions)
  BY <1>5, <1>6 DEF Descends
<1>9. SnapshotFits(r)
  <2>1. /\ r.patch.snapshot = id /\ rec.patch.snapshot = id /\ r.inv = rec.inv
        /\ r.patch.digest = rec.patch.digest
    BY <1>4, <1>5 DEF id
  <2>2. r.patch.applied \/ r.patch.rolledBack
    BY <1>4, <1>5, Zenon
  <2> QED
    BY <1>6, <2>1, <2>2, FitsToo
<1>10. TakesBack(r, sessions)
  BY <1>1, <1>4, <1>5, <1>6, <1>7 DEF TakesBack
<1>11. LineageStep("persist", r, sessions)
  BY <1>3, <1>5, <1>8, <1>9, <1>10 DEF LineageStep
<1> QED
  BY <1>1, <1>2, <1>11, SameLineage

\* A transaction records what it found and what it left.
LEMMA TransactLines == ASSUME Inv, Lines, NEW p \in Proc, Transact(p) PROVE Lines'
<1> DEFINE rec == op[p].rec
           d == rec.inv.patch
           before == Taken(ws.files, d.paths)
           after == Taken(Patched(d, ws.files), d.paths)
           snap == [before |-> before, after |-> after]
<1>1. /\ rec \in Record /\ LineageStep("transact", rec, sessions) /\ sessions' = sessions
  BY RecordFacts DEF Lines, Transact, At
<1>2. d \in Patch
  BY <1>1, RecordFacts DEF Transact, At, Inv, StepInv, Record, Investigation
<1>3. d.paths \in SUBSET Path
  BY <1>2, SessionConstants
<1>4. /\ DOMAIN before = d.paths /\ DOMAIN after = d.paths
      /\ \A x \in d.paths : after[x] = d.rewrite[before[x]]
  BY <1>3 DEF Taken, Patched
<1>5. PICK id :
        Go(p, "observe", [rec EXCEPT !.patch = [applied |-> TRUE, snapshot |-> id,
                                                rolledBack |-> FALSE, digest |-> snap]])
  BY DEF Transact
<1> DEFINE state == [applied |-> TRUE, snapshot |-> id, rolledBack |-> FALSE, digest |-> snap]
           r == [rec EXCEPT !.patch = state]
<1>6. Go(p, "observe", r)
  BY <1>5
<1> HIDE DEF before, after
<1>7. /\ state.applied /\ ~state.rolledBack
      /\ state.digest.before = before /\ state.digest.after = after
  OBVIOUS
<1> HIDE DEF state
<1>8. /\ r.kind = rec.kind /\ r.parent = rec.parent /\ r.evidence = rec.evidence
      /\ r.inv = rec.inv /\ r.ledger = rec.ledger /\ r.patch = state
  BY <1>1 DEF Record
<1> HIDE DEF r
<1>9. SnapshotFits(r)
  <2>1. r.inv.patch = d /\ r.patch = state
    BY <1>8
  <2> HIDE DEF d
  <2> QED
    BY <1>4, <1>7, <2>1, Zenon DEF SnapshotFits
<1> HIDE DEF d, rec
<1>10. Descends(r, sessions)
  BY <1>1, <1>8 DEF LineageStep, Descends
<1>11. LineageStep("observe", r, sessions)
  BY <1>1, <1>8, <1>9, <1>10 DEF LineageStep
<1> QED
  BY <1>1, <1>6, <1>11, SameLineage

\* A longer list of sessions holds the same parents.
LEMMA ParentsStay ==
  ASSUME NEW all, NEW more, NEW step, NEW rec,
         \A i \in DOMAIN all : i \in DOMAIN more /\ more[i] = all[i]
  PROVE  /\ Descends(rec, all) => Descends(rec, more)
         /\ Descends(rec, all) /\ TakesBack(rec, all) => TakesBack(rec, more)
         /\ LineageStep(step, rec, all) => LineageStep(step, rec, more)
<1>1. ASSUME Descends(rec, all), rec.parent # 0
      PROVE  rec.parent \in DOMAIN more /\ more[rec.parent] = all[rec.parent]
  BY <1>1 DEF Descends
<1>2. Descends(rec, all) => Descends(rec, more)
  BY <1>1 DEF Descends
<1>3. Descends(rec, all) /\ TakesBack(rec, all) => TakesBack(rec, more)
  BY <1>1 DEF TakesBack
<1>4. ASSUME LineageStep(step, rec, all) PROVE LineageStep(step, rec, more)
  <2>1. Descends(rec, all)
    BY <1>4 DEF LineageStep
  <2>2. rec.parent # 0 => more[rec.parent] = all[rec.parent]
    BY <1>1, <2>1
  <2> QED
    BY <1>2, <1>3, <1>4, <2>1, <2>2 DEF LineageStep
<1> QED
  BY <1>2, <1>3, <1>4

\* What a rollback stores is "proposed": it has no verdict, saw no mutation and
\* holds no applied patch, but an accepted one.
LEMMA RollbackStatus ==
  ASSUME Inv, Bound, Lines, NEW p \in Proc, op[p].step = "persist", op[p].rec.kind = "rollback"
  PROVE  FinalStatus(op[p].rec) = "proposed"
<1> DEFINE rec == op[p].rec
<1>1. rec.verif.status = "not-run"
  BY DEF Bound, BoundStep, BoundRecord
<1>2. ~rec.patch.applied /\ rec.patch.snapshot # 0 /\ ~rec.verif.mutated
  BY DEF Lines, LineageStep, TakesBack
<1>3. rec.inv.patch # NoPatch
  BY <1>2, RecordFacts DEF AuthorizedRecord
<1> HIDE DEF rec
<1>4. rec.kind = "rollback"
  BY DEF rec
<1>5. DetermineFixStatus(rec.inv, rec.patch, rec.verif) = "proposed"
  BY <1>1, <1>2, <1>3 DEF DetermineFixStatus
<1>6. FinalStatus(rec) = "proposed"
  BY <1>4, <1>5 DEF FinalStatus
<1> QED
  BY <1>6 DEF rec

\* What Persist appends, and what is left of the record.
LEMMA Appended ==
  ASSUME Inv, NEW p \in Proc, Persist(p),
         NEW s, s = [op[p].rec EXCEPT !.fix = FinalStatus(op[p].rec)]
  PROVE  /\ s.kind = op[p].rec.kind /\ s.parent = op[p].rec.parent
         /\ s.evidence = op[p].rec.evidence /\ s.inv = op[p].rec.inv
         /\ s.ledger = op[p].rec.ledger /\ s.patch = op[p].rec.patch
         /\ s.rollback = op[p].rec.rollback /\ s.fix = FinalStatus(op[p].rec)
         /\ Len(sessions) \in Nat /\ DOMAIN sessions = 1..Len(sessions)
         /\ DOMAIN sessions' = 1..(Len(sessions) + 1)
         /\ \A i \in DOMAIN sessions : sessions'[i] = sessions[i]
         /\ sessions'[Len(sessions) + 1] = s
         /\ op' = [op EXCEPT ![p] = Idle] /\ snaps' = snaps
<1>1. op[p].rec \in Record
  BY RecordFacts
<1>2. /\ s.kind = op[p].rec.kind /\ s.parent = op[p].rec.parent
      /\ s.evidence = op[p].rec.evidence /\ s.inv = op[p].rec.inv
      /\ s.ledger = op[p].rec.ledger /\ s.patch = op[p].rec.patch
      /\ s.rollback = op[p].rec.rollback /\ s.fix = FinalStatus(op[p].rec)
  BY <1>1 DEF Record
<1>3. /\ sessions' = Append(sessions, s) /\ op' = [op EXCEPT ![p] = Idle] /\ snaps' = snaps
  BY DEF Persist
<1>4. sessions \in Seq(Record)
  BY DEF Inv, TypeOK
<1> QED
  BY <1>2, <1>3, <1>4

\* Storing a session.
LEMMA PersistLines == ASSUME Inv, Bound, Lines, NEW p \in Proc, Persist(p) PROVE Lines'
<1>1. PICK s : s = [op[p].rec EXCEPT !.fix = FinalStatus(op[p].rec)]
  OBVIOUS
<1> DEFINE rec == op[p].rec
           all == sessions
           more == sessions'
           n == Len(sessions) + 1
<1>2. /\ s.kind = rec.kind /\ s.parent = rec.parent /\ s.evidence = rec.evidence
      /\ s.inv = rec.inv /\ s.ledger = rec.ledger /\ s.patch = rec.patch
      /\ s.rollback = rec.rollback /\ s.fix = FinalStatus(rec)
      /\ snaps' = snaps /\ op' = [op EXCEPT ![p] = Idle]
  BY <1>1, Appended
<1>3. /\ n \in Nat /\ n > 0 /\ DOMAIN all = 1..(n - 1) /\ DOMAIN more = 1..n /\ more[n] = s
      /\ \A i \in DOMAIN all : i \in DOMAIN more /\ more[i] = all[i]
  <2>1. /\ Len(sessions) \in Nat /\ DOMAIN all = 1..Len(sessions)
        /\ DOMAIN more = 1..(Len(sessions) + 1) /\ more[Len(sessions) + 1] = s
        /\ \A i \in DOMAIN all : more[i] = all[i]
    BY <1>1, Appended
  <2> HIDE DEF all, more
  <2> QED
    BY <2>1
<1>4. op[p].step = "persist" /\ LineageStep("persist", rec, all)
  BY DEF Persist, At, Lines
<1>5. s.kind = "rollback" => s.fix = "proposed"
  BY <1>2, <1>4, RollbackStatus
<1>6. op \in [Proc -> Operation]
  BY DEF Inv, TypeOK
<1> HIDE DEF rec, n, all, more
<1>7. Descends(rec, all) /\ TakesBack(rec, all) /\ SnapshotFits(rec)
  BY <1>4 DEF LineageStep
<1>8. Descends(rec, more) /\ TakesBack(rec, more)
  BY <1>3, <1>7, ParentsStay
<1>9. Descends(s, more) /\ SnapshotFits(s)
  <2>1. Descends(s, more)
    BY <1>2, <1>8 DEF Descends
  <2>2. SnapshotFits(s)
    BY <1>2, <1>7, Zenon DEF SnapshotFits
  <2> QED
    BY <2>1, <2>2
<1>10. TakesBack(s, more)
  BY <1>2, <1>8 DEF TakesBack
<1>11. s.parent < n
  BY <1>2, <1>3, <1>7 DEF Descends
<1>12. LineageStored(n, more[n], more)
  BY <1>3, <1>5, <1>9, <1>10, <1>11 DEF LineageStored
<1>13. ASSUME NEW i \in DOMAIN all PROVE LineageStored(i, more[i], more)
  <2>1. LineageStored(i, all[i], all)
    BY <1>13 DEF Lines, Stored, all
  <2>2. Descends(all[i], more) /\ TakesBack(all[i], more)
    BY <1>3, <2>1, ParentsStay DEF LineageStored
  <2> QED
    BY <1>3, <2>1, <2>2 DEF LineageStored
<1>14. \A i \in DOMAIN more : LineageStored(i, more[i], more)
  BY <1>3, <1>12, <1>13
<1>15. ASSUME NEW q \in Proc PROVE LineageStep(op'[q].step, op'[q].rec, more)
  <2>1. CASE q = p
    BY <1>2, <1>6, <2>1, IdleLines
  <2>2. CASE q # p
    <3>1. LineageStep(op[q].step, op[q].rec, all)
      BY DEF Lines, all
    <3>2. LineageStep(op[q].step, op[q].rec, more)
      BY <1>3, <3>1, ParentsStay
    <3> QED
      BY <1>2, <1>6, <2>2, <3>2
  <2> QED
    BY <2>1, <2>2
<1> QED
  BY <1>2, <1>14, <1>15 DEF Lines, Stored, more

\* Ending without a session.
LEMMA AbandonLines == ASSUME Inv, Lines, NEW p \in Proc, Abandon(p) PROVE Lines'
<1>1. /\ op' = [op EXCEPT ![p] = Idle] /\ sessions' = sessions /\ snaps' = snaps
      /\ op \in [Proc -> Operation]
  BY DEF Abandon, Inv, TypeOK
<1>2. ASSUME NEW q \in Proc PROVE LineageStep(op'[q].step, op'[q].rec, sessions)
  <2>1. CASE q = p
    BY <1>1, <2>1, IdleLines
  <2>2. CASE q # p
    BY <1>1, <2>2 DEF Lines
  <2> QED
    BY <2>1, <2>2
<1>3. \A i \in DOMAIN sessions : LineageStored(i, sessions[i], sessions)
  BY DEF Lines, Stored
<1> QED
  BY <1>1, <1>2, <1>3 DEF Lines, Stored

\* Lineage holds initially.
LEMMA InitLines == Init => Lines
BY IdleLines DEF Init, Lines, Stored

\* Every step preserves lineage.
LEMMA NextLines == Inv /\ Bound /\ Lines /\ [Next]_vars => Lines'
<1> SUFFICES ASSUME Inv, Bound, Lines, [Next]_vars PROVE Lines'
  OBVIOUS
<1>1. CASE UNCHANGED <<snaps, sessions, op>>
  BY <1>1 DEF Lines, Stored
<1>2. CASE UNCHANGED vars
  BY <1>1, <1>2 DEF vars
<1>3. CASE User
  BY <1>1, <1>3 DEF User, Edit, MoveHead
<1>4. ASSUME NEW p \in Proc, RunStep(p) PROVE Lines'
  BY <1>4, StartRunLines, RunSteps, VerifyLines DEF RunStep
<1>5. ASSUME NEW p \in Proc, ChildStep(p) PROVE Lines'
  BY <1>5, RunSteps, RestoreLines, ChildStartsLines DEF ChildStep
<1>6. ASSUME NEW p \in Proc, Transact(p) \/ Persist(p) \/ Abandon(p) PROVE Lines'
  BY <1>6, TransactLines, PersistLines, AbandonLines
<1> QED
  BY <1>2, <1>3, <1>4, <1>5, <1>6 DEF Next

\* Inv, Bound and Lines together are inductive.
LEMMA LinesHold == Spec => [](Inv /\ Bound /\ Lines)
BY InitInv, NextInv, InitBound, NextBound, InitLines, NextLines, PTL DEF Spec

\* The child a rollback stores is "proposed", its patch taken back, whatever
\* verdict the parent had reached, and the parent had applied what it took back
\* (src/debug.js:220-293).
THEOREM RollbackIsProposed == Spec => []RollbackChildIsProposed
<1>1. Lines => RollbackChildIsProposed
  BY DEF Lines, LineageStored, TakesBack, RollbackChildIsProposed
<1> QED
  BY <1>1, LinesHold, PTL

\* However long the chain of resumes, applies and rollbacks, a session has the
\* evidence and the investigation of the run it began with, and a ledger in which
\* only supported hypotheses were confirmed (src/debug.js:171-293).
THEOREM EvidenceIsKept == Spec => []ChildKeepsEvidence
<1>1. Lines => ChildKeepsEvidence
  BY DEF Lines, LineageStored, Descends, ChildKeepsEvidence
<1> QED
  BY <1>1, LinesHold, PTL

-------------------------------------------------------------------------------
(* Confirmations: each is paid for by a verified session of its own.       *)

\* What a record has confirmed and its parent had not.
Gained(rec, all) ==
  {h \in Hyp : /\ rec.ledger[h] = "confirmed"
               /\ rec.parent # 0 => all[rec.parent].ledger[h] # "confirmed"}

\* Only a passing verification gains a confirmation, and only of one id.
EarnedStep(step, rec, all) ==
  /\ Gained(rec, all) # {} => step = "persist" /\ rec.verif.status = "passed"
  /\ \A g, h \in Gained(rec, all) : rec.inv.ids[g] = rec.inv.ids[h]

Earned == \A p \in Proc : EarnedStep(op[p].step, op[p].rec, sessions)

\* A step of one process that stores nothing.
LEMMA OneProcessEarned ==
  ASSUME Inv, Earned, NEW p \in Proc, NEW step, NEW ctx, NEW r, sessions' = sessions,
         op' = [op EXCEPT ![p] = [step |-> step, ctx |-> ctx, rec |-> r]],
         EarnedStep(step, r, sessions)
  PROVE  Earned'
<1>1. op'[p] = [step |-> step, ctx |-> ctx, rec |-> r] /\ \A q \in Proc \ {p} : op'[q] = op[q]
  BY DEF Inv, TypeOK
<1>2. \A q \in Proc : EarnedStep(op'[q].step, op'[q].rec, sessions)
  BY <1>1 DEF Earned
<1> QED
  BY <1>2 DEF Earned

\* A step that keeps the ledger gains nothing.
LEMMA SameLedger ==
  ASSUME Inv, Earned, NEW p \in Proc, NEW step, NEW r, Go(p, step, r), sessions' = sessions,
         r.ledger = op[p].rec.ledger, r.parent = op[p].rec.parent, op[p].step # "persist"
  PROVE  Earned'
<1>1. Gained(op[p].rec, sessions) = {}
  BY DEF Earned, EarnedStep
<1>2. Gained(r, sessions) = Gained(op[p].rec, sessions)
  BY DEF Gained
<1>3. EarnedStep(step, r, sessions)
  BY <1>1, <1>2 DEF EarnedStep
<1> QED
  BY <1>3, OneProcessEarned DEF Go

\* A new ledger confirms nothing: createHypothesisLedger normalizes a model's
\* "confirmed" (src/hypothesis-ledger.js).
LEMMA NewLedger == ASSUME NEW inv, NEW h \in Hyp PROVE CreateLedger(inv)[h] # "confirmed"
BY DEF CreateLedger, NormalizeHypothesis

LEMMA NewRecordEarned ==
  ASSUME NEW w, NEW step, NEW all PROVE EarnedStep(step, NewRecord(w), all)
<1>1. NewRecord(w).ledger = CreateLedger(DeterministicInvestigation)
  BY DEF NewRecord
<1>2. Gained(NewRecord(w), all) = {}
  BY <1>1, NewLedger DEF Gained
<1> QED
  BY <1>2 DEF EarnedStep

LEMMA IdleEarned == ASSUME NEW all PROVE EarnedStep(Idle.step, Idle.rec, all)
BY NewRecordEarned DEF Idle

\* The investigation step starts the ledger afresh.
LEMMA InvestigateEarned ==
  ASSUME Inv, Earned, NEW p \in Proc, Investigate(p) PROVE Earned'
<1>1. PICK inv \in Answers :
        Go(p, "patch", [op[p].rec EXCEPT !.inv = inv, !.ledger = CreateLedger(inv)])
  BY DEF Investigate
<1> DEFINE r == [op[p].rec EXCEPT !.inv = inv, !.ledger = CreateLedger(inv)]
<1>2. op[p].rec \in Record
  BY RecordFacts
<1>3. Go(p, "patch", r) /\ sessions' = sessions
  BY <1>1 DEF Investigate
<1>4. r.ledger = CreateLedger(inv)
  BY <1>2 DEF Record
<1> HIDE DEF r
<1>5. Gained(r, sessions) = {}
  BY <1>4, NewLedger DEF Gained
<1>6. EarnedStep("patch", r, sessions)
  BY <1>5 DEF EarnedStep
<1> QED
  BY <1>3, <1>6, OneProcessEarned DEF Go

\* The other steps of an operation that keep the ledger.
LEMMA PlainStepsEarned ==
  ASSUME Inv, Earned, NEW p \in Proc,
         \/ \E c \in Cmd : RunBaseline(p, c)
         \/ ReadEvidence(p) \/ DecideApply(p) \/ CheckOnly(p) \/ Transact(p)
         \/ ObserveRun(p) \/ ObserveApply(p) \/ SkipVerify(p) \/ Restore(p)
  PROVE  Earned'
<1> DEFINE rec == op[p].rec
           id == rec.patch.snapshot
           d == rec.inv.patch
<1>1. rec \in Record
  BY RecordFacts
<1>2. ASSUME NEW r, NEW step, Go(p, step, r), sessions' = sessions, op[p].step # "persist",
             r.ledger = rec.ledger, r.parent = rec.parent
      PROVE  Earned'
  BY <1>2, SameLedger
<1>3. ASSUME NEW c \in Cmd, RunBaseline(p, c) PROVE Earned'
  <2>1. PICK results \in Runs, files \in FilesAfterCommand(ws.files) :
          Go(p, "investigate", [rec EXCEPT !.evidence.command = c,
                                           !.evidence.reproduction = Summarize(c, results),
                                           !.base = files])
    BY <1>3 DEF RunBaseline
  <2> DEFINE r == [rec EXCEPT !.evidence.command = c,
                              !.evidence.reproduction = Summarize(c, results), !.base = files]
  <2>2. r.ledger = rec.ledger /\ r.parent = rec.parent
    BY <1>1 DEF Record
  <2>3. Go(p, "investigate", r) /\ sessions' = sessions /\ op[p].step # "persist"
    BY <1>3, <2>1 DEF RunBaseline, At
  <2> HIDE DEF r, rec
  <2> QED
    BY <1>2, <2>2, <2>3
<1>4. CASE ReadEvidence(p)
  <2> DEFINE r == [rec EXCEPT !.base = ws.files]
  <2>1. r.ledger = rec.ledger /\ r.parent = rec.parent
    BY <1>1 DEF Record
  <2>2. Go(p, "investigate", r) /\ sessions' = sessions /\ op[p].step # "persist"
    BY <1>4 DEF ReadEvidence, At
  <2> HIDE DEF r, rec
  <2> QED
    BY <1>2, <2>1, <2>2
<1>5. CASE DecideApply(p) \/ CheckOnly(p) \/ SkipVerify(p)
  BY <1>2, <1>5 DEF DecideApply, CheckOnly, SkipVerify, At
<1>6. CASE Transact(p)
  <2>0. PICK state : Go(p, "observe", [rec EXCEPT !.patch = state]) /\ ~state.rolledBack
    BY <1>6, Transacted
  <2> DEFINE r == [rec EXCEPT !.patch = state]
  <2>1. r.ledger = rec.ledger /\ r.parent = rec.parent
    BY <1>1 DEF Record
  <2>2. Go(p, "observe", r) /\ sessions' = sessions /\ op[p].step # "persist"
    BY <1>6, <2>0 DEF Transact, At
  <2> HIDE DEF r, rec
  <2> QED
    BY <1>2, <2>1, <2>2
<1>7. CASE ObserveRun(p)
  <2> DEFINE r == [rec EXCEPT !.seen = ws.files,
                              !.verif = MakeVerification(rec.evidence.reproduction, NoSummary,
                                          Moved(rec.evidence.fp, Fingerprint(ws)), NoCmd, 0)]
  <2>1. r.ledger = rec.ledger /\ r.parent = rec.parent
    BY <1>1 DEF Record
  <2>2. Go(p, "verify", r) /\ sessions' = sessions /\ op[p].step # "persist"
    BY <1>7 DEF ObserveRun, At
  <2> HIDE DEF r, rec
  <2> QED
    BY <1>2, <2>1, <2>2
<1>8. CASE ObserveApply(p)
  <2> DEFINE r == [rec EXCEPT !.seen = ws.files,
                              !.verif = MakeVerification(rec.evidence.reproduction, NoSummary,
                                          op[p].ctx # Fingerprint(ws), NoCmd, 0)]
  <2>1. r.ledger = rec.ledger /\ r.parent = rec.parent
    BY <1>1 DEF Record
  <2>2. Go(p, "persist", r) /\ sessions' = sessions /\ op[p].step # "persist"
    BY <1>8 DEF ObserveApply, At
  <2> HIDE DEF r, rec
  <2> QED
    BY <1>2, <2>1, <2>2
<1>9. CASE Restore(p)
  <2> DEFINE r == [rec EXCEPT !.patch = RolledBackPatch(rec.patch), !.rollback = id,
                              !.verif = MakeVerification(rec.evidence.reproduction, NoSummary,
                                                         FALSE, NoCmd, id)]
  <2>1. r.ledger = rec.ledger /\ r.parent = rec.parent
    BY <1>1 DEF Record
  <2>2. Go(p, "persist", r) /\ sessions' = sessions /\ op[p].step # "persist"
    BY <1>9 DEF Restore, At
  <2> HIDE DEF r, rec
  <2> QED
    BY <1>2, <2>1, <2>2
<1> QED
  BY <1>3, <1>4, <1>5, <1>6, <1>7, <1>8, <1>9

\* At most one hypothesis is the first supported one.
LEMMA FirstIsOne ==
  ASSUME NEW ledger, NEW g \in FirstSupported(ledger), NEW h \in FirstSupported(ledger)
  PROVE  g = h
<1>1. NHyp \in Nat
  BY SessionConstants
<1> QED
  BY <1>1 DEF FirstSupported, Hyp

\* A verification that passes confirms the supported hypotheses that have the id
\* of the first, one that does not confirms none.
LEMMA VerifyEarned ==
  ASSUME Inv, Bound, Earned, NEW p \in Proc, NEW c \in Cmd, Verify(p, c) PROVE Earned'
<1>1. PICK results \in Runs, files \in FilesAfterCommand(ws.files) :
        LET rec   == op[p].rec
            after == Summarize(c, results)
            verif == MakeVerification(rec.evidence.reproduction, after, rec.verif.mutated, c, 0)
        IN Go(p, "persist",
              [rec EXCEPT !.verif = verif,
                          !.ledger = IF verif.status = "passed"
                                     THEN ConfirmSupported(@, rec.inv.ids,
                                                           rec.evidence.reproduction, after)
                                     ELSE @])
  BY DEF Verify
<1> DEFINE rec == op[p].rec
           after == Summarize(c, results)
           verif == MakeVerification(rec.evidence.reproduction, after, rec.verif.mutated, c, 0)
           ledger == IF verif.status = "passed"
                     THEN ConfirmSupported(rec.ledger, rec.inv.ids,
                                           rec.evidence.reproduction, after)
                     ELSE rec.ledger
           r == [rec EXCEPT !.verif = verif, !.ledger = ledger]
<1>2. /\ rec \in Record /\ Gained(rec, sessions) = {} /\ sessions' = sessions
      /\ Go(p, "persist", r)
  BY <1>1, RecordFacts DEF Earned, EarnedStep, Verify, At
<1> HIDE DEF after, verif
<1> DEFINE found == {rec.inv.ids[h] : h \in FirstSupported(rec.ledger)}
<1>3. \A h \in Hyp : ledger[h] # rec.ledger[h] =>
                       rec.inv.ids[h] \in found /\ verif.status = "passed"
  BY <1>2 DEF ConfirmSupported, ConfirmHypothesis
<1> HIDE DEF ledger
<1>4. r.parent = rec.parent /\ r.ledger = ledger /\ r.verif = verif /\ r.inv = rec.inv
  BY <1>2 DEF Record
<1>5. \A a, b \in found : a = b
  BY FirstIsOne
<1> HIDE DEF r, rec, found
<1>6. \A h \in Gained(r, sessions) : rec.inv.ids[h] \in found /\ verif.status = "passed"
  BY <1>2, <1>3, <1>4 DEF Gained
<1>7. EarnedStep("persist", r, sessions)
  BY <1>4, <1>5, <1>6 DEF EarnedStep
<1> QED
  BY <1>2, <1>7, OneProcessEarned DEF Go

\* A child starts with its parent's ledger.
LEMMA ChildEarned ==
  ASSUME Inv, Earned, NEW p \in Proc, NEW i \in DOMAIN sessions,
         StartResume(p, i) \/ StartApply(p, i) \/ StartRollback(p, i)
  PROVE  Earned'
<1>1. sessions' = sessions /\ sessions[i] \in Record
  <2>1. sessions \in Seq(Record)
    BY DEF Inv, TypeOK
  <2>2. sessions' = sessions
    BY DEF StartResume, StartApply, StartRollback
  <2> QED
    BY <2>1, <2>2
<1>2. ASSUME NEW step, NEW kind, NEW mutated, Begin(p, step, Child(i, kind, mutated, ws))
      PROVE  Earned'
  <2> DEFINE r == Child(i, kind, mutated, ws)
  <2>1. r.parent = i /\ r.ledger = sessions[i].ledger
    BY <1>1 DEF Child, Record
  <2>2. op' = [op EXCEPT ![p] = [step |-> step, ctx |-> Fingerprint(ws), rec |-> r]]
    BY <1>2 DEF Begin
  <2> HIDE DEF r
  <2>3. i # 0
    BY DEF Inv, TypeOK
  <2>4. Gained(r, sessions) = {}
    BY <2>1, <2>3 DEF Gained
  <2>5. EarnedStep(step, r, sessions)
    BY <2>4 DEF EarnedStep
  <2> QED
    BY <1>1, <2>2, <2>5, OneProcessEarned
<1> QED
  BY <1>2 DEF StartResume, StartApply, StartRollback

\* Storing a session leaves the parents of the others as they were.
LEMMA PersistEarned ==
  ASSUME Inv, Lines, Earned, NEW p \in Proc, Persist(p) PROVE Earned'
<1>1. PICK s : s = [op[p].rec EXCEPT !.fix = FinalStatus(op[p].rec)]
  OBVIOUS
<1>2. op' = [op EXCEPT ![p] = Idle] /\ \A i \in DOMAIN sessions : sessions'[i] = sessions[i]
  BY <1>1, Appended
<1>3. op \in [Proc -> Operation]
  BY DEF Inv, TypeOK
<1>4. ASSUME NEW q \in Proc PROVE EarnedStep(op'[q].step, op'[q].rec, sessions')
  <2>1. CASE q = p
    BY <1>2, <1>3, <2>1, IdleEarned
  <2>2. CASE q # p
    <3>1. /\ EarnedStep(op[q].step, op[q].rec, sessions) /\ op'[q] = op[q]
          /\ Descends(op[q].rec, sessions)
      BY <1>2, <1>3, <2>2 DEF Earned, Lines, LineageStep
    <3>2. Gained(op[q].rec, sessions') = Gained(op[q].rec, sessions)
      BY <1>2, <3>1 DEF Gained, Descends
    <3> QED
      BY <3>1, <3>2 DEF EarnedStep
  <2> QED
    BY <2>1, <2>2
<1> QED
  BY <1>4 DEF Earned

LEMMA InitEarned == Init => Earned
BY NewRecordEarned DEF Init, Idle, Earned

LEMMA NextEarned == Inv /\ Bound /\ Lines /\ Earned /\ [Next]_vars => Earned'
<1> SUFFICES ASSUME Inv, Bound, Lines, Earned, [Next]_vars PROVE Earned'
  OBVIOUS
<1>1. CASE UNCHANGED <<sessions, op>>
  BY <1>1 DEF Earned
<1>2. CASE UNCHANGED vars \/ User
  BY <1>1, <1>2 DEF vars, User, Edit, MoveHead
<1>3. ASSUME NEW p \in Proc, RunStep(p) PROVE Earned'
  <2>1. CASE StartRun(p)
    BY <2>1, NewRecordEarned, OneProcessEarned DEF StartRun, Begin
  <2> QED
    BY <1>3, <2>1, PlainStepsEarned, InvestigateEarned, VerifyEarned DEF RunStep
<1>4. ASSUME NEW p \in Proc, ChildStep(p) PROVE Earned'
  BY <1>4, PlainStepsEarned, ChildEarned DEF ChildStep
<1>5. ASSUME NEW p \in Proc, Abandon(p) PROVE Earned'
  <2>1. op' = [op EXCEPT ![p] = Idle] /\ sessions' = sessions /\ op \in [Proc -> Operation]
    BY <1>5 DEF Abandon, Inv, TypeOK
  <2>2. EarnedStep(Idle.step, Idle.rec, sessions)
    BY IdleEarned
  <2>3. \A q \in Proc : EarnedStep(op'[q].step, op'[q].rec, sessions)
    BY <2>1, <2>2 DEF Earned
  <2> QED
    BY <2>1, <2>3 DEF Earned
<1>6. ASSUME NEW p \in Proc, Transact(p) \/ Persist(p) PROVE Earned'
  BY <1>6, PlainStepsEarned, PersistEarned
<1> QED
  BY <1>2, <1>3, <1>4, <1>5, <1>6 DEF Next

\* Confirmed ids, counted against the verified sessions of the lineage.
Counts(f, all) ==
  f = [i \in DOMAIN all |-> (IF all[i].fix = "verified" THEN 1 ELSE 0)
                            + (IF all[i].parent = 0 THEN 0 ELSE f[all[i].parent])]

Pays(f, all) ==
  \A i \in DOMAIN all : f[i] \in Nat /\ Cardinality(ConfirmedIds(all[i])) <= f[i]

\* There is a count, and every count pays for the confirmations.
Paid ==
  /\ \E f : Counts(f, sessions)
  /\ \A f : Counts(f, sessions) => Pays(f, sessions)

\* One session more has one count more.
LEMMA CountExtends ==
  ASSUME NEW n \in Nat, NEW all, NEW more, DOMAIN all = 1..n, DOMAIN more = 1..(n + 1),
         \A i \in 1..n : /\ more[i] = all[i]
                         /\ all[i].parent # 0 => all[i].parent \in 1..n,
         more[n + 1].parent # 0 => more[n + 1].parent \in 1..n
  PROVE  /\ \A f : Counts(f, all) => \E g : Counts(g, more)
         /\ \A g : Counts(g, more) => Counts([i \in 1..n |-> g[i]], all)
<1> DEFINE V(i) == IF more[i].fix = "verified" THEN 1 ELSE 0
<1>1. ASSUME NEW f, Counts(f, all) PROVE \E g : Counts(g, more)
  <2> DEFINE last == V(n + 1) + (IF more[n + 1].parent = 0 THEN 0 ELSE f[more[n + 1].parent])
             g == [i \in 1..(n + 1) |-> IF i = n + 1 THEN last ELSE f[i]]
  <2>1. \A i \in 1..n : g[i] = f[i] /\ i \in 1..(n + 1) /\ i # n + 1
    OBVIOUS
  <2>2. \A i \in 1..n : f[i] = V(i) + (IF more[i].parent = 0 THEN 0 ELSE f[more[i].parent])
    BY <1>1 DEF Counts
  <2>3. g[n + 1] = last /\ DOMAIN g = 1..(n + 1) /\ g = [i \in 1..(n + 1) |-> g[i]]
    OBVIOUS
  <2> HIDE DEF g, V
  <2>4. \A i \in 1..(n + 1) :
          g[i] = V(i) + (IF more[i].parent = 0 THEN 0 ELSE g[more[i].parent])
    <3>1. ASSUME NEW i \in 1..n
          PROVE  g[i] = V(i) + (IF more[i].parent = 0 THEN 0 ELSE g[more[i].parent])
      BY <2>1, <2>2
    <3>2. g[n + 1] = V(n + 1) + (IF more[n + 1].parent = 0 THEN 0 ELSE g[more[n + 1].parent])
      BY <2>1, <2>3
    <3>3. \A i \in 1..(n + 1) : i \in 1..n \/ i = n + 1
      OBVIOUS
    <3> QED
      BY <3>1, <3>2, <3>3
  <2>5. Counts(g, more)
    BY <2>3, <2>4 DEF Counts, V
  <2> QED
    BY <2>5
<1>2. ASSUME NEW g, Counts(g, more) PROVE Counts([i \in 1..n |-> g[i]], all)
  <2> DEFINE f == [i \in 1..n |-> g[i]]
  <2>1. \A i \in 1..n : i \in 1..(n + 1) /\ f[i] = g[i]
    OBVIOUS
  <2>2. \A i \in 1..n : g[i] = V(i) + (IF more[i].parent = 0 THEN 0 ELSE g[more[i].parent])
    BY <1>2, <2>1 DEF Counts
  <2>3. f = [i \in 1..n |-> f[i]]
    OBVIOUS
  <2> HIDE DEF f
  <2>4. \A i \in 1..n : f[i] = V(i) + (IF all[i].parent = 0 THEN 0 ELSE f[all[i].parent])
    BY <2>1, <2>2
  <2>5. Counts(f, all)
    BY <2>3, <2>4 DEF Counts
  <2> QED
    BY <2>5 DEF f
<1> QED
  BY <1>1, <1>2

\* A session that gained at most one confirmed id, and none unless it is
\* verified, has at most as many as its parent and its own verdict account for.
LEMMA OneMore ==
  ASSUME NEW all, NEW s, s.inv.ids \in [Hyp -> Hyp],
         \A g, h \in Gained(s, all) : s.inv.ids[g] = s.inv.ids[h],
         s.parent # 0 => all[s.parent].inv = s.inv,
         NEW k \in {0, 1}, Gained(s, all) # {} => k = 1,
         NEW m \in Nat, IF s.parent = 0 THEN m = 0 ELSE Cardinality(ConfirmedIds(all[s.parent])) <= m
  PROVE  Cardinality(ConfirmedIds(s)) <= k + m
<1> DEFINE C == IF s.parent = 0 THEN {} ELSE ConfirmedIds(all[s.parent])
           G == {s.inv.ids[h] : h \in Gained(s, all)}
<1>1. NHyp \in Nat /\ IsFiniteSet(Hyp)
  BY SessionConstants, FS_Interval DEF Hyp
<1>2. C \subseteq Hyp /\ ConfirmedIds(s) \subseteq Hyp
  BY DEF ConfirmedIds, Confirmed
<1>3. IsFiniteSet(C) /\ IsFiniteSet(ConfirmedIds(s))
  BY <1>1, <1>2, FS_Subset
<1>4. Cardinality(C) \in Nat /\ Cardinality(C) <= m
  <2>1. Cardinality({}) = 0
    BY FS_EmptySet
  <2> QED
    BY <1>3, <2>1, FS_CardinalityType
<1>5. ConfirmedIds(s) \subseteq C \cup G
  BY DEF ConfirmedIds, Confirmed, Gained
<1>6. Cardinality(ConfirmedIds(s)) \in Nat
  BY <1>3, FS_CardinalityType
<1>7. CASE Gained(s, all) = {}
  <2>1. Cardinality(ConfirmedIds(s)) <= Cardinality(C)
    BY <1>3, <1>5, <1>7, FS_Subset
  <2> HIDE DEF C
  <2> QED
    BY <1>4, <1>6, <2>1
<1>8. CASE Gained(s, all) # {}
  <2>1. PICK h \in Gained(s, all) : G = {s.inv.ids[h]}
    <3>1. PICK h \in Gained(s, all) : TRUE
      BY <1>8
    <3>2. \A g \in Gained(s, all) : s.inv.ids[g] = s.inv.ids[h]
      BY <3>1
    <3>3. G = {s.inv.ids[h]}
      BY <3>1, <3>2
    <3> QED
      BY <3>1, <3>3
  <2> DEFINE id == s.inv.ids[h]
  <2>2. /\ IsFiniteSet(C \cup {id})
        /\ Cardinality(C \cup {id}) = IF id \in C THEN Cardinality(C) ELSE Cardinality(C) + 1
    BY <1>3, FS_AddElement
  <2>3. Cardinality(ConfirmedIds(s)) <= Cardinality(C \cup {id})
    BY <1>5, <2>1, <2>2, FS_Subset
  <2> HIDE DEF C
  <2> QED
    BY <1>4, <1>6, <1>8, <2>2, <2>3
<1> QED
  BY <1>7, <1>8

\* Storing a session pays for what it confirms.
LEMMA PersistPaid ==
  ASSUME Inv, Bound, Lines, Earned, Paid, NEW p \in Proc, Persist(p) PROVE Paid'
<1>1. PICK s : s = [op[p].rec EXCEPT !.fix = FinalStatus(op[p].rec)]
  OBVIOUS
<1>2. PICK n \in Nat : n = Len(sessions)
  BY <1>1, Appended
<1> DEFINE all == sessions
           more == sessions'
           k == IF s.fix = "verified" THEN 1 ELSE 0
<1>3. /\ s.parent = op[p].rec.parent /\ s.ledger = op[p].rec.ledger
      /\ s.inv = op[p].rec.inv /\ s.fix = FinalStatus(op[p].rec)
      /\ DOMAIN all = 1..n /\ DOMAIN more = 1..(n + 1) /\ more[n + 1] = s
      /\ \A i \in DOMAIN all : more[i] = all[i]
  BY <1>1, <1>2, Appended
<1>4. Descends(op[p].rec, all) /\ EarnedStep("persist", op[p].rec, all)
  BY DEF Lines, LineageStep, Earned, Persist, At
<1>5. op[p].rec.verif.status = "passed" => FinalStatus(op[p].rec) = "verified"
  BY DEF Bound, BoundStep, BoundRecord, FinalStatus, DetermineFixStatus
<1>6. \A i \in DOMAIN all : all[i].parent # 0 => all[i].parent \in DOMAIN all
  BY DEF Lines, Stored, LineageStored, Descends
<1>7. \A i \in 1..n : more[i] = all[i] /\ (all[i].parent # 0 => all[i].parent \in 1..n)
  BY <1>3, <1>6
<1>8. s.parent # 0 => s.parent \in 1..n
  BY <1>3, <1>4 DEF Descends
<1>9. /\ \A f : Counts(f, all) => \E g : Counts(g, more)
      /\ \A g : Counts(g, more) => Counts([i \in 1..n |-> g[i]], all)
  <2>1. more[n + 1].parent # 0 => more[n + 1].parent \in 1..n
    BY <1>3, <1>8
  <2>2. DOMAIN all = 1..n /\ DOMAIN more = 1..(n + 1)
    BY <1>3
  <2> HIDE DEF all, more
  <2> QED
    BY <1>7, <2>1, <2>2, CountExtends
<1>10. Gained(s, all) = Gained(op[p].rec, all)
  BY <1>3 DEF Gained
<1>11. /\ \A g, h \in Gained(s, all) : s.inv.ids[g] = s.inv.ids[h]
       /\ Gained(s, all) # {} => k = 1
       /\ s.parent # 0 => all[s.parent].inv = s.inv
       /\ s.inv.ids \in [Hyp -> Hyp]
  <2>1. \A g, h \in Gained(s, all) : s.inv.ids[g] = s.inv.ids[h]
    BY <1>3, <1>4, <1>10 DEF EarnedStep
  <2>2. Gained(s, all) # {} => k = 1
    BY <1>3, <1>4, <1>5, <1>10 DEF EarnedStep
  <2>3. s.parent # 0 => all[s.parent].inv = s.inv
    BY <1>3, <1>4 DEF Descends
  <2>4. s.inv.ids \in [Hyp -> Hyp]
    BY <1>3, RecordFacts DEF Record, Investigation
  <2> QED
    BY <2>1, <2>2, <2>3, <2>4
<1>12. \E g : Counts(g, more)
  BY <1>9 DEF Paid, all
<1>13. \A f : Counts(f, all) => Pays(f, all)
  BY DEF Paid
<1>14. ASSUME NEW g, Counts(g, more) PROVE Pays(g, more)
  <2> DEFINE f == [i \in 1..n |-> g[i]]
             m == IF s.parent = 0 THEN 0 ELSE g[s.parent]
  <2>1. Pays(f, all)
    BY <1>9, <1>13, <1>14
  <2>2. \A i \in 1..n : f[i] = g[i]
    OBVIOUS
  <2>3. g[n + 1] = k + m
    <3>1. \A i \in DOMAIN more :
            g[i] = (IF more[i].fix = "verified" THEN 1 ELSE 0)
                   + (IF more[i].parent = 0 THEN 0 ELSE g[more[i].parent])
      BY <1>14, Zenon DEF Counts
    <3>2. n + 1 \in DOMAIN more
      BY <1>3
    <3> HIDE DEF more
    <3> QED
      BY <1>3, <3>1, <3>2
  <2> HIDE DEF f
  <2>4. ASSUME NEW i \in 1..n PROVE g[i] \in Nat /\ Cardinality(ConfirmedIds(more[i])) <= g[i]
    BY <1>3, <1>7, <2>1, <2>2 DEF Pays
  <2>5. m \in Nat /\ (s.parent # 0 => Cardinality(ConfirmedIds(all[s.parent])) <= m)
    BY <1>7, <1>8, <2>4
  <2> HIDE DEF m
  <2>6. IF s.parent = 0 THEN m = 0 ELSE Cardinality(ConfirmedIds(all[s.parent])) <= m
    BY <2>5 DEF m
  <2>7. k \in {0, 1}
    OBVIOUS
  <2> HIDE DEF k, all, more
  <2>8. Cardinality(ConfirmedIds(s)) <= k + m
    BY <1>11, <2>5, <2>6, <2>7, OneMore
  <2>9. g[n + 1] \in Nat /\ Cardinality(ConfirmedIds(more[n + 1])) <= g[n + 1]
    BY <1>3, <2>3, <2>5, <2>7, <2>8
  <2>10. \A i \in 1..(n + 1) : i \in 1..n \/ i = n + 1
    OBVIOUS
  <2>11. \A i \in DOMAIN more : g[i] \in Nat /\ Cardinality(ConfirmedIds(more[i])) <= g[i]
    BY <1>3, <2>4, <2>9, <2>10
  <2> QED
    BY <2>11 DEF Pays
<1> QED
  BY <1>12, <1>14 DEF Paid, more

LEMMA InitPaid == Init => Paid
<1> SUFFICES ASSUME Init PROVE Paid
  OBVIOUS
<1>1. DOMAIN sessions = {}
  BY DEF Init
<1> DEFINE f == [i \in {} |-> 0]
<1>2. Counts(f, sessions)
  BY <1>1 DEF Counts
<1>3. \A g : Pays(g, sessions)
  BY <1>1 DEF Pays
<1> QED
  BY <1>2, <1>3 DEF Paid

LEMMA NextPaid == Inv /\ Bound /\ Lines /\ Earned /\ Paid /\ [Next]_vars => Paid'
<1> SUFFICES ASSUME Inv, Bound, Lines, Earned, Paid, [Next]_vars PROVE Paid'
  OBVIOUS
<1>1. CASE sessions' = sessions
  BY <1>1 DEF Paid
<1>2. CASE UNCHANGED vars \/ User
  BY <1>1, <1>2 DEF vars, User, Edit, MoveHead
<1>3. ASSUME NEW p \in Proc, RunStep(p) PROVE Paid'
  BY <1>1, <1>3 DEF RunStep, StartRun, RunBaseline, ReadEvidence, Investigate, DecideApply,
                    CheckOnly, ObserveRun, SkipVerify, Verify
<1>4. ASSUME NEW p \in Proc, ChildStep(p) PROVE Paid'
  BY <1>1, <1>4 DEF ChildStep, ObserveApply, Restore, StartResume, StartApply, StartRollback
<1>5. ASSUME NEW p \in Proc, Transact(p) \/ Abandon(p) PROVE Paid'
  BY <1>1, <1>5 DEF Transact, Abandon
<1> QED
  BY <1>2, <1>3, <1>4, <1>5, PersistPaid DEF Next

\* No chain of resumes, applies and rollbacks confirms more ids than it has
\* verified sessions: one passing verification confirms hypotheses of at most one
\* id, and nothing else confirms any (src/debug.js:62-78, 171-293).
THEOREM ConfirmationsArePaid == Spec => []ConfirmationsArePaidFor
<1>1. Spec => [](Inv /\ Bound /\ Lines /\ Earned /\ Paid)
  BY InitInv, NextInv, InitBound, NextBound, InitLines, NextLines, InitEarned, NextEarned,
     InitPaid, NextPaid, PTL DEF Spec
<1>2. Paid => ConfirmationsArePaidFor
  <2> SUFFICES ASSUME Paid PROVE ConfirmationsArePaidFor
    OBVIOUS
  <2>1. \E f : Counts(f, sessions)
    BY DEF Paid
  <2>2. Counts(VerifiedUpTo, sessions)
    BY <2>1 DEF Counts, VerifiedUpTo, Stored
  <2>3. Pays(VerifiedUpTo, sessions)
    BY <2>2 DEF Paid
  <2> QED
    BY <2>3 DEF Pays, ConfirmationsArePaidFor, Stored
<1> QED
  BY <1>1, <1>2, PTL

-------------------------------------------------------------------------------
(* How far the code is from what its documentation says of "verified" and   *)
(* "confirmed": the sessions that FindingRollbackResume,                    *)
(* FindingBaselineMutation and FindingOmittedHypothesis exhibit are the     *)
(* only kind there is.                                                      *)

\* A verified session fails its own contract exactly when it carries a patch
\* that was taken back, and only a resume ever stores one.
UnusableIsRevived ==
  \A i \in Stored :
    LET s == sessions[i] IN
    s.fix = "verified" => /\ Valid(s) <=> ~s.patch.rolledBack
                          /\ s.patch.rolledBack => s.kind = "resume"

\* A verified session saw a fingerprint that differs from the one taken before
\* its baseline: the files it looked at, or HEAD, had moved since then.
VerifiedSawAMove ==
  \A i \in Stored :
    LET s == sessions[i] IN
    s.fix = "verified" =>
      \E head \in Commit \cup {NoRepo} :
        Moved(s.evidence.fp, Fingerprint([head |-> head, files |-> s.seen]))

\* A confirmed hypothesis was supported by the verifier or not mentioned by it.
ConfirmedWasNotRefused ==
  \A i \in Stored : \A h \in Confirmed(sessions[i]) :
    sessions[i].inv.verdict.hyps[sessions[i].inv.ids[h]] \in {"supported", "omitted"}

\* What a record keeps of where its patch, its mutation and its ledger are from.
SawAMove(rec) ==
  \E head \in Commit \cup {NoRepo} :
    Moved(rec.evidence.fp, Fingerprint([head |-> head, files |-> rec.seen]))

Backed(ledger, inv) ==
  \A h \in Hyp : ledger[h] \in {"supported", "confirmed"} =>
                   inv.verdict.hyps[inv.ids[h]] \in {"supported", "omitted"}

Trace(rec) ==
  /\ rec.kind = "run" => ~rec.patch.rolledBack
  /\ rec.kind \in {"run", "resume"} /\ rec.verif.mutated => SawAMove(rec)
  /\ Backed(rec.ledger, rec.inv)

Traces ==
  /\ \A i \in Stored : Trace(sessions[i])
  /\ \A p \in Proc : Trace(op[p].rec)

\* A step of one process that stores nothing.
LEMMA OneProcessTraces ==
  ASSUME Inv, Traces, NEW p \in Proc, NEW step, NEW ctx, NEW r, sessions' = sessions,
         op' = [op EXCEPT ![p] = [step |-> step, ctx |-> ctx, rec |-> r]], Trace(r)
  PROVE  Traces'
<1>1. op'[p] = [step |-> step, ctx |-> ctx, rec |-> r] /\ \A q \in Proc \ {p} : op'[q] = op[q]
  BY DEF Inv, TypeOK
<1>2. \A q \in Proc : Trace(op'[q].rec)
  BY <1>1 DEF Traces
<1>3. \A i \in DOMAIN sessions' : Trace(sessions'[i])
  BY DEF Traces, Stored
<1> QED
  BY <1>2, <1>3 DEF Traces, Stored

\* A step that changes nothing of that.
LEMMA SameTrace ==
  ASSUME Inv, Traces, NEW p \in Proc, NEW step, NEW r, Go(p, step, r), sessions' = sessions,
         r.kind = op[p].rec.kind, r.seen = op[p].rec.seen, r.inv = op[p].rec.inv,
         r.evidence.fp = op[p].rec.evidence.fp,
         r.kind = "run" => (r.patch.rolledBack => op[p].rec.patch.rolledBack),
         r.kind \in {"run", "resume"} => (r.verif.mutated => op[p].rec.verif.mutated),
         \A h \in Hyp : r.ledger[h] \in {"supported", "confirmed"} =>
                          op[p].rec.ledger[h] \in {"supported", "confirmed"}
  PROVE  Traces'
<1>1. Trace(op[p].rec)
  BY DEF Traces
<1>2. SawAMove(op[p].rec) => SawAMove(r)
  BY DEF SawAMove
<1>3. Trace(r)
  BY <1>1, <1>2 DEF Trace, Backed
<1> QED
  BY <1>3, OneProcessTraces DEF Go

\* A ledger is made of what the verifier left of the draft.
LEMMA AnswersAreBacked ==
  ASSUME NEW inv \in Answers PROVE Backed(CreateLedger(inv), inv)
<1>1. CASE inv = DeterministicInvestigation
  BY <1>1 DEF DeterministicInvestigation, CreateLedger, NormalizeHypothesis, Backed
<1>2. ASSUME NEW d \in Draft, NEW v \in Verdict, inv = ApplyVerdict(d, NormalizeVerdict(v, d))
      PROVE  Backed(CreateLedger(inv), inv)
  <2> DEFINE w == NormalizeVerdict(v, d)
  <2>1. v \in Verdicts
    BY SessionConstants
  <2>2. w.hyps = v.hyps
    BY <2>1 DEF NormalizeVerdict, Verdicts
  <2>3. \A h \in Hyp : v.hyps[d.ids[h]] \in {"open", "supported", "refuted", "omitted"}
    <3>1. d \in Drafts
      BY SessionConstants
    <3> QED
      BY <2>1, <3>1 DEF Verdicts, VerdictStatus, Drafts
  <2> HIDE DEF w
  <2>4. /\ inv.verdict = w /\ inv.ids = d.ids
        /\ \A h \in Hyp : inv.hyps[h] = IF w.hyps[d.ids[h]] = "omitted" THEN d.hyps[h]
                                         ELSE w.hyps[d.ids[h]]
    BY <1>2 DEF ApplyVerdict, w
  <2> QED
    BY <2>2, <2>3, <2>4 DEF CreateLedger, NormalizeHypothesis, Backed
<1> QED
  BY <1>1, <1>2 DEF Answers

\* A new run has seen nothing.
LEMMA NewRecordTrace == ASSUME NEW w PROVE Trace(NewRecord(w))
<1> DEFINE r == NewRecord(w)
<1>1. r.kind = "run" /\ ~r.patch.rolledBack /\ ~r.verif.mutated
  BY DEF NewRecord, EmptyPatch, MakeVerification
<1>2. Backed(r.ledger, r.inv)
  BY AnswersAreBacked DEF NewRecord, Answers
<1> HIDE DEF r
<1>3. Trace(r)
  BY <1>1, <1>2 DEF Trace
<1> QED
  BY <1>3 DEF r

LEMMA IdleTrace == Trace(Idle.rec)
BY NewRecordTrace DEF Idle

\* The workspace, as a process looks at it, is a move of its own.
LEMMA LookingIsSeeing ==
  ASSUME Inv, NEW rec, rec.seen = ws.files, Moved(rec.evidence.fp, Fingerprint(ws))
  PROVE  SawAMove(rec)
<1>1. ws = [head |-> ws.head, files |-> ws.files] /\ ws.head \in Commit \cup {NoRepo}
  BY DEF Inv, TypeOK, Workspace
<1> QED
  BY <1>1, Zenon DEF SawAMove

LEMMA InvestigateTraces == ASSUME Inv, Traces, NEW p \in Proc, Investigate(p) PROVE Traces'
<1>1. PICK inv \in Answers :
        Go(p, "patch", [op[p].rec EXCEPT !.inv = inv, !.ledger = CreateLedger(inv)])
  BY DEF Investigate
<1> DEFINE r == [op[p].rec EXCEPT !.inv = inv, !.ledger = CreateLedger(inv)]
<1>2. op[p].rec \in Record /\ Trace(op[p].rec)
  BY RecordFacts DEF Traces
<1>3. Go(p, "patch", r) /\ sessions' = sessions
  BY <1>1 DEF Investigate
<1>4. /\ r.ledger = CreateLedger(inv) /\ r.inv = inv /\ r.kind = op[p].rec.kind
      /\ r.patch = op[p].rec.patch /\ r.verif = op[p].rec.verif /\ r.seen = op[p].rec.seen
      /\ r.evidence = op[p].rec.evidence
  BY <1>2 DEF Record
<1> HIDE DEF r
<1>5. SawAMove(op[p].rec) => SawAMove(r)
  BY <1>4 DEF SawAMove
<1>6. Trace(r)
  BY <1>2, <1>4, <1>5, AnswersAreBacked DEF Trace
<1> QED
  BY <1>3, <1>6, OneProcessTraces DEF Go

\* Looking for a mutation records the files it was looked for in.
LEMMA ObserveTraces ==
  ASSUME Inv, Traces, NEW p \in Proc, ObserveRun(p) \/ ObserveApply(p) PROVE Traces'
<1> DEFINE rec == op[p].rec
           V(mutated) == MakeVerification(rec.evidence.reproduction, NoSummary, mutated, NoCmd, 0)
<1>1. rec \in Record /\ Trace(rec)
  BY RecordFacts DEF Traces
<1>2. ASSUME NEW mutated, NEW step, Go(p, step, [rec EXCEPT !.seen = ws.files, !.verif = V(mutated)]),
             sessions' = sessions,
             rec.kind \in {"run", "resume"} /\ mutated => Moved(rec.evidence.fp, Fingerprint(ws))
      PROVE  Traces'
  <2> DEFINE r == [rec EXCEPT !.seen = ws.files, !.verif = V(mutated)]
  <2>1. V(mutated).mutated = mutated
    BY DEF MakeVerification
  <2> HIDE DEF V
  <2>2. /\ r.kind = rec.kind /\ r.patch = rec.patch /\ r.verif = V(mutated)
        /\ r.seen = ws.files /\ r.evidence = rec.evidence /\ r.ledger = rec.ledger
        /\ r.inv = rec.inv
    BY <1>1 DEF Record
  <2>3. Go(p, step, r) /\ sessions' = sessions
    BY <1>2
  <2>4. rec.kind \in {"run", "resume"} /\ mutated => Moved(rec.evidence.fp, Fingerprint(ws))
    BY <1>2
  <2> HIDE DEF r, rec
  <2>5. r.kind \in {"run", "resume"} /\ r.verif.mutated => SawAMove(r)
    BY <2>1, <2>2, <2>4, LookingIsSeeing
  <2>6. Trace(r)
    BY <1>1, <2>2, <2>5 DEF Trace
  <2> QED
    BY <2>3, <2>6, OneProcessTraces DEF Go
<1>3. CASE ObserveRun(p)
  <2> DEFINE mutated == Moved(rec.evidence.fp, Fingerprint(ws))
  <2>1. Go(p, "verify", [rec EXCEPT !.seen = ws.files, !.verif = V(mutated)])
        /\ sessions' = sessions
    BY <1>3 DEF ObserveRun
  <2> HIDE DEF V
  <2> QED
    BY <1>2, <2>1
<1>4. CASE ObserveApply(p)
  <2> DEFINE mutated == op[p].ctx # Fingerprint(ws)
  <2>1. /\ Go(p, "persist", [rec EXCEPT !.seen = ws.files, !.verif = V(mutated)])
        /\ sessions' = sessions /\ rec.kind = "apply"
    BY <1>4 DEF ObserveApply
  <2> HIDE DEF V
  <2> QED
    BY <1>2, <2>1
<1> QED
  BY <1>3, <1>4

\* The other steps of an operation keep or reset what they do not establish.
LEMMA PlainStepsTraces ==
  ASSUME Inv, Lines, Traces, NEW p \in Proc,
         \/ \E c \in Cmd : RunBaseline(p, c)
         \/ ReadEvidence(p) \/ DecideApply(p) \/ CheckOnly(p) \/ Transact(p)
         \/ SkipVerify(p) \/ Restore(p)
  PROVE  Traces'
<1> DEFINE rec == op[p].rec
           id == rec.patch.snapshot
           d == rec.inv.patch
<1>1. rec \in Record
  BY RecordFacts
<1>2. ASSUME NEW c \in Cmd, RunBaseline(p, c) PROVE Traces'
  <2>1. PICK results \in Runs, files \in FilesAfterCommand(ws.files) :
          Go(p, "investigate", [rec EXCEPT !.evidence.command = c,
                                           !.evidence.reproduction = Summarize(c, results),
                                           !.base = files])
    BY <1>2 DEF RunBaseline
  <2> DEFINE r == [rec EXCEPT !.evidence.command = c,
                              !.evidence.reproduction = Summarize(c, results), !.base = files]
  <2>2. /\ r.kind = rec.kind /\ r.seen = rec.seen /\ r.inv = rec.inv /\ r.ledger = rec.ledger
        /\ r.evidence.fp = rec.evidence.fp /\ r.patch = rec.patch /\ r.verif = rec.verif
    BY <1>1 DEF Record, Evidence
  <2>3. Go(p, "investigate", r) /\ sessions' = sessions
    BY <1>2, <2>1 DEF RunBaseline
  <2> HIDE DEF r
  <2> QED
    BY <2>2, <2>3, SameTrace
<1>3. CASE ReadEvidence(p)
  <2> DEFINE r == [rec EXCEPT !.base = ws.files]
  <2>1. /\ r.kind = rec.kind /\ r.seen = rec.seen /\ r.inv = rec.inv /\ r.ledger = rec.ledger
        /\ r.evidence.fp = rec.evidence.fp /\ r.patch = rec.patch /\ r.verif = rec.verif
    BY <1>1 DEF Record
  <2>2. Go(p, "investigate", r) /\ sessions' = sessions
    BY <1>3 DEF ReadEvidence
  <2> HIDE DEF r
  <2> QED
    BY <2>1, <2>2, SameTrace
<1>4. CASE DecideApply(p) \/ CheckOnly(p) \/ SkipVerify(p)
  BY <1>4, SameTrace DEF DecideApply, CheckOnly, SkipVerify
<1>5. CASE Transact(p)
  <2>0. PICK state : Go(p, "observe", [rec EXCEPT !.patch = state]) /\ ~state.rolledBack
    BY <1>5, Transacted
  <2> DEFINE r == [rec EXCEPT !.patch = state]
  <2>1. /\ r.kind = rec.kind /\ r.seen = rec.seen /\ r.inv = rec.inv /\ r.ledger = rec.ledger
        /\ r.evidence.fp = rec.evidence.fp /\ r.patch = state /\ r.verif = rec.verif
    BY <1>1 DEF Record
  <2>2. Go(p, "observe", r) /\ sessions' = sessions
    BY <1>5, <2>0 DEF Transact
  <2>3. ~state.rolledBack
    BY <2>0
  <2> HIDE DEF r
  <2> QED
    BY <2>1, <2>2, <2>3, SameTrace
<1>6. CASE Restore(p)
  <2> DEFINE verif == MakeVerification(rec.evidence.reproduction, NoSummary, FALSE, NoCmd, id)
             r == [rec EXCEPT !.patch = RolledBackPatch(rec.patch), !.rollback = id, !.verif = verif]
  <2>1. ~verif.mutated
    BY DEF MakeVerification
  <2> HIDE DEF verif
  <2>2. /\ r.kind = rec.kind /\ r.seen = rec.seen /\ r.inv = rec.inv /\ r.ledger = rec.ledger
        /\ r.evidence.fp = rec.evidence.fp /\ r.verif = verif
    BY <1>1 DEF Record
  <2>3. Go(p, "persist", r) /\ sessions' = sessions
    BY <1>6 DEF Restore, verif
  <2>4. rec.kind # "run"
    BY <1>6 DEF Restore, At, Lines, LineageStep, Descends
  <2> HIDE DEF r
  <2> QED
    BY <2>1, <2>2, <2>3, <2>4, SameTrace
<1> QED
  BY <1>2, <1>3, <1>4, <1>5, <1>6

\* A verification keeps what was seen, and confirms what was supported.
LEMMA VerifyTraces ==
  ASSUME Inv, Traces, NEW p \in Proc, NEW c \in Cmd, Verify(p, c) PROVE Traces'
<1>1. PICK results \in Runs, files \in FilesAfterCommand(ws.files) :
        LET rec   == op[p].rec
            after == Summarize(c, results)
            verif == MakeVerification(rec.evidence.reproduction, after, rec.verif.mutated, c, 0)
        IN Go(p, "persist",
              [rec EXCEPT !.verif = verif,
                          !.ledger = IF verif.status = "passed"
                                     THEN ConfirmSupported(@, rec.inv.ids,
                                                           rec.evidence.reproduction, after)
                                     ELSE @])
  BY DEF Verify
<1> DEFINE rec == op[p].rec
           after == Summarize(c, results)
           verif == MakeVerification(rec.evidence.reproduction, after, rec.verif.mutated, c, 0)
           ledger == IF verif.status = "passed"
                     THEN ConfirmSupported(rec.ledger, rec.inv.ids,
                                           rec.evidence.reproduction, after)
                     ELSE rec.ledger
           r == [rec EXCEPT !.verif = verif, !.ledger = ledger]
<1>2. rec \in Record /\ sessions' = sessions /\ Go(p, "persist", r)
  BY <1>1, RecordFacts DEF Verify
<1>3. verif.mutated = rec.verif.mutated
  BY DEF MakeVerification
<1> HIDE DEF after, verif
<1>4. \A h \in Hyp : ledger[h] # rec.ledger[h] => rec.ledger[h] = "supported"
  BY <1>2 DEF ConfirmSupported, ConfirmHypothesis, FirstSupported
<1> HIDE DEF ledger
<1>5. /\ r.kind = rec.kind /\ r.seen = rec.seen /\ r.inv = rec.inv /\ r.ledger = ledger
      /\ r.evidence.fp = rec.evidence.fp /\ r.patch = rec.patch /\ r.verif = verif
  BY <1>2 DEF Record
<1> HIDE DEF r
<1>6. \A h \in Hyp : r.ledger[h] \in {"supported", "confirmed"} =>
                       rec.ledger[h] \in {"supported", "confirmed"}
  BY <1>4, <1>5
<1> QED
  BY <1>2, <1>3, <1>5, <1>6, SameTrace

\* A child takes its parent's ledger and patch over, and looks for itself.
LEMMA ChildTraces ==
  ASSUME Inv, Traces, NEW p \in Proc, NEW i \in DOMAIN sessions,
         StartResume(p, i) \/ StartApply(p, i) \/ StartRollback(p, i)
  PROVE  Traces'
<1>1. sessions[i] \in Record /\ Trace(sessions[i])
  <2>1. sessions \in Seq(Record)
    BY DEF Inv, TypeOK
  <2> QED
    BY <2>1 DEF Traces, Stored
<1>2. sessions' = sessions
  BY DEF StartResume, StartApply, StartRollback
<1>3. ASSUME NEW step, NEW kind \in {"resume", "apply", "rollback"}, NEW mutated,
             Begin(p, step, Child(i, kind, mutated, ws)),
             mutated => Moved(sessions[i].evidence.fp, Fingerprint(ws))
      PROVE  Traces'
  <2> DEFINE r == Child(i, kind, mutated, ws)
             verif == MakeVerification(sessions[i].evidence.reproduction, NoSummary, mutated, NoCmd, 0)
  <2>1. verif.mutated = mutated
    BY DEF MakeVerification
  <2>2. /\ r.kind = kind /\ r.seen = ws.files /\ r.evidence = sessions[i].evidence
        /\ r.ledger = sessions[i].ledger /\ r.inv = sessions[i].inv /\ r.verif = verif
    BY <1>1 DEF Child, Record
  <2>3. op' = [op EXCEPT ![p] = [step |-> step, ctx |-> Fingerprint(ws), rec |-> r]]
    BY <1>3 DEF Begin
  <2> HIDE DEF r, verif
  <2>4. r.verif.mutated => SawAMove(r)
    BY <1>3, <2>1, <2>2, LookingIsSeeing
  <2>5. Trace(r)
    BY <1>1, <2>2, <2>4 DEF Trace
  <2> QED
    BY <1>2, <2>3, <2>5, OneProcessTraces
<1> QED
  BY <1>3 DEF StartResume, StartApply, StartRollback

LEMMA PersistTraces == ASSUME Inv, Traces, NEW p \in Proc, Persist(p) PROVE Traces'
<1> DEFINE s == [op[p].rec EXCEPT !.fix = FinalStatus(op[p].rec)]
<1>1. op[p].rec \in Record /\ Trace(op[p].rec)
  BY RecordFacts DEF Traces
<1>2. /\ s.kind = op[p].rec.kind /\ s.patch = op[p].rec.patch /\ s.verif = op[p].rec.verif
      /\ s.evidence = op[p].rec.evidence /\ s.seen = op[p].rec.seen
      /\ s.ledger = op[p].rec.ledger /\ s.inv = op[p].rec.inv
  BY <1>1 DEF Record
<1>3. sessions' = Append(sessions, s) /\ op' = [op EXCEPT ![p] = Idle]
  BY DEF Persist
<1> HIDE DEF s
<1>4. Trace(s)
  BY <1>1, <1>2 DEF Trace, SawAMove
<1>5. sessions \in Seq(Record) /\ op \in [Proc -> Operation]
  BY DEF Inv, TypeOK
<1>6. \A i \in DOMAIN sessions' : \/ i \in DOMAIN sessions /\ sessions'[i] = sessions[i]
                                 \/ sessions'[i] = s
  BY <1>3, <1>5
<1>7. \A i \in DOMAIN sessions' : Trace(sessions'[i])
  BY <1>4, <1>6 DEF Traces, Stored
<1>8. \A q \in Proc : Trace(op'[q].rec)
  BY <1>3, <1>5, IdleTrace DEF Traces
<1> QED
  BY <1>7, <1>8 DEF Traces, Stored

LEMMA InitTraces == Init => Traces
BY IdleTrace DEF Init, Traces, Stored

LEMMA NextTraces == Inv /\ Lines /\ Traces /\ [Next]_vars => Traces'
<1> SUFFICES ASSUME Inv, Lines, Traces, [Next]_vars PROVE Traces'
  OBVIOUS
<1>1. CASE UNCHANGED <<sessions, op>>
  BY <1>1 DEF Traces, Stored
<1>2. CASE UNCHANGED vars \/ User
  BY <1>1, <1>2 DEF vars, User, Edit, MoveHead
<1>3. ASSUME NEW p \in Proc, RunStep(p) PROVE Traces'
  <2>1. CASE StartRun(p)
    BY <2>1, NewRecordTrace, OneProcessTraces DEF StartRun, Begin
  <2> QED
    BY <1>3, <2>1, PlainStepsTraces, InvestigateTraces, ObserveTraces, VerifyTraces DEF RunStep
<1>4. ASSUME NEW p \in Proc, ChildStep(p) PROVE Traces'
  BY <1>4, PlainStepsTraces, ObserveTraces, ChildTraces DEF ChildStep
<1>5. ASSUME NEW p \in Proc, Abandon(p) PROVE Traces'
  <2>1. op' = [op EXCEPT ![p] = Idle] /\ sessions' = sessions /\ op \in [Proc -> Operation]
    BY <1>5 DEF Abandon, Inv, TypeOK
  <2> QED
    BY <2>1, IdleTrace DEF Traces, Stored
<1>6. ASSUME NEW p \in Proc, Transact(p) \/ Persist(p) PROVE Traces'
  BY <1>6, PlainStepsTraces, PersistTraces
<1> QED
  BY <1>2, <1>3, <1>4, <1>5, <1>6 DEF Next

LEMMA TracesHold == Spec => [](Inv /\ Bound /\ Lines /\ Traces)
BY InitInv, NextInv, InitBound, NextBound, InitLines, NextLines, InitTraces, NextTraces,
   PTL DEF Spec

\* A session stored as verified can be resumed, applied and rolled back in its
\* turn unless it carries a patch that was taken back, and only a resume of a
\* rolled-back session stores one (src/debug.js:171-198, src/contracts.js:15-56).
THEOREM UnusableSessions == Spec => []UnusableIsRevived
<1>1. Inv /\ Bound /\ Lines /\ Traces => UnusableIsRevived
  <2> SUFFICES ASSUME Inv, Bound, Traces, NEW i \in Stored, sessions[i].fix = "verified"
               PROVE  /\ Valid(sessions[i]) <=> ~sessions[i].patch.rolledBack
                      /\ sessions[i].patch.rolledBack => sessions[i].kind = "resume"
    BY DEF UnusableIsRevived
  <2>1. HasAuthorizedPatch(sessions[i].inv)
    BY DEF Inv, OnlyAuthorizedPatches, AuthorizedRecord
  <2>2. VerifiedBinding(sessions[i])
    BY DEF Bound, BoundRecord, PassedIsBound, VerifiedBinding
  <2>3. sessions[i].verif.status = "passed" /\ BoundRecord(sessions[i])
    BY DEF Bound
  <2>4. sessions[i].kind \in {"run", "resume"}
    <3>1. sessions[i] \in Record
      BY DEF Inv, TypeOK, Stored
    <3> QED
      BY <2>3, <3>1 DEF BoundRecord, Record
  <2>5. sessions[i].kind = "run" => ~sessions[i].patch.rolledBack
    BY DEF Traces, Trace
  <2> QED
    BY <2>1, <2>2, <2>4, <2>5 DEF Valid, RollbackBinding
<1> QED
  BY <1>1, TracesHold, PTL

\* The mutation that "verified" asks for is a difference of fingerprints since
\* before the baseline, whoever caused it (src/debug.js:151-153, 180-182).
THEOREM VerifiedMoved == Spec => []VerifiedSawAMove
<1>1. Inv /\ Bound /\ Lines /\ Traces => VerifiedSawAMove
  <2> SUFFICES ASSUME Inv, Bound, Traces, NEW i \in Stored, sessions[i].fix = "verified"
               PROVE  SawAMove(sessions[i])
    BY DEF VerifiedSawAMove, SawAMove
  <2>1. sessions[i].verif.status = "passed" /\ BoundRecord(sessions[i]) /\ Trace(sessions[i])
    BY DEF Bound, Traces
  <2>2. sessions[i].kind \in {"run", "resume"}
    <3>1. sessions[i] \in Record
      BY DEF Inv, TypeOK, Stored
    <3> QED
      BY <2>1, <3>1 DEF BoundRecord, Record
  <2>3. sessions[i].verif.mutated
    BY <2>1 DEF BoundRecord, PassedIsBound
  <2> QED
    BY <2>1, <2>2, <2>3 DEF Trace
<1> QED
  BY <1>1, TracesHold, PTL

\* A hypothesis that the causal verifier left open or refuted is never confirmed;
\* one it did not mention can be, on the draft's word (src/codex.js,
\* src/hypothesis-ledger.js).
THEOREM ConfirmedNotRefused == Spec => []ConfirmedWasNotRefused
<1>1. Traces => ConfirmedWasNotRefused
  BY DEF Traces, Trace, Backed, Confirmed, ConfirmedWasNotRefused
<1> QED
  BY <1>1, TracesHold, PTL

-------------------------------------------------------------------------------
(* What a rollback puts back.                                              *)

\* One restoring step: each path of the patch holds what the patch overwrote.
LEMMA RestoreUndoes ==
  ASSUME Inv, Lines, NEW p \in Proc, Restore(p)
  PROVE  LET snap == snaps[op[p].rec.patch.snapshot]
             d    == op[p].rec.inv.patch
         IN /\ DOMAIN snap.before = d.paths
            /\ \A x \in d.paths : ws.files[x] = d.rewrite[ws'.files[x]]
            /\ \A x \in Path \ d.paths : ws'.files[x] = ws.files[x]
<1> DEFINE rec == op[p].rec
           snap == snaps[rec.patch.snapshot]
           d == rec.inv.patch
<1>1. /\ rec \in Record /\ rec.patch.snapshot # 0 /\ SnapshotFits(rec)
      /\ ws \in Workspace
  BY RecordFacts DEF Lines, LineageStep, Restore, At, Inv, StepInv
<1>2. /\ DOMAIN snap.before = d.paths /\ DOMAIN snap.after = d.paths
      /\ \A x \in d.paths : snap.after[x] = d.rewrite[snap.before[x]]
  <2>1. snap = rec.patch.digest
    BY DEF Restore
  <2> QED
    BY <1>1, <2>1 DEF SnapshotFits
<1>3. d \in Patch
  BY <1>1, RecordFacts DEF AuthorizedRecord, Record, Investigation
<1>4. d.paths \subseteq Path
  BY <1>3, SessionConstants
<1>5. /\ Undrifted(snap, ws.files)
      /\ ws' = [ws EXCEPT !.files = Restored(snap, ws.files)]
  BY DEF Restore
<1> HIDE DEF snap, d, rec
<1>6. ws'.files = Restored(snap, ws.files)
  BY <1>1, <1>5 DEF Workspace
<1>7. \A x \in d.paths : ws.files[x] = d.rewrite[ws'.files[x]]
  BY <1>2, <1>4, <1>5, <1>6 DEF Undrifted, Restored
<1>8. \A x \in Path \ d.paths : ws'.files[x] = ws.files[x]
  BY <1>2, <1>6 DEF Restored
<1> QED
  BY <1>2, <1>7, <1>8 DEF snap, d, rec

\* A process that was restoring and is about to store has restored.
LEMMA OnlyRestore ==
  ASSUME Inv, [Next]_vars, NEW p \in Proc, op[p].step = "restore", op'[p].step = "persist"
  PROVE  Restore(p)
<1>1. op \in [Proc -> Operation]
  BY DEF Inv, TypeOK
<1>2. ASSUME NEW q \in Proc, NEW step, NEW ctx, NEW r, op[q].step # "restore",
             op' = [op EXCEPT ![q] = [step |-> step, ctx |-> ctx, rec |-> r]]
      PROVE  FALSE
  BY <1>1, <1>2
<1>3. ASSUME NEW q \in Proc, op' = [op EXCEPT ![q] = Idle] PROVE FALSE
  BY <1>1, <1>3, IdleFacts
<1>4. ~UNCHANGED op
  OBVIOUS
<1>5. ~UNCHANGED vars /\ ~User
  BY <1>4 DEF vars, User, Edit, MoveHead
<1>6. \A q \in Proc : ~RunStep(q)
  <2> SUFFICES ASSUME NEW q \in Proc, RunStep(q) PROVE FALSE
    OBVIOUS
  <2>1. ASSUME NEW step, NEW r, Go(q, step, r), op[q].step # "restore" PROVE FALSE
    BY <1>2, <2>1 DEF Go
  <2>2. CASE StartRun(q)
    BY <1>2, <2>2 DEF StartRun, Begin, At
  <2>3. CASE \E c \in Cmd : RunBaseline(q, c) \/ Verify(q, c)
    BY <2>1, <2>3 DEF RunBaseline, Verify, At
  <2>4. CASE ReadEvidence(q) \/ Investigate(q) \/ DecideApply(q) \/ CheckOnly(q)
    BY <2>1, <2>4 DEF ReadEvidence, Investigate, DecideApply, CheckOnly, At
  <2>5. CASE ObserveRun(q) \/ SkipVerify(q)
    BY <2>1, <2>5 DEF ObserveRun, SkipVerify, At
  <2> QED
    BY <2>2, <2>3, <2>4, <2>5 DEF RunStep
<1>7. \A q \in Proc : ~ObserveApply(q) /\ ~Transact(q) /\ ~Persist(q) /\ ~Abandon(q)
  BY <1>2, <1>3 DEF ObserveApply, Transact, Persist, Abandon, At, Go
<1>8. \A q \in Proc, i \in DOMAIN sessions :
        ~StartResume(q, i) /\ ~StartApply(q, i) /\ ~StartRollback(q, i)
  <2>1. ASSUME NEW q \in Proc, NEW step, NEW r, Begin(q, step, r), op[q].step # "restore"
        PROVE  FALSE
    BY <1>2, <2>1 DEF Begin
  <2> QED
    BY <2>1 DEF StartResume, StartApply, StartRollback, At
<1>9. PICK q \in Proc : Restore(q)
  BY <1>5, <1>6, <1>7, <1>8 DEF Next, ChildStep
<1>10. q = p
  BY <1>1, <1>9 DEF Restore, Go
<1> QED
  BY <1>9, <1>10

\* A rollback puts back exactly what the patch of its own session overwrote, however
\* many operations lie between the two and whether or not another apply took the same
\* snapshot id since (src/workspace-snapshot.js:83-87).
THEOREM RollbackIsUndo == Spec => RollbackUndoesApply
<1>1. Inv /\ Lines /\ [Next]_vars =>
        [\A p \in Proc :
           (op[p].step = "restore" /\ op'[p].step = "persist") =>
             LET snap == snaps[op[p].rec.patch.snapshot]
                 d    == op[p].rec.inv.patch
             IN /\ DOMAIN snap.before = d.paths
                /\ \A x \in d.paths : ws.files[x] = d.rewrite[ws'.files[x]]
                /\ \A x \in Path \ d.paths : ws'.files[x] = ws.files[x]]_vars
  BY OnlyRestore, RestoreUndoes
<1> QED
  BY <1>1, LinesHold, PTL DEF Spec, RollbackUndoesApply

===============================================================================
