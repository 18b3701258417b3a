--------------------------- MODULE PatchTransaction ---------------------------
(***************************************************************************)
(* The patch transaction and the rollback, file by file:                   *)
(* applyPatchWithSnapshot (src/patch-transaction.js) over git apply        *)
(* (src/patch.js) and rollbackWorkspaceSnapshot (src/workspace-snapshot.js).*)
(* Nothing locks the workspace: the user edits it, and processes die, at   *)
(* any step.  Which of these happen while a transaction is under way is    *)
(* the constant Faults.                                                    *)
(*                                                                         *)
(* The code visits paths in sorted order; here in any order.  The private  *)
(* staging directory of one restore is left out: no other step reads it.   *)
(***************************************************************************)
EXTENDS Naturals, Sequences

CONSTANTS
  Proc, Path, Content,   \* a path that does not exist holds a content of its own
  InitialFiles,
  Patch,                 \* [paths, rewrite], as in DebugSession
  Faults,                \* what may go wrong while a transaction is under way
  MaxSnapshots           \* bound on the snapshots ever written

FaultKinds ==
  {"edit",      \* the user edits a file in mid-transaction
   "crash",     \* the controller process dies
   "write",     \* git apply fails although every hunk fits: no space, no permission
   "save",      \* the snapshot cannot be captured or written
   "restore"}   \* a file cannot be put back

ASSUME TransactionConstants ==
  /\ Faults \subseteq FaultKinds /\ MaxSnapshots \in Nat
  /\ InitialFiles \in [Path -> Content]
  /\ \A d \in Patch : /\ d.paths \in SUBSET Path /\ d.paths # {}
                      /\ DOMAIN d.rewrite \subseteq Content
                      /\ \A c \in DOMAIN d.rewrite : d.rewrite[c] \in Content

VARIABLES
  files,    \* the workspace
  snaps,    \* finalized snapshots on disk
  tx,       \* tx[p]: the transaction p is in, or how its last one ended
  origin,   \* origin[x]: who wrote x last (read by properties only)
  alarm     \* what has gone wrong so far: one of Alarms

Alarms == {"crash", "partial", "halfwritten", "edit", "overlap"}

vars == <<files, snaps, tx, origin, alarm>>

\* todo: paths the current step still has to visit; touched: paths this
\* transaction has written and not put back; failed: paths it could not put back.
Idle == [step |-> "idle", kind |-> "none", outcome |-> "none", paths |-> {}, image |-> <<>>,
         before |-> <<>>, after |-> <<>>, todo |-> {}, touched |-> {}, failed |-> {}]

Init ==
  /\ files = InitialFiles /\ snaps = <<>>
  /\ tx = [p \in Proc |-> Idle]
  /\ origin = [x \in Path |-> "user"]
  /\ alarm = {}

At(p, step) == tx[p].step = step
Quiet == \A p \in Proc : At(p, "idle")
\* A transaction that starts while another one is under way shares its files.
Overlap == alarm' = IF Quiet THEN alarm ELSE alarm \cup {"overlap"}
Set(p, t) == tx' = [tx EXCEPT ![p] = t]
\* The transaction ends: nothing but its outcome and what it touched is kept.
Ended(t, outcome) == [Idle EXCEPT !.kind = t.kind, !.outcome = outcome, !.paths = t.paths,
                                  !.touched = t.touched]
Extend(f, x, v) == [y \in DOMAIN f \cup {x} |-> IF y = x THEN v ELSE f[y]]

Fits(d) == \A x \in d.paths : files[x] \in DOMAIN d.rewrite
Fault(kind) == kind \in Faults
\* Bound: one crash, or one edit in mid-transaction, or one patch left half written, in
\* a behaviour.
Once(kind) == Fault(kind) /\ alarm \cap {"crash", "edit", "halfwritten"} = {}

-------------------------------------------------------------------------------
(* applyPatchWithSnapshot                                                  *)

\* gitApply(patch, {apply: false}): the patch must fit before anything is captured
StartApply(p, d) ==
  /\ At(p, "idle") /\ Len(snaps) < MaxSnapshots /\ Fits(d)
  /\ Set(p, [Idle EXCEPT !.step = "capture", !.kind = "apply", !.paths = d.paths,
                         !.image = d.rewrite, !.todo = d.paths])
  /\ Overlap
  /\ UNCHANGED <<files, snaps, origin>>

\* createWorkspaceSnapshot: one captureState per path
Capture(p) ==
  /\ At(p, "capture")
  /\ \E x \in tx[p].todo :
       LET t == [tx[p] EXCEPT !.before = Extend(@, x, files[x]), !.todo = @ \ {x}]
       IN Set(p, IF t.todo = {} THEN [t EXCEPT !.step = "git"] ELSE t)
  /\ UNCHANGED <<files, snaps, origin, alarm>>

\* git apply checks every hunk once more before it writes the first file
GitCheck(p) ==
  /\ At(p, "git")
  /\ Set(p, IF \A x \in tx[p].paths : files[x] \in DOMAIN tx[p].image
            THEN [tx[p] EXCEPT !.step = "write", !.todo = tx[p].paths,
                               !.image = [x \in tx[p].paths |-> tx[p].image[files[x]]]]
            ELSE Ended(tx[p], "refused"))                              \* EPATCHAPPLY
  /\ UNCHANGED <<files, snaps, origin, alarm>>

GitWrite(p) ==
  /\ At(p, "write")
  /\ \E x \in tx[p].todo :
       LET t == [tx[p] EXCEPT !.touched = @ \cup {x}, !.todo = @ \ {x}]
       IN /\ files' = [files EXCEPT ![x] = tx[p].image[x]]
          /\ origin' = [origin EXCEPT ![x] = "patched"]
          /\ Set(p, IF t.todo = {} THEN [t EXCEPT !.step = "finalize", !.todo = t.paths] ELSE t)
  /\ UNCHANGED <<snaps, alarm>>

\* git apply fails before or between its writes.  The controller has not noted the patch
\* as applied yet, so it restores nothing and passes the error on.  To the caller this
\* is the EPATCHAPPLY of a refusal; the model tells the two apart by what was written.
HalfWritten(t) == Ended(t, IF t.touched = {} THEN "refused" ELSE "halfwritten")
GitWriteFails(p) ==
  /\ Once("write") /\ At(p, "write")
  /\ Set(p, HalfWritten(tx[p]))
  /\ alarm' = IF tx[p].touched = {} THEN alarm ELSE alarm \cup {"halfwritten"}
  /\ UNCHANGED <<files, snaps, origin>>

\* finalizeWorkspaceSnapshot: what the files hold now is what rollback expects
Finalize(p) ==
  /\ At(p, "finalize")
  /\ \E x \in tx[p].todo :
       LET t == [tx[p] EXCEPT !.after = Extend(@, x, files[x]), !.todo = @ \ {x}]
       IN Set(p, IF t.todo = {} THEN [t EXCEPT !.step = "save"] ELSE t)
  /\ UNCHANGED <<files, snaps, origin, alarm>>

\* writeWorkspaceSnapshot renames the finished file into place
Save(p) ==
  /\ At(p, "save")
  /\ snaps' = Append(snaps, [before |-> tx[p].before, after |-> tx[p].after])
  /\ origin' = [x \in Path |-> IF /\ x \in tx[p].paths /\ origin[x] = "patched"
                                  /\ files[x] = tx[p].after[x]
                               THEN "recorded" ELSE origin[x]]
  /\ Set(p, Ended(tx[p], "applied"))
  /\ UNCHANGED <<files, alarm>>

\* Faulty variant: the error is passed on and the files are left as patched.
EndAtOnce(t) == Ended(t, "undone")
\* catch: the patch was applied, so put the captured files back
Undo(t) == [t EXCEPT !.step = "restore", !.todo = t.paths]
SaveFails(p) ==
  /\ Fault("save") /\ (At(p, "finalize") \/ At(p, "save"))
  /\ Set(p, Undo(tx[p]))
  /\ UNCHANGED <<files, snaps, origin, alarm>>

UndoToo(t) == Undo(t)      \* faulty variant: undone before it was applied
Refuse(t) == Ended(t, "refused")
\* captureState refuses a path before anything was written
CaptureFails(p) ==
  /\ Fault("save") /\ At(p, "capture")
  /\ Set(p, Refuse(tx[p]))
  /\ UNCHANGED <<files, snaps, origin, alarm>>

-------------------------------------------------------------------------------
(* rollbackWorkspaceSnapshot                                               *)

StartRollback(p, id) ==
  /\ At(p, "idle")
  /\ Set(p, [Idle EXCEPT !.step = "drift", !.kind = "rollback", !.paths = DOMAIN snaps[id].before,
                         !.before = snaps[id].before, !.after = snaps[id].after,
                         !.todo = DOMAIN snaps[id].after])
  /\ Overlap
  /\ UNCHANGED <<files, snaps, origin>>

\* Faulty variant: a path that was already put back is let through.
KnownContent(t, x) == files[x] = t.after[x] \/ files[x] = t.before[x]
NotDrifted(t, x) == files[x] = t.after[x]

\* every path is compared before the first one is restored
CheckDrift(p) ==
  /\ At(p, "drift")
  /\ \E x \in tx[p].todo :
       LET t == [tx[p] EXCEPT !.todo = @ \ {x}]
       IN Set(p, IF ~NotDrifted(t, x) THEN Ended(t, "refused")         \* EROLLBACKDRIFT
                 ELSE IF t.todo = {} THEN [t EXCEPT !.step = "restore", !.todo = t.paths] ELSE t)
  /\ UNCHANGED <<files, snaps, origin, alarm>>

\* prepareRestore cannot stage the bytes: nothing has been restored
StageFails(p) ==
  /\ Fault("restore") /\ At(p, "restore") /\ tx[p].todo = tx[p].paths
  /\ Set(p, Ended(tx[p], IF tx[p].kind = "rollback" THEN "refused" ELSE "partial"))
  /\ alarm' = IF tx[p].kind = "rollback" THEN alarm ELSE alarm \cup {"partial"}
  /\ UNCHANGED <<files, snaps, origin>>

\* restoreBeforeUnchecked: one rename or unlink per path
RestoreOne(p) ==
  /\ At(p, "restore")
  /\ \E x \in tx[p].todo :
       /\ files' = [files EXCEPT ![x] = tx[p].before[x]]
       /\ origin' = [origin EXCEPT ![x] = "user"]
       /\ Set(p, [tx[p] EXCEPT !.todo = @ \ {x},
                               !.touched = IF tx[p].kind = "apply" THEN @ \ {x} ELSE @ \cup {x}])
  /\ UNCHANGED <<snaps, alarm>>

\* a path that cannot be put back is noted and the others are still restored
RestoreOneFails(p) ==
  /\ Fault("restore") /\ At(p, "restore")
  /\ \E x \in tx[p].todo : Set(p, [tx[p] EXCEPT !.todo = @ \ {x}, !.failed = @ \cup {x}])
  /\ UNCHANGED <<files, snaps, origin, alarm>>

\* Faulty variant: the collected failures are dropped.
IgnoreFailures(t) == FALSE
SomeFailed(t) == t.failed # {}

RestoreEnds(p) ==
  /\ At(p, "restore") /\ tx[p].todo = {}
  /\ LET t == tx[p] IN
     Set(p, IF SomeFailed(t) THEN Ended(t, "partial")                  \* EROLLBACKPARTIAL
            ELSE IF t.kind = "apply" THEN Ended(t, "undone")           \* the original error
            ELSE [t EXCEPT !.step = "confirm", !.todo = t.paths])
  /\ alarm' = IF SomeFailed(tx[p]) THEN alarm \cup {"partial"} ELSE alarm
  /\ UNCHANGED <<files, snaps, origin>>

\* and every path is compared once more afterwards
Confirm(p) ==
  /\ At(p, "confirm")
  /\ \E x \in tx[p].todo :
       LET t == [tx[p] EXCEPT !.todo = @ \ {x}]
       IN Set(p, IF files[x] # t.before[x] THEN Ended(t, "unconfirmed")  \* EROLLBACKVERIFY
                 ELSE IF t.todo = {} THEN Ended(t, "rolledBack") ELSE t)
  /\ UNCHANGED <<files, snaps, origin, alarm>>

-------------------------------------------------------------------------------
Crash(p) ==
  /\ Once("crash") /\ ~At(p, "idle")
  /\ Set(p, Idle)
  /\ alarm' = alarm \cup {"crash"}
  /\ UNCHANGED <<files, snaps, origin>>

Edit(x, c) ==
  /\ Quiet \/ Once("edit")
  /\ files[x] # c
  /\ files' = [files EXCEPT ![x] = c]
  /\ origin' = [origin EXCEPT ![x] = "user"]
  /\ alarm' = IF Quiet THEN alarm ELSE alarm \cup {"edit"}
  /\ UNCHANGED <<snaps, tx>>

Step(p) ==
  \/ Capture(p) \/ GitCheck(p) \/ GitWrite(p) \/ Finalize(p) \/ Save(p)
  \/ CheckDrift(p) \/ RestoreOne(p) \/ RestoreEnds(p) \/ Confirm(p)
Start(p) == (\E d \in Patch : StartApply(p, d)) \/ (\E id \in DOMAIN snaps : StartRollback(p, id))
Fail(p) ==
  \/ CaptureFails(p) \/ GitWriteFails(p) \/ SaveFails(p) \/ StageFails(p) \/ RestoreOneFails(p)
  \/ Crash(p)

Next ==
  \/ \E p \in Proc : Step(p) \/ Start(p) \/ Fail(p)
  \/ \E x \in Path, c \in Content : Edit(x, c)

Spec == Init /\ [][Next]_vars

-------------------------------------------------------------------------------
Partial(paths) == UNION {[q -> Content] : q \in SUBSET paths}
Transaction ==
  [step: {"idle", "capture", "git", "write", "finalize", "save", "drift", "restore", "confirm"},
   kind: {"none", "apply", "rollback"},
   outcome: {"none", "refused", "halfwritten", "applied", "undone", "rolledBack",
             "unconfirmed", "partial"},
   paths: SUBSET Path, image: Partial(Path) \cup {d.rewrite : d \in Patch},
   before: Partial(Path), after: Partial(Path),
   todo: SUBSET Path, touched: SUBSET Path, failed: SUBSET Path]

TypeOK ==
  /\ files \in [Path -> Content]
  /\ snaps \in Seq([before: Partial(Path), after: Partial(Path)])
  /\ tx \in [Proc -> Transaction]
  /\ \A p \in Proc : tx[p].todo \cup tx[p].touched \cup tx[p].failed \subseteq tx[p].paths
  \* what is restored or saved has been captured for every path
  /\ \A p \in Proc : /\ tx[p].step \in {"restore", "confirm"} => DOMAIN tx[p].before = tx[p].paths
                     /\ tx[p].step = "save" => DOMAIN tx[p].after = tx[p].paths
  /\ origin \in [Path -> {"user", "patched", "recorded"}]
  /\ alarm \subseteq Alarms

\* A transaction says what it did: one that refused or was undone has left no
\* file of its own behind, and one that reports success has written them all
\* (ARCHITECTURE.md:99), whoever else writes and whatever failed on the way, but for
\* one failure: when git apply itself fails between its writes ("halfwritten") the
\* controller reports what it reports of a refusal, over the files already written.
AllOrNothing ==
  \A p \in Proc :
    LET t == tx[p] IN
    /\ t.outcome \in {"refused", "undone"} => t.touched = {}
    /\ t.outcome \in {"applied", "rolledBack", "unconfirmed"} => t.touched = t.paths

\* When no transaction is under way, every file a patch wrote last can be rolled
\* back: a finalized snapshot records it.  Only a crash, a partial restore that was
\* reported, or a git apply that failed between its writes, can leave patched files
\* that no snapshot knows.
PatchedIsRecorded ==
  Quiet /\ alarm \cap {"crash", "partial", "halfwritten"} = {} =>
    \A x \in Path : origin[x] # "patched"

\* README.md:192: a rollback "refuses when any path has drifted after patch
\* application, so later user edits are never overwritten".  A path is restored
\* only while it still holds what the patch left there, unless somebody else
\* writes between the comparison and the restore.
RestoresOnlyUndrifted ==
  [][\A p \in Proc :
       alarm' \cap {"edit", "overlap"} = {} /\ At(p, "restore") /\ tx[p].kind = "rollback" =>
         \A x \in tx[p].todo : x \in tx'[p].touched => files[x] = tx[p].after[x]]_vars

\* Up to the first alarm (a crash, a reported partial restore, a git apply that failed
\* between its writes, an edit or another transaction in the middle of one) the
\* transaction is what AtomicPatch promises: until it has ended, a file it wrote counts
\* as what it was.
Settled ==
  [x \in Path |->
     IF \E p \in Proc : ~At(p, "idle") /\ x \in tx[p].touched
     THEN LET p == CHOOSE q \in Proc : ~At(q, "idle") /\ x \in tx[q].touched
          IN IF tx[p].kind = "apply" THEN tx[p].before[x] ELSE tx[p].after[x]
     ELSE files[x]]
Atomic == INSTANCE AtomicPatch WITH files <- Settled
RefinesAtomic == Atomic!Spec
===============================================================================
