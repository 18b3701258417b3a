------------------------------ MODULE Governance ------------------------------
(***************************************************************************)
(* How the protection of main becomes a fact the promotion workflow can    *)
(* check (scripts/promotion-repository-governance.js, -governance-lock.js  *)
(* and promotion-authority-bootstrap.js).  An administrator's bootstrap    *)
(* finds or creates the ruleset, reads it with its bypass actors and writes*)
(* a candidate lock; the lock is reviewed and merged; later the workflow   *)
(* reads the rulesets with a token that is not shown the bypass actors, one*)
(* request at a time, and compares what it sees with the lock.  Meanwhile  *)
(* administrators go on changing rulesets.                                 *)
(*                                                                         *)
(* A digest is modelled by what it digests.  The repository, the branch and*)
(* the name of the required check are the same everywhere and left out.    *)
(***************************************************************************)
EXTENDS Naturals, FiniteSets

CONSTANTS
  Name,        \* names of rulesets
  OurName,     \* DEFAULT_RULESET_NAME
  Bodies,      \* what administrators make of a ruleset
  Run,         \* bootstrap processes
  NoLock,      \* the checked-in draft: reviewed = false, ruleset = null
  NoFile,      \* a file that has not been written
  MaxChanges   \* bound: changes of rulesets on the server

\* The parts of a ruleset ruleGaps looks at.  refs "default" is the pattern
\* ~DEFAULT_BRANCH; check "ours" is CI Gate, once, from GitHub Actions.
Body == [active: BOOLEAN, refs: {"main", "default", "elsewhere"},
         pull: {"none", "keepsStale", "dismissesStale"},
         check: {"none", "absent", "twice", "foreign", "ours"},
         strict: BOOLEAN, nonFastForward: BOOLEAN, deletion: BOOLEAN]

ASSUME GovernanceConstants ==
  OurName \in Name /\ Bodies \subseteq Body /\ MaxChanges \in Nat /\ NoFile \notin Run

Ruleset == [id: Nat, name: Name, body: Body, updated: Nat,
            bypass: {"none", "some", "hidden"}]

-------------------------------------------------------------------------------
(* The judgements                                                          *)

TargetsBranch(b) == b.active /\ b.refs = "main"

\* ruleGaps reports no gap
NoGaps(r) ==
  /\ TargetsBranch(r.body)
  /\ r.body.pull = "dismissesStale"
  /\ r.body.check = "ours" /\ r.body.strict
  /\ r.body.nonFastForward /\ r.body.deletion
  /\ r.bypass # "some"

\* ... with requireBypassVisibility
NoGapsVisibly(r) == NoGaps(r) /\ r.bypass # "hidden"

ProjectNull(r) == [r EXCEPT !.bypass = "null"]  \* faulty variant: the field is kept
\* publicRulesetProjection: everything a low-privilege token is shown
PublicProjection(r) == [r EXCEPT !.bypass = "hidden"]

\* createGovernanceLock, of a snapshot it accepts
CreateLock(r) == [id |-> r.id, updated |-> r.updated, projection |-> PublicProjection(r),
                  adminSnapshot |-> r]
Lock == [id: Nat, updated: Nat, projection: Ruleset, adminSnapshot: Ruleset]

Lockable(r) == NoGapsVisibly(r)

MatchIdOnly(r, lk) == r.id = lk.id /\ NoGaps(r)  \* faulty variant: drift is not looked for
Satisfies(r, lk) ==
  /\ NoGaps(r)
  /\ r.updated = lk.updated
  /\ PublicProjection(r) = lk.projection

\* evaluateGovernance: the receipt is ready
Ready(rulesets, lk) ==
  LET matched == {r \in rulesets : r.id = lk.id}
  IN matched # {} /\ \A r \in matched : Satisfies(r, lk)

\* rulesetPayload
Payload == [active |-> TRUE, refs |-> "main", pull |-> "dismissesStale", check |-> "ours",
            strict |-> TRUE, nonFastForward |-> TRUE, deletion |-> TRUE]

-------------------------------------------------------------------------------
VARIABLES
  live,       \* the rulesets on the server
  clock,      \* changes so far; a change stamps updated_at, a creation takes it as id
  boot,       \* boot[b]: the bootstrap process: its step, the ruleset it works on, and
              \* whether it goes on to dispatch a calibration run
  snapshot,   \* the ruleset JSON an administrator exported, if any
  candidate,  \* the candidate lock file, if any
  lock,       \* the lock on main
  eval,       \* the workflow's governance step: its lock, the ids to fetch, what it got
  raced       \* observation: somebody gave a ruleset OurName behind a bootstrap that
              \* had already listed them

server == <<live, clock, raced>>
files  == <<snapshot, candidate, lock>>
vars == <<server, files, boot, eval>>

NotRunning == [step |-> "idle", id |-> 0, trigger |-> FALSE]
NoReceipt == [step |-> "idle", lock |-> NoLock, todo |-> {}, got |-> {}]

Init ==
  /\ live = {} /\ clock = 0 /\ raced = FALSE
  /\ boot = [b \in Run |-> NotRunning]
  /\ snapshot = NoFile /\ candidate = NoFile /\ lock = NoLock
  /\ eval = NoReceipt

-------------------------------------------------------------------------------
(* The server (external)                                                   *)

\* Every change is stamped with a new time; actor is the bootstrap making it, if any.
Put(old, new, actor) ==
  /\ clock < MaxChanges
  /\ clock' = clock + 1
  /\ live' = (live \ old) \cup new
  /\ raced' = (raced \/ \E r \in new, b \in Run \ {actor} :
                          r.name = OurName /\ boot[b].step = "create")

\* An administrator does not knowingly give a second ruleset our name.
NameIsFree(n, others) == n = OurName => \A r \in others : r.name # OurName

AdminCreates(n, b, bypass) ==
  /\ NameIsFree(n, live)
  /\ Put({}, {[id |-> clock + 1, name |-> n, body |-> b, updated |-> clock + 1,
               bypass |-> bypass]}, NoFile)
  /\ UNCHANGED <<files, boot, eval>>

AdminEdits(r, n, b, bypass) ==
  /\ NameIsFree(n, live \ {r})
  /\ Put({r}, {[r EXCEPT !.name = n, !.body = b, !.bypass = bypass, !.updated = clock + 1]},
         NoFile)
  /\ UNCHANGED <<files, boot, eval>>

AdminDeletes(r) ==
  /\ Put({r}, {}, NoFile)
  /\ UNCHANGED <<files, boot, eval>>

\* What a token is shown of a ruleset
View(r, sees) == IF sees THEN r ELSE PublicProjection(r)

-------------------------------------------------------------------------------
(* promotion-authority-bootstrap.js: one gh call per step                  *)

Become(b, state) == boot' = [boot EXCEPT ![b] = state]

\* validateArgs: an action needs its acknowledgement; with no action, a dry run
Start(b, apply, trigger, acknowledged) ==
  /\ boot[b].step = "idle"
  /\ acknowledged /\ (apply \/ trigger)
  /\ Become(b, [step |-> IF apply THEN "list" ELSE "calibrate", id |-> 0, trigger |-> trigger])
  /\ UNCHANGED <<server, files, eval>>

Named == {r \in live : r.name = OurName}
LookAway == {}                         \* faulty variant: what is there is not looked at
Matches == Named

\* listRulesets, exactNamedRuleset: none, one to adopt, or an error
List(b) ==
  /\ boot[b].step = "list"
  /\ Become(b, IF Matches = {} THEN [boot[b] EXCEPT !.step = "create"]
                ELSE IF Cardinality(Matches) > 1 THEN NotRunning
                ELSE [boot[b] EXCEPT !.step = "fetch", !.id = (CHOOSE r \in Matches : TRUE).id])
  /\ UNCHANGED <<server, files, eval>>

\* POST: the ruleset exists whether or not the answer arrives
Create(b, answered) ==
  /\ boot[b].step = "create"
  /\ Put({}, {[id |-> clock + 1, name |-> OurName, body |-> Payload, updated |-> clock + 1,
               bypass |-> "none"]}, b)
  /\ Become(b, IF answered THEN [boot[b] EXCEPT !.step = "fetch", !.id = clock + 1]
                ELSE NotRunning)
  /\ UNCHANGED <<files, eval>>

\* fetchRuleset, the name again, createGovernanceLock, write the candidate
Fetch(b, sees) ==
  /\ boot[b].step = "fetch"
  /\ LET found == {View(r, sees) : r \in {x \in live : x.id = boot[b].id /\ x.name = OurName}}
         fit   == {r \in found : Lockable(r)}
     IN IF fit = {}
        THEN Become(b, NotRunning) /\ UNCHANGED candidate
        ELSE /\ candidate' \in {CreateLock(r) : r \in fit}
             /\ Become(b, IF boot[b].trigger THEN [boot[b] EXCEPT !.step = "calibrate"]
                           ELSE NotRunning)
  /\ UNCHANGED <<server, snapshot, lock, eval>>

\* triggerCalibration dispatches a run with promotion_mode=false, which never
\* evaluates governance; and the same step when any gh call fails before it
\* reaches the server, or the process is stopped.
CalibrateOrFail(b) ==
  /\ boot[b].step # "idle"
  /\ Become(b, NotRunning)
  /\ UNCHANGED <<server, files, eval>>

-------------------------------------------------------------------------------
(* promotion-repository-governance-lock.js, and the review                 *)

\* An administrator saves a ruleset as JSON, with or without its bypass actors.
Export(r, sees) ==
  /\ snapshot' = View(r, sees)
  /\ UNCHANGED <<server, candidate, lock, boot, eval>>

LockSnapshot ==
  /\ snapshot # NoFile
  /\ Lockable(snapshot)
  /\ candidate' = CreateLock(snapshot)
  /\ UNCHANGED <<server, snapshot, lock, boot, eval>>

\* The candidate becomes the lock on main by a reviewed pull request.
MergeLock ==
  /\ candidate # NoFile
  /\ lock' = candidate
  /\ UNCHANGED <<server, snapshot, candidate, boot, eval>>

-------------------------------------------------------------------------------
(* promotion-repository-governance.js in the workflow                      *)

\* The lock of the checked-out commit is read, the active rulesets are listed.
EvalList ==
  /\ eval.step # "detail"
  /\ eval' = [step |-> "detail", lock |-> lock, got |-> {},
              todo |-> {r.id : r \in {x \in live : x.body.active}}]
  /\ UNCHANGED <<server, files, boot>>

\* One request per listed ruleset; one that is gone by then ends the step.
EvalDetail(i) ==
  /\ eval.step = "detail" /\ i \in eval.todo
  /\ LET found == {r \in live : r.id = i}
     IN eval' = IF found = {} THEN NoReceipt
                ELSE [eval EXCEPT !.todo = @ \ {i}, !.got = @ \cup found]
  /\ UNCHANGED <<server, files, boot>>

\* eval.got holds the rulesets as they were on the server; the code sees their
\* public projections.  A draft lock is refused, and a receipt that is not
\* ready fails the workflow.
EvalDecide ==
  /\ eval.step = "detail" /\ eval.todo = {}
  /\ eval' = IF /\ eval.lock # NoLock
               /\ Ready({PublicProjection(r) : r \in eval.got}, eval.lock)
             THEN [eval EXCEPT !.step = "ready"] ELSE NoReceipt
  /\ UNCHANGED <<server, files, boot>>

-------------------------------------------------------------------------------
Next ==
  \/ \E n \in Name, b \in Bodies, y \in {"none", "some"} :
       AdminCreates(n, b, y) \/ \E r \in live : AdminEdits(r, n, b, y)
  \/ \E r \in live : AdminDeletes(r) \/ \E sees \in BOOLEAN : Export(r, sees)
  \/ \E b \in Run :
       \/ List(b) \/ CalibrateOrFail(b)
       \/ \E apply, trigger, ack \in BOOLEAN : Start(b, apply, trigger, ack)
       \/ \E yes \in BOOLEAN : Create(b, yes) \/ Fetch(b, yes)
  \/ LockSnapshot \/ MergeLock
  \/ EvalList \/ EvalDecide \/ \E i \in eval.todo : EvalDetail(i)

Spec == Init /\ [][Next]_vars

-------------------------------------------------------------------------------
TypeOK ==
  /\ live \subseteq Ruleset
  /\ clock \in Nat
  /\ boot \in [Run -> [step: {"idle", "list", "create", "fetch", "calibrate"},
                       id: Nat, trigger: BOOLEAN]]
  /\ snapshot \in Ruleset \cup {NoFile}
  /\ candidate \in Lock \cup {NoFile}
  /\ lock \in Lock \cup {NoLock}
  /\ eval \in [step: {"idle", "detail", "ready"}, lock: Lock \cup {NoLock},
               todo: SUBSET Nat, got: SUBSET Ruleset]
  /\ raced \in BOOLEAN

\* A ready receipt means that the ruleset the workflow read was, when it read
\* it, exactly the one the administrator reviewed: complete, and with no bypass
\* actor, although the workflow is never shown them
\* (docs/PROMOTION_REPOSITORY_GOVERNANCE.md:119).
ReadyMeansReviewed ==
  eval.step = "ready" =>
    \E r \in eval.got :
      /\ r = eval.lock.adminSnapshot
      /\ NoGaps(r) /\ r.bypass = "none"

\* A bootstrap repeated after a lost answer adopts the ruleset it made: two of
\* the name exist only if two bootstraps, or a bootstrap and an administrator,
\* overlapped between the listing and the creation.
NoOverlapNoDuplicate == ~raced => Cardinality(Named) <= 1
===============================================================================
