--------------------------- MODULE Governance_proofs ---------------------------
(***************************************************************************)
(* The three invariants of Governance, for any number of bootstraps,        *)
(* rulesets and changes.                                                   *)
(*                                                                         *)
(* Why a ready receipt means what it says: the workflow sees neither the   *)
(* bypass actors nor the moment the lock was made, only an id, a time and a*)
(* projection.  Every ruleset anybody ever read with its bypass actors     *)
(* shown was on the server when it was read, and the server stamps every   *)
(* change with a new time (Stamped), so two of them with one id and one    *)
(* time are the same; and every lock was made of one of them (LocksHold).  *)
(***************************************************************************)
EXTENDS Governance, FiniteSetTheorems, TLAPS

Read(r) ==
  \/ r \in live \/ r \in eval.got
  \/ candidate # NoFile /\ r = candidate.adminSnapshot
  \/ lock # NoLock /\ r = lock.adminSnapshot
  \/ eval.lock # NoLock /\ r = eval.lock.adminSnapshot
  \/ snapshot # NoFile /\ r = snapshot /\ r.bypass # "hidden"
Records == {r \in Ruleset : Read(r)}

Stamped ==
  /\ \A r \in Records : r.updated <= clock
  /\ \A r, s \in Records : r.id = s.id /\ r.updated = s.updated => r = s

Holds(lk) == lk = CreateLock(lk.adminSnapshot) /\ NoGapsVisibly(lk.adminSnapshot)
LocksHold ==
  /\ candidate # NoFile => Holds(candidate)
  /\ lock # NoLock => Holds(lock)
  /\ eval.lock # NoLock => Holds(eval.lock)

ServerShowsAll == \A r \in live \cup eval.got : r.bypass # "hidden"

\* Who is about to create found nothing, and nothing came in between.
NoneUnderWay ==
  /\ \A r, s \in Named : r = s
  /\ \A b \in Run : boot[b].step = "create" => Named = {}

GInv ==
  /\ TypeOK /\ Stamped /\ LocksHold /\ ServerShowsAll /\ ReadyMeansReviewed
  /\ ~raced => NoneUnderWay

-------------------------------------------------------------------------------
LEMMA PayloadIsBody == Payload \in Body
BY DEF Payload, Body

LEMMA ProjectionType ==
  ASSUME NEW r \in Ruleset
  PROVE  /\ PublicProjection(r) \in Ruleset
         /\ PublicProjection(r).id = r.id
         /\ PublicProjection(r).updated = r.updated
         /\ PublicProjection(r).body = r.body
         /\ PublicProjection(r).name = r.name
         /\ PublicProjection(r).bypass = "hidden"
         /\ PublicProjection(PublicProjection(r)) = PublicProjection(r)
BY DEF PublicProjection, Ruleset

\* Two rulesets with one projection differ in their bypass actors at most.
LEMMA ProjectionLosesBypass ==
  ASSUME NEW r \in Ruleset, NEW s \in Ruleset,
         PublicProjection(r) = PublicProjection(s)
  PROVE  r.id = s.id /\ r.updated = s.updated /\ r.body = s.body
BY ProjectionType

LEMMA LockType ==
  ASSUME NEW r \in Ruleset, Lockable(r)
  PROVE  /\ CreateLock(r) \in Lock /\ CreateLock(r).adminSnapshot = r
         /\ Holds(CreateLock(r))
<1>1. CreateLock(r).adminSnapshot = r
  BY DEF CreateLock
<1>2. CreateLock(r) \in Lock
  BY ProjectionType DEF CreateLock, Lock, Ruleset
<1> QED
  BY <1>1, <1>2 DEF Holds, Lockable

\* What a token is shown is a ruleset of the server or has no bypass actors.
LEMMA ViewType ==
  ASSUME NEW r \in Ruleset, NEW sees \in BOOLEAN
  PROVE  /\ View(r, sees) \in Ruleset
         /\ View(r, sees).bypass # "hidden" => View(r, sees) = r
BY ProjectionType DEF View

\* Reading and locking add nothing to the records ...
LEMMA StampedKept ==
  ASSUME Stamped, clock' = clock, Records' \subseteq Records
  PROVE  Stamped'
BY DEF Stamped

\* ... and a change adds one ruleset with a new time.
LEMMA StampedGrows ==
  ASSUME TypeOK, Stamped, clock' = clock + 1,
         NEW s, Records' \subseteq Records \cup {s}, s \in Ruleset, s.updated = clock + 1
  PROVE  Stamped'
<1>1. \A r \in Records : r \in Ruleset /\ r.updated \in Nat /\ r.updated <= clock
  BY DEF Stamped, Records, Ruleset
<1>2. clock \in Nat
  BY DEF TypeOK
<1>3. \A r \in Records' : r.updated <= clock'
  BY <1>1, <1>2
<1>4. ASSUME NEW r \in Records', NEW t \in Records', r.id = t.id, r.updated = t.updated
      PROVE  r = t
  <2>1. CASE r = s /\ t = s
    BY <2>1
  <2>2. CASE r \in Records /\ t \in Records
    BY <2>2, <1>4 DEF Stamped
  <2>3. CASE r = s /\ t \in Records
    BY <2>3, <1>1, <1>2, <1>4
  <2>4. CASE r \in Records /\ t = s
    BY <2>4, <1>1, <1>2, <1>4
  <2> QED
    BY <2>1, <2>2, <2>3, <2>4, <1>4
<1> QED
  BY <1>3, <1>4 DEF Stamped

-------------------------------------------------------------------------------
LEMMA InitGInv == Init => GInv
<1> SUFFICES ASSUME Init PROVE GInv
  OBVIOUS
<1> USE DEF Init, NotRunning, NoReceipt
<1>1. TypeOK
  BY DEF TypeOK
<1>2. Records = {}
  BY DEF Records, Read
<1>3. Stamped
  BY <1>2 DEF Stamped
<1>4. LocksHold /\ ServerShowsAll /\ ReadyMeansReviewed /\ NoneUnderWay
  BY DEF LocksHold, ServerShowsAll, ReadyMeansReviewed, NoneUnderWay, Named
<1> QED
  BY <1>1, <1>3, <1>4 DEF GInv

-------------------------------------------------------------------------------
(* The server                                                              *)

LEMMA PutKeeps ==
  ASSUME GInv, UNCHANGED <<files, eval>>,
         NEW old \in SUBSET live, NEW new \in SUBSET Ruleset, NEW actor,
         NEW s \in Ruleset, new \subseteq {s}, s.updated = clock + 1, s.bypass # "hidden",
         Put(old, new, actor),
         boot' \in [Run -> [step: {"idle", "list", "create", "fetch", "calibrate"},
                            id: Nat, trigger: BOOLEAN]]
  PROVE  /\ TypeOK' /\ Stamped' /\ LocksHold' /\ ServerShowsAll' /\ ReadyMeansReviewed'
         /\ live' = (live \ old) \cup new /\ (~raced' => ~raced)
<1> USE DEF GInv, Put
<1>1. TypeOK'
  BY DEF TypeOK, files
<1>2. Records' \subseteq Records \cup {s}
  BY DEF Records, Read, files
<1>3. Stamped'
  BY <1>2, StampedGrows
<1>4. LocksHold' /\ ReadyMeansReviewed'
  BY DEF LocksHold, ReadyMeansReviewed, files
<1>5. ServerShowsAll'
  BY DEF ServerShowsAll
<1> QED
  BY <1>1, <1>3, <1>4, <1>5

LEMMA AdminPutKeeps ==
  ASSUME GInv, UNCHANGED <<files, boot, eval>>,
         NEW old \in SUBSET live, NEW new \in SUBSET Ruleset,
         NEW s \in Ruleset, new \subseteq {s}, s.updated = clock + 1, s.bypass # "hidden",
         new # {} => NameIsFree(s.name, live \ old),
         Put(old, new, NoFile)
  PROVE  GInv'
<1>1. /\ TypeOK' /\ Stamped' /\ LocksHold' /\ ServerShowsAll' /\ ReadyMeansReviewed'
      /\ live' = (live \ old) \cup new /\ (~raced' => ~raced)
  BY PutKeeps DEF GInv, TypeOK
<1>2. ASSUME ~raced' PROVE NoneUnderWay'
  <2>1. NoneUnderWay
    BY <1>1, <1>2 DEF GInv
  <2>2. s \in new /\ s.name = OurName => \A b \in Run : boot[b].step # "create"
    BY <1>2, GovernanceConstants DEF Put
  <2>3. CASE s \in new /\ s.name = OurName
    <3>1. Named' = {s}
      BY <2>3, <1>1 DEF Named, NameIsFree
    <3> QED
      BY <3>1, <2>2, <2>3 DEF NoneUnderWay
  <2>4. CASE ~(s \in new /\ s.name = OurName)
    <3>1. Named' \subseteq Named
      BY <2>4, <1>1 DEF Named
    <3> QED
      BY <3>1, <2>1 DEF NoneUnderWay
  <2> QED
    BY <2>3, <2>4
<1> QED
  BY <1>1, <1>2 DEF GInv

LEMMA AdminCreatesGInv ==
  ASSUME GInv, NEW n \in Name, NEW b \in Bodies, NEW y \in {"none", "some"},
         AdminCreates(n, b, y)
  PROVE  GInv'
<1> DEFINE s == [id |-> clock + 1, name |-> n, body |-> b, updated |-> clock + 1, bypass |-> y]
<1>1. s \in Ruleset /\ s.updated = clock + 1 /\ s.bypass # "hidden" /\ s.name = n
  BY GovernanceConstants DEF GInv, TypeOK, Ruleset
<1>2. Put({}, {s}, NoFile) /\ NameIsFree(s.name, live \ {}) /\ UNCHANGED <<files, boot, eval>>
  BY <1>1 DEF AdminCreates
<1> HIDE DEF s
<1> QED
  BY <1>1, <1>2, AdminPutKeeps

LEMMA AdminEditsGInv ==
  ASSUME GInv, NEW n \in Name, NEW b \in Bodies, NEW y \in {"none", "some"},
         NEW r \in live, AdminEdits(r, n, b, y)
  PROVE  GInv'
<1> DEFINE s == [r EXCEPT !.name = n, !.body = b, !.bypass = y, !.updated = clock + 1]
<1>1. s \in Ruleset /\ s.updated = clock + 1 /\ s.bypass # "hidden" /\ s.name = n
  <2>1. r \in Ruleset /\ clock + 1 \in Nat /\ b \in Body
    BY GovernanceConstants DEF GInv, TypeOK
  <2> QED
    BY <2>1 DEF Ruleset
<1>2. Put({r}, {s}, NoFile) /\ NameIsFree(s.name, live \ {r}) /\ UNCHANGED <<files, boot, eval>>
  BY <1>1 DEF AdminEdits
<1> HIDE DEF s
<1> QED
  BY <1>1, <1>2, AdminPutKeeps

LEMMA AdminDeletesGInv ==
  ASSUME GInv, NEW r \in live, AdminDeletes(r)
  PROVE  GInv'
<1>1. Put({r}, {}, NoFile) /\ UNCHANGED <<files, boot, eval>>
  BY DEF AdminDeletes
<1> DEFINE s == [r EXCEPT !.updated = clock + 1, !.bypass = "none"]
<1>2. s \in Ruleset /\ s.updated = clock + 1 /\ s.bypass # "hidden"
  <2>1. r \in Ruleset /\ clock + 1 \in Nat
    BY DEF GInv, TypeOK
  <2> QED
    BY <2>1 DEF Ruleset
<1>3. {r} \in SUBSET live /\ {} \in SUBSET Ruleset /\ {} \subseteq {s}
  OBVIOUS
<1> HIDE DEF s
<1> QED
  BY <1>1, <1>2, <1>3, AdminPutKeeps

LEMMA CreateGInv ==
  ASSUME GInv, NEW b \in Run, NEW yes \in BOOLEAN, Create(b, yes)
  PROVE  GInv'
<1> DEFINE s == [id |-> clock + 1, name |-> OurName, body |-> Payload, updated |-> clock + 1,
                 bypass |-> "none"]
<1>1. s \in Ruleset /\ s.updated = clock + 1 /\ s.bypass # "hidden" /\ s.name = OurName
  <2>1. clock + 1 \in Nat /\ OurName \in Name
    BY GovernanceConstants DEF GInv, TypeOK
  <2> QED
    BY <2>1, PayloadIsBody DEF Ruleset
<1>2. Put({}, {s}, b) /\ UNCHANGED <<files, eval>> /\ boot[b].step = "create"
  BY DEF Create
<1>3. /\ boot' \in [Run -> [step: {"idle", "list", "create", "fetch", "calibrate"},
                            id: Nat, trigger: BOOLEAN]]
      /\ boot'[b].step # "create" /\ \A c \in Run \ {b} : boot'[c] = boot[c]
  <2> DEFINE State == [step: {"idle", "list", "create", "fetch", "calibrate"},
                       id: Nat, trigger: BOOLEAN]
             next == IF yes THEN [boot[b] EXCEPT !.step = "fetch", !.id = clock + 1]
                     ELSE NotRunning
  <2>1. boot \in [Run -> State] /\ clock \in Nat
    BY DEF GInv, TypeOK
  <2>2. next \in State /\ next.step # "create"
    <3>1. CASE yes
      <4>1. boot[b] \in State /\ clock + 1 \in Nat
        BY <2>1
      <4>2. [boot[b] EXCEPT !.step = "fetch", !.id = clock + 1] \in State
        BY <4>1
      <4>3. next = [boot[b] EXCEPT !.step = "fetch", !.id = clock + 1]
        BY <3>1
      <4>4. next.step = "fetch"
        BY <4>1, <4>3
      <4> QED
        BY <4>2, <4>3, <4>4
    <3>2. CASE ~yes
      BY <3>2 DEF NotRunning
    <3> QED
      BY <3>1, <3>2
  <2>3. boot' = [boot EXCEPT ![b] = next]
    BY DEF Create, Become
  <2> HIDE DEF State, next
  <2>4. boot' \in [Run -> State] /\ boot'[b].step # "create"
        /\ \A c \in Run \ {b} : boot'[c] = boot[c]
    BY <2>1, <2>2, <2>3
  <2> QED
    BY <2>4 DEF State
<1> HIDE DEF s
<1>4. /\ TypeOK' /\ Stamped' /\ LocksHold' /\ ServerShowsAll' /\ ReadyMeansReviewed'
      /\ live' = (live \ {}) \cup {s} /\ (~raced' => ~raced)
  BY <1>1, <1>2, <1>3, PutKeeps
<1>5. ASSUME ~raced' PROVE NoneUnderWay'
  <2>1. Named = {}
    BY <1>2, <1>4, <1>5 DEF GInv, NoneUnderWay
  <2>2. Named' = {s}
    BY <2>1, <1>1, <1>4 DEF Named
  <2>3. \A c \in Run \ {b} : boot[c].step # "create"
    BY <1>1, <1>2, <1>5 DEF Put
  <2> QED
    BY <2>2, <2>3, <1>3 DEF NoneUnderWay
<1> QED
  BY <1>4, <1>5 DEF GInv

-------------------------------------------------------------------------------
(* Bootstraps that read, locks, and the workflow                           *)

\* Nothing happens on the server and no bootstrap comes to "create".
LEMMA QuietKeepsNoneUnderWay ==
  ASSUME GInv, UNCHANGED server,
         \A b \in Run : boot'[b].step = "create" => boot[b].step = "create" \/ Named = {}
  PROVE  ServerShowsAll => (~raced' => NoneUnderWay')
BY DEF GInv, server, NoneUnderWay, Named

\* A bootstrap moves and leaves everything but its own state alone.
LEMMA BootMovesGInv ==
  ASSUME GInv, UNCHANGED <<server, files, eval>>,
         NEW b \in Run,
         NEW state \in [step: {"idle", "list", "create", "fetch", "calibrate"},
                        id: Nat, trigger: BOOLEAN],
         Become(b, state), state.step = "create" => Named = {}
  PROVE  GInv'
<1>1. TypeOK'
  BY DEF GInv, TypeOK, server, files, Become
<1>2. Records' = Records
  BY DEF Records, Read, server, files
<1>3. Stamped'
  BY <1>2, StampedKept DEF GInv, server
<1>4. LocksHold' /\ ServerShowsAll' /\ ReadyMeansReviewed'
  BY DEF GInv, LocksHold, ServerShowsAll, ReadyMeansReviewed, server, files
<1>5. \A c \in Run : boot'[c].step = "create" => boot[c].step = "create" \/ Named = {}
  BY DEF GInv, TypeOK, Become
<1>6. ~raced' => NoneUnderWay'
  BY <1>5, QuietKeepsNoneUnderWay DEF GInv
<1> QED
  BY <1>1, <1>3, <1>4, <1>6 DEF GInv

LEMMA StartGInv ==
  ASSUME GInv, NEW b \in Run, NEW apply \in BOOLEAN, NEW trigger \in BOOLEAN,
         NEW ack \in BOOLEAN, Start(b, apply, trigger, ack)
  PROVE  GInv'
BY BootMovesGInv DEF Start

LEMMA ListGInv ==
  ASSUME GInv, NEW b \in Run, List(b)
  PROVE  GInv'
<1>1. boot[b] \in [step: {"idle", "list", "create", "fetch", "calibrate"},
                   id: Nat, trigger: BOOLEAN]
  BY DEF GInv, TypeOK
<1>2. CASE Matches = {}
  BY <1>1, <1>2, BootMovesGInv DEF List, Matches
<1>3. CASE Matches # {} /\ Cardinality(Matches) > 1
  BY <1>3, BootMovesGInv DEF List, NotRunning
<1>4. CASE Matches # {} /\ ~(Cardinality(Matches) > 1)
  <2> DEFINE i == (CHOOSE r \in Matches : TRUE).id
  <2>1. i \in Nat
    <3>1. (CHOOSE r \in Matches : TRUE) \in Matches
      BY <1>4
    <3>2. Matches \subseteq Ruleset
      BY DEF Matches, Named, GInv, TypeOK
    <3> QED
      BY <3>1, <3>2 DEF Ruleset
  <2>2. Become(b, [boot[b] EXCEPT !.step = "fetch", !.id = i])
    BY <1>4 DEF List
  <2> HIDE DEF i
  <2> QED
    BY <1>1, <2>1, <2>2, BootMovesGInv DEF List
<1> QED
  BY <1>2, <1>3, <1>4

LEMMA CalibrateOrFailGInv ==
  ASSUME GInv, NEW b \in Run, CalibrateOrFail(b)
  PROVE  GInv'
BY BootMovesGInv DEF CalibrateOrFail, NotRunning

\* A lock made of a record, or of nothing new: the locks still hold.
LEMMA CandidateGInv ==
  ASSUME GInv, UNCHANGED <<server, snapshot, lock, eval>>,
         NEW r \in Records, Lockable(r), candidate' = CreateLock(r),
         boot' \in [Run -> [step: {"idle", "list", "create", "fetch", "calibrate"},
                            id: Nat, trigger: BOOLEAN]],
         \A b \in Run : boot'[b].step = "create" => boot[b].step = "create"
  PROVE  GInv'
<1>1. r \in Ruleset
  BY DEF Records
<1>2. candidate' \in Lock /\ candidate'.adminSnapshot = r /\ Holds(candidate')
  BY <1>1, LockType
<1>3. TypeOK'
  BY <1>2 DEF GInv, TypeOK, server
<1>4. Records' \subseteq Records
  BY <1>2 DEF Records, Read, server
<1>5. Stamped'
  BY <1>4, StampedKept DEF GInv, server
<1>6. LocksHold' /\ ServerShowsAll' /\ ReadyMeansReviewed'
  BY <1>2 DEF GInv, LocksHold, Holds, ServerShowsAll, ReadyMeansReviewed, server
<1>7. ~raced' => NoneUnderWay'
  BY QuietKeepsNoneUnderWay DEF GInv
<1> QED
  BY <1>3, <1>5, <1>6, <1>7 DEF GInv

LEMMA FetchGInv ==
  ASSUME GInv, NEW b \in Run, NEW sees \in BOOLEAN, Fetch(b, sees)
  PROVE  GInv'
<1> DEFINE fit == {r \in {View(r, sees) : r \in {x \in live : x.id = boot[b].id /\ x.name = OurName}} :
                     Lockable(r)}
<1>1. boot[b] \in [step: {"idle", "list", "create", "fetch", "calibrate"},
                   id: Nat, trigger: BOOLEAN]
  BY DEF GInv, TypeOK
<1>2. CASE fit = {}
  BY <1>2, BootMovesGInv DEF Fetch, NotRunning, files
<1>3. CASE fit # {}
  <2>1. PICK r \in fit : candidate' = CreateLock(r)
    BY <1>3 DEF Fetch
  <2>2. r \in Records
    <3>1. PICK x \in live : r = View(x, sees)
      OBVIOUS
    <3>2. x \in Ruleset /\ r.bypass # "hidden"
      BY DEF GInv, TypeOK, Lockable, NoGapsVisibly
    <3>3. r = x
      BY <3>1, <3>2, ViewType
    <3> QED
      BY <3>2, <3>3 DEF Records, Read
  <2>3. /\ boot' \in [Run -> [step: {"idle", "list", "create", "fetch", "calibrate"},
                              id: Nat, trigger: BOOLEAN]]
        /\ \A c \in Run : boot'[c].step = "create" => boot[c].step = "create"
    <3>1. Become(b, IF boot[b].trigger THEN [boot[b] EXCEPT !.step = "calibrate"]
                    ELSE NotRunning)
      BY <1>3 DEF Fetch
    <3> QED
      BY <3>1, <1>1 DEF Become, NotRunning, GInv, TypeOK
  <2>4. UNCHANGED <<server, snapshot, lock, eval>> /\ Lockable(r)
    BY DEF Fetch
  <2> HIDE DEF fit
  <2> QED
    BY <2>1, <2>2, <2>3, <2>4, CandidateGInv
<1> QED
  BY <1>2, <1>3

LEMMA LockSnapshotGInv ==
  ASSUME GInv, LockSnapshot
  PROVE  GInv'
<1>1. snapshot \in Records /\ Lockable(snapshot)
  BY DEF LockSnapshot, Lockable, NoGapsVisibly, Records, Read, GInv, TypeOK
<1>2. /\ candidate' = CreateLock(snapshot)
      /\ UNCHANGED <<server, snapshot, lock, boot, eval>>
  BY DEF LockSnapshot
<1> QED
  BY <1>1, <1>2, CandidateGInv DEF GInv, TypeOK

LEMMA ExportGInv ==
  ASSUME GInv, NEW r \in live, NEW sees \in BOOLEAN, Export(r, sees)
  PROVE  GInv'
<1>1. r \in Ruleset /\ UNCHANGED <<server, candidate, lock, boot, eval>>
  BY DEF GInv, TypeOK, Export
<1>2. snapshot' \in Ruleset /\ (snapshot'.bypass # "hidden" => snapshot' = r)
  BY <1>1, ViewType DEF Export
<1>3. TypeOK'
  BY <1>1, <1>2 DEF GInv, TypeOK, server
<1>4. Records' \subseteq Records
  BY <1>1, <1>2 DEF Records, Read, server
<1>5. Stamped'
  BY <1>1, <1>4, StampedKept DEF GInv, server
<1>6. LocksHold' /\ ServerShowsAll' /\ ReadyMeansReviewed'
  BY <1>1 DEF GInv, LocksHold, ServerShowsAll, ReadyMeansReviewed, server
<1>7. ~raced' => NoneUnderWay'
  BY <1>1, QuietKeepsNoneUnderWay DEF GInv
<1> QED
  BY <1>3, <1>5, <1>6, <1>7 DEF GInv

LEMMA MergeLockGInv ==
  ASSUME GInv, MergeLock
  PROVE  GInv'
<1>1. /\ candidate # NoFile /\ lock' = candidate
      /\ UNCHANGED <<server, snapshot, candidate, boot, eval>>
  BY DEF MergeLock
<1>2. TypeOK'
  BY <1>1 DEF GInv, TypeOK, server
<1>3. Records' \subseteq Records
  BY <1>1 DEF Records, Read, server
<1>4. Stamped'
  BY <1>1, <1>3, StampedKept DEF GInv, server
<1>5. LocksHold' /\ ServerShowsAll' /\ ReadyMeansReviewed'
  BY <1>1 DEF GInv, LocksHold, Holds, ServerShowsAll, ReadyMeansReviewed, server
<1>6. ~raced' => NoneUnderWay'
  BY <1>1, QuietKeepsNoneUnderWay DEF GInv
<1> QED
  BY <1>2, <1>4, <1>5, <1>6 DEF GInv

\* The workflow's step changes its own state, to one it has the right to.
LEMMA EvalGInv ==
  ASSUME GInv, UNCHANGED <<server, files, boot>>,
         eval' \in [step: {"idle", "detail", "ready"}, lock: Lock \cup {NoLock},
                    todo: SUBSET Nat, got: SUBSET Ruleset],
         eval'.got \subseteq live \cup eval.got,
         eval'.lock \in {NoLock, lock, eval.lock},
         ReadyMeansReviewed'
  PROVE  GInv'
<1>1. TypeOK'
  BY DEF GInv, TypeOK, server, files
<1>2. Records' \subseteq Records
  BY DEF Records, Read, server, files
<1>3. Stamped'
  BY <1>2, StampedKept DEF GInv, server
<1>4. LocksHold'
  BY DEF GInv, LocksHold, Holds, files
<1>5. ServerShowsAll'
  BY DEF GInv, ServerShowsAll, server
<1>6. ~raced' => NoneUnderWay'
  BY QuietKeepsNoneUnderWay DEF GInv
<1> QED
  BY <1>1, <1>3, <1>4, <1>5, <1>6 DEF GInv

LEMMA EvalListGInv ==
  ASSUME GInv, EvalList
  PROVE  GInv'
<1>1. {r.id : r \in {x \in live : x.body.active}} \in SUBSET Nat
  BY DEF GInv, TypeOK, Ruleset
<1>2. eval' = [step |-> "detail", lock |-> lock, got |-> {},
               todo |-> {r.id : r \in {x \in live : x.body.active}}]
  BY DEF EvalList
<1>3. ReadyMeansReviewed' /\ UNCHANGED <<server, files, boot>>
  BY <1>2 DEF ReadyMeansReviewed, EvalList
<1> QED
  BY <1>1, <1>2, <1>3, EvalGInv DEF GInv, TypeOK

LEMMA NoReceiptGInv ==
  ASSUME GInv, UNCHANGED <<server, files, boot>>, eval' = NoReceipt
  PROVE  GInv'
<1>1. ReadyMeansReviewed'
  BY DEF ReadyMeansReviewed, NoReceipt
<1> QED
  BY <1>1, EvalGInv DEF NoReceipt

LEMMA EvalDetailGInv ==
  ASSUME GInv, NEW i \in eval.todo, EvalDetail(i)
  PROVE  GInv'
<1> DEFINE found == {r \in live : r.id = i}
<1>1. UNCHANGED <<server, files, boot>> /\ eval.step = "detail"
  BY DEF EvalDetail
<1>2. CASE found = {}
  BY <1>1, <1>2, NoReceiptGInv DEF EvalDetail
<1>3. CASE found # {}
  <2>1. eval' = [eval EXCEPT !.todo = @ \ {i}, !.got = @ \cup found]
    BY <1>3 DEF EvalDetail
  <2>2. eval \in [step: {"idle", "detail", "ready"}, lock: Lock \cup {NoLock},
                  todo: SUBSET Nat, got: SUBSET Ruleset]
        /\ found \subseteq live /\ live \subseteq Ruleset
    BY DEF GInv, TypeOK
  <2> HIDE DEF found
  <2>3. /\ eval' \in [step: {"idle", "detail", "ready"}, lock: Lock \cup {NoLock},
                       todo: SUBSET Nat, got: SUBSET Ruleset]
        /\ eval'.got \subseteq live \cup eval.got /\ eval'.lock = eval.lock
        /\ eval'.step = "detail"
    BY <1>1, <2>1, <2>2
  <2>4. ReadyMeansReviewed'
    BY <2>3 DEF ReadyMeansReviewed
  <2> QED
    BY <1>1, <2>3, <2>4, EvalGInv
<1> QED
  BY <1>2, <1>3

\* The argument of the module comment.
LEMMA ReadyIsReviewed ==
  ASSUME GInv, eval.lock # NoLock, Ready({PublicProjection(r) : r \in eval.got}, eval.lock)
  PROVE  \E r \in eval.got :
           r = eval.lock.adminSnapshot /\ NoGaps(r) /\ r.bypass = "none"
<1> DEFINE lk == eval.lock
           s == eval.lock.adminSnapshot
<1>1. lk \in Lock /\ s \in Ruleset /\ eval.got \subseteq Ruleset
  BY DEF GInv, TypeOK, Lock
<1>2. lk = CreateLock(s) /\ NoGapsVisibly(s)
  BY DEF GInv, LocksHold, Holds
<1>3. PICK r \in eval.got : Satisfies(PublicProjection(r), lk)
  BY DEF Ready
<1>4. PublicProjection(r) = PublicProjection(s)
  <2>1. lk.projection = PublicProjection(s)
    BY <1>2 DEF CreateLock
  <2>2. PublicProjection(PublicProjection(r)) = lk.projection
    BY <1>3 DEF Satisfies
  <2> QED
    BY <1>1, <2>1, <2>2, ProjectionType
<1>5. r.id = s.id /\ r.updated = s.updated
  BY <1>1, <1>4, ProjectionLosesBypass
<1>6. r \in Records /\ s \in Records
  BY <1>1 DEF Records, Read
<1>7. r = s
  BY <1>5, <1>6 DEF GInv, Stamped
<1>8. s.bypass = "none"
  BY <1>1, <1>2 DEF NoGapsVisibly, NoGaps, Ruleset
<1> QED
  BY <1>2, <1>7, <1>8 DEF NoGapsVisibly

LEMMA EvalDecideGInv ==
  ASSUME GInv, EvalDecide
  PROVE  GInv'
<1> DEFINE ready == eval.lock # NoLock
                    /\ Ready({PublicProjection(r) : r \in eval.got}, eval.lock)
<1>1. UNCHANGED <<server, files, boot>>
  BY DEF EvalDecide
<1>2. CASE ~ready
  BY <1>1, <1>2, NoReceiptGInv DEF EvalDecide
<1>3. CASE ready
  <2>1. eval' = [eval EXCEPT !.step = "ready"]
    BY <1>3 DEF EvalDecide
  <2>2. /\ eval' \in [step: {"idle", "detail", "ready"}, lock: Lock \cup {NoLock},
                       todo: SUBSET Nat, got: SUBSET Ruleset]
        /\ eval'.got = eval.got /\ eval'.lock = eval.lock
    BY <2>1 DEF GInv, TypeOK
  <2>3. ReadyMeansReviewed'
    BY <1>3, <2>2, ReadyIsReviewed DEF ReadyMeansReviewed
  <2> HIDE DEF ready
  <2> QED
    BY <1>1, <2>2, <2>3, EvalGInv
<1> QED
  BY <1>2, <1>3

-------------------------------------------------------------------------------
LEMMA NextGInv == GInv /\ [Next]_vars => GInv'
<1> SUFFICES ASSUME GInv, [Next]_vars PROVE GInv'
  OBVIOUS
<1>1. CASE UNCHANGED vars
  <2>1. UNCHANGED <<server, files, boot>> /\ eval' = eval
    BY <1>1 DEF vars
  <2>2. ReadyMeansReviewed'
    BY <2>1 DEF GInv, ReadyMeansReviewed
  <2> QED
    BY <2>1, <2>2, EvalGInv DEF GInv, TypeOK
<1>2. CASE Next
  <2>1. CASE \E n \in Name, b \in Bodies, y \in {"none", "some"} : AdminCreates(n, b, y)
    BY <2>1, AdminCreatesGInv
  <2>2. CASE \E n \in Name, b \in Bodies, y \in {"none", "some"} :
               \E r \in live : AdminEdits(r, n, b, y)
    BY <2>2, AdminEditsGInv
  <2>3. CASE \E r \in live : AdminDeletes(r) \/ \E sees \in BOOLEAN : Export(r, sees)
    BY <2>3, AdminDeletesGInv, ExportGInv
  <2>4. CASE \E b \in Run : List(b) \/ CalibrateOrFail(b)
    BY <2>4, ListGInv, CalibrateOrFailGInv
  <2>5. CASE \E b \in Run : \E apply, trigger, ack \in BOOLEAN : Start(b, apply, trigger, ack)
    BY <2>5, StartGInv
  <2>6. CASE \E b \in Run : \E yes \in BOOLEAN : Create(b, yes) \/ Fetch(b, yes)
    BY <2>6, CreateGInv, FetchGInv
  <2>7. CASE LockSnapshot \/ MergeLock
    BY <2>7, LockSnapshotGInv, MergeLockGInv
  <2>8. CASE EvalList \/ EvalDecide \/ \E i \in eval.todo : EvalDetail(i)
    BY <2>8, EvalListGInv, EvalDecideGInv, EvalDetailGInv
  <2> QED
    BY <1>2, <2>1, <2>2, <2>3, <2>4, <2>5, <2>6, <2>7, <2>8 DEF Next
<1> QED
  BY <1>1, <1>2

\* Bootstraps, administrators and the workflow keep the invariant.
THEOREM GInvariance == Spec => []GInv
BY InitGInv, NextGInv, PTL DEF Spec

\* Types: every lock is made of a ruleset, whatever was edited in between.
THEOREM Typing == Spec => []TypeOK
<1>1. GInv => TypeOK
  BY DEF GInv
<1> QED
  BY <1>1, GInvariance, PTL

\* A ready receipt means that the workflow read exactly the ruleset that was
\* reviewed, bypass actors included, which it is never shown.
THEOREM ReadyIsSound == Spec => []ReadyMeansReviewed
<1>1. GInv => ReadyMeansReviewed
  BY DEF GInv
<1> QED
  BY <1>1, GInvariance, PTL

\* Bootstraps that do not overlap with anybody leave one ruleset of the name,
\* however often they are repeated and whichever answers they lose.
THEOREM BootstrapIsIdempotent == Spec => []NoOverlapNoDuplicate
<1>1. GInv => NoOverlapNoDuplicate
  <2> SUFFICES ASSUME GInv, ~raced PROVE Cardinality(Named) <= 1
    BY DEF NoOverlapNoDuplicate
  <2>1. \A r, s \in Named : r = s
    BY DEF GInv, NoneUnderWay
  <2>2. CASE Named = {}
    BY <2>2, FS_EmptySet
  <2>3. CASE Named # {}
    <3>1. PICK r \in Named : TRUE
      BY <2>3
    <3>2. Named = {r}
      BY <2>1, <3>1
    <3>3. Cardinality({r}) = 1
      BY FS_Singleton, Zenon
    <3> QED
      BY <3>2, <3>3
  <2> QED
    BY <2>2, <2>3
<1> QED
  BY <1>1, GInvariance, PTL
===============================================================================
