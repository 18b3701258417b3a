------------------------ MODULE PatchTransaction_proofs ------------------------
(***************************************************************************)
(* The invariants of PatchTransaction, and that it implements AtomicPatch, *)
(* for any number of processes, files, patches and snapshots, and for any  *)
(* faults.                                                                 *)
(*                                                                         *)
(* Whatever else goes on, a transaction knows what it has written: its     *)
(* touched paths follow from its step (Shape).  A patched file that no     *)
(* snapshot records is still in the hands of an apply that will record it  *)
(* or put it back (Tended).  And as long as no edit and no other           *)
(* transaction comes in between, what a transaction has captured, written, *)
(* finalized or compared is what the files hold (Faithful).                *)
(***************************************************************************)
EXTENDS PatchTransaction, TLAPS

-------------------------------------------------------------------------------
(* Partial functions                                                       *)

LEMMA PartialFunctions ==
  ASSUME NEW S, NEW f
  PROVE  f \in Partial(S) <=> \E q \in SUBSET S : f \in [q -> Content]
BY DEF Partial

LEMMA EmptyIsPartial == ASSUME NEW S PROVE <<>> \in Partial(S) /\ DOMAIN <<>> = {}
<1>1. <<>> \in [{} -> Content]
  OBVIOUS
<1>2. <<>> \in Partial(S)
  BY <1>1, PartialFunctions
<1> QED
  BY <1>1, <1>2

LEMMA PartialValues ==
  ASSUME NEW S, NEW f \in Partial(S)
  PROVE  /\ DOMAIN f \subseteq S
         /\ f \in [DOMAIN f -> Content]
         /\ \A x \in DOMAIN f : f[x] \in Content
<1>1. PICK q \in SUBSET S : f \in [q -> Content]
  BY PartialFunctions
<1> QED
  BY <1>1

LEMMA TotalIsPartial ==
  ASSUME NEW S, NEW q \in SUBSET S, NEW f \in [q -> Content]
  PROVE  f \in Partial(S)
BY PartialFunctions

LEMMA ExtendPartial ==
  ASSUME NEW S, NEW f \in Partial(S), NEW x \in S, NEW v \in Content
  PROVE  Extend(f, x, v) \in Partial(S)
<1>1. DOMAIN f \subseteq S /\ \A y \in DOMAIN f : f[y] \in Content
  BY PartialValues
<1>2. Extend(f, x, v) \in [DOMAIN f \cup {x} -> Content]
  BY <1>1 DEF Extend
<1> QED
  BY <1>1, <1>2, TotalIsPartial

-------------------------------------------------------------------------------
(* The inductive invariant                                                 *)

Rewrites == {d.rewrite : d \in Patch}

\* What a transaction knows at each step, from its own fields alone
Shape(t) ==
  /\ t.todo \cup t.touched \cup t.failed \subseteq t.paths
  /\ t.step # "idle" => t.outcome = "none" /\ t.kind # "none"
  /\ t.step \in {"capture", "git", "write", "finalize", "save"} =>
       t.kind = "apply" /\ t.failed = {}
  /\ t.step \in {"drift", "confirm"} => t.kind = "rollback" /\ t.failed = {}
  /\ t.step \in {"capture", "git", "drift"} => t.touched = {}
  /\ t.step \in {"finalize", "save", "confirm"} => t.touched = t.paths
  /\ t.step = "capture" => DOMAIN t.before = t.paths \ t.todo
  /\ t.step \in {"git", "write", "finalize", "save", "drift", "restore", "confirm"} =>
       DOMAIN t.before = t.paths
  /\ t.step \in {"capture", "git"} =>
       \E d \in Patch : t.paths = d.paths /\ t.image = d.rewrite
  /\ t.step = "capture" => t.after = <<>>
  /\ t.step = "git" => t.after = <<>>
  /\ t.step = "write" => /\ t.touched = t.paths \ t.todo /\ t.after = <<>>
                         /\ t.image \in [t.paths -> Content]
  /\ t.step = "finalize" => DOMAIN t.after = t.paths \ t.todo
  /\ t.step = "save" => DOMAIN t.after = t.paths
  /\ t.step # "idle" /\ t.kind = "rollback" => DOMAIN t.after = t.paths
  /\ t.step = "restore" =>
       /\ t.todo \cap t.failed = {}
       /\ t.kind = "apply" => t.touched = t.todo \cup t.failed
       /\ t.kind = "rollback" => t.touched = t.paths \ (t.todo \cup t.failed)
  /\ t.outcome \in {"refused", "undone"} => t.touched = {}
  /\ t.outcome \in {"applied", "rolledBack", "unconfirmed"} => t.touched = t.paths

Typed == [before: Partial(Path), after: Partial(Path)]

Types ==
  /\ files \in [Path -> Content]
  /\ snaps \in Seq(Typed)
  /\ \A i \in DOMAIN snaps : DOMAIN snaps[i].before = DOMAIN snaps[i].after
  /\ tx \in [Proc -> Transaction]
  /\ \A p \in Proc : Shape(tx[p])
  /\ origin \in [Path -> {"user", "patched", "recorded"}]
  /\ alarm \subseteq Alarms

Busy(p) == tx[p].step # "idle"

\* p's apply has written x and not yet recorded or put it back
Tends(p, x) ==
  LET t == tx[p] IN
  /\ t.kind = "apply" /\ x \in t.touched
  /\ \/ t.step \in {"write", "restore"}
     \/ t.step = "finalize" /\ (x \in t.todo \/ t.after[x] = files[x])
     \/ t.step = "save" /\ t.after[x] = files[x]

Tended ==
  alarm \cap {"crash", "partial", "halfwritten"} = {} =>
    \A x \in Path : origin[x] = "patched" => \E p \in Proc : Tends(p, x)

\* What t has seen and done, while nobody else writes
Applying(t) ==
  /\ t.step \in {"capture", "git"} => \A x \in DOMAIN t.before : t.before[x] = files[x]
  /\ t.step \in {"write", "finalize", "save"} =>
       /\ \A x \in t.paths \ t.touched : files[x] = t.before[x]
       /\ \A x \in t.touched : files[x] = t.image[x]
       /\ \A x \in DOMAIN t.after : t.after[x] = files[x]
       /\ \E d \in Patch :
            /\ t.paths = d.paths
            /\ \A x \in t.paths : t.before[x] \in DOMAIN d.rewrite
                                /\ t.image[x] = d.rewrite[t.before[x]]
  /\ t.step = "restore" => \A x \in t.paths \ t.touched : files[x] = t.before[x]

RollingBack(t) ==
  /\ \E id \in DOMAIN snaps : t.before = snaps[id].before /\ t.after = snaps[id].after
  /\ t.step = "drift" => \A x \in t.paths \ t.todo : files[x] = t.after[x]
  /\ t.step \in {"restore", "confirm"} =>
       /\ \A x \in t.paths \ t.touched : files[x] = t.after[x]
       /\ \A x \in t.touched : files[x] = t.before[x]

Faithful(t) ==
  t.step # "idle" => IF t.kind = "apply" THEN Applying(t) ELSE RollingBack(t)

Alone ==
  alarm \cap {"edit", "overlap"} = {} =>
    /\ \A p, q \in Proc : Busy(p) /\ Busy(q) => p = q
    /\ \A p \in Proc : Faithful(tx[p])

TInv == Types /\ Tended /\ Alone

-------------------------------------------------------------------------------
(* Types and shapes                                                        *)

LEMMA IdleShape == Idle \in Transaction /\ Shape(Idle)
BY EmptyIsPartial DEF Idle, Transaction, Shape

LEMMA EndedShape ==
  ASSUME NEW t \in Transaction, NEW o, t.touched \subseteq t.paths,
         o \in {"refused", "halfwritten", "applied", "undone", "rolledBack", "unconfirmed",
                "partial"},
         o \in {"refused", "undone"} => t.touched = {},
         o \in {"applied", "rolledBack", "unconfirmed"} => t.touched = t.paths
  PROVE  /\ Ended(t, o) \in Transaction /\ Shape(Ended(t, o))
         /\ Ended(t, o).step = "idle" /\ Ended(t, o).touched = t.touched
BY EmptyIsPartial DEF Ended, Idle, Transaction, Shape

\* p's transaction becomes t, the others stay.
LEMMA SetOne ==
  ASSUME Types, NEW p \in Proc, NEW t \in Transaction, Shape(t), Set(p, t)
  PROVE  /\ tx' \in [Proc -> Transaction] /\ \A q \in Proc : Shape(tx'[q])
         /\ tx'[p] = t /\ \A q \in Proc \ {p} : tx'[q] = tx[q]
BY DEF Types, Set

LEMMA SetTypes ==
  ASSUME Types, NEW p \in Proc, NEW t \in Transaction, Shape(t), Set(p, t),
         files' \in [Path -> Content], UNCHANGED snaps,
         origin' \in [Path -> {"user", "patched", "recorded"}],
         alarm' \subseteq Alarms
  PROVE  Types'
BY SetOne DEF Types

\* What Types says of one transaction
LEMMA OneType ==
  ASSUME Types, NEW p \in Proc
  PROVE  /\ tx[p] \in Transaction /\ Shape(tx[p])
         /\ tx[p].paths \subseteq Path /\ tx[p].todo \subseteq Path
         /\ tx[p].before \in Partial(Path) /\ tx[p].after \in Partial(Path)
BY DEF Types, Transaction

Begins(d) == [Idle EXCEPT !.step = "capture", !.kind = "apply", !.paths = d.paths,
                          !.image = d.rewrite, !.todo = d.paths]
LEMMA StartApplyStep ==
  ASSUME Types, NEW p \in Proc, NEW d \in Patch, StartApply(p, d)
  PROVE  /\ Begins(d) \in Transaction /\ Shape(Begins(d)) /\ Set(p, Begins(d))
         /\ Types'
<1>1. d.paths \subseteq Path
  BY TransactionConstants
<1>2. Begins(d) \in Transaction
  BY <1>1, EmptyIsPartial DEF Begins, Idle, Transaction
<1>3. Shape(Begins(d))
  BY EmptyIsPartial DEF Begins, Idle, Shape
<1>4. Set(p, Begins(d))
  BY DEF StartApply, Begins
<1>5. alarm' \subseteq Alarms
  BY DEF StartApply, Overlap, Types, Alarms
<1> QED
  BY <1>2, <1>3, <1>4, <1>5, SetTypes DEF StartApply, Types

Captured(t, x) == [t EXCEPT !.before = Extend(@, x, files[x]), !.todo = @ \ {x},
                            !.step = IF t.todo \ {x} = {} THEN "git" ELSE "capture"]
LEMMA CaptureStep ==
  ASSUME Types, NEW p \in Proc, Capture(p)
  PROVE  /\ \E x \in tx[p].todo :
              /\ Set(p, Captured(tx[p], x)) /\ Captured(tx[p], x) \in Transaction
              /\ Shape(Captured(tx[p], x))
         /\ Types'
<1> DEFINE t == tx[p]
<1>1. /\ t \in Transaction /\ Shape(t) /\ t.paths \subseteq Path /\ t.todo \subseteq Path
      /\ t.before \in Partial(Path) /\ t.step = "capture"
  BY OneType DEF Capture, At
<1>2. PICK x \in t.todo :
        LET u == [t EXCEPT !.before = Extend(@, x, files[x]), !.todo = @ \ {x}]
        IN Set(p, IF u.todo = {} THEN [u EXCEPT !.step = "git"] ELSE u)
  BY DEF Capture
<1>3. Set(p, Captured(t, x))
  BY <1>1, <1>2 DEF Captured, Transaction
<1> HIDE DEF t
<1>4. x \in Path /\ files[x] \in Content /\ t.before \in Partial(Path)
  BY <1>1 DEF Types
<1>5. Extend(t.before, x, files[x]) \in Partial(Path)
  BY <1>4, ExtendPartial
<1>6. Captured(t, x) \in Transaction
  BY <1>1, <1>5 DEF Captured, Transaction
<1>7. Shape(Captured(t, x))
  <2>1. DOMAIN Extend(t.before, x, files[x]) = DOMAIN t.before \cup {x}
    BY DEF Extend
  <2>2. DOMAIN Extend(t.before, x, files[x]) = t.paths \ (t.todo \ {x})
    BY <1>1, <2>1 DEF Shape
  <2> QED
    BY <1>1, <2>2 DEF Captured, Transaction, Shape
<1> USE DEF t
<1> QED
  BY <1>3, <1>6, <1>7, SetTypes DEF Capture, Types

Checked(t) == [t EXCEPT !.step = "write", !.todo = t.paths,
                        !.image = [x \in t.paths |-> t.image[files[x]]]]
LEMMA GitCheckStep ==
  ASSUME Types, NEW p \in Proc, GitCheck(p)
  PROVE  /\ \/ /\ \A x \in tx[p].paths : files[x] \in DOMAIN tx[p].image
               /\ Set(p, Checked(tx[p])) /\ Checked(tx[p]) \in Transaction
               /\ Shape(Checked(tx[p]))
            \/ /\ Set(p, Ended(tx[p], "refused")) /\ Ended(tx[p], "refused") \in Transaction
               /\ Shape(Ended(tx[p], "refused"))
         /\ Types'
<1> DEFINE t == tx[p]
<1>1. t \in Transaction /\ Shape(t) /\ t.paths \subseteq Path /\ t.step = "git"
  BY OneType DEF GitCheck, At
<1>2. CASE \A x \in t.paths : files[x] \in DOMAIN t.image
  <2>1. PICK d \in Patch : t.image = d.rewrite
    BY <1>1 DEF Shape
  <2>2. \A x \in t.paths : t.image[files[x]] \in Content
    BY <1>2, <2>1, TransactionConstants
  <2>3. [x \in t.paths |-> t.image[files[x]]] \in [t.paths -> Content]
    BY <2>2
  <2>4. [x \in t.paths |-> t.image[files[x]]] \in Partial(Path)
    BY <1>1, <2>3, TotalIsPartial
  <2>5. Checked(t) \in Transaction
    BY <1>1, <2>4 DEF Checked, Transaction
  <2>6. Shape(Checked(t))
    BY <1>1, <2>3 DEF Checked, Transaction, Shape
  <2>7. Set(p, Checked(t))
    BY <1>2 DEF GitCheck, Checked
  <2> QED
    BY <1>2, <2>5, <2>6, <2>7, SetTypes DEF GitCheck, Types
<1>3. CASE ~ \A x \in t.paths : files[x] \in DOMAIN t.image
  <2>1. Ended(t, "refused") \in Transaction /\ Shape(Ended(t, "refused"))
    BY <1>1, EndedShape DEF Shape
  <2>2. Set(p, Ended(t, "refused"))
    BY <1>3 DEF GitCheck
  <2> QED
    BY <2>1, <2>2, SetTypes DEF GitCheck, Types
<1> QED
  BY <1>2, <1>3

Written(t, x) == [t EXCEPT !.touched = @ \cup {x},
                           !.todo = IF t.todo \ {x} = {} THEN t.paths ELSE t.todo \ {x},
                           !.step = IF t.todo \ {x} = {} THEN "finalize" ELSE "write"]
LEMMA GitWriteStep ==
  ASSUME Types, NEW p \in Proc, GitWrite(p)
  PROVE  /\ \E x \in tx[p].todo :
              /\ files' = [files EXCEPT ![x] = tx[p].image[x]]
              /\ origin' = [origin EXCEPT ![x] = "patched"]
              /\ Set(p, Written(tx[p], x)) /\ Written(tx[p], x) \in Transaction
              /\ Shape(Written(tx[p], x))
         /\ Types'
<1> DEFINE t == tx[p]
<1>1. t \in Transaction /\ Shape(t) /\ t.paths \subseteq Path /\ t.step = "write"
  BY OneType DEF GitWrite, At
<1>2. PICK x \in t.todo :
        LET u == [t EXCEPT !.touched = @ \cup {x}, !.todo = @ \ {x}]
        IN /\ files' = [files EXCEPT ![x] = t.image[x]]
           /\ origin' = [origin EXCEPT ![x] = "patched"]
           /\ Set(p, IF u.todo = {} THEN [u EXCEPT !.step = "finalize", !.todo = u.paths] ELSE u)
  BY DEF GitWrite
<1>3. Set(p, Written(t, x))
  BY <1>1, <1>2 DEF Written, Transaction
<1>4. Written(t, x) \in Transaction
  BY <1>1, <1>2 DEF Written, Transaction, Shape
<1>5. x \in t.paths /\ t.image[x] \in Content
  BY <1>1 DEF Shape
<1>6. Shape(Written(t, x))
  <2>1. CASE t.todo \ {x} = {}
    BY <1>1, <1>2, <2>1, EmptyIsPartial DEF Written, Transaction, Shape
  <2>2. CASE t.todo \ {x} # {}
    BY <1>1, <1>2, <2>2 DEF Written, Transaction, Shape
  <2> QED
    BY <2>1, <2>2
<1>7. files' \in [Path -> Content] /\ origin' \in [Path -> {"user", "patched", "recorded"}]
  BY <1>2, <1>5 DEF Types
<1>8. Types'
  BY <1>3, <1>4, <1>6, <1>7, SetTypes DEF GitWrite, Types
<1> QED
  BY <1>2, <1>3, <1>4, <1>6, <1>8

Finalized(t, x) == [t EXCEPT !.after = Extend(@, x, files[x]), !.todo = @ \ {x},
                             !.step = IF t.todo \ {x} = {} THEN "save" ELSE "finalize"]
LEMMA FinalizeStep ==
  ASSUME Types, NEW p \in Proc, Finalize(p)
  PROVE  /\ \E x \in tx[p].todo :
              /\ Set(p, Finalized(tx[p], x)) /\ Finalized(tx[p], x) \in Transaction
              /\ Shape(Finalized(tx[p], x))
         /\ Types'
<1> DEFINE t == tx[p]
<1>1. /\ t \in Transaction /\ Shape(t) /\ t.paths \subseteq Path /\ t.todo \subseteq Path
      /\ t.after \in Partial(Path) /\ t.step = "finalize"
  BY OneType DEF Finalize, At
<1>2. PICK x \in t.todo :
        LET u == [t EXCEPT !.after = Extend(@, x, files[x]), !.todo = @ \ {x}]
        IN Set(p, IF u.todo = {} THEN [u EXCEPT !.step = "save"] ELSE u)
  BY DEF Finalize
<1>3. Set(p, Finalized(t, x))
  BY <1>1, <1>2 DEF Finalized, Transaction
<1> HIDE DEF t
<1>4. x \in Path /\ files[x] \in Content /\ t.after \in Partial(Path)
  BY <1>1 DEF Types
<1>5. Extend(t.after, x, files[x]) \in Partial(Path)
  BY <1>4, ExtendPartial
<1>6. Finalized(t, x) \in Transaction
  BY <1>1, <1>5 DEF Finalized, Transaction
<1>7. Shape(Finalized(t, x))
  <2>1. DOMAIN Extend(t.after, x, files[x]) = DOMAIN t.after \cup {x}
    BY DEF Extend
  <2>2. DOMAIN Extend(t.after, x, files[x]) = t.paths \ (t.todo \ {x})
    BY <1>1, <2>1 DEF Shape
  <2> QED
    BY <1>1, <2>2 DEF Finalized, Transaction, Shape
<1> USE DEF t
<1> QED
  BY <1>3, <1>6, <1>7, SetTypes DEF Finalize, Types

LEMMA Appended ==
  ASSUME NEW S, NEW s \in Seq(S), NEW e \in S
  PROVE  /\ Append(s, e) \in Seq(S)
         /\ \A i \in DOMAIN Append(s, e) :
              Append(s, e)[i] = e \/ (i \in DOMAIN s /\ Append(s, e)[i] = s[i])
         /\ \A i \in DOMAIN s : i \in DOMAIN Append(s, e) /\ Append(s, e)[i] = s[i]
<1>1. Append(s, e) \in Seq(S) /\ Len(Append(s, e)) = Len(s) + 1 /\ Len(s) \in Nat
  OBVIOUS
<1>2. DOMAIN s = 1..Len(s) /\ DOMAIN Append(s, e) = 1..(Len(s) + 1)
  BY <1>1
<1>3. \A i \in 1..Len(s) : Append(s, e)[i] = s[i]
  OBVIOUS
<1>4. Append(s, e)[Len(s) + 1] = e
  OBVIOUS
<1>5. \A i \in DOMAIN Append(s, e) : i \in DOMAIN s \/ i = Len(s) + 1
  BY <1>1, <1>2
<1>6. \A i \in DOMAIN s : i \in DOMAIN Append(s, e) /\ Append(s, e)[i] = s[i]
  BY <1>1, <1>2, <1>3
<1>7. \A i \in DOMAIN Append(s, e) :
        Append(s, e)[i] = e \/ (i \in DOMAIN s /\ Append(s, e)[i] = s[i])
  BY <1>4, <1>5, <1>6
<1> QED
  BY <1>1, <1>6, <1>7

LEMMA SaveStep ==
  ASSUME Types, NEW p \in Proc, Save(p)
  PROVE  /\ Set(p, Ended(tx[p], "applied")) /\ Ended(tx[p], "applied") \in Transaction
         /\ Shape(Ended(tx[p], "applied"))
         /\ Types'
<1> DEFINE t == tx[p]
           new == [before |-> t.before, after |-> t.after]
<1>1. /\ t \in Transaction /\ Shape(t) /\ t.before \in Partial(Path)
      /\ t.after \in Partial(Path) /\ t.step = "save"
  BY OneType DEF Save, At
<1>2. Set(p, Ended(t, "applied")) /\ snaps' = Append(snaps, new)
  BY DEF Save
<1>3. Ended(t, "applied") \in Transaction /\ Shape(Ended(t, "applied"))
  BY <1>1, EndedShape DEF Shape
<1>4. new \in Typed /\ DOMAIN new.before = DOMAIN new.after
  BY <1>1 DEF Typed, Shape
<1>5. /\ snaps' \in Seq(Typed)
      /\ \A i \in DOMAIN snaps' : snaps'[i] = new \/ (i \in DOMAIN snaps /\ snaps'[i] = snaps[i])
  <2> HIDE DEF new
  <2>1. snaps \in Seq(Typed) /\ new \in Typed /\ snaps' = Append(snaps, new)
    BY <1>2, <1>4 DEF Types
  <2> QED
    BY <2>1, Appended
<1>6. \A i \in DOMAIN snaps' : DOMAIN snaps'[i].before = DOMAIN snaps'[i].after
  BY <1>4, <1>5 DEF Types
<1>7. /\ files' \in [Path -> Content] /\ origin' \in [Path -> {"user", "patched", "recorded"}]
      /\ alarm' \subseteq Alarms
  BY DEF Save, Types
<1>8. tx' \in [Proc -> Transaction] /\ \A q \in Proc : Shape(tx'[q])
  BY <1>2, <1>3, SetOne
<1> QED
  BY <1>2, <1>3, <1>5, <1>6, <1>7, <1>8 DEF Types

LEMMA SaveFailsStep ==
  ASSUME Types, NEW p \in Proc, SaveFails(p)
  PROVE  /\ Set(p, Undo(tx[p])) /\ Undo(tx[p]) \in Transaction /\ Shape(Undo(tx[p]))
         /\ Types'
<1> DEFINE t == tx[p]
<1>1. t \in Transaction /\ Shape(t) /\ t.step \in {"finalize", "save"}
  BY OneType DEF SaveFails, At
<1>2. Set(p, Undo(t))
  BY DEF SaveFails
<1>3. Undo(t) \in Transaction
  BY <1>1 DEF Undo, Transaction
<1>4. Shape(Undo(t))
  BY <1>1 DEF Undo, Transaction, Shape
<1> QED
  BY <1>2, <1>3, <1>4, SetTypes DEF SaveFails, Types

LEMMA CaptureFailsStep ==
  ASSUME Types, NEW p \in Proc, CaptureFails(p)
  PROVE  /\ Set(p, Ended(tx[p], "refused")) /\ Ended(tx[p], "refused") \in Transaction
         /\ Shape(Ended(tx[p], "refused"))
         /\ Types'
<1>1. tx[p] \in Transaction /\ Shape(tx[p]) /\ tx[p].step = "capture"
  BY OneType DEF CaptureFails, At
<1>2. Set(p, Ended(tx[p], "refused"))
  BY DEF CaptureFails, Refuse
<1>3. Ended(tx[p], "refused") \in Transaction /\ Shape(Ended(tx[p], "refused"))
  BY <1>1, EndedShape DEF Shape
<1> QED
  BY <1>2, <1>3, SetTypes DEF CaptureFails, Types

LEMMA GitWriteFailsStep ==
  ASSUME Types, NEW p \in Proc, GitWriteFails(p)
  PROVE  /\ tx[p].step = "write"
         /\ \/ /\ tx[p].touched = {} /\ alarm' = alarm
               /\ Set(p, Ended(tx[p], "refused")) /\ Ended(tx[p], "refused") \in Transaction
               /\ Shape(Ended(tx[p], "refused"))
            \/ /\ alarm' = alarm \cup {"halfwritten"}
               /\ \E u : Set(p, u) /\ u.step = "idle"
         /\ Types'
<1> DEFINE t == tx[p]
<1>1. t \in Transaction /\ Shape(t) /\ t.step = "write" /\ t.touched \subseteq t.paths
  BY OneType DEF GitWriteFails, At, Shape
<1>2. CASE t.touched = {}
  <2>1. Set(p, Ended(t, "refused")) /\ alarm' = alarm
    BY <1>2 DEF GitWriteFails, HalfWritten
  <2>2. Ended(t, "refused") \in Transaction /\ Shape(Ended(t, "refused"))
    BY <1>1, <1>2, EndedShape
  <2> QED
    BY <1>1, <1>2, <2>1, <2>2, SetTypes DEF GitWriteFails, Types
<1>3. CASE t.touched # {}
  <2>1. Set(p, Ended(t, "halfwritten")) /\ alarm' = alarm \cup {"halfwritten"}
    BY <1>3 DEF GitWriteFails, HalfWritten
  <2>2. /\ Ended(t, "halfwritten") \in Transaction /\ Shape(Ended(t, "halfwritten"))
        /\ Ended(t, "halfwritten").step = "idle"
    BY <1>1, EndedShape
  <2>3. alarm' \subseteq Alarms
    BY <2>1 DEF Types, Alarms
  <2> QED
    BY <1>1, <2>1, <2>2, <2>3, SetTypes DEF GitWriteFails, Types
<1> QED
  BY <1>2, <1>3

Restoring(id) ==
  [Idle EXCEPT !.step = "drift", !.kind = "rollback", !.paths = DOMAIN snaps[id].before,
               !.before = snaps[id].before, !.after = snaps[id].after,
               !.todo = DOMAIN snaps[id].after]
LEMMA StartRollbackStep ==
  ASSUME Types, NEW p \in Proc, NEW id \in DOMAIN snaps, StartRollback(p, id)
  PROVE  /\ Set(p, Restoring(id)) /\ Restoring(id) \in Transaction /\ Shape(Restoring(id))
         /\ Types'
<1>1. /\ snaps[id].before \in Partial(Path) /\ snaps[id].after \in Partial(Path)
      /\ DOMAIN snaps[id].before = DOMAIN snaps[id].after
  <2>1. snaps \in Seq(Typed) /\ id \in 1..Len(snaps)
    BY DEF Types
  <2>2. snaps[id] \in Typed
    BY <2>1
  <2> QED
    BY <2>2 DEF Types, Typed
<1>2. DOMAIN snaps[id].before \subseteq Path
  BY <1>1, PartialValues
<1>3. Set(p, Restoring(id))
  BY DEF StartRollback, Restoring
<1>4. Restoring(id) \in Transaction
  BY <1>1, <1>2, EmptyIsPartial DEF Restoring, Idle, Transaction
<1>5. Shape(Restoring(id))
  BY <1>1 DEF Restoring, Idle, Shape
<1>6. alarm' \subseteq Alarms
  BY DEF StartRollback, Overlap, Types, Alarms
<1> QED
  BY <1>3, <1>4, <1>5, <1>6, SetTypes DEF StartRollback, Types

Compared(t, x) == [t EXCEPT !.todo = IF t.todo \ {x} = {} THEN t.paths ELSE t.todo \ {x},
                            !.step = IF t.todo \ {x} = {} THEN "restore" ELSE "drift"]
Unseen(t, x) == Ended([t EXCEPT !.todo = @ \ {x}], "refused")
LEMMA CheckDriftStep ==
  ASSUME Types, NEW p \in Proc, CheckDrift(p)
  PROVE  /\ \E x \in tx[p].todo :
              \/ /\ files[x] = tx[p].after[x]
                 /\ Set(p, Compared(tx[p], x)) /\ Compared(tx[p], x) \in Transaction
                 /\ Shape(Compared(tx[p], x))
              \/ /\ Set(p, Unseen(tx[p], x)) /\ Unseen(tx[p], x) \in Transaction
                 /\ Shape(Unseen(tx[p], x))
                 /\ Unseen(tx[p], x).step = "idle" /\ Unseen(tx[p], x).touched = {}
         /\ Types'
<1> DEFINE t == tx[p]
<1>1. t \in Transaction /\ Shape(t) /\ t.step = "drift"
  BY OneType DEF CheckDrift, At
<1>2. PICK x \in t.todo :
        LET u == [t EXCEPT !.todo = @ \ {x}]
        IN Set(p, IF ~NotDrifted(u, x) THEN Ended(u, "refused")
                  ELSE IF u.todo = {} THEN [u EXCEPT !.step = "restore", !.todo = u.paths] ELSE u)
  BY DEF CheckDrift
<1>3. CASE files[x] = t.after[x]
  <2>1. Set(p, Compared(t, x))
    BY <1>1, <1>2, <1>3 DEF Compared, Transaction, NotDrifted
  <2>2. Compared(t, x) \in Transaction
    BY <1>1 DEF Compared, Transaction
  <2>3. Shape(Compared(t, x))
    BY <1>1 DEF Compared, Transaction, Shape
  <2> QED
    BY <1>3, <2>1, <2>2, <2>3, SetTypes DEF CheckDrift, Types
<1>4. CASE files[x] # t.after[x]
  <2> DEFINE u == [t EXCEPT !.todo = @ \ {x}]
  <2>1. Set(p, Unseen(t, x))
    BY <1>1, <1>2, <1>4 DEF Unseen, Transaction, NotDrifted
  <2>2. u \in Transaction /\ u.touched = {}
    BY <1>1 DEF Transaction, Shape
  <2>3. /\ Unseen(t, x) \in Transaction /\ Shape(Unseen(t, x))
        /\ Unseen(t, x).step = "idle" /\ Unseen(t, x).touched = {}
    BY <2>2, EndedShape DEF Unseen
  <2> QED
    BY <2>1, <2>3, SetTypes DEF CheckDrift, Types
<1> QED
  BY <1>3, <1>4

LEMMA StageFailsStep ==
  ASSUME Types, NEW p \in Proc, StageFails(p)
  PROVE  /\ \/ /\ tx[p].kind = "rollback" /\ Set(p, Ended(tx[p], "refused"))
               /\ Ended(tx[p], "refused") \in Transaction /\ Shape(Ended(tx[p], "refused"))
               /\ tx[p].touched = {} /\ alarm' = alarm
            \/ /\ Set(p, Ended(tx[p], "partial")) /\ alarm' = alarm \cup {"partial"}
               /\ Ended(tx[p], "partial") \in Transaction /\ Shape(Ended(tx[p], "partial"))
         /\ Types'
<1>1. /\ tx[p] \in Transaction /\ Shape(tx[p]) /\ tx[p].step = "restore"
      /\ tx[p].todo = tx[p].paths
  BY OneType DEF StageFails, At
<1>2. CASE tx[p].kind = "rollback"
  <2>1. tx[p].touched = {}
    BY <1>1, <1>2 DEF Shape
  <2>2. Ended(tx[p], "refused") \in Transaction /\ Shape(Ended(tx[p], "refused"))
    BY <1>1, <2>1, EndedShape
  <2> QED
    BY <1>2, <2>1, <2>2, SetTypes DEF StageFails, Types
<1>3. CASE tx[p].kind # "rollback"
  <2>1. Ended(tx[p], "partial") \in Transaction /\ Shape(Ended(tx[p], "partial"))
    BY <1>1, EndedShape DEF Shape
  <2> QED
    BY <1>3, <2>1, SetTypes DEF StageFails, Types, Alarms
<1> QED
  BY <1>2, <1>3

Restored(t, x) == [t EXCEPT !.todo = @ \ {x},
                            !.touched = IF t.kind = "apply" THEN @ \ {x} ELSE @ \cup {x}]
LEMMA RestoreOneStep ==
  ASSUME Types, NEW p \in Proc, RestoreOne(p)
  PROVE  /\ \E x \in tx[p].todo :
              /\ files' = [files EXCEPT ![x] = tx[p].before[x]]
              /\ origin' = [origin EXCEPT ![x] = "user"]
              /\ Set(p, Restored(tx[p], x)) /\ Restored(tx[p], x) \in Transaction
              /\ Shape(Restored(tx[p], x))
         /\ Types'
<1> DEFINE t == tx[p]
<1>1. /\ t \in Transaction /\ Shape(t) /\ t.step = "restore" /\ t.before \in Partial(Path)
      /\ t.todo \subseteq Path
  BY OneType DEF RestoreOne, At
<1>2. PICK x \in t.todo :
        /\ files' = [files EXCEPT ![x] = t.before[x]]
        /\ origin' = [origin EXCEPT ![x] = "user"]
        /\ Set(p, [t EXCEPT !.todo = @ \ {x},
                            !.touched = IF t.kind = "apply" THEN @ \ {x} ELSE @ \cup {x}])
  BY DEF RestoreOne
<1>3. t.before[x] \in Content
  BY <1>1, PartialValues DEF Shape
<1>4. Set(p, Restored(t, x))
  BY <1>2 DEF Restored
<1>5. Restored(t, x) \in Transaction
  BY <1>1 DEF Restored, Transaction
<1>6. Shape(Restored(t, x))
  BY <1>1 DEF Restored, Transaction, Shape
<1>7. Types'
  BY <1>2, <1>3, <1>4, <1>5, <1>6, SetTypes DEF RestoreOne, Types
<1> QED
  BY <1>2, <1>4, <1>5, <1>6, <1>7

NotRestored(t, x) == [t EXCEPT !.todo = @ \ {x}, !.failed = @ \cup {x}]
LEMMA RestoreOneFailsStep ==
  ASSUME Types, NEW p \in Proc, RestoreOneFails(p)
  PROVE  /\ \E x \in tx[p].todo :
              /\ Set(p, NotRestored(tx[p], x)) /\ NotRestored(tx[p], x) \in Transaction
              /\ Shape(NotRestored(tx[p], x))
         /\ Types'
<1> DEFINE t == tx[p]
<1>1. t \in Transaction /\ Shape(t) /\ t.step = "restore"
  BY OneType DEF RestoreOneFails, At
<1>2. PICK x \in t.todo : Set(p, NotRestored(t, x))
  BY DEF RestoreOneFails, NotRestored
<1>3. NotRestored(t, x) \in Transaction
  BY <1>1 DEF NotRestored, Transaction, Shape
<1>4. Shape(NotRestored(t, x))
  BY <1>1 DEF NotRestored, Transaction, Shape
<1> QED
  BY <1>2, <1>3, <1>4, SetTypes DEF RestoreOneFails, Types

Confirming(t) == [t EXCEPT !.step = "confirm", !.todo = t.paths]
LEMMA RestoreEndsStep ==
  ASSUME Types, NEW p \in Proc, RestoreEnds(p)
  PROVE  /\ \/ /\ Set(p, Ended(tx[p], "partial")) /\ alarm' = alarm \cup {"partial"}
               /\ Ended(tx[p], "partial") \in Transaction /\ Shape(Ended(tx[p], "partial"))
            \/ /\ tx[p].kind = "apply" /\ tx[p].touched = {} /\ alarm' = alarm
               /\ Set(p, Ended(tx[p], "undone"))
               /\ Ended(tx[p], "undone") \in Transaction /\ Shape(Ended(tx[p], "undone"))
            \/ /\ tx[p].kind = "rollback" /\ tx[p].touched = tx[p].paths /\ alarm' = alarm
               /\ Set(p, Confirming(tx[p]))
               /\ Confirming(tx[p]) \in Transaction /\ Shape(Confirming(tx[p]))
         /\ Types'
<1> DEFINE t == tx[p]
<1>1. t \in Transaction /\ Shape(t) /\ t.step = "restore" /\ t.todo = {}
  BY OneType DEF RestoreEnds, At
<1>2. CASE t.failed # {}
  <2>1. Ended(t, "partial") \in Transaction /\ Shape(Ended(t, "partial"))
    BY <1>1, EndedShape DEF Shape
  <2> QED
    BY <1>2, <2>1, SetTypes DEF RestoreEnds, SomeFailed, Types, Alarms
<1>3. CASE t.failed = {} /\ t.kind = "apply"
  <2>1. t.touched = {}
    BY <1>1, <1>3 DEF Shape
  <2>2. Ended(t, "undone") \in Transaction /\ Shape(Ended(t, "undone"))
    BY <1>1, <2>1, EndedShape
  <2> QED
    BY <1>3, <2>1, <2>2, SetTypes DEF RestoreEnds, SomeFailed, Types
<1>4. CASE t.failed = {} /\ t.kind # "apply"
  <2>1. t.kind = "rollback" /\ t.touched = t.paths
    BY <1>1, <1>4 DEF Shape, Transaction
  <2>2. Confirming(t) \in Transaction
    BY <1>1 DEF Confirming, Transaction
  <2>3. Shape(Confirming(t))
    BY <1>1, <1>4, <2>1 DEF Confirming, Transaction, Shape
  <2>4. Set(p, Confirming(t)) /\ alarm' = alarm
    BY <1>4 DEF RestoreEnds, SomeFailed, Confirming
  <2> QED
    BY <2>1, <2>2, <2>3, <2>4, SetTypes DEF RestoreEnds, Types
<1> QED
  BY <1>2, <1>3, <1>4

Confirmed(t, x) == [t EXCEPT !.todo = @ \ {x}]
LEMMA ConfirmStep ==
  ASSUME Types, NEW p \in Proc, Confirm(p)
  PROVE  /\ \E x \in tx[p].todo :
              \/ \E o \in {"unconfirmed", "rolledBack"} :
                   LET u == Ended(Confirmed(tx[p], x), o) IN
                   /\ o = "unconfirmed" => files[x] # tx[p].before[x]
                   /\ Set(p, u) /\ u \in Transaction /\ Shape(u) /\ u.step = "idle"
              \/ LET u == Confirmed(tx[p], x) IN Set(p, u) /\ u \in Transaction /\ Shape(u)
         /\ Types'
<1> DEFINE t == tx[p]
<1>1. t \in Transaction /\ Shape(t) /\ t.step = "confirm"
  BY OneType DEF Confirm, At
<1>2. PICK x \in t.todo :
        LET u == Confirmed(t, x)
        IN Set(p, IF files[x] # u.before[x] THEN Ended(u, "unconfirmed")
                  ELSE IF u.todo = {} THEN Ended(u, "rolledBack") ELSE u)
  BY DEF Confirm, Confirmed
<1> DEFINE u == Confirmed(t, x)
<1>3. u \in Transaction /\ u.before = t.before /\ u.touched = u.paths
  BY <1>1 DEF Confirmed, Transaction, Shape
<1>4. Shape(u)
  BY <1>1 DEF Confirmed, Transaction, Shape
<1>5. \A o \in {"unconfirmed", "rolledBack"} :
        Ended(u, o) \in Transaction /\ Shape(Ended(u, o)) /\ Ended(u, o).step = "idle"
  BY <1>3, EndedShape
<1>6. CASE files[x] # t.before[x]
  <2>1. Set(p, Ended(u, "unconfirmed"))
    BY <1>2, <1>3, <1>6
  <2> QED
    BY <1>5, <1>6, <2>1, SetTypes DEF Confirm, Types
<1>7. CASE files[x] = t.before[x] /\ u.todo = {}
  <2>1. Set(p, Ended(u, "rolledBack"))
    BY <1>2, <1>3, <1>7
  <2> QED
    BY <1>5, <2>1, SetTypes DEF Confirm, Types
<1>8. CASE files[x] = t.before[x] /\ u.todo # {}
  <2>1. Set(p, u)
    BY <1>2, <1>3, <1>8
  <2> QED
    BY <1>3, <1>4, <2>1, SetTypes DEF Confirm, Types
<1> QED
  BY <1>6, <1>7, <1>8

LEMMA CrashStep ==
  ASSUME Types, NEW p \in Proc, Crash(p)
  PROVE  Set(p, Idle) /\ alarm' = alarm \cup {"crash"} /\ Types'
<1>1. alarm' \subseteq Alarms
  BY DEF Crash, Types, Alarms
<1> QED
  BY <1>1, IdleShape, SetTypes DEF Crash, Types

LEMMA EditStep ==
  ASSUME Types, NEW x \in Path, NEW c \in Content, Edit(x, c)
  PROVE  Types'
<1>1. alarm' \subseteq Alarms
  BY DEF Edit, Types, Alarms
<1> QED
  BY <1>1 DEF Edit, Types

LEMMA InitTypes == Init => Types
<1> SUFFICES ASSUME Init PROVE Types
  OBVIOUS
<1>1. snaps \in Seq(Typed) /\ DOMAIN snaps = {}
  BY DEF Init
<1> QED
  BY <1>1, IdleShape, TransactionConstants DEF Init, Types

LEMMA NextTypes == Types /\ [Next]_vars => Types'
<1> SUFFICES ASSUME Types, [Next]_vars PROVE Types'
  OBVIOUS
<1>1. CASE UNCHANGED vars
  BY <1>1 DEF vars, Types
<1>2. ASSUME NEW p \in Proc, Step(p) PROVE Types'
  BY <1>2, CaptureStep, GitCheckStep, GitWriteStep, FinalizeStep, SaveStep, CheckDriftStep,
     RestoreOneStep, RestoreEndsStep, ConfirmStep DEF Step
<1>3. ASSUME NEW p \in Proc, Start(p) PROVE Types'
  BY <1>3, StartApplyStep, StartRollbackStep DEF Start
<1>4. ASSUME NEW p \in Proc, Fail(p) PROVE Types'
  BY <1>4, SaveFailsStep, CaptureFailsStep, GitWriteFailsStep, StageFailsStep, RestoreOneFailsStep,
     CrashStep
  DEF Fail
<1>5. ASSUME NEW x \in Path, NEW c \in Content, Edit(x, c) PROVE Types'
  BY <1>5, EditStep
<1> QED
  BY <1>1, <1>2, <1>3, <1>4, <1>5 DEF Next

-------------------------------------------------------------------------------
(* Patched files are tended                                                *)

\* p moves on without losing hold of a file that stays patched.
LEMMA KeepsTending ==
  ASSUME Types, Tended, NEW p \in Proc, NEW u, Set(p, u), alarm \subseteq alarm',
         \A x \in Path : origin'[x] = "patched" =>
           origin[x] = "patched" /\ files'[x] = files[x] /\ (Tends(p, x) => Tends(p, x)')
  PROVE  Tended'
<1> SUFFICES ASSUME alarm' \cap {"crash", "partial", "halfwritten"} = {},
                    NEW x \in Path, origin'[x] = "patched"
             PROVE  \E q \in Proc : Tends(q, x)'
  BY DEF Tended
<1>1. /\ alarm \cap {"crash", "partial", "halfwritten"} = {}
      /\ origin[x] = "patched" /\ files'[x] = files[x]
  OBVIOUS
<1>2. PICK q \in Proc : Tends(q, x)
  BY <1>1 DEF Tended
<1>3. CASE q = p
  BY <1>2, <1>3
<1>4. CASE q # p
  <2>1. tx'[q] = tx[q]
    BY <1>4 DEF Set, Types
  <2>2. Tends(q, x)'
    BY <1>1, <1>2, <2>1 DEF Tends
  <2> QED
    BY <2>2
<1> QED
  BY <1>3, <1>4

LEMMA StepTended ==
  ASSUME Types, Tended, NEW p \in Proc, Step(p)
  PROVE  Tended'
<1> DEFINE t == tx[p]
<1>1. t \in Transaction /\ Shape(t)
  BY OneType
<1>2. CASE Capture(p)
  <2>1. \A x \in Path : ~Tends(p, x)
    BY <1>2 DEF Capture, At, Tends
  <2>2. \E u : Set(p, u)
    BY <1>2, CaptureStep
  <2> QED
    BY <1>2, <2>1, <2>2, KeepsTending DEF Capture
<1>3. CASE GitCheck(p)
  <2>1. \A x \in Path : ~Tends(p, x)
    BY <1>3 DEF GitCheck, At, Tends
  <2>2. \E u : Set(p, u)
    BY <1>3, GitCheckStep
  <2> QED
    BY <1>3, <2>1, <2>2, KeepsTending DEF GitCheck
<1>4. CASE GitWrite(p)
  <2>1. PICK x \in t.todo :
          /\ files' = [files EXCEPT ![x] = t.image[x]]
          /\ origin' = [origin EXCEPT ![x] = "patched"]
          /\ Set(p, Written(t, x)) /\ Written(t, x) \in Transaction
          /\ Shape(Written(t, x))
    BY <1>4, GitWriteStep
  <2>2. tx'[p] = Written(t, x) /\ \A q \in Proc \ {p} : tx'[q] = tx[q]
    BY <2>1, SetOne
  <2>3. /\ t.step = "write" /\ t.kind = "apply"
        /\ t.todo \subseteq t.paths /\ t.touched \subseteq t.paths
    BY <1>1, <1>4 DEF GitWrite, At, Shape
  <2>4. \A y \in t.touched \cup {x} : Tends(p, y)'
    BY <1>1, <2>2, <2>3 DEF Tends, Written, Transaction
  <2> SUFFICES ASSUME alarm \cap {"crash", "partial", "halfwritten"} = {},
                      NEW y \in Path, origin'[y] = "patched"
               PROVE  \E q \in Proc : Tends(q, y)'
    BY <1>4 DEF Tended, GitWrite
  <2>5. CASE y = x
    BY <2>4, <2>5
  <2>6. CASE y # x
    <3>1. origin[y] = "patched" /\ files'[y] = files[y]
      BY <2>1, <2>6 DEF Types
    <3>2. PICK q \in Proc : Tends(q, y)
      BY <3>1 DEF Tended
    <3>3. CASE q = p
      BY <2>4, <3>2, <3>3 DEF Tends
    <3>4. CASE q # p
      <4>1. Tends(q, y)'
        BY <2>2, <3>1, <3>2, <3>4 DEF Tends
      <4> QED
        BY <4>1
    <3> QED
      BY <3>3, <3>4
  <2> QED
    BY <2>5, <2>6
<1>5. CASE Finalize(p)
  <2>1. PICK x \in t.todo : /\ Set(p, Finalized(t, x)) /\ Finalized(t, x) \in Transaction
                            /\ Shape(Finalized(t, x))
    BY <1>5, FinalizeStep
  <2>2. tx'[p] = Finalized(t, x)
    BY <2>1, SetOne
  <2>3. t.step = "finalize" /\ files' = files /\ DOMAIN t.after = t.paths \ t.todo
    BY <1>1, <1>5 DEF Finalize, At, Shape
  <2>4. /\ Finalized(t, x).kind = t.kind /\ Finalized(t, x).touched = t.touched
        /\ Finalized(t, x).todo = t.todo \ {x}
        /\ Finalized(t, x).after = Extend(t.after, x, files[x])
        /\ Finalized(t, x).step = IF t.todo \ {x} = {} THEN "save" ELSE "finalize"
    BY <1>1 DEF Finalized, Transaction
  <2>5. /\ Extend(t.after, x, files[x])[x] = files[x]
        /\ \A y \in DOMAIN t.after : y # x => Extend(t.after, x, files[x])[y] = t.after[y]
    BY DEF Extend
  <2>6. ASSUME NEW y \in Path, Tends(p, y) PROVE Tends(p, y)'
    <3>1. t.kind = "apply" /\ y \in t.touched /\ (y \in t.todo \/ t.after[y] = files[y])
      BY <2>3, <2>6 DEF Tends
    <3>2. y \in t.paths
      BY <1>1, <3>1 DEF Shape
    <3>3. CASE y = x
      BY <2>2, <2>3, <2>4, <2>5, <3>1, <3>3 DEF Tends
    <3>4. CASE y # x /\ y \in t.todo
      BY <2>2, <2>3, <2>4, <3>1, <3>4 DEF Tends
    <3>5. CASE y # x /\ y \notin t.todo
      <4>1. Extend(t.after, x, files[x])[y] = files[y]
        BY <2>3, <2>5, <3>1, <3>2, <3>5
      <4> QED
        BY <2>2, <2>3, <2>4, <3>1, <4>1 DEF Tends
    <3> QED
      BY <3>3, <3>4, <3>5
  <2> QED
    BY <1>5, <2>1, <2>6, KeepsTending DEF Finalize
<1>6. CASE Save(p)
  <2>1. Set(p, Ended(t, "applied"))
    BY <1>6, SaveStep
  <2>2. ASSUME NEW x \in Path, origin'[x] = "patched"
        PROVE  origin[x] = "patched" /\ ~Tends(p, x)
    <3>1. t.step = "save" /\ t.touched = t.paths
      BY <1>1, <1>6 DEF Save, At, Shape
    <3> QED
      BY <1>6, <2>2, <3>1 DEF Save, Tends
  <2> QED
    BY <1>6, <2>1, <2>2, KeepsTending DEF Save
<1>7. CASE CheckDrift(p)
  <2>1. \A x \in Path : ~Tends(p, x)
    BY <1>7 DEF CheckDrift, At, Tends
  <2>2. \E u : Set(p, u)
    BY <1>7, CheckDriftStep
  <2> QED
    BY <1>7, <2>1, <2>2, KeepsTending DEF CheckDrift
<1>8. CASE RestoreOne(p)
  <2>1. PICK x \in t.todo :
          /\ files' = [files EXCEPT ![x] = t.before[x]]
          /\ origin' = [origin EXCEPT ![x] = "user"]
          /\ Set(p, Restored(t, x)) /\ Restored(t, x) \in Transaction
    BY <1>8, RestoreOneStep
  <2>2. tx'[p] = Restored(t, x) /\ t.step = "restore"
    BY <1>8, <2>1 DEF Set, Types, RestoreOne, At
  <2>3. ASSUME NEW y \in Path, origin'[y] = "patched"
        PROVE  origin[y] = "patched" /\ files'[y] = files[y] /\ (Tends(p, y) => Tends(p, y)')
    <3>1. y # x
      BY <2>1, <2>3 DEF Types
    <3>2. origin[y] = "patched" /\ files'[y] = files[y]
      BY <2>1, <2>3, <3>1 DEF Types
    <3>3. Tends(p, y) => Tends(p, y)'
      BY <1>1, <2>2, <3>1 DEF Tends, Restored, Transaction
    <3> QED
      BY <3>2, <3>3
  <2> QED
    BY <1>8, <2>1, <2>3, KeepsTending DEF RestoreOne
<1>9. CASE RestoreEnds(p)
  <2>1. \/ /\ Set(p, Ended(t, "partial")) /\ alarm' = alarm \cup {"partial"}
        \/ (\E u : Set(p, u)) /\ (t.touched = {} \/ t.kind = "rollback") /\ alarm' = alarm
    BY <1>9, RestoreEndsStep
  <2>2. CASE alarm' = alarm \cup {"partial"}
    BY <2>2 DEF Tended
  <2>3. CASE (\E u : Set(p, u)) /\ (t.touched = {} \/ t.kind = "rollback") /\ alarm' = alarm
    <3>1. \A x \in Path : ~Tends(p, x)
      BY <2>3 DEF Tends
    <3> QED
      BY <1>9, <2>3, <3>1, KeepsTending DEF RestoreEnds
  <2> QED
    BY <2>1, <2>2, <2>3
<1>10. CASE Confirm(p)
  <2>1. \A x \in Path : ~Tends(p, x)
    BY <1>10 DEF Confirm, At, Tends
  <2>2. \E u : Set(p, u)
    BY <1>10, ConfirmStep
  <2> QED
    BY <1>10, <2>1, <2>2, KeepsTending DEF Confirm
<1> QED
  BY <1>2, <1>3, <1>4, <1>5, <1>6, <1>7, <1>8, <1>9, <1>10 DEF Step

LEMMA FailTended ==
  ASSUME Types, Tended, NEW p \in Proc, Fail(p)
  PROVE  Tended'
<1> DEFINE t == tx[p]
<1>1. t \in Transaction /\ Shape(t)
  BY OneType
<1>2. CASE SaveFails(p)
  <2>1. Set(p, Undo(t)) /\ tx'[p] = Undo(t) /\ files' = files /\ t.step \in {"finalize", "save"}
    BY <1>2 DEF SaveFails, Set, Types, At
  <2>2. \A x \in Path : Tends(p, x) => Tends(p, x)'
    BY <1>1, <2>1 DEF Tends, Undo, Transaction
  <2> QED
    BY <1>2, <2>1, <2>2, KeepsTending DEF SaveFails
<1>3. CASE CaptureFails(p)
  <2>1. \A x \in Path : ~Tends(p, x)
    BY <1>3 DEF CaptureFails, At, Tends
  <2> QED
    BY <1>3, <2>1, KeepsTending DEF CaptureFails
<1>4. CASE StageFails(p)
  <2>1. CASE t.kind = "rollback"
    <3>1. \A x \in Path : ~Tends(p, x)
      BY <2>1 DEF Tends
    <3> QED
      BY <1>4, <2>1, <3>1, KeepsTending DEF StageFails
  <2>2. CASE t.kind # "rollback"
    BY <1>4, <2>2 DEF StageFails, Tended
  <2> QED
    BY <2>1, <2>2
<1>5. CASE RestoreOneFails(p)
  <2>1. PICK x \in t.todo : Set(p, NotRestored(t, x))
    BY <1>5, RestoreOneFailsStep
  <2>2. tx'[p] = NotRestored(t, x) /\ files' = files /\ t.step = "restore"
    BY <1>5, <2>1 DEF RestoreOneFails, Set, Types, At
  <2>3. \A y \in Path : Tends(p, y) => Tends(p, y)'
    BY <1>1, <2>2 DEF Tends, NotRestored, Transaction
  <2> QED
    BY <1>5, <2>1, <2>3, KeepsTending DEF RestoreOneFails
<1>6. CASE Crash(p)
  BY <1>6 DEF Crash, Tended
<1>7. CASE GitWriteFails(p)
  <2>1. CASE t.touched = {} /\ alarm' = alarm /\ Set(p, Ended(t, "refused"))
    <3>1. \A x \in Path : ~Tends(p, x)
      BY <2>1 DEF Tends
    <3> QED
      BY <1>7, <2>1, <3>1, KeepsTending DEF GitWriteFails
  <2>2. CASE alarm' = alarm \cup {"halfwritten"}
    BY <2>2 DEF Tended
  <2> QED
    BY <1>7, <2>1, <2>2, GitWriteFailsStep
<1> QED
  BY <1>2, <1>3, <1>4, <1>5, <1>6, <1>7 DEF Fail

LEMMA NextTended == Types /\ Tended /\ [Next]_vars => Tended'
<1> SUFFICES ASSUME Types, Tended, [Next]_vars PROVE Tended'
  OBVIOUS
<1>1. CASE UNCHANGED vars
  BY <1>1 DEF vars, Tended, Tends
<1>2. ASSUME NEW p \in Proc, Start(p) PROVE Tended'
  <2>1. /\ \E u : Set(p, u)
        /\ At(p, "idle") /\ Overlap /\ UNCHANGED <<files, snaps, origin>>
    BY <1>2 DEF Start, StartApply, StartRollback
  <2>2. \A x \in Path : ~Tends(p, x)
    BY <2>1 DEF At, Tends
  <2>3. alarm \subseteq alarm'
    BY <2>1 DEF Overlap
  <2> QED
    BY <2>1, <2>2, <2>3, KeepsTending
<1>3. ASSUME NEW x \in Path, NEW c \in Content, Edit(x, c) PROVE Tended'
  <2> SUFFICES ASSUME alarm' \cap {"crash", "partial", "halfwritten"} = {}, NEW y \in Path,
                      origin'[y] = "patched"
               PROVE  \E q \in Proc : Tends(q, y)'
    BY DEF Tended
  <2>1. alarm \cap {"crash", "partial", "halfwritten"} = {} /\ tx' = tx
    BY <1>3 DEF Edit
  <2>2. y # x
    BY <1>3 DEF Edit, Types
  <2>3. origin[y] = "patched" /\ files'[y] = files[y]
    BY <1>3, <2>2 DEF Edit, Types
  <2>4. PICK q \in Proc : Tends(q, y)
    BY <2>1, <2>3 DEF Tended
  <2>5. Tends(q, y)'
    BY <2>1, <2>3, <2>4 DEF Tends
  <2> QED
    BY <2>5
<1> QED
  BY <1>1, <1>2, <1>3, StepTended, FailTended DEF Next

-------------------------------------------------------------------------------
(* A transaction that is alone sees the files it left                      *)

Clean == alarm \cap {"edit", "overlap"} = {}

\* p, with nobody else under way, becomes a transaction that is faithful again.
LEMMA StaysAlone ==
  ASSUME Types, Alone, NEW p \in Proc, NEW u, Set(p, u), alarm \subseteq alarm',
         Clean' => \A q \in Proc \ {p} : ~Busy(q),
         Clean' => Faithful(tx[p])'
  PROVE  Alone'
<1> SUFFICES ASSUME Clean'
             PROVE  /\ \A q, r \in Proc : Busy(q)' /\ Busy(r)' => q = r
                    /\ \A q \in Proc : Faithful(tx[q])'
  BY DEF Alone, Clean
<1>1. \A q \in Proc \ {p} : tx'[q] = tx[q] /\ tx[q].step = "idle"
  BY DEF Set, Types, Busy
<1>2. \A q \in Proc \ {p} : ~Busy(q)' /\ Faithful(tx[q])'
  BY <1>1 DEF Busy, Faithful
<1> QED
  BY <1>2

LEMMA OthersIdle ==
  ASSUME Alone, NEW p \in Proc, Busy(p), alarm \subseteq alarm', Clean'
  PROVE  Clean /\ Faithful(tx[p]) /\ \A q \in Proc \ {p} : ~Busy(q)
BY DEF Alone, Clean

\* The same for a transaction that is under way
LEMMA GoesOn ==
  ASSUME Types, Alone, NEW p \in Proc, NEW u, Set(p, u), alarm \subseteq alarm', Busy(p),
         Clean /\ Faithful(tx[p]) => Faithful(tx[p])'
  PROVE  Alone'
BY OthersIdle, StaysAlone

LEMMA EndsFaithful ==
  ASSUME Types, NEW p \in Proc, NEW u, Set(p, u), u.step = "idle"
  PROVE  Faithful(tx[p])'
<1>1. tx'[p] = u
  BY DEF Set, Types
<1> QED
  BY <1>1 DEF Faithful

LEMMA CaptureAlone ==
  ASSUME Types, Alone, NEW p \in Proc, Capture(p)
  PROVE  Alone'
<1> DEFINE t == tx[p]
<1>1. t \in Transaction /\ Shape(t) /\ t.step = "capture" /\ Busy(p)
  BY OneType DEF Capture, At, Busy
<1>2. PICK x \in t.todo : Set(p, Captured(t, x))
  BY <1>1, CaptureStep
<1>3. tx'[p] = Captured(t, x) /\ files' = files
  BY <1>2 DEF Set, Types, Capture
<1>4. /\ Captured(t, x).before = Extend(t.before, x, files[x])
      /\ Captured(t, x).kind = "apply" /\ Captured(t, x).step \in {"capture", "git"}
  BY <1>1 DEF Captured, Transaction, Shape
<1>5. ASSUME Faithful(t) PROVE Faithful(tx[p])'
  <2>1. \A y \in DOMAIN t.before : t.before[y] = files[y]
    BY <1>1, <1>5 DEF Faithful, Applying, Shape
  <2>2. \A y \in DOMAIN Extend(t.before, x, files[x]) : Extend(t.before, x, files[x])[y] = files[y]
    BY <2>1 DEF Extend
  <2> QED
    BY <1>3, <1>4, <2>2 DEF Faithful, Applying
<1> QED
  BY <1>1, <1>2, <1>5, GoesOn DEF Capture

LEMMA GitCheckAlone ==
  ASSUME Types, Alone, NEW p \in Proc, GitCheck(p)
  PROVE  Alone'
<1> DEFINE t == tx[p]
<1>1. /\ t \in Transaction /\ Shape(t) /\ t.step = "git" /\ Busy(p)
      /\ UNCHANGED <<files, snaps, alarm>>
  BY OneType DEF GitCheck, At, Busy
<1>2. CASE Set(p, Ended(t, "refused"))
  <2>1. Ended(t, "refused").step = "idle"
    BY DEF Ended, Idle
  <2> QED
    BY <1>1, <1>2, <2>1, EndsFaithful, GoesOn
<1>3. CASE (\A x \in t.paths : files[x] \in DOMAIN t.image) /\ Set(p, Checked(t))
  <2>1. tx'[p] = Checked(t)
    BY <1>3 DEF Set, Types
  <2>2. /\ Checked(t).step = "write" /\ Checked(t).kind = "apply" /\ Checked(t).touched = {}
        /\ Checked(t).paths = t.paths /\ Checked(t).before = t.before
        /\ DOMAIN Checked(t).after = {}
        /\ Checked(t).image = [x \in t.paths |-> t.image[files[x]]]
    BY <1>1, EmptyIsPartial DEF Checked, Transaction, Shape
  <2>3. ASSUME Faithful(t) PROVE Faithful(tx[p])'
    <3>1. \A x \in t.paths : t.before[x] = files[x]
      BY <1>1, <2>3 DEF Faithful, Applying, Shape
    <3>2. PICK d \in Patch : t.paths = d.paths /\ t.image = d.rewrite
      BY <1>1 DEF Shape
    <3>3. \A x \in t.paths : /\ t.before[x] \in DOMAIN d.rewrite
                             /\ Checked(t).image[x] = d.rewrite[t.before[x]]
      BY <1>3, <2>2, <3>1, <3>2
    <3>4. Applying(tx[p])'
      BY <1>1, <2>1, <2>2, <3>1, <3>2, <3>3 DEF Applying
    <3> QED
      BY <2>1, <2>2, <3>4 DEF Faithful
  <2> QED
    BY <1>1, <1>3, <2>3, GoesOn
<1> QED
  BY <1>2, <1>3, GitCheckStep

LEMMA GitWriteAlone ==
  ASSUME Types, Alone, NEW p \in Proc, GitWrite(p)
  PROVE  Alone'
<1> DEFINE t == tx[p]
<1>1. /\ t \in Transaction /\ Shape(t) /\ t.step = "write" /\ Busy(p)
      /\ t.paths \subseteq Path /\ UNCHANGED <<snaps, alarm>>
  BY OneType DEF GitWrite, At, Busy
<1>2. PICK x \in t.todo : /\ files' = [files EXCEPT ![x] = t.image[x]]
                          /\ Set(p, Written(t, x))
  BY GitWriteStep
<1>3. tx'[p] = Written(t, x) /\ x \in t.paths \ t.touched
  BY <1>1, <1>2 DEF Set, Types, Shape
<1>4. /\ Written(t, x).step \in {"write", "finalize"} /\ Written(t, x).kind = "apply"
      /\ Written(t, x).paths = t.paths /\ Written(t, x).before = t.before
      /\ DOMAIN Written(t, x).after = {} /\ Written(t, x).image = t.image
      /\ Written(t, x).touched = t.touched \cup {x}
  BY <1>1, EmptyIsPartial DEF Written, Transaction, Shape
<1>5. ASSUME Faithful(t) PROVE Faithful(tx[p])'
  <2>1. Applying(t)
    BY <1>1, <1>5 DEF Faithful, Shape
  <2>2. /\ \A y \in t.paths \ (t.touched \cup {x}) : files'[y] = t.before[y]
        /\ \A y \in t.touched \cup {x} : files'[y] = t.image[y]
    BY <1>1, <1>2, <1>3, <2>1 DEF Applying, Types, Shape
  <2>3. PICK d \in Patch :
            /\ t.paths = d.paths
            /\ \A y \in t.paths : t.before[y] \in DOMAIN d.rewrite
                                /\ t.image[y] = d.rewrite[t.before[y]]
    BY <1>1, <2>1 DEF Applying
  <2>4. Applying(tx[p])'
    BY <1>3, <1>4, <2>2, <2>3 DEF Applying
  <2> QED
    BY <1>3, <1>4, <2>4 DEF Faithful
<1> QED
  BY <1>1, <1>2, <1>5, GoesOn

LEMMA FinalizeAlone ==
  ASSUME Types, Alone, NEW p \in Proc, Finalize(p)
  PROVE  Alone'
<1> DEFINE t == tx[p]
<1>1. /\ t \in Transaction /\ Shape(t) /\ t.step = "finalize" /\ Busy(p)
      /\ UNCHANGED <<files, snaps, alarm>>
  BY OneType DEF Finalize, At, Busy
<1>2. PICK x \in t.todo : Set(p, Finalized(t, x))
  BY FinalizeStep
<1>3. tx'[p] = Finalized(t, x)
  BY <1>1, <1>2 DEF Set, Types
<1>4. /\ Finalized(t, x).step \in {"finalize", "save"} /\ Finalized(t, x).kind = "apply"
      /\ Finalized(t, x).paths = t.paths /\ Finalized(t, x).before = t.before
      /\ Finalized(t, x).after = Extend(t.after, x, files[x])
      /\ Finalized(t, x).image = t.image /\ Finalized(t, x).touched = t.touched
  BY <1>1 DEF Finalized, Transaction, Shape
<1>5. ASSUME Faithful(t) PROVE Faithful(tx[p])'
  <2>1. Applying(t)
    BY <1>1, <1>5 DEF Faithful, Shape
  <2>2. \A y \in DOMAIN t.after : t.after[y] = files[y]
    BY <1>1, <2>1 DEF Applying
  <2>3. \A y \in DOMAIN Extend(t.after, x, files[x]) : Extend(t.after, x, files[x])[y] = files[y]
    BY <2>2 DEF Extend
  <2>4. Applying(tx[p])'
    BY <1>1, <1>3, <1>4, <2>1, <2>3 DEF Applying
  <2> QED
    BY <1>3, <1>4, <2>4 DEF Faithful
<1> QED
  BY <1>1, <1>2, <1>5, GoesOn

LEMMA SaveFailsAlone ==
  ASSUME Types, Alone, NEW p \in Proc, SaveFails(p)
  PROVE  Alone'
<1> DEFINE t == tx[p]
<1>1. /\ t \in Transaction /\ Shape(t) /\ t.step \in {"finalize", "save"} /\ Busy(p)
      /\ Set(p, Undo(t)) /\ UNCHANGED <<files, snaps, alarm>>
  BY OneType DEF SaveFails, At, Busy
<1>2. tx'[p] = Undo(t)
  BY <1>1 DEF Set, Types
<1>3. /\ Undo(t).step = "restore" /\ Undo(t).kind = "apply" /\ Undo(t).paths = t.paths
      /\ Undo(t).touched = t.touched /\ t.touched = t.paths
  BY <1>1 DEF Undo, Transaction, Shape
<1>4. Faithful(tx[p])'
  BY <1>2, <1>3 DEF Faithful, Applying
<1> QED
  BY <1>1, <1>4, GoesOn

LEMMA CheckDriftAlone ==
  ASSUME Types, Alone, NEW p \in Proc, CheckDrift(p)
  PROVE  Alone'
<1> DEFINE t == tx[p]
<1>1. /\ t \in Transaction /\ Shape(t) /\ t.step = "drift" /\ Busy(p)
      /\ UNCHANGED <<files, snaps, alarm>>
  BY OneType DEF CheckDrift, At, Busy
<1>2. PICK x \in t.todo : \/ files[x] = t.after[x] /\ Set(p, Compared(t, x))
                          \/ Set(p, Unseen(t, x)) /\ Unseen(t, x).step = "idle"
  BY CheckDriftStep
<1>3. CASE Set(p, Unseen(t, x)) /\ Unseen(t, x).step = "idle"
  BY <1>1, <1>3, EndsFaithful, GoesOn
<1>4. CASE files[x] = t.after[x] /\ Set(p, Compared(t, x))
  <2>1. tx'[p] = Compared(t, x)
    BY <1>4 DEF Set, Types
  <2>2. /\ Compared(t, x).kind = "rollback" /\ Compared(t, x).paths = t.paths
        /\ Compared(t, x).before = t.before /\ Compared(t, x).after = t.after
        /\ Compared(t, x).touched = {}
        /\ \/ Compared(t, x).step = "drift" /\ Compared(t, x).todo = t.todo \ {x}
           \/ Compared(t, x).step = "restore" /\ t.todo = {x}
    BY <1>1 DEF Compared, Transaction, Shape
  <2>3. ASSUME Faithful(t) PROVE Faithful(tx[p])'
    <3>1. RollingBack(t)
      BY <1>1, <2>3 DEF Faithful, Shape
    <3>2. \A y \in t.paths \ (t.todo \ {x}) : files[y] = t.after[y]
      BY <1>1, <1>4, <3>1 DEF RollingBack
    <3>3. RollingBack(tx[p])'
      BY <1>1, <2>1, <2>2, <3>1, <3>2 DEF RollingBack
    <3> QED
      BY <2>1, <2>2, <3>3 DEF Faithful
  <2> QED
    BY <1>1, <1>4, <2>3, GoesOn
<1> QED
  BY <1>2, <1>3, <1>4

LEMMA RestoreOneAlone ==
  ASSUME Types, Alone, NEW p \in Proc, RestoreOne(p)
  PROVE  Alone'
<1> DEFINE t == tx[p]
<1>1. /\ t \in Transaction /\ Shape(t) /\ t.step = "restore" /\ Busy(p)
      /\ t.paths \subseteq Path /\ UNCHANGED <<snaps, alarm>>
  BY OneType DEF RestoreOne, At, Busy
<1>2. PICK x \in t.todo : /\ files' = [files EXCEPT ![x] = t.before[x]]
                          /\ Set(p, Restored(t, x))
  BY RestoreOneStep
<1>3. tx'[p] = Restored(t, x) /\ x \in t.paths
  BY <1>1, <1>2 DEF Set, Types, Shape
<1>4. /\ Restored(t, x).step = "restore" /\ Restored(t, x).kind = t.kind
      /\ Restored(t, x).paths = t.paths /\ Restored(t, x).before = t.before
      /\ Restored(t, x).after = t.after
      /\ t.kind = "apply" => Restored(t, x).touched = t.touched \ {x}
      /\ t.kind # "apply" => Restored(t, x).touched = t.touched \cup {x}
  BY <1>1 DEF Restored, Transaction
<1>5. /\ files'[x] = t.before[x]
      /\ \A y \in t.paths : y # x => files'[y] = files[y]
  BY <1>1, <1>2, <1>3 DEF Types
<1>6. ASSUME Faithful(t) PROVE Faithful(tx[p])'
  <2>1. CASE t.kind = "apply"
    <3>1. Applying(t)
      BY <1>1, <1>6, <2>1 DEF Faithful
    <3>2. Applying(tx[p])'
      BY <1>1, <1>3, <1>4, <1>5, <2>1, <3>1 DEF Applying
    <3> QED
      BY <1>3, <1>4, <2>1, <3>2 DEF Faithful
  <2>2. CASE t.kind # "apply"
    <3>1. RollingBack(t)
      BY <1>1, <1>6, <2>2 DEF Faithful
    <3>2. \A y \in t.touched : y \in t.paths
      BY <1>1 DEF Shape
    <3>3. RollingBack(tx[p])'
      BY <1>1, <1>3, <1>4, <1>5, <2>2, <3>1, <3>2 DEF RollingBack
    <3> QED
      BY <1>3, <1>4, <2>2, <3>3 DEF Faithful
  <2> QED
    BY <2>1, <2>2
<1> QED
  BY <1>1, <1>2, <1>6, GoesOn

LEMMA RestoreOneFailsAlone ==
  ASSUME Types, Alone, NEW p \in Proc, RestoreOneFails(p)
  PROVE  Alone'
<1> DEFINE t == tx[p]
<1>1. /\ t \in Transaction /\ t.step = "restore" /\ Busy(p) /\ UNCHANGED <<files, snaps, alarm>>
  BY OneType DEF RestoreOneFails, At, Busy
<1>2. PICK x \in t.todo : Set(p, NotRestored(t, x))
  BY RestoreOneFailsStep
<1>3. tx'[p] = NotRestored(t, x)
  BY <1>2 DEF Set, Types
<1>4. /\ NotRestored(t, x).step = "restore" /\ NotRestored(t, x).kind = t.kind
      /\ NotRestored(t, x).paths = t.paths /\ NotRestored(t, x).before = t.before
      /\ NotRestored(t, x).after = t.after /\ NotRestored(t, x).touched = t.touched
  BY <1>1 DEF NotRestored, Transaction
<1>5. Faithful(t) => Faithful(tx[p])'
  BY <1>1, <1>3, <1>4 DEF Faithful, Applying, RollingBack
<1> QED
  BY <1>1, <1>2, <1>5, GoesOn

LEMMA RestoreEndsAlone ==
  ASSUME Types, Alone, NEW p \in Proc, RestoreEnds(p)
  PROVE  Alone'
<1> DEFINE t == tx[p]
<1>1. /\ t \in Transaction /\ t.step = "restore" /\ Busy(p) /\ UNCHANGED <<files, snaps>>
      /\ alarm \subseteq alarm'
  BY OneType DEF RestoreEnds, At, Busy
<1>2. ASSUME NEW o, Set(p, Ended(t, o)) PROVE Alone'
  <2>1. Ended(t, o).step = "idle"
    BY DEF Ended, Idle
  <2> QED
    BY <1>1, <1>2, <2>1, EndsFaithful, GoesOn
<1>3. CASE t.kind = "rollback" /\ t.touched = t.paths /\ Set(p, Confirming(t))
  <2>1. tx'[p] = Confirming(t)
    BY <1>3 DEF Set, Types
  <2>2. /\ Confirming(t).step = "confirm" /\ Confirming(t).kind = t.kind
        /\ Confirming(t).paths = t.paths /\ Confirming(t).before = t.before
        /\ Confirming(t).after = t.after /\ Confirming(t).touched = t.touched
    BY <1>1 DEF Confirming, Transaction
  <2>3. Faithful(t) => Faithful(tx[p])'
    BY <1>1, <1>3, <2>1, <2>2 DEF Faithful, RollingBack
  <2> QED
    BY <1>1, <1>3, <2>3, GoesOn
<1> QED
  BY <1>2, <1>3, RestoreEndsStep

LEMMA ConfirmAlone ==
  ASSUME Types, Alone, NEW p \in Proc, Confirm(p)
  PROVE  Alone'
<1> DEFINE t == tx[p]
<1>1. /\ t \in Transaction /\ Shape(t) /\ t.step = "confirm" /\ Busy(p)
      /\ UNCHANGED <<files, snaps, alarm>>
  BY OneType DEF Confirm, At, Busy
<1>2. PICK x \in t.todo : \/ \E u : Set(p, u) /\ u.step = "idle"
                          \/ Set(p, Confirmed(t, x))
  BY ConfirmStep
<1>3. CASE \E u : Set(p, u) /\ u.step = "idle"
  BY <1>1, <1>3, EndsFaithful, GoesOn
<1>4. CASE Set(p, Confirmed(t, x))
  <2>1. tx'[p] = Confirmed(t, x)
    BY <1>4 DEF Set, Types
  <2>2. /\ Confirmed(t, x).step = "confirm" /\ Confirmed(t, x).kind = t.kind
        /\ Confirmed(t, x).paths = t.paths /\ Confirmed(t, x).before = t.before
        /\ Confirmed(t, x).after = t.after /\ Confirmed(t, x).touched = t.touched
        /\ t.kind = "rollback"
    BY <1>1 DEF Confirmed, Transaction, Shape
  <2>3. Faithful(t) => Faithful(tx[p])'
    BY <1>1, <2>1, <2>2 DEF Faithful, RollingBack
  <2> QED
    BY <1>1, <1>4, <2>3, GoesOn
<1> QED
  BY <1>2, <1>3, <1>4

LEMMA NextAlone == Types /\ Alone /\ [Next]_vars => Alone'
<1> SUFFICES ASSUME Types, Alone, [Next]_vars PROVE Alone'
  OBVIOUS
<1>1. CASE UNCHANGED vars
  BY <1>1 DEF vars, Alone, Busy, Faithful, Applying, RollingBack
<1>2. ASSUME NEW p \in Proc, NEW o, Set(p, Ended(tx[p], o)), Busy(p), alarm \subseteq alarm'
      PROVE  Alone'
  <2>1. Ended(tx[p], o).step = "idle"
    BY DEF Ended, Idle
  <2> QED
    BY <1>2, <2>1, EndsFaithful, GoesOn
<1>3. ASSUME NEW p \in Proc, Step(p) PROVE Alone'
  <2>1. CASE Save(p)
    BY <1>2, <2>1 DEF Save, At, Busy
  <2> QED
    BY <1>3, <2>1, CaptureAlone, GitCheckAlone, GitWriteAlone, FinalizeAlone, CheckDriftAlone,
       RestoreOneAlone, RestoreEndsAlone, ConfirmAlone DEF Step
<1>4. ASSUME NEW p \in Proc, Fail(p) PROVE Alone'
  <2>1. CASE CaptureFails(p)
    BY <1>2, <2>1 DEF CaptureFails, Refuse, At, Busy
  <2>2. CASE StageFails(p)
    BY <1>2, <2>2 DEF StageFails, At, Busy
  <2>3. CASE Crash(p)
    <3>1. Set(p, Idle) /\ Idle.step = "idle" /\ Busy(p) /\ alarm \subseteq alarm'
      BY <2>3 DEF Crash, Idle, At, Busy
    <3> QED
      BY <3>1, EndsFaithful, GoesOn
  <2>4. CASE GitWriteFails(p)
    <3>1. PICK o : Set(p, Ended(tx[p], o))
      BY <2>4 DEF GitWriteFails, HalfWritten
    <3> QED
      BY <1>2, <2>4, <3>1 DEF GitWriteFails, At, Busy
  <2> QED
    BY <1>4, <2>1, <2>2, <2>3, <2>4, SaveFailsAlone, RestoreOneFailsAlone DEF Fail
<1>5. ASSUME NEW p \in Proc, NEW u, Set(p, u), Overlap, Faithful(tx[p])' PROVE Alone'
  <2>1. alarm \subseteq alarm' /\ (Clean' => Quiet)
    BY <1>5 DEF Overlap, Clean
  <2> QED
    BY <1>5, <2>1, StaysAlone DEF Quiet, At, Busy
<1>6. ASSUME NEW p \in Proc, NEW d \in Patch, StartApply(p, d) PROVE Alone'
  <2>1. Set(p, Begins(d)) /\ Overlap
    BY <1>6, StartApplyStep DEF StartApply
  <2>2. tx'[p] = Begins(d)
    BY <2>1 DEF Set, Types
  <2>3. /\ Begins(d).step = "capture" /\ Begins(d).kind = "apply" /\ DOMAIN Begins(d).before = {}
    BY EmptyIsPartial DEF Begins, Idle
  <2>4. Faithful(tx[p])'
    BY <2>2, <2>3 DEF Faithful, Applying
  <2> QED
    BY <1>5, <2>1, <2>4
<1>7. ASSUME NEW p \in Proc, NEW id \in DOMAIN snaps, StartRollback(p, id) PROVE Alone'
  <2>1. Set(p, Restoring(id)) /\ Overlap /\ snaps' = snaps
    BY <1>7, StartRollbackStep DEF StartRollback
  <2>2. tx'[p] = Restoring(id)
    BY <2>1 DEF Set, Types
  <2>3. /\ Restoring(id).step = "drift" /\ Restoring(id).kind = "rollback"
        /\ Restoring(id).before = snaps[id].before /\ Restoring(id).after = snaps[id].after
        /\ Restoring(id).paths = DOMAIN snaps[id].before
        /\ Restoring(id).todo = DOMAIN snaps[id].after
        /\ DOMAIN snaps[id].before = DOMAIN snaps[id].after
    BY DEF Restoring, Idle, Types
  <2>4. Faithful(tx[p])'
    BY <2>1, <2>2, <2>3 DEF Faithful, RollingBack
  <2> QED
    BY <1>5, <2>1, <2>4
<1>8. ASSUME NEW x \in Path, NEW c \in Content, Edit(x, c) PROVE Alone'
  <2>1. CASE Quiet
    BY <1>8, <2>1 DEF Edit, Quiet, At, Alone, Busy, Faithful
  <2>2. CASE ~Quiet
    BY <1>8, <2>2 DEF Edit, Alone
  <2> QED
    BY <2>1, <2>2
<1> QED
  BY <1>1, <1>3, <1>4, <1>6, <1>7, <1>8 DEF Next, Start

LEMMA AlarmsStay == [Next]_vars => alarm \subseteq alarm'
<1>1. \A p \in Proc : Step(p) => alarm \subseteq alarm'
  BY DEF Step, Capture, GitCheck, GitWrite, Finalize, Save, CheckDrift, RestoreOne,
         RestoreEnds, Confirm
<1>2. \A p \in Proc : Start(p) => alarm \subseteq alarm'
  BY DEF Start, StartApply, StartRollback, Overlap
<1>3. \A p \in Proc : Fail(p) => alarm \subseteq alarm'
  BY DEF Fail, SaveFails, CaptureFails, GitWriteFails, StageFails, RestoreOneFails, Crash
<1>4. \A x \in Path, c \in Content : Edit(x, c) => alarm \subseteq alarm'
  BY DEF Edit
<1> QED
  BY <1>1, <1>2, <1>3, <1>4 DEF Next, vars

-------------------------------------------------------------------------------
(* The theorems                                                            *)

LEMMA InitTInv == Init => TInv
<1> SUFFICES ASSUME Init PROVE TInv
  OBVIOUS
<1>1. \A p \in Proc : tx[p].step = "idle"
  BY DEF Init, Idle
<1>2. Alone
  BY <1>1 DEF Alone, Busy, Faithful
<1>3. Tended
  BY DEF Init, Tended
<1> QED
  BY <1>2, <1>3, InitTypes DEF TInv

\* Transactions keep the invariant, whatever fails and whoever writes.
THEOREM TInvariance == Spec => []TInv
<1>1. TInv /\ [Next]_vars => TInv'
  BY NextTypes, NextTended, NextAlone DEF TInv
<1> QED
  BY <1>1, InitTInv, PTL DEF Spec

\* Every transaction has its type, and is restored or saved only with every path
\* captured, whatever fails and whoever writes.
THEOREM TransactionTyping == Spec => []TypeOK
<1>1. TInv => TypeOK
  BY DEF TInv, Types, Typed, Shape, TypeOK
<1> QED
  BY <1>1, TInvariance, PTL

\* What a transaction says it did is what it did, for any number of processes,
\* crashes, edits and failures; a git apply that fails between its writes is the one
\* failure it does not tell from a refusal.
THEOREM OutcomesAreTrue == Spec => []AllOrNothing
<1>1. TInv => AllOrNothing
  BY DEF TInv, Types, Shape, AllOrNothing
<1> QED
  BY <1>1, TInvariance, PTL

\* Without a crash, a reported partial restore or a git apply that failed between its
\* writes, no patched file is left that no snapshot records.
THEOREM NothingUnrecorded == Spec => []PatchedIsRecorded
<1>1. TInv => PatchedIsRecorded
  <2> SUFFICES ASSUME TInv, Quiet, alarm \cap {"crash", "partial", "halfwritten"} = {},
                      NEW x \in Path
               PROVE  origin[x] # "patched"
    BY DEF PatchedIsRecorded
  <2>1. \A p \in Proc : ~Tends(p, x)
    BY DEF Quiet, At, Tends
  <2> QED
    BY <2>1 DEF TInv, Tended
<1> QED
  BY <1>1, TInvariance, PTL

\* A rollback overwrites a path only while it holds what the patch left there, if
\* nobody else writes between the comparison and the restore.
Undrifted ==
  \A p \in Proc :
    alarm' \cap {"edit", "overlap"} = {} /\ At(p, "restore") /\ tx[p].kind = "rollback" =>
      \A x \in tx[p].todo : x \in tx'[p].touched => files[x] = tx[p].after[x]
THEOREM RollbackSparesEdits == Spec => RestoresOnlyUndrifted
<1>1. ASSUME TInv, [Next]_vars PROVE Undrifted
  <2> SUFFICES ASSUME NEW p \in Proc, Clean', At(p, "restore"), tx[p].kind = "rollback",
                      NEW x \in tx[p].todo
               PROVE  files[x] = tx[p].after[x]
    BY DEF Undrifted, Clean
  <2>1. alarm \subseteq alarm'
    BY <1>1, AlarmsStay
  <2>2. Faithful(tx[p])
    BY <1>1, <2>1 DEF TInv, Alone, Clean
  <2>3. RollingBack(tx[p])
    BY <2>2 DEF Faithful, At
  <2>4. x \in tx[p].paths /\ x \notin tx[p].touched
    BY <1>1 DEF TInv, Types, Shape, At
  <2> QED
    BY <2>3, <2>4 DEF RollingBack, At
<1>2. TInv /\ [Next]_vars => [Undrifted]_vars
  BY <1>1
<1> QED
  BY <1>2, TInvariance, PTL DEF Spec, RestoresOnlyUndrifted, Undrifted

-------------------------------------------------------------------------------
(* The transaction is atomic                                               *)

\* What the workspace counts as while p alone is under way
View(p) ==
  [x \in Path |->
     IF Busy(p) /\ x \in tx[p].touched
     THEN IF tx[p].kind = "apply" THEN tx[p].before[x] ELSE tx[p].after[x]
     ELSE files[x]]

LEMMA SettledIsView ==
  ASSUME NEW p \in Proc, \A q \in Proc \ {p} : ~Busy(q)
  PROVE  Settled = View(p)
<1> SUFFICES ASSUME NEW x \in Path PROVE Settled[x] = View(p)[x]
  BY DEF Settled, View
<1>1. CASE Busy(p) /\ x \in tx[p].touched
  <2>1. (CHOOSE q \in Proc : ~At(q, "idle") /\ x \in tx[q].touched) = p
    BY <1>1 DEF At, Busy
  <2> QED
    BY <1>1, <2>1 DEF Settled, View, At, Busy
<1>2. CASE ~(Busy(p) /\ x \in tx[p].touched)
  BY <1>2 DEF Settled, View, At, Busy
<1> QED
  BY <1>1, <1>2

LEMMA SettledIsViewNext ==
  ASSUME NEW p \in Proc, \A q \in Proc \ {p} : ~Busy(q)'
  PROVE  Settled' = View(p)'
<1> SUFFICES ASSUME NEW x \in Path PROVE Settled'[x] = View(p)'[x]
  BY DEF Settled, View
<1>1. CASE Busy(p)' /\ x \in tx'[p].touched
  <2>1. (CHOOSE q \in Proc : ~At(q, "idle")' /\ x \in tx'[q].touched) = p
    BY <1>1 DEF At, Busy
  <2> QED
    BY <1>1, <2>1 DEF Settled, View, At, Busy
<1>2. CASE ~(Busy(p)' /\ x \in tx'[p].touched)
  BY <1>2 DEF Settled, View, At, Busy
<1> QED
  BY <1>1, <1>2

LEMMA SettledType == Types => Settled \in [Path -> Content]
<1> SUFFICES ASSUME Types, NEW x \in Path PROVE Settled[x] \in Content
  BY DEF Settled
<1>1. CASE \E p \in Proc : ~At(p, "idle") /\ x \in tx[p].touched
  <2> DEFINE p == CHOOSE q \in Proc : ~At(q, "idle") /\ x \in tx[q].touched
  <2>1. p \in Proc /\ ~At(p, "idle") /\ x \in tx[p].touched
    BY <1>1
  <2>2. Settled[x] = IF tx[p].kind = "apply" THEN tx[p].before[x] ELSE tx[p].after[x]
    BY <1>1 DEF Settled
  <2> HIDE DEF p
  <2>3. /\ tx[p] \in Transaction /\ Shape(tx[p])
        /\ tx[p].before \in Partial(Path) /\ tx[p].after \in Partial(Path)
    BY <2>1, OneType
  <2>4. tx[p].kind = "apply" => x \in DOMAIN tx[p].before
    BY <2>1, <2>3 DEF Shape, At, Transaction
  <2>5. tx[p].kind # "apply" => x \in DOMAIN tx[p].after
    BY <2>1, <2>3 DEF Shape, At, Transaction
  <2> QED
    BY <2>2, <2>3, <2>4, <2>5, PartialValues
<1>2. CASE ~ \E p \in Proc : ~At(p, "idle") /\ x \in tx[p].touched
  BY <1>2 DEF Settled, Types
<1> QED
  BY <1>1, <1>2

\* p's step, when it is alone and nothing has gone wrong, shows as what it does to
\* its view.
LEMMA ViewStep ==
  ASSUME Types, Alone, NEW p \in Proc, NEW u, Set(p, u), alarm = {}, Busy(p)
  PROVE  /\ Faithful(tx[p]) /\ tx'[p] = u
         /\ Settled = View(p) /\ Settled' = View(p)'
<1>1. Faithful(tx[p]) /\ \A q \in Proc \ {p} : ~Busy(q)
  BY DEF Alone
<1>2. tx'[p] = u /\ \A q \in Proc \ {p} : ~Busy(q)'
  BY <1>1 DEF Set, Types, Busy
<1> QED
  BY <1>1, <1>2, SettledIsView, SettledIsViewNext
\* A step that writes no file and keeps what it has captured does not show.
LEMMA NothingShows ==
  ASSUME Types, Alone, NEW p \in Proc, NEW u, Set(p, u), alarm = {}, Busy(p), files' = files,
         \/ tx[p].touched = {} /\ u.touched = {}
         \/ /\ u.step # "idle" /\ u.kind = tx[p].kind /\ u.touched = tx[p].touched
            /\ u.before = tx[p].before /\ (u.kind = "apply" \/ u.after = tx[p].after)
  PROVE  Settled' = Settled
<1>1. tx'[p] = u /\ Settled = View(p) /\ Settled' = View(p)'
  BY ViewStep
<1>2. \A x \in Path : View(p)'[x] = View(p)[x]
  BY <1>1 DEF View, Busy
<1>3. View(p)' = View(p)
  BY <1>2 DEF View
<1> QED
  BY <1>1, <1>3

LEMMA WriteUnseen ==
  ASSUME Types, Alone, NEW p \in Proc, GitWrite(p), alarm = {}
  PROVE  Settled' = Settled
<1> DEFINE t == tx[p]
<1>1. /\ t \in Transaction /\ Shape(t) /\ t.step = "write" /\ t.kind = "apply" /\ Busy(p)
  BY OneType DEF GitWrite, At, Busy, Shape
<1>2. PICK x \in t.todo : /\ files' = [files EXCEPT ![x] = t.image[x]]
                          /\ Set(p, Written(t, x))
  BY GitWriteStep
<1>3. /\ tx'[p] = Written(t, x) /\ Faithful(t) /\ Settled = View(p) /\ Settled' = View(p)'
  BY <1>1, <1>2, ViewStep
<1>4. /\ Written(t, x).step # "idle" /\ Written(t, x).kind = "apply"
      /\ Written(t, x).before = t.before /\ Written(t, x).touched = t.touched \cup {x}
  BY <1>1 DEF Written, Transaction
<1>5. files[x] = t.before[x]
  BY <1>1, <1>3 DEF Faithful, Applying, Shape
<1>6. \A y \in Path : y # x => files'[y] = files[y]
  BY <1>2 DEF Types
<1>7. \A y \in Path : View(p)'[y] = View(p)[y]
  BY <1>1, <1>3, <1>4, <1>5, <1>6 DEF View, Busy
<1>8. View(p)' = View(p)
  BY <1>7 DEF View
<1> QED
  BY <1>3, <1>8

LEMMA RestoreUnseen ==
  ASSUME Types, Alone, NEW p \in Proc, RestoreOne(p), alarm = {}
  PROVE  Settled' = Settled
<1> DEFINE t == tx[p]
<1>1. /\ t \in Transaction /\ Shape(t) /\ t.step = "restore" /\ Busy(p)
  BY OneType DEF RestoreOne, At, Busy
<1>2. PICK x \in t.todo : /\ files' = [files EXCEPT ![x] = t.before[x]]
                          /\ Set(p, Restored(t, x))
  BY RestoreOneStep
<1>3. /\ tx'[p] = Restored(t, x) /\ Faithful(t) /\ Settled = View(p) /\ Settled' = View(p)'
  BY <1>1, <1>2, ViewStep
<1>4. /\ Restored(t, x).step # "idle" /\ Restored(t, x).kind = t.kind
      /\ Restored(t, x).before = t.before /\ Restored(t, x).after = t.after
      /\ t.kind = "apply" => Restored(t, x).touched = t.touched \ {x}
      /\ t.kind # "apply" => Restored(t, x).touched = t.touched \cup {x}
  BY <1>1 DEF Restored, Transaction
<1>5. /\ x \in Path => files'[x] = t.before[x]
      /\ \A y \in Path : y # x => files'[y] = files[y]
  BY <1>2 DEF Types
<1>6. CASE t.kind = "apply"
  <2>1. x \in t.touched
    BY <1>1, <1>2, <1>6 DEF Shape
  <2>2. \A y \in Path : View(p)'[y] = View(p)[y]
    BY <1>1, <1>3, <1>4, <1>5, <1>6, <2>1 DEF View, Busy
  <2>3. View(p)' = View(p)
    BY <2>2 DEF View
  <2> QED
    BY <1>3, <2>3
<1>7. CASE t.kind # "apply"
  <2>1. x \in t.paths /\ x \notin t.touched
    BY <1>1, <1>2, <1>7 DEF Shape, Transaction
  <2>2. files[x] = t.after[x]
    BY <1>1, <1>3, <1>7, <2>1 DEF Faithful, RollingBack
  <2>3. \A y \in Path : View(p)'[y] = View(p)[y]
    BY <1>1, <1>3, <1>4, <1>5, <1>7, <2>1, <2>2 DEF View, Busy
  <2>4. View(p)' = View(p)
    BY <2>3 DEF View
  <2> QED
    BY <1>3, <2>4
<1> QED
  BY <1>6, <1>7

\* The transaction shows when its snapshot is in place: all of it, at once.
LEMMA SaveApplies ==
  ASSUME Types, Alone, NEW p \in Proc, Save(p), alarm = {}
  PROVE  \E d \in Patch : Atomic!Apply(d)
<1> DEFINE t == tx[p]
<1>1. /\ t \in Transaction /\ Shape(t) /\ t.step = "save" /\ t.kind = "apply" /\ Busy(p)
      /\ t.touched = t.paths /\ t.paths \subseteq Path
      /\ DOMAIN t.before = t.paths /\ DOMAIN t.after = t.paths
      /\ t.before \in Partial(Path) /\ t.after \in Partial(Path)
  BY OneType DEF Save, At, Busy, Shape
<1>2. /\ Set(p, Ended(t, "applied")) /\ UNCHANGED <<files, alarm>>
      /\ snaps' = Append(snaps, [before |-> t.before, after |-> t.after])
  BY DEF Save
<1>3. Ended(t, "applied").step = "idle"
  BY DEF Ended, Idle
<1>4. /\ tx'[p].step = "idle" /\ Applying(t) /\ Settled = View(p) /\ Settled' = View(p)'
  BY <1>1, <1>2, <1>3, ViewStep DEF Faithful
<1>5. PICK d \in Patch :
        /\ t.paths = d.paths
        /\ \A x \in t.paths : t.before[x] \in DOMAIN d.rewrite
                            /\ t.image[x] = d.rewrite[t.before[x]]
  BY <1>1, <1>4 DEF Applying
<1>6. \A x \in t.paths : files[x] = t.image[x] /\ t.after[x] = files[x]
  BY <1>1, <1>4 DEF Applying
<1>7. \A x \in Path : /\ Settled[x] = IF x \in d.paths THEN t.before[x] ELSE files[x]
                      /\ Settled'[x] = files[x]
  BY <1>1, <1>2, <1>4, <1>5 DEF View, Busy
<1>8. Settled' = [x \in Path |-> IF x \in d.paths THEN d.rewrite[Settled[x]] ELSE Settled[x]]
  <2>1. \A x \in Path : Settled'[x] = IF x \in d.paths THEN d.rewrite[Settled[x]] ELSE Settled[x]
    BY <1>1, <1>5, <1>6, <1>7
  <2> QED
    BY <1>4, <2>1 DEF View
<1>9. t.before = [x \in d.paths |-> Settled[x]]
  BY <1>1, <1>5, <1>7, PartialValues
<1>10. t.after = [x \in d.paths |-> Settled'[x]]
  BY <1>1, <1>5, <1>6, <1>7, PartialValues
<1>11. \A x \in d.paths : Settled[x] \in DOMAIN d.rewrite
  BY <1>1, <1>5, <1>7
<1>12. Atomic!Apply(d)
  BY <1>2, <1>8, <1>9, <1>10, <1>11 DEF Atomic!Apply
<1> QED
  BY <1>12

\* The rollback shows when the last path has been compared.
LEMMA ConfirmRollsBack ==
  ASSUME Types, Alone, NEW p \in Proc, Confirm(p), alarm = {}
  PROVE  \/ \E id \in DOMAIN snaps : Atomic!Rollback(id)
         \/ UNCHANGED Atomic!vars
<1> DEFINE t == tx[p]
<1>1. /\ t \in Transaction /\ Shape(t) /\ t.step = "confirm" /\ t.kind = "rollback" /\ Busy(p)
      /\ t.touched = t.paths /\ t.paths \subseteq Path
      /\ DOMAIN t.before = t.paths /\ DOMAIN t.after = t.paths
      /\ UNCHANGED <<files, snaps, alarm>>
  BY OneType DEF Confirm, At, Busy, Shape
<1>2. PICK x \in t.todo : \/ \E u : Set(p, u) /\ u.step = "idle"
                          \/ Set(p, Confirmed(t, x))
  BY ConfirmStep
<1>3. CASE Set(p, Confirmed(t, x))
  <2>1. /\ Confirmed(t, x).step # "idle" /\ Confirmed(t, x).kind = t.kind
        /\ Confirmed(t, x).touched = t.touched
        /\ Confirmed(t, x).before = t.before /\ Confirmed(t, x).after = t.after
    BY <1>1 DEF Confirmed, Transaction
  <2>2. Settled' = Settled
    BY <1>1, <1>3, <2>1, NothingShows
  <2> QED
    BY <1>1, <2>2 DEF Atomic!vars
<1>4. CASE \E u : Set(p, u) /\ u.step = "idle"
  <2>1. PICK u : Set(p, u) /\ u.step = "idle"
    BY <1>4
  <2>2. /\ tx'[p] = u /\ Faithful(t) /\ Settled = View(p) /\ Settled' = View(p)'
    BY <1>1, <2>1, ViewStep
  <2>3. RollingBack(t)
    BY <1>1, <2>2 DEF Faithful
  <2>4. PICK id \in DOMAIN snaps : t.before = snaps[id].before /\ t.after = snaps[id].after
    BY <2>3 DEF RollingBack
  <2>5. \A y \in Path : /\ Settled[y] = IF y \in t.paths THEN t.after[y] ELSE files[y]
                        /\ Settled'[y] = files[y]
    BY <1>1, <2>1, <2>2 DEF View, Busy
  <2>6. \A y \in t.paths : files[y] = t.before[y]
    BY <1>1, <2>3 DEF RollingBack
  <2>7. \A y \in DOMAIN snaps[id].after : Settled[y] = snaps[id].after[y]
    BY <1>1, <2>4, <2>5
  <2>8. Settled' = [y \in Path |-> IF y \in DOMAIN snaps[id].before
                                   THEN snaps[id].before[y] ELSE Settled[y]]
    <3>1. \A y \in Path : Settled'[y] = IF y \in DOMAIN snaps[id].before
                                        THEN snaps[id].before[y] ELSE Settled[y]
      BY <1>1, <2>4, <2>5, <2>6
    <3> QED
      BY <2>2, <3>1 DEF View
  <2>9. Atomic!Rollback(id)
    BY <1>1, <2>7, <2>8 DEF Atomic!Rollback
  <2> QED
    BY <2>9
<1> QED
  BY <1>2, <1>3, <1>4

LEMMA StepShows ==
  ASSUME Types, Alone, NEW p \in Proc, Step(p), alarm = {}, alarm' = {}
  PROVE  [Atomic!Next]_(Atomic!vars)
<1> DEFINE t == tx[p]
<1>1. t \in Transaction /\ Shape(t)
  BY OneType
<1>2. CASE Capture(p)
  <2>1. t.step = "capture" /\ t.touched = {} /\ Busy(p) /\ UNCHANGED <<files, snaps>>
    BY <1>1, <1>2 DEF Capture, At, Busy, Shape
  <2>2. PICK x \in t.todo : Set(p, Captured(t, x))
    BY <1>2, CaptureStep
  <2>3. Captured(t, x).touched = {}
    BY <1>1, <2>1 DEF Captured, Transaction
  <2> QED
    BY <2>1, <2>2, <2>3, NothingShows DEF Atomic!vars
<1>3. CASE GitCheck(p)
  <2>1. t.step = "git" /\ t.touched = {} /\ Busy(p) /\ UNCHANGED <<files, snaps>>
    BY <1>1, <1>3 DEF GitCheck, At, Busy, Shape
  <2>2. Checked(t).touched = {} /\ Ended(t, "refused").touched = {}
    BY <1>1, <2>1 DEF Checked, Ended, Idle, Transaction
  <2> QED
    BY <1>3, <2>1, <2>2, GitCheckStep, NothingShows DEF Atomic!vars
<1>4. CASE GitWrite(p)
  BY <1>4, WriteUnseen DEF GitWrite, Atomic!vars
<1>5. CASE Finalize(p)
  <2>1. t.step = "finalize" /\ t.kind = "apply" /\ Busy(p) /\ UNCHANGED <<files, snaps>>
    BY <1>1, <1>5 DEF Finalize, At, Busy, Shape
  <2>2. PICK x \in t.todo : Set(p, Finalized(t, x))
    BY <1>5, FinalizeStep
  <2>3. /\ Finalized(t, x).step # "idle" /\ Finalized(t, x).kind = t.kind
        /\ Finalized(t, x).touched = t.touched /\ Finalized(t, x).before = t.before
    BY <1>1 DEF Finalized, Transaction
  <2> QED
    BY <2>1, <2>2, <2>3, NothingShows DEF Atomic!vars
<1>6. CASE Save(p)
  BY <1>6, SaveApplies DEF Atomic!Next
<1>7. CASE CheckDrift(p)
  <2>1. t.step = "drift" /\ t.touched = {} /\ Busy(p) /\ UNCHANGED <<files, snaps>>
    BY <1>1, <1>7 DEF CheckDrift, At, Busy, Shape
  <2>2. PICK x \in t.todo : \/ Set(p, Compared(t, x))
                            \/ Set(p, Unseen(t, x)) /\ Unseen(t, x).touched = {}
    BY <1>7, CheckDriftStep
  <2>3. Compared(t, x).touched = {}
    BY <1>1, <2>1 DEF Compared, Transaction
  <2> QED
    BY <2>1, <2>2, <2>3, NothingShows DEF Atomic!vars
<1>8. CASE RestoreOne(p)
  BY <1>8, RestoreUnseen DEF RestoreOne, Atomic!vars
<1>9. CASE RestoreEnds(p)
  <2>1. Busy(p) /\ UNCHANGED <<files, snaps>>
    BY <1>9 DEF RestoreEnds, At, Busy
  <2>2. \/ t.touched = {} /\ Set(p, Ended(t, "undone"))
        \/ t.step = "restore" /\ Set(p, Confirming(t))
    BY <1>9, RestoreEndsStep DEF RestoreEnds, At
  <2>3. /\ Ended(t, "undone").touched = t.touched
        /\ Confirming(t).step # "idle" /\ Confirming(t).kind = t.kind
        /\ Confirming(t).touched = t.touched
        /\ Confirming(t).before = t.before /\ Confirming(t).after = t.after
    BY <1>1 DEF Ended, Idle, Confirming, Transaction
  <2> QED
    BY <2>1, <2>2, <2>3, NothingShows DEF Atomic!vars
<1>10. CASE Confirm(p)
  BY <1>10, ConfirmRollsBack DEF Atomic!Next
<1> QED
  BY <1>2, <1>3, <1>4, <1>5, <1>6, <1>7, <1>8, <1>9, <1>10 DEF Step

LEMMA StartShows ==
  ASSUME Types, NEW p \in Proc, Start(p), alarm' = {}
  PROVE  UNCHANGED Atomic!vars
<1>1. /\ Quiet /\ alarm = {} /\ UNCHANGED <<files, snaps>>
      /\ \E u : Set(p, u) /\ u.touched = {}
  <2>1. Quiet /\ alarm = {} /\ UNCHANGED <<files, snaps>>
    BY DEF Start, StartApply, StartRollback, Overlap
  <2>2. \A d : Begins(d).touched = {}
    BY DEF Begins, Idle
  <2>3. \A id : Restoring(id).touched = {}
    BY DEF Restoring, Idle
  <2> QED
    BY <2>1, <2>2, <2>3, StartApplyStep, StartRollbackStep DEF Start
<1>2. tx'[p].touched = {} /\ \A q \in Proc \ {p} : tx'[q] = tx[q]
  BY <1>1 DEF Set, Types
<1>3. Settled = View(p)
  BY <1>1, SettledIsView DEF Quiet, At, Busy
<1>4. Settled' = View(p)'
  BY <1>1, <1>2, SettledIsViewNext DEF Quiet, At, Busy
<1>5. \A x \in Path : View(p)'[x] = View(p)[x]
  BY <1>1, <1>2 DEF View, Busy, Quiet, At
<1>6. View(p)' = View(p)
  BY <1>5 DEF View
<1> QED
  BY <1>1, <1>3, <1>4, <1>6 DEF Atomic!vars

LEMMA FailShows ==
  ASSUME Types, Alone, NEW p \in Proc, Fail(p), alarm = {}, alarm' = {}
  PROVE  UNCHANGED Atomic!vars
<1> DEFINE t == tx[p]
<1>1. t \in Transaction /\ Shape(t)
  BY OneType
<1>2. CASE SaveFails(p)
  <2>1. Busy(p) /\ Set(p, Undo(t)) /\ t.kind = "apply" /\ UNCHANGED <<files, snaps>>
    BY <1>1, <1>2 DEF SaveFails, At, Busy, Shape
  <2>2. /\ Undo(t).step # "idle" /\ Undo(t).kind = t.kind /\ Undo(t).touched = t.touched
        /\ Undo(t).before = t.before /\ Undo(t).after = t.after
    BY <1>1 DEF Undo, Transaction
  <2> QED
    BY <2>1, <2>2, NothingShows DEF Atomic!vars
<1>3. CASE CaptureFails(p)
  <2>1. Busy(p) /\ t.touched = {} /\ UNCHANGED <<files, snaps>>
    BY <1>1, <1>3 DEF CaptureFails, At, Busy, Shape
  <2>2. Set(p, Ended(t, "refused")) /\ Ended(t, "refused").touched = t.touched
    BY <1>3, CaptureFailsStep DEF Ended, Idle
  <2> QED
    BY <2>1, <2>2, NothingShows DEF Atomic!vars
<1>4. CASE StageFails(p)
  <2>1. Busy(p) /\ UNCHANGED <<files, snaps>>
    BY <1>4 DEF StageFails, At, Busy
  <2>2. Set(p, Ended(t, "refused")) /\ t.touched = {}
    BY <1>4, StageFailsStep
  <2>3. Ended(t, "refused").touched = t.touched
    BY DEF Ended, Idle
  <2> QED
    BY <2>1, <2>2, <2>3, NothingShows DEF Atomic!vars
<1>5. CASE RestoreOneFails(p)
  <2>1. Busy(p) /\ t.step = "restore" /\ UNCHANGED <<files, snaps>>
    BY <1>5 DEF RestoreOneFails, At, Busy
  <2>2. PICK x \in t.todo : Set(p, NotRestored(t, x))
    BY <1>5, RestoreOneFailsStep
  <2>3. /\ NotRestored(t, x).step # "idle" /\ NotRestored(t, x).kind = t.kind
        /\ NotRestored(t, x).touched = t.touched
        /\ NotRestored(t, x).before = t.before /\ NotRestored(t, x).after = t.after
    BY <1>1, <2>1 DEF NotRestored, Transaction
  <2> QED
    BY <2>1, <2>2, <2>3, NothingShows DEF Atomic!vars
<1>6. CASE Crash(p)
  BY <1>6 DEF Crash
<1>7. CASE GitWriteFails(p)
  <2>1. Busy(p) /\ t.touched = {} /\ Set(p, Ended(t, "refused")) /\ UNCHANGED <<files, snaps>>
    BY <1>7, GitWriteFailsStep DEF GitWriteFails, At, Busy
  <2>2. Ended(t, "refused").touched = t.touched
    BY DEF Ended, Idle
  <2> QED
    BY <2>1, <2>2, NothingShows DEF Atomic!vars
<1> QED
  BY <1>2, <1>3, <1>4, <1>5, <1>6, <1>7 DEF Fail

LEMMA QuietIsSettled == Quiet /\ files \in [Path -> Content] => Settled = files
<1> SUFFICES ASSUME Quiet, files \in [Path -> Content] PROVE Settled = files
  OBVIOUS
<1>1. \A x \in Path : Settled[x] = files[x]
  BY DEF Settled, Quiet
<1> QED
  BY <1>1 DEF Settled

LEMMA EditShows ==
  ASSUME Types, Types', NEW x \in Path, NEW c \in Content, Edit(x, c), alarm' = {}
  PROVE  Atomic!Edit(x, c)
<1>1. Quiet /\ Quiet' /\ files' = [files EXCEPT ![x] = c] /\ UNCHANGED <<snaps, alarm>>
  BY DEF Edit, Quiet, At
<1>2. Settled = files
  BY <1>1, QuietIsSettled DEF Types
<1>3. Settled' = files'
  <2>1. \A y \in Path : Settled'[y] = files'[y]
    BY <1>1 DEF Settled, Quiet
  <2> QED
    BY <2>1 DEF Settled, Types
<1> QED
  BY <1>1, <1>2, <1>3 DEF Atomic!Edit

LEMMA Simulation == TInv /\ TInv' /\ [Next]_vars => [Atomic!Next]_(Atomic!vars)
<1>1. TInv' => Settled' \in [Path -> Content]
  <2>1. TInv => Settled \in [Path -> Content]
    BY SettledType DEF TInv
  <2>2. TInv' => (Settled \in [Path -> Content])'
    BY <2>1, PTL
  <2> QED
    BY <2>2
<1> SUFFICES ASSUME TInv, TInv', [Next]_vars PROVE [Atomic!Next]_(Atomic!vars)
  OBVIOUS
<1>2. CASE alarm' # {}
  <2>1. Atomic!Damage
    BY <1>1, <1>2 DEF Atomic!Damage
  <2> QED
    BY <2>1 DEF Atomic!Next
<1>3. CASE alarm' = {}
  <2>1. alarm = {}
    BY <1>3, AlarmsStay
  <2>2. CASE UNCHANGED vars
    <3>1. Settled' = Settled
      BY <2>2 DEF vars, Settled, At
    <3> QED
      BY <2>2, <3>1 DEF vars, Atomic!vars
  <2>3. ASSUME NEW p \in Proc, Step(p) PROVE [Atomic!Next]_(Atomic!vars)
    BY <1>3, <2>1, <2>3, StepShows DEF TInv
  <2>4. ASSUME NEW p \in Proc, Start(p) PROVE [Atomic!Next]_(Atomic!vars)
    BY <1>3, <2>4, StartShows DEF TInv
  <2>5. ASSUME NEW p \in Proc, Fail(p) PROVE [Atomic!Next]_(Atomic!vars)
    BY <1>3, <2>1, <2>5, FailShows DEF TInv
  <2>6. ASSUME NEW x \in Path, NEW c \in Content, Edit(x, c)
        PROVE  [Atomic!Next]_(Atomic!vars)
    BY <1>3, <2>6, EditShows DEF TInv, Atomic!Next
  <2> QED
    BY <2>2, <2>3, <2>4, <2>5, <2>6 DEF Next
<1> QED
  BY <1>2, <1>3

\* Until something is reported to have gone wrong, the file by file transaction
\* and rollback do what AtomicPatch does in one step.
THEOREM ImplementsAtomic == Spec => RefinesAtomic
<1>1. Init => Atomic!Init
  <2> SUFFICES ASSUME Init PROVE Atomic!Init
    OBVIOUS
  <2>1. Quiet /\ files \in [Path -> Content]
    BY TransactionConstants DEF Init, Quiet, At, Idle
  <2> QED
    BY <2>1, QuietIsSettled DEF Init, Atomic!Init
<1> QED
  BY <1>1, Simulation, TInvariance, PTL DEF Spec, RefinesAtomic, Atomic!Spec
===============================================================================
