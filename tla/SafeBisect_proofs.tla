--------------------------- MODULE SafeBisect_proofs ---------------------------
(***************************************************************************)
(* The verdict of the binary search, for paths of every length and for     *)
(* candidates that pass, fail and flake in any way.  That the tests halve  *)
(* the path needs powers of two, which are here the sizes of power sets,   *)
(* so that they double by a library fact and not by induction.             *)
(***************************************************************************)
EXTENDS SafeBisect, FiniteSetTheorems, TLAPS

\* What the loop keeps: the bounds were tested, and everything tested so far
\* passed up to lo and failed from hi on.
Bracket ==
  /\ lo < hi /\ hi <= size
  /\ lo \in DOMAIN tested /\ hi \in DOMAIN tested
  /\ \A i \in DOMAIN tested : (i <= lo /\ tested[i] = "pass") \/ (i >= hi /\ tested[i] = "fail")

StepInv ==
  /\ pc \in {"plan", "good"} => DOMAIN tested = {}
  /\ pc = "plan" => size = 0
  /\ pc \in {"good", "bad", "search"} => size >= 1
  /\ pc = "bad" => DOMAIN tested = {0} /\ tested[0] = "pass"
  /\ pc = "search" => Bracket
  /\ status = "proven" => pc = "done" /\ Bracket /\ hi - lo <= 1

Inv == TypeOK /\ StepInv

\* classifySeries knows four answers.
LEMMA ClassesAreKnown == Classes \subseteq Class
BY DEF Classes, ClassifySeries, Class

\* The midpoint is strictly between bounds that are more than one apart.
LEMMA MidIsBetween ==
  ASSUME lo \in Nat, hi \in Nat, hi - lo > 1
  PROVE  Mid \in Nat /\ lo < Mid /\ Mid < hi
BY DEF Mid

\* Recording the classification of one more position.
LEMMA TestedAdds ==
  ASSUME NEW i \in Nat, NEW class, Tested(i, class)
  PROVE  /\ DOMAIN tested' = DOMAIN tested \cup {i}
         /\ tested'[i] = class
         /\ \A j \in DOMAIN tested : j # i => tested'[j] = tested[j]
         /\ tested' = [j \in DOMAIN tested' |-> tested'[j]]
BY DEF Tested

LEMMA InitInv == Init => Inv
<1>1. DOMAIN <<>> = {} /\ <<>> = [j \in {} |-> "pass"]
  OBVIOUS
<1>2. <<>> \in [{} -> Class]
  <2>1. [j \in {} |-> "pass"] \in [{} -> Class]
    OBVIOUS
  <2>2. QED
    BY <1>1, <2>1, Zenon
<1>3. Init => TypeOK
  <2>1. Init => tested = <<>>
    BY DEF Init
  <2>2. tested = <<>> => DOMAIN tested = {} /\ tested \in [DOMAIN tested -> Class]
    BY <1>1, <1>2, Zenon
  <2>3. QED
    <3> SUFFICES ASSUME Init PROVE TypeOK
      OBVIOUS
    <3>1. DOMAIN tested = {} /\ tested \in [DOMAIN tested -> Class]
      BY <2>1, <2>2, Zenon
    <3>2. 0 \in 0..MaxCommits
      BY CommitsAssumption
    <3>3. QED
      BY <3>1, <3>2 DEF Init, TypeOK
<1>4. Init => StepInv
  BY <1>1 DEF Init, StepInv
<1>5. QED
  BY <1>3, <1>4 DEF Inv

LEMMA NextInv == Inv /\ [Next]_vars => Inv'
<1>. SUFFICES ASSUME Inv, [Next]_vars PROVE Inv'
  OBVIOUS
<1>. USE CommitsAssumption DEF Finish
<1>1. ASSUME NEW k \in 1..MaxPath, Plan(k) PROVE Inv'
  BY <1>1 DEF Plan, TooLong, Inv, TypeOK, StepInv, Bracket
<1>2. CASE RefusePlan
  BY <1>2 DEF RefusePlan, Inv, TypeOK, StepInv, Bracket
<1>3. CASE TestGood
  <2>1. PICK class \in Classes :
          /\ Tested(0, class)
          /\ IF class = "pass" THEN pc' = "bad" /\ UNCHANGED status ELSE Finish("blocked")
    BY <1>3 DEF TestGood
  <2>2. class \in Class
    BY ClassesAreKnown
  <2>3. DOMAIN tested' = {0} /\ tested'[0] = class /\ tested' = [j \in {0} |-> tested'[j]]
    BY <1>3, <2>1, TestedAdds DEF TestGood, Inv, StepInv
  <2>4. TypeOK'
    BY <1>3, <2>1, <2>2, <2>3 DEF TestGood, Inv, TypeOK
  <2>5. StepInv'
    BY <1>3, <2>1, <2>3 DEF TestGood, Inv, StepInv, Bracket
  <2>6. QED
    BY <2>4, <2>5 DEF Inv
<1>4. CASE TestBad
  <2>1. PICK class \in Classes :
          /\ Tested(size, class)
          /\ IF EndpointFails(class) THEN pc' = "search" /\ UNCHANGED status
             ELSE Finish("blocked")
    BY <1>4 DEF TestBad
  <2>2. class \in Class
    BY ClassesAreKnown
  <2>3. size \in Nat /\ size >= 1
    BY <1>4 DEF TestBad, Inv, TypeOK, StepInv
  <2>4. /\ DOMAIN tested' = {0, size} /\ tested'[0] = "pass" /\ tested'[size] = class
        /\ tested' = [j \in {0, size} |-> tested'[j]]
    BY <1>4, <2>1, <2>3, TestedAdds DEF TestBad, Inv, StepInv
  <2>5. TypeOK'
    BY <1>4, <2>1, <2>2, <2>3, <2>4 DEF TestBad, Inv, TypeOK, Class
  <2>6. StepInv'
    BY <1>4, <2>1, <2>3, <2>4 DEF TestBad, Inv, StepInv, Bracket, EndpointFails
  <2>7. QED
    BY <2>5, <2>6 DEF Inv
<1>5. CASE TestMid
  <2>1. PICK class \in Classes :
          /\ Tested(Mid, class)
          /\ CASE class = "fail" -> hi' = Mid /\ UNCHANGED <<lo, pc, status>>
               [] class = "pass" -> lo' = Mid /\ UNCHANGED <<hi, pc, status>>
               [] OTHER          -> Finish("inconclusive") /\ UNCHANGED <<lo, hi>>
    BY <1>5 DEF TestMid
  <2>2. class \in Class
    BY ClassesAreKnown
  <2>3. Mid \in Nat /\ lo < Mid /\ Mid < hi
    BY <1>5, MidIsBetween DEF TestMid, LoopEnds, Inv, TypeOK
  <2>4. /\ DOMAIN tested' = DOMAIN tested \cup {Mid} /\ tested'[Mid] = class
        /\ \A j \in DOMAIN tested : j # Mid => tested'[j] = tested[j]
        /\ tested' = [j \in DOMAIN tested' |-> tested'[j]]
    BY <2>1, <2>3, TestedAdds
  <2>5. Bracket
    BY <1>5 DEF TestMid, Inv, StepInv
  <2>6. TypeOK'
    <3>1. tested' \in [DOMAIN tested' -> Class]
      BY <2>2, <2>4 DEF Inv, TypeOK
    <3>2. DOMAIN tested' \subseteq 0..size
      BY <2>3, <2>4, <2>5 DEF Bracket, Inv, TypeOK
    <3>3. QED
      BY <1>5, <2>1, <2>3, <3>1, <3>2 DEF TestMid, Inv, TypeOK
  <2>7. CASE class = "fail"
    <3>1. Bracket'
      BY <1>5, <2>1, <2>3, <2>4, <2>5, <2>7 DEF TestMid, Bracket, Inv, TypeOK
    <3>2. QED
      BY <1>5, <2>1, <2>6, <2>7, <3>1 DEF TestMid, Inv, StepInv
  <2>8. CASE class = "pass"
    <3>1. Bracket'
      BY <1>5, <2>1, <2>3, <2>4, <2>5, <2>8 DEF TestMid, Bracket, Inv, TypeOK
    <3>2. QED
      BY <1>5, <2>1, <2>6, <2>8, <3>1 DEF TestMid, Inv, StepInv
  <2>9. CASE class \notin {"pass", "fail"}
    BY <1>5, <2>1, <2>6, <2>9 DEF TestMid, Inv, StepInv
  <2>10. QED
    BY <2>7, <2>8, <2>9
<1>6. CASE Prove
  BY <1>6 DEF Prove, LoopEnds, Inv, TypeOK, StepInv, Bracket
<1>7. CASE TestFails
  BY <1>7 DEF TestFails, Inv, TypeOK, StepInv, Bracket
<1>8. CASE UNCHANGED vars
  BY <1>8 DEF vars, Inv, TypeOK, StepInv, Bracket
<1>9. QED
  BY <1>1, <1>2, <1>3, <1>4, <1>5, <1>6, <1>7, <1>8 DEF Next

THEOREM Inductive == Spec => []Inv
BY InitInv, NextInv, PTL DEF Spec

\* The bounds stay on the plan and only known classifications are recorded.
THEOREM BisectTypeCorrect == Spec => []TypeOK
BY Inductive, PTL DEF Inv

\* What "proven" means, for paths of every length: the commit named failed, the
\* one before it on the plan passed, and no tested commit speaks against it.
THEOREM ProvenTransitions == Spec => []ProvenIsTransition
<1>1. Inv => ProvenIsTransition
  BY DEF Inv, TypeOK, StepInv, Bracket, ProvenIsTransition, FirstBad
<1>2. QED
  BY <1>1, Inductive, PTL

-------------------------------------------------------------------------------
(* How many commits are tested.                                            *)

\* What there is to know of powers of two: a set of n elements has 2^n subsets,
\* and one element more doubles them.
LEMMA Doubling ==
  /\ 2^0 = 1
  /\ \A n \in Nat : 2^n \in Nat /\ 2^(n + 1) = 2 * 2^n
<1>1. 2^0 = 1
  <2>1. IsFiniteSet({}) /\ Cardinality({}) = 0
    BY FS_EmptySet
  <2>2. Cardinality(SUBSET {}) = 2^Cardinality({})
    BY <2>1, FS_SUBSET
  <2>3. SUBSET {} = {{}}
    OBVIOUS
  <2>4. Cardinality({{}}) = 1
    BY FS_Singleton
  <2> QED
    BY <2>1, <2>2, <2>3, <2>4, Zenon
<1>2. ASSUME NEW n \in Nat PROVE 2^n \in Nat /\ 2^(n + 1) = 2 * 2^n
  <2> DEFINE S == 1..n
             Old == SUBSET S
             New == {T \cup {n + 1} : T \in Old}
  <2>1. /\ IsFiniteSet(S) /\ Cardinality(S) = n
        /\ IsFiniteSet(1..(n + 1)) /\ Cardinality(1..(n + 1)) = n + 1
    <3>1. n \in Int /\ 1 \in Int /\ n + 1 \in Int
      OBVIOUS
    <3> QED
      BY <3>1, FS_Interval
  <2>2. IsFiniteSet(Old) /\ Cardinality(Old) = 2^n
    BY <2>1, FS_SUBSET
  <2>3. Cardinality(SUBSET (1..(n + 1))) = 2^(n + 1)
    BY <2>1, FS_SUBSET
  <2>4. n + 1 \notin S
    OBVIOUS
  <2>5. S \cup {n + 1} = 1..(n + 1)
    OBVIOUS
  <2> HIDE DEF S
  <2>6. SUBSET (S \cup {n + 1}) = Old \cup New
    <3>1. ASSUME NEW T \in SUBSET (S \cup {n + 1}), n + 1 \in T PROVE T \in New
      <4>1. T \ {n + 1} \in Old /\ T = (T \ {n + 1}) \cup {n + 1}
        BY <3>1
      <4> QED
        BY <4>1
    <3>2. ASSUME NEW T \in SUBSET (S \cup {n + 1}), n + 1 \notin T PROVE T \in Old
      BY <3>2
    <3>3. Old \cup New \subseteq SUBSET (S \cup {n + 1})
      OBVIOUS
    <3> HIDE DEF Old, New
    <3> QED
      BY <3>1, <3>2, <3>3
  <2>7. Old \cap New = {}
    BY <2>4
  <2>8. IsFiniteSet(New) /\ Cardinality(New) = Cardinality(Old)
    <3> DEFINE f == [T \in Old |-> T \cup {n + 1}]
    <3>1. f \in [Old -> New]
      OBVIOUS
    <3>2. \A T, U \in Old : f[T] = f[U] => T = U
      BY <2>4
    <3>3. \A U \in New : \E T \in Old : f[T] = U
      OBVIOUS
    <3> HIDE DEF f, Old, New
    <3>4. f \in Bijection(Old, New)
      BY <3>1, <3>2, <3>3 DEF Bijection, Injection, Surjection, IsInjective
    <3>5. ExistsBijection(Old, New)
      BY <3>4 DEF ExistsBijection
    <3> QED
      BY <2>2, <3>5, FS_Bijection
  <2> HIDE DEF Old, New
  <2>9. Cardinality(Old \cup New)
          = Cardinality(Old) + Cardinality(New) - Cardinality(Old \cap New)
    BY <2>2, <2>8, FS_Union
  <2>10. Cardinality(Old) \in Nat
    BY <2>2, FS_CardinalityType
  <2>11. Cardinality(Old \cap New) = 0
    BY <2>7, FS_EmptySet
  <2>12. Cardinality(Old \cup New) = 2^(n + 1)
    BY <2>3, <2>5, <2>6
  <2> DEFINE k == Cardinality(Old)
             m == 2^n
             l == 2^(n + 1)
  <2>13. k = m /\ l = k + k - 0 /\ k \in Nat
    BY <2>2, <2>8, <2>9, <2>10, <2>11, <2>12
  <2> HIDE DEF k, m, l
  <2>14. m \in Nat /\ l = 2 * m
    BY <2>13
  <2> QED
    BY <2>14 DEF m, l
<1> QED
  BY <1>1, <1>2

\* Halving what is left pays for doubling what it is multiplied by.
LEMMA Halved ==
  ASSUME NEW a \in Nat, NEW b \in Nat, NEW q \in Nat, 2 * a <= b
  PROVE  a * (2 * q) <= b * q
<1>1. (2 * a) * q <= b * q
  OBVIOUS
<1>2. a * (2 * q) = (2 * a) * q
  OBVIOUS
<1> QED
  BY <1>1, <1>2

\* The tested commits but the two ends.
Between == DOMAIN tested \ {0, size}

LEMMA BetweenIsFinite ==
  ASSUME Inv PROVE IsFiniteSet(Between) /\ Cardinality(Between) \in Nat
<1>1. size \in Nat /\ DOMAIN tested \subseteq 0..size
  BY CommitsAssumption DEF Inv, TypeOK
<1>2. IsFiniteSet(0..size)
  BY <1>1, FS_Interval
<1>3. IsFiniteSet(Between)
  BY <1>1, <1>2, FS_Subset DEF Between
<1> QED
  BY <1>3, FS_CardinalityType

\* The search starts on the whole path, with nothing tested between its ends.
LEMMA TestBadHalves ==
  ASSUME Inv, TestBad, pc' = "search" PROVE TestsHalvePath'
<1>1. size \in Nat /\ DOMAIN tested = {0} /\ size' = size /\ lo' = 0 /\ hi' = size
  BY CommitsAssumption DEF TestBad, Inv, TypeOK, StepInv
<1>2. DOMAIN tested' = {0, size}
  BY <1>1, TestedAdds DEF TestBad
<1>3. DOMAIN tested' \ {0, size'} = {}
  BY <1>1, <1>2
<1>4. 2^Cardinality(DOMAIN tested' \ {0, size'}) = 1
  <2>1. Cardinality({}) = 0
    BY FS_EmptySet
  <2> QED
    BY <1>3, <2>1, Doubling
<1> DEFINE k == 2^Cardinality(DOMAIN tested' \ {0, size'})
<1>5. k = 1
  BY <1>4
<1> HIDE DEF k
<1>6. (hi' - lo' - 1) * k <= size' - 1
  BY <1>1, <1>5
<1> QED
  BY <1>6 DEF TestsHalvePath, k

\* A test of the midpoint halves what is left, whichever way it goes.
LEMMA TestMidHalves ==
  ASSUME Inv, TestsHalvePath, TestMid, pc' = "search" PROVE TestsHalvePath'
<1>1. PICK class \in Classes :
        /\ Tested(Mid, class)
        /\ CASE class = "fail" -> hi' = Mid /\ UNCHANGED <<lo, pc, status>>
             [] class = "pass" -> lo' = Mid /\ UNCHANGED <<hi, pc, status>>
             [] OTHER          -> Finish("inconclusive") /\ UNCHANGED <<lo, hi>>
  BY DEF TestMid
<1>2. /\ lo \in Nat /\ hi \in Nat /\ size \in Nat /\ size' = size /\ hi - lo > 1 /\ Bracket
      /\ pc = "search"
  BY CommitsAssumption DEF TestMid, LoopEnds, Inv, TypeOK, StepInv
<1>3. Mid \in Nat /\ lo < Mid /\ Mid < hi
  BY <1>2, MidIsBetween
<1>4. DOMAIN tested' = DOMAIN tested \cup {Mid}
  BY <1>1, <1>3, TestedAdds
<1>5. Mid \notin DOMAIN tested /\ Mid \notin {0, size}
  BY <1>2, <1>3 DEF Bracket
<1>6. DOMAIN tested' \ {0, size'} = Between \cup {Mid} /\ Mid \notin Between
  BY <1>2, <1>4, <1>5 DEF Between
<1> DEFINE n == Cardinality(Between)
           q == 2^n
           a == hi' - lo' - 1
           b == hi - lo - 1
<1>7. n \in Nat /\ Cardinality(DOMAIN tested' \ {0, size'}) = n + 1
  BY <1>6, BetweenIsFinite, FS_AddElement
<1>8. q \in Nat /\ 2^(n + 1) = 2 * q
  BY <1>7, Doubling
<1>9. a \in Nat /\ b \in Nat /\ 2 * a <= b
  <2>1. 2 * Mid <= lo + hi /\ lo + hi <= 2 * Mid + 1
    BY <1>2 DEF Mid
  <2>2. (hi' = Mid /\ lo' = lo) \/ (lo' = Mid /\ hi' = hi)
    BY <1>1, <1>2 DEF Finish
  <2> HIDE DEF Mid
  <2> QED
    BY <1>2, <1>3, <2>1, <2>2
<1>10. b * q <= size - 1
  BY <1>2 DEF TestsHalvePath, Between
<1> HIDE DEF a, b, q, n
<1>11. a * (2 * q) <= size - 1
  <2>1. a * (2 * q) <= b * q
    BY <1>8, <1>9, Halved
  <2>2. a * (2 * q) \in Int /\ b * q \in Int
    BY <1>8, <1>9
  <2> QED
    BY <1>2, <1>10, <2>1, <2>2
<1> QED
  BY <1>2, <1>7, <1>8, <1>11 DEF TestsHalvePath, a

LEMMA InitHalves == Init => TestsHalvePath
BY DEF Init, TestsHalvePath

LEMMA NextHalves == Inv /\ TestsHalvePath /\ [Next]_vars => TestsHalvePath'
<1> SUFFICES ASSUME Inv, TestsHalvePath, [Next]_vars, pc' = "search" PROVE TestsHalvePath'
  BY DEF TestsHalvePath
<1>1. CASE UNCHANGED vars
  BY <1>1 DEF vars, TestsHalvePath
<1>2. CASE TestBad
  BY <1>2, TestBadHalves
<1>3. CASE TestMid
  BY <1>3, TestMidHalves
<1>4. ASSUME NEW k \in 1..MaxPath, Plan(k) PROVE FALSE
  BY <1>4 DEF Plan, Finish
<1>5. CASE RefusePlan \/ TestGood \/ Prove \/ TestFails
  BY <1>5 DEF RefusePlan, TestGood, Prove, TestFails, Finish
<1> QED
  BY <1>1, <1>2, <1>3, <1>4, <1>5 DEF Next

\* However long the path and whatever the candidates show, each test of a
\* candidate halves what is left between the bounds, so that a search executes at
\* most about log2(size) historical commits besides the two ends (src/bisect.js).
THEOREM BisectHalves == Spec => []TestsHalvePath
BY InitHalves, InitInv, NextInv, NextHalves, PTL DEF Spec
===============================================================================
