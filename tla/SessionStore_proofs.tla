-------------------------- MODULE SessionStore_proofs --------------------------
(***************************************************************************)
(* The session store implements its registry: for any number of writers,   *)
(* readers and ids, with writers that fail and die anywhere.               *)
(*                                                                         *)
(* Why: a name is linked only when it is free, and only to a file that is  *)
(* complete; nothing unlinks a final name.  So what a reader finds under an*)
(* id after lstat is what it reads, in full, and what everybody reads.     *)
(***************************************************************************)
EXTENDS SessionStore, TLAPS

\* Linked files are complete and stay where they are; a writer that has not
\* linked yet has not answered.
LinksHold ==
  /\ \A i \in Id : target[i] # NoWriter => IdOf[target[i]] = i
  /\ \A w \in Writer : Linked(w) => content[w] = "complete"
                                    /\ pc[w] \in {"unlink", "done", "aliased"}

AnswersHold ==
  /\ \A w \in Writer : pc[w] = "unlink" /\ result[w] = "none" => Linked(w)
  /\ \A w \in Writer : result[w] = "ok" => Linked(w) /\ pc[w] \in {"done", "aliased"}
  /\ \A w \in Writer : result[w] = "ok" /\ pc[w] = "done" => ~temp[w]

ReadersHold ==
  \A r \in Reader :
    /\ reader[r].step = "read" => target[reader[r].id] # NoWriter
    /\ reader[r].returned # NoWriter => Linked(reader[r].returned)

SInv == TypeOK /\ LinksHold /\ AnswersHold /\ ReadersHold

\* Nothing that was stored goes away, and answers are final.
Kept ==
  /\ \A w \in Writer : Linked(w) => Linked(w)'
  /\ \A i \in Id : target[i] # NoWriter => target'[i] = target[i]
  /\ \A w \in Writer : result[w] = "ok" => result'[w] = "ok"
  /\ \A w \in Writer : pc[w] \in {"done", "aliased"} => pc'[w] = pc[w]

States == {"exists", "create", "fill", "link", "unlink", "done", "aliased"}
ReaderState == [step: {"lstat", "read"}, id: Id, returned: Writer \cup {NoWriter}]

-------------------------------------------------------------------------------
LEMMA ReadingType ==
  ASSUME NEW i \in Id
  PROVE  Reading(i) \in ReaderState /\ Returned(NoWriter) \in ReaderState
         /\ \A w \in Writer : Returned(w) \in ReaderState
<1>1. SomeId \in Id
  BY StoreConstants DEF SomeId
<1> QED
  BY <1>1 DEF Reading, Returned, ReaderState

LEMMA InitSInv == Init => SInv
<1> SUFFICES ASSUME Init PROVE SInv
  OBVIOUS
<1>1. TypeOK
  <2>1. reader \in [Reader -> ReaderState]
    BY StoreConstants, ReadingType DEF Init
  <2> QED
    BY <2>1 DEF Init, TypeOK, ReaderState
<1>2. \A w \in Writer : ~Linked(w)
  BY StoreConstants DEF Init, Linked
<1> QED
  BY <1>1, <1>2 DEF SInv, Init, LinksHold, AnswersHold, ReadersHold, Returned

-------------------------------------------------------------------------------
(* One writer moves; readers and the other writers stay where they are.    *)

LEMMA WriterMoves ==
  ASSUME SInv, NEW w \in Writer, UNCHANGED <<target, reader>>, TypeOK',
         \A v \in Writer \ {w} : content'[v] = content[v] /\ temp'[v] = temp[v]
                                 /\ pc'[v] = pc[v] /\ result'[v] = result[v],
         Linked(w) => content'[w] = "complete" /\ pc'[w] \in {"unlink", "done", "aliased"},
         pc'[w] = "unlink" /\ result'[w] = "none" => Linked(w),
         result'[w] = "ok" => Linked(w) /\ pc'[w] \in {"done", "aliased"},
         result'[w] = "ok" /\ pc'[w] = "done" => ~temp'[w],
         result[w] = "ok" => result'[w] = "ok",
         pc[w] \in {"done", "aliased"} => pc'[w] = pc[w]
  PROVE  SInv' /\ Kept
<1>1. \A v \in Writer : Linked(v)' <=> Linked(v)
  BY DEF Linked
<1>2. LinksHold'
  BY <1>1 DEF SInv, LinksHold
<1>3. AnswersHold'
  BY <1>1 DEF SInv, AnswersHold
<1>4. ReadersHold'
  <2> SUFFICES ASSUME NEW r \in Reader
               PROVE  /\ reader'[r].step = "read" => target'[reader'[r].id] # NoWriter
                      /\ reader'[r].returned # NoWriter => Linked(reader[r].returned)'
    BY DEF ReadersHold
  <2> QED
    BY DEF SInv, ReadersHold, Linked
<1>5. Kept
  BY <1>1 DEF Kept
<1> QED
  BY <1>2, <1>3, <1>4, <1>5 DEF SInv

LEMMA ExistsSInv ==
  ASSUME SInv, NEW w \in Writer, Exists(w)
  PROVE  SInv' /\ Kept
<1>1. TypeOK'
  BY DEF SInv, TypeOK, Exists, Goto
<1>2. ~Linked(w) /\ pc[w] = "exists" /\ result[w] # "ok"
  BY DEF SInv, LinksHold, AnswersHold, Exists
<1>3. \/ pc'[w] = "done" /\ result'[w] = "collision"
      \/ pc'[w] = "create" /\ result'[w] = result[w]
  BY DEF SInv, TypeOK, Exists, Goto
<1>4. /\ UNCHANGED <<target, content, temp, reader>>
      /\ \A v \in Writer \ {w} : pc'[v] = pc[v] /\ result'[v] = result[v]
  BY DEF SInv, TypeOK, Exists, Goto
<1> QED
  BY <1>1, <1>2, <1>3, <1>4, WriterMoves

LEMMA CreateSInv ==
  ASSUME SInv, NEW w \in Writer, Create(w)
  PROVE  SInv' /\ Kept
<1>1. TypeOK'
  BY DEF SInv, TypeOK, Create, Goto
<1>2. ~Linked(w) /\ pc[w] = "create" /\ result[w] # "ok"
  BY DEF SInv, LinksHold, AnswersHold, Create
<1>3. /\ UNCHANGED <<target, result, reader>> /\ pc'[w] = "fill"
      /\ \A v \in Writer \ {w} : content'[v] = content[v] /\ temp'[v] = temp[v] /\ pc'[v] = pc[v]
  BY DEF SInv, TypeOK, Create, Goto
<1> QED
  BY <1>1, <1>2, <1>3, WriterMoves

LEMMA FillSInv ==
  ASSUME SInv, NEW w \in Writer, Fill(w)
  PROVE  SInv' /\ Kept
<1>1. TypeOK'
  BY DEF SInv, TypeOK, Fill, Goto
<1>2. ~Linked(w) /\ pc[w] = "fill" /\ result[w] # "ok"
  BY DEF SInv, LinksHold, AnswersHold, Fill
<1> QED
  BY <1>1, <1>2, WriterMoves DEF SInv, TypeOK, Fill, Goto

LEMMA FillFailsSInv ==
  ASSUME SInv, NEW w \in Writer, FillFails(w)
  PROVE  SInv' /\ Kept
<1>1. TypeOK'
  BY DEF SInv, TypeOK, FillFails, Goto, AfterFailedWrite
<1>2. ~Linked(w) /\ pc[w] = "fill" /\ result[w] # "ok"
  BY DEF SInv, LinksHold, AnswersHold, FillFails
<1>3. pc'[w] = "unlink" /\ result'[w] = "error"
  BY DEF SInv, TypeOK, FillFails, Goto, AfterFailedWrite
<1> QED
  BY <1>1, <1>2, <1>3, WriterMoves DEF SInv, TypeOK, FillFails, Goto

LEMMA UnlinkSInv ==
  ASSUME SInv, NEW w \in Writer, Unlink(w)
  PROVE  SInv' /\ Kept
<1>1. TypeOK'
  BY DEF SInv, TypeOK, Unlink, Goto, DropTemp, Answer
<1>2. pc'[w] = "done" /\ result'[w] = Answer(w) /\ temp'[w] = FALSE /\ pc[w] = "unlink"
  BY DEF SInv, TypeOK, Unlink, Goto, DropTemp
<1>3. Answer(w) = "ok" => Linked(w)
  BY <1>2 DEF SInv, AnswersHold, Answer
<1>4. Linked(w) => content'[w] = "complete"
  BY DEF SInv, LinksHold, Unlink
<1>5. result[w] # "ok"
  BY <1>2 DEF SInv, AnswersHold
<1> QED
  BY <1>1, <1>2, <1>3, <1>4, <1>5, WriterMoves DEF SInv, TypeOK, Unlink, Goto

LEMMA UnlinkFailsSInv ==
  ASSUME SInv, NEW w \in Writer, UnlinkFails(w)
  PROVE  SInv' /\ Kept
<1>1. TypeOK'
  BY DEF SInv, TypeOK, UnlinkFails, Goto, Answer
<1>2. pc'[w] = "aliased" /\ result'[w] = Answer(w) /\ pc[w] = "unlink"
  BY DEF SInv, TypeOK, UnlinkFails, Goto
<1>3. Answer(w) = "ok" => Linked(w)
  BY <1>2 DEF SInv, AnswersHold, Answer
<1>4. Linked(w) => content'[w] = "complete"
  BY DEF SInv, LinksHold, UnlinkFails
<1>5. result[w] # "ok"
  BY <1>2 DEF SInv, AnswersHold
<1> QED
  BY <1>1, <1>2, <1>3, <1>4, <1>5, WriterMoves DEF SInv, TypeOK, UnlinkFails, Goto

LEMMA CrashSInv ==
  ASSUME SInv, NEW w \in Writer, Crash(w)
  PROVE  SInv' /\ Kept
<1>1. TypeOK'
  BY DEF SInv, TypeOK, Crash, Goto
<1>2. pc'[w] = "done" /\ result'[w] = "crashed" /\ pc[w] \notin {"done", "aliased"}
  BY DEF SInv, TypeOK, Crash, Goto
<1>3. Linked(w) => content'[w] = "complete"
  BY DEF SInv, LinksHold, Crash
<1>4. result[w] # "ok"
  BY <1>2 DEF SInv, AnswersHold
<1> QED
  BY <1>1, <1>2, <1>3, <1>4, WriterMoves DEF SInv, TypeOK, Crash, Goto

\* The name was free: the file, complete, is now under it.
LEMMA LinkSInv ==
  ASSUME SInv, NEW w \in Writer, Link(w)
  PROVE  SInv' /\ Kept
<1>1. TypeOK'
  BY StoreConstants DEF SInv, TypeOK, Link, Goto, NameIsFree
<1>2. /\ pc[w] = "link" /\ pc'[w] = "unlink" /\ content[w] = "complete"
      /\ UNCHANGED <<content, temp, reader>>
      /\ ~Linked(w) /\ result[w] # "ok" /\ IdOf[w] \in Id
  BY StoreConstants DEF SInv, TypeOK, LinksHold, AnswersHold, Link, Goto
<1>3. CASE ~NameIsFree(w)
  <2>1. result'[w] = "collision" /\ UNCHANGED target
    BY <1>3 DEF SInv, TypeOK, Link
  <2> QED
    BY <1>1, <1>2, <2>1, <1>3, WriterMoves DEF SInv, TypeOK, Link, Goto
<1>4. CASE NameIsFree(w)
  <2>1. /\ target' = [target EXCEPT ![IdOf[w]] = w] /\ target[IdOf[w]] = NoWriter
        /\ UNCHANGED result /\ \A v \in Writer \ {w} : pc'[v] = pc[v]
    BY <1>4 DEF SInv, TypeOK, Link, Goto, NameIsFree
  <2>2. /\ \A v \in Writer : Linked(v)' <=> Linked(v) \/ v = w
        /\ \A i \in Id : target[i] # NoWriter => target'[i] = target[i]
    BY <2>1, <1>2, StoreConstants DEF SInv, TypeOK, Linked
  <2>3. LinksHold'
    BY <1>2, <2>1, <2>2 DEF SInv, TypeOK, LinksHold
  <2>4. AnswersHold'
    BY <1>2, <2>1, <2>2 DEF SInv, AnswersHold
  <2>5. ReadersHold'
    <3> SUFFICES ASSUME NEW r \in Reader
                 PROVE  /\ reader'[r].step = "read" => target'[reader'[r].id] # NoWriter
                        /\ reader'[r].returned # NoWriter => Linked(reader[r].returned)'
      BY <1>2 DEF ReadersHold
    <3>1. reader[r].id \in Id /\ reader[r].returned \in Writer \cup {NoWriter}
      BY DEF SInv, TypeOK
    <3> QED
      BY <1>2, <2>2, <3>1 DEF SInv, ReadersHold
  <2>6. Kept
    BY <1>2, <2>1, <2>2 DEF Kept
  <2> QED
    BY <1>1, <2>3, <2>4, <2>5, <2>6 DEF SInv
<1> QED
  BY <1>3, <1>4

-------------------------------------------------------------------------------
(* One reader moves                                                        *)

LEMMA ReaderMoves ==
  ASSUME SInv, NEW r \in Reader, UNCHANGED <<target, content, temp, pc, result>>,
         NEW state \in ReaderState, reader' = [reader EXCEPT ![r] = state],
         state.step = "read" => target[state.id] # NoWriter,
         state.returned # NoWriter => Linked(state.returned)
  PROVE  SInv' /\ Kept
<1>1. TypeOK'
  BY DEF SInv, TypeOK, ReaderState
<1>2. LinksHold' /\ AnswersHold' /\ Kept
  BY DEF SInv, LinksHold, AnswersHold, Kept, Linked
<1>3. ReadersHold'
  <2> SUFFICES ASSUME NEW s \in Reader
               PROVE  /\ reader'[s].step = "read" => target'[reader'[s].id] # NoWriter
                      /\ reader'[s].returned # NoWriter => Linked(reader[s].returned)'
    BY DEF ReadersHold
  <2>1. CASE s = r
    BY <2>1 DEF SInv, TypeOK, Linked
  <2>2. CASE s # r
    BY <2>2 DEF SInv, TypeOK, ReadersHold, Linked
  <2> QED
    BY <2>1, <2>2
<1> QED
  BY <1>1, <1>2, <1>3 DEF SInv

LEMMA LstatSInv ==
  ASSUME SInv, NEW r \in Reader, NEW i \in Id, Lstat(r, i)
  PROVE  SInv' /\ Kept
<1>1. CASE Refuses(i)
  <2>1. Returned(NoWriter) \in ReaderState /\ Returned(NoWriter).step = "lstat"
        /\ Returned(NoWriter).returned = NoWriter
    BY ReadingType DEF Returned
  <2> QED
    BY <1>1, <2>1, ReaderMoves DEF Lstat
<1>2. CASE ~Refuses(i)
  <2>1. Reading(i) \in ReaderState /\ Reading(i).id = i /\ Reading(i).returned = NoWriter
    BY ReadingType DEF Reading
  <2>2. target[i] # NoWriter
    BY <1>2 DEF Refuses
  <2> QED
    BY <1>2, <2>1, <2>2, ReaderMoves DEF Lstat
<1> QED
  BY <1>1, <1>2

\* What is read is linked under the id it was looked up under.
LEMMA ReadFileSInv ==
  ASSUME SInv, NEW r \in Reader, ReadFile(r)
  PROVE  SInv' /\ Kept
<1> DEFINE i == reader[r].id
           w == target[i]
<1>1. i \in Id /\ w \in Writer /\ Linked(w)
  BY DEF SInv, TypeOK, ReadersHold, LinksHold, Linked, ReadFile
<1>2. Returned(w) \in ReaderState /\ Returned(w).step = "lstat" /\ Returned(w).returned = w
  BY <1>1, ReadingType DEF Returned
<1>3. reader' = [reader EXCEPT ![r] = Returned(w)] /\ UNCHANGED <<target, content, temp, pc, result>>
  BY DEF ReadFile
<1> HIDE DEF w
<1> QED
  BY <1>1, <1>2, <1>3, ReaderMoves

-------------------------------------------------------------------------------
LEMMA NextSInv == SInv /\ [Next]_vars => SInv' /\ Kept
<1> SUFFICES ASSUME SInv, [Next]_vars PROVE SInv' /\ Kept
  OBVIOUS
<1>1. CASE UNCHANGED vars
  BY <1>1 DEF vars, SInv, TypeOK, LinksHold, AnswersHold, ReadersHold, Kept, Linked
<1>2. CASE \E w \in Writer : WriterStep(w)
  BY <1>2, ExistsSInv, CreateSInv, FillSInv, LinkSInv, UnlinkSInv DEF WriterStep
<1>3. CASE \E w \in Writer : FillFails(w) \/ UnlinkFails(w) \/ Crash(w)
  BY <1>3, FillFailsSInv, UnlinkFailsSInv, CrashSInv
<1>4. CASE \E r \in Reader : ReadFile(r) \/ \E i \in Id : Lstat(r, i)
  BY <1>4, ReadFileSInv, LstatSInv
<1> QED
  BY <1>1, <1>2, <1>3, <1>4 DEF Next

\* What a reader got is what the registry returned.
LEMMA GotIsReturned ==
  ASSUME SInv, NEW r \in Reader
  PROVE  Got(r) = reader[r].returned
BY DEF SInv, TypeOK, ReadersHold, LinksHold, Got

LEMMA InitRegistry == SInv /\ Init => Registry!Init
<1> SUFFICES ASSUME SInv, Init PROVE Registry!Init
  OBVIOUS
<1>1. \A r \in Reader : Got(r) = NoWriter
  BY GotIsReturned DEF Init, Returned
<1> QED
  BY <1>1 DEF Init, Registry!Init

\* Every step of the store is a step of the registry or leaves it as it was.
LEMMA NextRegistry == SInv /\ SInv' /\ [Next]_vars => [Registry!Next]_(Registry!vars)
<1> SUFFICES ASSUME SInv, SInv', [Next]_vars PROVE [Registry!Next]_(Registry!vars)
  OBVIOUS
<1> DEFINE back == [r \in Reader |-> reader[r].returned]
<1>0. /\ [r \in Reader |-> Got(r)] = back
      /\ [r \in Reader |-> Got(r)]' = back'
  <2>1. \A r \in Reader : Got(r)' = reader'[r].returned
    BY DEF SInv, TypeOK, ReadersHold, LinksHold, Got
  <2>2. [r \in Reader |-> Got(r)]' = [r \in Reader |-> reader'[r].returned]
    BY <2>1, Zenon
  <2> QED
    BY <2>2, GotIsReturned
<1>1. /\ \A r : Registry!Refuse(r) <=> back' = [back EXCEPT ![r] = NoWriter] /\ target' = target
      /\ \A r, i : Registry!Read(r, i) <=> /\ target[i] # NoWriter
                                            /\ back' = [back EXCEPT ![r] = target[i]]
                                            /\ target' = target
      /\ \A w : Registry!Publish(w) <=> /\ target[IdOf[w]] = NoWriter
                                         /\ target' = [target EXCEPT ![IdOf[w]] = w]
                                         /\ back' = back
      /\ back' = back /\ target' = target => UNCHANGED Registry!vars
  BY <1>0, Zenon DEF Registry!Refuse, Registry!Read, Registry!Publish, Registry!vars
<1>2. CASE UNCHANGED <<target, reader>>
  BY <1>1, <1>2
<1>3. ASSUME NEW w \in Writer, Link(w), NameIsFree(w)
      PROVE  Registry!Publish(w)
  BY <1>1, <1>3 DEF Link, NameIsFree
<1>4. ASSUME NEW r \in Reader, NEW i \in Id, Lstat(r, i)
      PROVE  Registry!Refuse(r)
  <2> DEFINE s == IF Refuses(i) THEN Returned(NoWriter) ELSE Reading(i)
  <2>1. reader' = [reader EXCEPT ![r] = s] /\ UNCHANGED target
    BY <1>4 DEF Lstat
  <2>2. s.returned = NoWriter
    BY DEF Returned, Reading
  <2> HIDE DEF s
  <2>3. reader'[r].returned = NoWriter /\ \A q \in Reader \ {r} : reader'[q] = reader[q]
    BY <2>1, <2>2 DEF SInv, TypeOK
  <2>4. back' = [back EXCEPT ![r] = NoWriter]
    BY <2>3
  <2> QED
    BY <1>1, <2>1, <2>4, Zenon
<1>5. ASSUME NEW r \in Reader, ReadFile(r)
      PROVE  reader[r].id \in Id /\ Registry!Read(r, reader[r].id)
  <2>1. reader[r].id \in Id /\ target[reader[r].id] # NoWriter
    BY <1>5 DEF SInv, TypeOK, ReadersHold, ReadFile
  <2>2. reader' = [reader EXCEPT ![r] = Returned(target[reader[r].id])] /\ UNCHANGED target
    BY <1>5 DEF ReadFile
  <2>3. Returned(target[reader[r].id]).returned = target[reader[r].id]
    BY DEF Returned
  <2>4. /\ reader'[r].returned = target[reader[r].id]
        /\ \A q \in Reader \ {r} : reader'[q] = reader[q]
    BY <2>2, <2>3 DEF SInv, TypeOK
  <2>5. back' = [back EXCEPT ![r] = target[reader[r].id]]
    BY <2>4
  <2> QED
    BY <1>1, <2>1, <2>2, <2>5, Zenon
<1>6. CASE \E w \in Writer : WriterStep(w) \/ FillFails(w) \/ UnlinkFails(w) \/ Crash(w)
  <2>1. PICK w \in Writer : WriterStep(w) \/ FillFails(w) \/ UnlinkFails(w) \/ Crash(w)
    BY <1>6
  <2>2. CASE Link(w) /\ NameIsFree(w)
    BY <2>2, <1>3 DEF Registry!Next
  <2>3. CASE ~(Link(w) /\ NameIsFree(w))
    <3>1. UNCHANGED <<target, reader>>
      BY <2>1, <2>3 DEF WriterStep, Exists, Create, Fill, Link, Unlink, FillFails, UnlinkFails, Crash
    <3> QED
      BY <1>2, <3>1
  <2> QED
    BY <2>2, <2>3
<1>7. CASE \E r \in Reader : ReadFile(r) \/ \E i \in Id : Lstat(r, i)
  BY <1>7, <1>4, <1>5 DEF Registry!Next
<1>8. CASE UNCHANGED vars
  BY <1>8, <1>2 DEF vars
<1> QED
  BY <1>6, <1>7, <1>8 DEF Next
===============================================================================
