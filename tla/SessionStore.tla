----------------------------- MODULE SessionStore -----------------------------
(***************************************************************************)
(* The append-only session store (src/session-store.js), system call by    *)
(* system call: a writer fills a temporary file, links it to its final     *)
(* name and unlinks the temporary one; a reader trusts only regular files  *)
(* with a single link.  Writers and readers are separate processes.        *)
(*                                                                         *)
(* A session is identified by the writer that made it.  Directory hardening*)
(* and the JSON text are left out.                                         *)
(***************************************************************************)
EXTENDS Naturals

CONSTANTS
  Writer, Reader, Id, NoWriter,
  IdOf,      \* IdOf[w]: the session id writer w drew (two may draw the same)
  Faults     \* what may go wrong

FaultKinds ==
  {"crash",    \* a writer dies
   "write",    \* the temporary file cannot be written in full
   "unlink"}   \* the temporary name cannot be removed; the code ignores it

ASSUME StoreConstants ==
  /\ Id # {} /\ IdOf \in [Writer -> Id]
  /\ NoWriter \notin Writer /\ Faults \subseteq FaultKinds

VARIABLES
  target,   \* target[i]: the writer whose file is linked as <i>.json
  content,  \* content[w]: how much of w's session its file holds
  temp,     \* temp[w]: the file still has its temporary name
  pc,       \* pc[w]: the system call writer w makes next; done, or done but aliased
  result,   \* result[w]: how writeSession ended
  reader    \* reader[r]: the id it is about to read, or what its last read returned

vars == <<target, content, temp, pc, result, reader>>

SomeId == CHOOSE i \in Id : TRUE
Returned(w) == [step |-> "lstat", id |-> SomeId, returned |-> w]
Reading(i) == [step |-> "read", id |-> i, returned |-> NoWriter]

Init ==
  /\ target = [i \in Id |-> NoWriter]
  /\ content = [w \in Writer |-> "none"]
  /\ temp = [w \in Writer |-> FALSE]
  /\ pc = [w \in Writer |-> "exists"]
  /\ result = [w \in Writer |-> "none"]
  /\ reader = [r \in Reader |-> Returned(NoWriter)]

\* The file of w: under its final name, its temporary one, or both.
Linked(w) == target[IdOf[w]] = w
Links(w) == (IF Linked(w) THEN 1 ELSE 0) + (IF temp[w] THEN 1 ELSE 0)

Goto(w, step) == pc' = [pc EXCEPT ![w] = step]

-------------------------------------------------------------------------------
(* writeSession                                                            *)

Exists(w) ==
  /\ pc[w] = "exists"
  /\ IF target[IdOf[w]] # NoWriter
     THEN Goto(w, "done") /\ result' = [result EXCEPT ![w] = "collision"]
     ELSE Goto(w, "create") /\ UNCHANGED result
  /\ UNCHANGED <<target, content, temp, reader>>

\* writeFileSync with flag wx: the file is there before it has its content
Create(w) ==
  /\ pc[w] = "create"
  /\ temp' = [temp EXCEPT ![w] = TRUE]
  /\ content' = [content EXCEPT ![w] = "partial"]
  /\ Goto(w, "fill")
  /\ UNCHANGED <<target, result, reader>>

Fill(w) ==
  /\ pc[w] = "fill"
  /\ content' = [content EXCEPT ![w] = "complete"]
  /\ Goto(w, "link")
  /\ UNCHANGED <<target, temp, result, reader>>

LinkAnyway == "link"                 \* faulty variant: the write error is dropped
AfterFailedWrite == "unlink"

FillFails(w) ==
  /\ "write" \in Faults /\ pc[w] = "fill"
  /\ result' = [result EXCEPT ![w] = "error"]
  /\ Goto(w, AfterFailedWrite)
  /\ UNCHANGED <<target, content, temp, reader>>

\* Faulty variant: rename(2) replaces what is there.
RenameOver(w) == TRUE
NameIsFree(w) == target[IdOf[w]] = NoWriter

\* linkSync: EEXIST becomes ESESSIONCOLLISION
Link(w) ==
  /\ pc[w] = "link"
  /\ IF NameIsFree(w)
     THEN /\ target' = [target EXCEPT ![IdOf[w]] = w]
          /\ UNCHANGED result
     ELSE /\ result' = [result EXCEPT ![w] = "collision"]
          /\ UNCHANGED target
  /\ Goto(w, "unlink")
  /\ UNCHANGED <<content, temp, reader>>

Answer(w) == IF result[w] = "none" THEN "ok" ELSE result[w]

KeepTemp(w) == temp[w]           \* faulty variant: the temporary name is left
DropTemp(w) == FALSE

\* finally: the temporary name goes, and the call returns or throws
Unlink(w) ==
  /\ pc[w] = "unlink"
  /\ temp' = [temp EXCEPT ![w] = DropTemp(w)]
  /\ Goto(w, "done")
  /\ result' = [result EXCEPT ![w] = Answer(w)]
  /\ UNCHANGED <<target, content, reader>>

UnlinkFails(w) ==
  /\ "unlink" \in Faults /\ pc[w] = "unlink"
  /\ Goto(w, "aliased")
  /\ result' = [result EXCEPT ![w] = Answer(w)]
  /\ UNCHANGED <<target, content, temp, reader>>

Crash(w) ==
  /\ "crash" \in Faults /\ pc[w] \notin {"done", "aliased"}
  /\ Goto(w, "done")
  /\ result' = [result EXCEPT ![w] = "crashed"]
  /\ UNCHANGED <<target, content, temp, reader>>

-------------------------------------------------------------------------------
(* readSession, and listSessions for one entry: lstat, then read           *)

Refuses(i) == target[i] = NoWriter \/ Links(target[i]) > 1

Lstat(r, i) ==
  /\ reader[r].step = "lstat"
  /\ reader' = [reader EXCEPT ![r] = IF Refuses(i) THEN Returned(NoWriter) ELSE Reading(i)]
  /\ UNCHANGED <<target, content, temp, pc, result>>

ReadFile(r) ==
  /\ reader[r].step = "read"
  /\ reader' = [reader EXCEPT ![r] = Returned(target[reader[r].id])]
  /\ UNCHANGED <<target, content, temp, pc, result>>

-------------------------------------------------------------------------------
WriterStep(w) == Exists(w) \/ Create(w) \/ Fill(w) \/ Link(w) \/ Unlink(w)
Next ==
  \/ \E w \in Writer : WriterStep(w) \/ FillFails(w) \/ UnlinkFails(w) \/ Crash(w)
  \/ \E r \in Reader : ReadFile(r) \/ \E i \in Id : Lstat(r, i)

Spec == Init /\ [][Next]_vars

-------------------------------------------------------------------------------
TypeOK ==
  /\ target \in [Id -> Writer \cup {NoWriter}]
  /\ content \in [Writer -> {"none", "partial", "complete"}]
  /\ temp \in [Writer -> BOOLEAN]
  /\ pc \in [Writer -> {"exists", "create", "fill", "link", "unlink", "done", "aliased"}]
  /\ result \in [Writer -> {"none", "ok", "collision", "error", "crashed"}]
  /\ reader \in [Reader -> [step: {"lstat", "read"}, id: Id, returned: Writer \cup {NoWriter}]]
  /\ \A w \in Writer : pc[w] = "link" => content[w] = "complete"

\* The protocol of temporary names, links and link counts implements a registry
\* in which an id is given out once and never changes, even across crashes, and
\* from which nobody reads a session that was not written in full: that counts
\* as something no writer ever published.
Torn == <<>>
Got(r) ==
  LET w == reader[r].returned
  IN IF w = NoWriter \/ content[w] = "complete" THEN w ELSE Torn
Registry == INSTANCE SessionRegistry WITH
  stored <- target, returned <- [r \in Reader |-> Got(r)]
RefinesRegistry == Registry!Spec
===============================================================================
