---------------------------- MODULE SessionRegistry ----------------------------
(***************************************************************************)
(* What the session store promises (ARCHITECTURE.md:127, README.md:75):    *)
(* a session id is given out once, what is stored under it never changes,  *)
(* and a reader gets what was stored or nothing.                           *)
(***************************************************************************)
CONSTANTS Id, Writer, NoWriter, IdOf, Reader

VARIABLES
  stored,    \* stored[i]: whose session is stored under i
  returned   \* returned[r]: whose session the last read of r returned

vars == <<stored, returned>>

Init == stored = [i \in Id |-> NoWriter] /\ returned = [r \in Reader |-> NoWriter]

Publish(w) ==
  /\ stored[IdOf[w]] = NoWriter
  /\ stored' = [stored EXCEPT ![IdOf[w]] = w]
  /\ UNCHANGED returned

Read(r, i) ==
  /\ stored[i] # NoWriter
  /\ returned' = [returned EXCEPT ![r] = stored[i]]
  /\ UNCHANGED stored

Refuse(r) == returned' = [returned EXCEPT ![r] = NoWriter] /\ UNCHANGED stored

Next ==
  \/ \E w \in Writer : Publish(w)
  \/ \E r \in Reader : Refuse(r) \/ \E i \in Id : Read(r, i)

Spec == Init /\ [][Next]_vars
===============================================================================
