----------------------------- MODULE MCWorkerHost -----------------------------
(***************************************************************************)
(* Two windows.  The first starts a run and an operation on a stored       *)
(* session; the second starts a run that draws the id of the first one's.  *)
(***************************************************************************)
EXTENDS WorkerHost

CONSTANTS w1, w2, w3, i1, i2, h1, h2

MCIdOf == [w \in Writer |-> IF w = w3 THEN i2 ELSE i1]
MCWindowOf == [w \in Writer |-> IF w = w2 THEN h2 ELSE h1]
===============================================================================
