----------------------------- MODULE MCSafeBisect -----------------------------
(***************************************************************************)
(* Series of one or two executions: passing, failing and flaky ones.       *)
(***************************************************************************)
EXTENDS SafeBisect

CONSTANT sigA

Fails  == [failed |-> TRUE, sig |-> sigA]
Passes == [failed |-> FALSE, sig |-> sigA]
MCSeries == {<<Fails>>, <<Passes>>, <<Fails, Passes>>}
===============================================================================
