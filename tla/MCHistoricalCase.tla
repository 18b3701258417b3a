--------------------------- MODULE MCHistoricalCase ---------------------------
(***************************************************************************)
(* Two cases: the first pins a Core before and none after, or the other way*)
(* round for the second; the third names a bad commit that is not the      *)
(* parent of its fix.                                                      *)
(***************************************************************************)
EXTENDS HistoricalCase

CONSTANTS c1, c2, c3, b1, f1, b2, f2, p1, sigA, sigB, sigC, repro

MCCorpora == {<<c1, c2>>, <<c3>>}
MCBad == [c \in Case |-> IF c = c1 THEN b1 ELSE b2]
MCFixed == [c \in Case |-> IF c = c2 THEN f2 ELSE f1]
MCParent == [c \in Commit |-> CASE c = f1 -> b1 [] c = f2 -> b2 [] OTHER -> NoCommit]
MCReviewed == {f1, f2}
MCPinOf == [c \in Commit |-> IF c \in {b1, f2} THEN p1 ELSE NoPin]
\* every outcome everywhere, with two signatures; the controller's own pairs have three
MCOutcome == [c \in Commit |-> [failed: BOOLEAN, sig: {sigA, sigB}]]
\* the bad commits fail and the fixed ones pass, every time
Works == [failed |-> FALSE, sig |-> sigA]
Broken == [failed |-> TRUE, sig |-> sigA]
MCOutcomeFaithful == [c \in Commit |-> IF c \in {b1, b2} THEN {Broken} ELSE {Works}]
MCCorporaGood == {<<c1, c2>>}
===============================================================================
