-------------------------- MODULE MCPromotionRelease --------------------------
(***************************************************************************)
(* main starts with a draft corpus, or prepared for promotion; pull        *)
(* requests that prepare, set the policy, move Safe Core, activate, or     *)
(* activate and change something else.                                     *)
(***************************************************************************)
EXTENDS PromotionRelease

CONSTANTS A, B, l
Draft == [lifecycle |-> "development", roadmap |-> "pending", eligible |-> FALSE,
          policy |-> DraftPolicy, lock |-> NoLock, core |-> A, other |-> 0]
Prepared == [Draft EXCEPT !.eligible = TRUE, !.lock = l]
MCInitial == {Draft, Prepared}
MCEdits == {{"corpus", "lock"}, {"policy"}, {"core"}, {"lifecycle", "roadmap"},
            {"lifecycle", "roadmap", "other"}}
===============================================================================
