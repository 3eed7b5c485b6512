--------------------------- MODULE MCKafkaProcess ---------------------------
(***************************************************************************)
(* Instances of KafkaProcess for TLC: two users, the first with two kafka  *)
(* drivers; each user has one transaction.                                 *)
(***************************************************************************)
EXTENDS KafkaProcess

CONSTANTS u1, u2, d1, d2, d3, t1, t2

MCUsers   == {u1, u2}
MCDusers  == {d1, d2, d3}
MCTxns    == {t1, t2}
MCOwner   == [d \in MCDusers |-> IF d = d3 THEN u2 ELSE u1]
MCDuserOf == [t \in MCTxns |-> IF t = t1 THEN d1 ELSE d3]

Negative == -1
=============================================================================
