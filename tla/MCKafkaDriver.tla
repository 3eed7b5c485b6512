--------------------------- MODULE MCKafkaDriver ---------------------------
(***************************************************************************)
(* Instances of KafkaDriver for TLC.  Two users: the first has two kafka   *)
(* drivers (push_notification_driver and push_notification_driver2), the   *)
(* second has one.                                                         *)
(***************************************************************************)
EXTENDS KafkaDriver

CONSTANTS u1, u2, d1, d2, d3, t1, t2, t3, t4

MCUsers   == {u1, u2}
MCDusers  == {d1, d2, d3}
MCTxns    == {t1, t2, t3, t4}
MCOwner   == [d \in MCDusers |-> IF d = d3 THEN u2 ELSE u1]
MCDuserOf == [t \in MCTxns |-> CASE t = t1 -> d1 [] t = t2 -> d2 [] OTHER -> d3]
=============================================================================
