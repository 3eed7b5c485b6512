---------------------------- MODULE MCKafkaSend ----------------------------
(***************************************************************************)
(* Instances of KafkaSend for TLC.                                         *)
(***************************************************************************)
EXTENDS KafkaSend

\* A time that init must not pass on: librdkafka waits for ever on it.
Negative == -1
=============================================================================
