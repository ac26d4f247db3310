-------------------------- MODULE MCKafkaDispatcher --------------------------
(* An instance of KafkaDispatcher for TLC. *)
EXTENDS KafkaDispatcher

CONSTANTS m1, m2, m3, m4
=============================================================================
