-------------------------- MODULE MCKafkaConsumer --------------------------
(* Small instances of KafkaConsumer for TLC. *)
EXTENDS KafkaConsumer
=============================================================================
