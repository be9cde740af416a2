----------------------------- MODULE ConsumerMC -----------------------------
(* Values of the constants of KafkaConsumer for the model checker. *)
EXTENDS KafkaConsumer

CONSTANTS k1, k2
TwoConsumers == {k1, k2}
=============================================================================
