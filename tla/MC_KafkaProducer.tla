--------------------------- MODULE MC_KafkaProducer ---------------------------
(* KafkaProducer with a few threads, calls and queue slots. *)
EXTENDS KafkaProducer, TLC

Symmetric == Permutations(Threads)

=============================================================================
