--------------------------- MODULE MC_KafkaConsumer ---------------------------
(***************************************************************************)
(* KafkaConsumer on small groups.  Which of the two loops runs, the kind   *)
(* of commit and the bounds come from the .cfg of each run.                *)
(***************************************************************************)
EXTENDS KafkaConsumer, TLC

\* Members are interchangeable, and so are partitions.
Symmetric == Permutations(Members) \cup Permutations(Partitions)

=============================================================================
