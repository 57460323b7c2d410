----------------------------- MODULE KafkaBroker -----------------------------
(***************************************************************************)
(* The Kafka side of kafka_kit: one topic, its consumer group and the      *)
(* group's committed offsets.  None of it is code of the repository; it is *)
(* what consumer.py relies on when it calls subscribe(), poll(),           *)
(* consume(), commit() and close() of confluent_kafka.Consumer.            *)
(*                                                                         *)
(*   - a partition is an append-only log read by offset; offset o is the   *)
(*     element o+1 of the sequence;                                        *)
(*   - the group owns one committed offset per partition, the offset of    *)
(*     the next message to read (0: nothing committed yet, read from the   *)
(*     beginning, auto.offset.reset = 'earliest' as config.py:33 has it);  *)
(*   - the coordinator gives a partition to at most one member, and        *)
(*     accepts a commit only from the member it gave the partition to:     *)
(*     the commit of a member it has expelled is refused;                  *)
(*   - it expels a member that misses session.timeout.ms or                *)
(*     max.poll.interval.ms (config.py:36-37), and learns of a close() at  *)
(*     once.                                                               *)
(***************************************************************************)
EXTENDS Naturals, Sequences

CONSTANTS Partitions,   \* the partitions of the topic
          Members,      \* the processes of the group, each one KafkaConsumer
          NoMember,     \* the owner of a partition nobody has
          MaxLog        \* bound on the length of a partition's log

ASSUME BrokerAssumption ==
    /\ NoMember \notin Members
    /\ MaxLog \in Nat

\* What the value of a message can be, as far as the consumer tells values
\* apart: bytes that parse as JSON other than null, bytes that do not parse
\* (or that parse as null), and the null value of a tombstone.
Values == {"json", "garbage", "tombstone"}

VARIABLES log,          \* partition -> sequence of values
          committed,    \* partition -> committed offset of the group
          owner         \* partition -> the member the coordinator gave it to

brokerVars == <<log, committed, owner>>

BrokerTypeOK ==
    /\ log \in [Partitions -> Seq(Values)]
    /\ \A p \in Partitions : Len(log[p]) <= MaxLog
    /\ committed \in [Partitions -> Nat]
    /\ owner \in [Partitions -> Members \cup {NoMember}]

BrokerInit ==
    /\ log = [p \in Partitions |-> <<>>]
    /\ committed = [p \in Partitions |-> 0]
    /\ owner = [p \in Partitions |-> NoMember]

\* Some producer's message reaches the end of a partition.
Publish(p, v) ==
    /\ Len(log[p]) < MaxLog
    /\ log' = [log EXCEPT ![p] = Append(@, v)]
    /\ UNCHANGED <<committed, owner>>

\* The coordinator gives a free partition to a member.
Grant(p, m) ==
    /\ owner[p] = NoMember
    /\ owner' = [owner EXCEPT ![p] = m]
    /\ UNCHANGED <<log, committed>>

\* The partitions of a member that left or was expelled become free.
WithoutMember(m) ==
    [p \in Partitions |-> IF owner[p] = m THEN NoMember ELSE owner[p]]

Owns(m) == \E p \in Partitions : owner[p] = m

\* The coordinator records the group's offset; only the owner may do that.
AcceptCommit(m, p, o) ==
    /\ owner[p] = m
    /\ committed' = [committed EXCEPT ![p] = o]
    /\ UNCHANGED <<log, owner>>

=============================================================================
