--------------------------- MODULE DeliveryContract ---------------------------
(***************************************************************************)
(* What a consumer group built on kafka_kit promises about a topic when    *)
(* auto-commit is off, with no word on members, polls, batches or crashes: *)
(* messages get an outcome, in any order and possibly several times, and a *)
(* partition's committed offset only ever moves forward, over messages     *)
(* that have one.  The outcome of a message is that handle() returned with *)
(* it, or that it was counted in kafka_errors_total.                       *)
(***************************************************************************)
EXTENDS Naturals, Sequences

CONSTANTS Partitions, Values

VARIABLES log,          \* partition -> sequence of values
          committed,    \* partition -> offset of the next message to read
          settled       \* the <<partition, offset>> of messages with an outcome

vars == <<log, committed, settled>>

Offsets == Partitions \X Nat

Exists(p, o) == o < Len(log[p])

\* The messages that exist: one per offset of a partition's log.
Existing == UNION {{p} \X (0 .. Len(log[p]) - 1) : p \in Partitions}

TypeOK ==
    /\ log \in [Partitions -> Seq(Values)]
    /\ committed \in [Partitions -> Nat]
    /\ settled \subseteq Offsets

Init ==
    /\ log = [p \in Partitions |-> <<>>]
    /\ committed = [p \in Partitions |-> 0]
    /\ settled = {}

Publish(p) ==
    /\ \E v \in Values : log' = [log EXCEPT ![p] = Append(@, v)]
    /\ UNCHANGED <<committed, settled>>

\* Some messages get their outcome together (a batch is handled as one).
Settle ==
    /\ \E S \in SUBSET Existing : settled' = settled \cup S
    /\ UNCHANGED <<log, committed>>

Commit(p) ==
    /\ \E o \in 1 .. Len(log[p]) :
         /\ committed[p] < o
         /\ \A q \in committed[p] .. o - 1 : <<p, q>> \in settled
         /\ committed' = [committed EXCEPT ![p] = o]
    /\ UNCHANGED <<log, settled>>

Next == Settle \/ \E p \in Partitions : Publish(p) \/ Commit(p)

Spec == Init /\ [][Next]_vars

\* Every offset below the committed one has its outcome: what the group will
\* not be given again (by consumer.py:169) has not been forgotten.
CommittedSettled ==
    \A p \in Partitions : \A o \in 0 .. committed[p] - 1 : <<p, o>> \in settled

\* No commit of any member takes the group back, whatever member it comes from.
CommitsAdvance ==
    [][\A p \in Partitions : committed[p] <= committed'[p]]_vars

\* Every message that is published eventually gets its outcome.
EverythingSettles ==
    \A p \in Partitions : \A o \in Nat :
        Exists(p, o) ~> <<p, o>> \in settled

=============================================================================
