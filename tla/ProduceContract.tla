--------------------------- MODULE ProduceContract ---------------------------
(***************************************************************************)
(* What KafkaProducer promises its callers: every call is answered, a      *)
(* message is on its way only if its call was not refused, and messages    *)
(* reach the topic at most once and in the order they were accepted.  An   *)
(* accepted message may still fail to reach it.                            *)
(***************************************************************************)
EXTENDS Naturals, Sequences

CONSTANTS Rejections,   \* answers to what cannot be encoded
          Failures      \* answers to what librdkafka has not taken

VARIABLES results,      \* call -> its answer, calls numbered as they begin
          accepted,     \* the calls whose message was accepted, in order
          sent          \* the calls whose message reached the topic, in order

vars == <<results, accepted, sent>>

Init == results = <<>> /\ accepted = <<>> /\ sent = <<>>

In(c, seq) == \E i \in 1 .. Len(seq) : seq[i] = c

\* A call is rejected before anything is submitted, or it is under way.
Begin ==
    /\ \E r \in Rejections \cup {"pending"} : results' = Append(results, r)
    /\ UNCHANGED <<accepted, sent>>

Accept(c) ==
    /\ results[c] = "pending"
    /\ ~In(c, accepted)
    /\ accepted' = Append(accepted, c)
    /\ UNCHANGED <<results, sent>>

\* What was submitted is answered by what became of it.
Answer(c) ==
    /\ results[c] = "pending"
    /\ \E r \in IF In(c, accepted) THEN {"ENQUEUED"} ELSE Failures :
          results' = [results EXCEPT ![c] = r]
    /\ UNCHANGED <<accepted, sent>>

\* The i-th accepted message reaches the topic, behind earlier ones only.
Transmit(i) ==
    /\ \A j \in 1 .. Len(sent) : \E k \in 1 .. i - 1 : accepted[k] = sent[j]
    /\ sent' = Append(sent, accepted[i])
    /\ UNCHANGED <<results, accepted>>

Next ==
    \/ Begin
    \/ \E c \in 1 .. Len(results) : Accept(c) \/ Answer(c)
    \/ \E i \in 1 .. Len(accepted) : Transmit(i)

Spec == Init /\ [][Next]_vars

-----------------------------------------------------------------------------
(* What the contract comes to (producer.py:45-49, 58-76).                  *)

\* A call gets its answer once and keeps it (producer.py:76).
AnswersAreFinal ==
    [][\A c \in DOMAIN results :
         /\ c \in DOMAIN results'
         /\ results[c] # "pending" => results'[c] = results[c]]_vars

\* ENQUEUED is answered for an accepted message only, and a message whose call was
\* refused neither is on its way nor has reached the topic (producer.py:58-72).
AnswersAreTrue ==
    \A c \in DOMAIN results :
        /\ results[c] = "ENQUEUED" => In(c, accepted)
        /\ results[c] \in Rejections \cup Failures => ~In(c, accepted) /\ ~In(c, sent)

\* No message is accepted twice, and the topic has accepted messages, each once
\* and in the order of acceptance (producer.py:58-62).
SentOnceInOrder ==
    /\ \A i, j \in DOMAIN accepted : accepted[i] = accepted[j] => i = j
    /\ \E at \in [DOMAIN sent -> DOMAIN accepted] :
          /\ \A j \in DOMAIN sent : sent[j] = accepted[at[j]]
          /\ \A i, j \in DOMAIN sent : i < j => at[i] < at[j]

=============================================================================
