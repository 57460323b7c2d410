---------------------------- MODULE KafkaProducer ----------------------------
(***************************************************************************)
(* KafkaProducer (kafka_kit/producer.py), used by several threads of one   *)
(* process, for instance through publish_audit_event (audit_kit), with the *)
(* local queue of librdkafka behind it.                                    *)
(*                                                                         *)
(* Of librdkafka, which is external: a message occupies the local queue    *)
(* from produce() until its delivery report has been served by poll() or   *)
(* flush(), so a queue full of acknowledged messages stays full until      *)
(* somebody polls; with enable.idempotence (config.py:10) it sends the     *)
(* messages of a partition in order and each at most once; one it gives up *)
(* on is reported as failed, although the broker may have it.  The topic   *)
(* has one partition.                                                      *)
(*                                                                         *)
(* A step of a thread ends where it calls librdkafka: between two such     *)
(* calls produce() touches only its locals and _dropped_messages, whose    *)
(* += the interpreter lock keeps whole.                                    *)
(***************************************************************************)
EXTENDS Naturals, Sequences, FiniteSets, ProduceEncoding

CONSTANTS Threads,
          MaxQueue,     \* queue_buffering_max_messages
          MaxCalls      \* bound on the calls of produce()

ASSUME ProducerAssumption ==
    IsFiniteSet(Threads) /\ MaxQueue \in Nat \ {0} /\ MaxCalls \in Nat

\* ProduceResult, and leaving produce() with an exception: before anything is
\* submitted, and after librdkafka has not taken it.
Rejections == {"SERIALIZATION_FAILED", "raised"}
Failures == {"BUFFER_FULL", "PRODUCER_ERROR"}
Refusals == Rejections \cup Failures

VARIABLES
    \* the process is up; where each thread is, its call, its local `result'
    up, pc, call, result,
    \* self._dropped_messages
    dropped,
    \* librdkafka: messages without outcome, outcomes not served yet
    queue, reports,
    \* the topic
    sent,
    \* history: answers of the calls, order of acceptance, served outcomes,
    \* what a flush() under way has to wait for
    results, accepted, delivered, failed, waiting

threadVars == <<pc, call, result>>
clientVars == <<queue, reports>>
histVars   == <<delivered, failed, waiting>>
vars == <<up, threadVars, dropped, clientVars, sent, results, accepted, histVars>>

Calls == 1 .. MaxCalls

Elements(s) == {s[i] : i \in DOMAIN s}

TypeOK ==
    /\ up \in BOOLEAN
    /\ pc \in [Threads -> {"idle", "submit", "full", "poll", "flush"}]
    /\ call \in [Threads -> 0 .. MaxCalls]
    /\ result \in [Threads -> Failures \cup {"ENQUEUED", "none"}]
    /\ dropped \in Nat
    /\ queue \in Seq(Calls)
    /\ reports \in Seq([call : Calls, ok : BOOLEAN])
    /\ Len(queue) + Len(reports) <= MaxQueue
    /\ sent \in Seq(Calls)
    /\ results \in Seq(Refusals \cup {"ENQUEUED", "pending"})
    /\ accepted \in Seq(Calls)
    /\ delivered \subseteq Calls
    /\ failed \subseteq Calls
    /\ waiting \in [Threads -> SUBSET Calls]

Init ==
    /\ up = TRUE
    /\ pc = [t \in Threads |-> "idle"]
    /\ call = [t \in Threads |-> 0]
    /\ result = [t \in Threads |-> "none"]
    /\ dropped = 0
    /\ queue = <<>>
    /\ reports = <<>>
    /\ sent = <<>>
    /\ results = <<>>
    /\ accepted = <<>>
    /\ delivered = {}
    /\ failed = {}
    /\ waiting = [t \in Threads |-> {}]

At(t, point) == up /\ pc[t] = point

Goto(t, point) == pc' = [pc EXCEPT ![t] = point]

\* Mutant: reports of failed messages are thrown away (line 107).
ServeReports_DeliveredOnly ==
    /\ reports' = <<>>
    /\ delivered' = delivered \cup {r.call : r \in {x \in Elements(reports) : x.ok}}
    /\ UNCHANGED failed

\* poll(): the delivery report of every message that has an outcome is served;
\* _delivery_report() logs the failed ones.
ServeReports ==
    /\ reports' = <<>>
    /\ delivered' = delivered \cup {r.call : r \in {x \in Elements(reports) : x.ok}}
    /\ failed' = failed \cup {r.call : r \in {x \in Elements(reports) : ~x.ok}}

-----------------------------------------------------------------------------
(* produce()                                                               *)

\* The payload does not encode, or the key raises: nothing is submitted and
\* nothing is polled.
Reject(t, payload, key) ==
    /\ At(t, "idle")
    /\ Len(results) < MaxCalls
    /\ Encoding(payload, key) # "encoded"
    /\ results' = Append(results, Encoding(payload, key))
    /\ UNCHANGED <<up, threadVars, dropped, clientVars, sent, accepted, histVars>>

Encode(t, payload, key) ==
    /\ At(t, "idle")
    /\ Len(results) < MaxCalls
    /\ Encoding(payload, key) = "encoded"
    /\ results' = Append(results, "pending")
    /\ call' = [call EXCEPT ![t] = Len(results) + 1]
    /\ Goto(t, "submit")
    /\ UNCHANGED <<up, result, dropped, clientVars, sent, accepted, histVars>>

\* The limit of messages.  The limit of bytes is not counted: any message may
\* be the one too many, unless there is no other.
HasRoom == Len(queue) + Len(reports) < MaxQueue
MayBeFull == queue # <<>> \/ reports # <<>>

SubmitAccepted(t) ==
    /\ At(t, "submit")
    /\ HasRoom
    /\ queue' = Append(queue, call[t])
    /\ accepted' = Append(accepted, call[t])
    /\ result' = [result EXCEPT ![t] = "ENQUEUED"]
    /\ Goto(t, "poll")
    /\ UNCHANGED <<up, call, dropped, reports, sent, results, histVars>>

\* BufferError
SubmitFull(t) ==
    /\ At(t, "submit")
    /\ MayBeFull
    /\ dropped' = dropped + 1
    /\ Goto(t, "full")
    /\ UNCHANGED <<up, call, result, clientVars, sent, results, accepted, histVars>>

\* Mutant: every refusal counts as a dropped message (line 66).
SubmitFails_Counted(t) ==
    /\ At(t, "submit")
    /\ dropped' = dropped + 1
    /\ result' = [result EXCEPT ![t] = "PRODUCER_ERROR"]
    /\ Goto(t, "poll")
    /\ UNCHANGED <<up, call, clientVars, sent, results, accepted, histVars>>

\* KafkaException
SubmitFails(t) ==
    /\ At(t, "submit")
    /\ result' = [result EXCEPT ![t] = "PRODUCER_ERROR"]
    /\ Goto(t, "poll")
    /\ UNCHANGED <<up, call, dropped, clientVars, sent, results, accepted, histVars>>

\* Mutant: the branch leaves `result' as it was (line 69).
PollFull_NoResult(t) ==
    /\ At(t, "full")
    /\ ServeReports
    /\ Goto(t, "poll")
    /\ UNCHANGED <<up, call, result, dropped, queue, sent, results, accepted, waiting>>

\* Mutant: once there is room the message is submitted after all.
PollFull_Resubmits(t) ==
    /\ At(t, "full")
    /\ ServeReports
    /\ Len(queue) < MaxQueue
    /\ queue' = Append(queue, call[t])
    /\ accepted' = Append(accepted, call[t])
    /\ result' = [result EXCEPT ![t] = "BUFFER_FULL"]
    /\ Goto(t, "poll")
    /\ UNCHANGED <<up, call, dropped, sent, results, waiting>>

\* poll(0) of the BufferError branch
PollFull(t) ==
    /\ At(t, "full")
    /\ ServeReports
    /\ result' = [result EXCEPT ![t] = "BUFFER_FULL"]
    /\ Goto(t, "poll")
    /\ UNCHANGED <<up, call, dropped, queue, sent, results, accepted, waiting>>

\* poll(self._poll_timeout) of the finally clause, and return result
PollReturns(t) ==
    /\ At(t, "poll")
    /\ ServeReports
    /\ results' = [results EXCEPT ![call[t]] = result[t]]
    /\ Goto(t, "idle")
    /\ UNCHANGED <<up, call, result, dropped, queue, sent, accepted, waiting>>

-----------------------------------------------------------------------------
(* flush()                                                                 *)

Flush(t) ==
    /\ At(t, "idle")
    /\ Goto(t, "flush")
    /\ waiting' = [waiting EXCEPT ![t] = Elements(accepted)]
    /\ UNCHANGED <<up, call, result, dropped, clientVars, sent, results,
                   accepted, delivered, failed>>

FlushServes(t) ==
    /\ At(t, "flush")
    /\ reports # <<>>
    /\ ServeReports
    /\ UNCHANGED <<up, threadVars, dropped, queue, sent, results, accepted, waiting>>

\* Mutant: one round of poll() instead of flush().
FlushReturns_Early(t) ==
    /\ At(t, "flush")
    /\ reports = <<>>
    /\ Goto(t, "idle")
    /\ UNCHANGED <<up, call, result, dropped, clientVars, sent, results,
                   accepted, histVars>>

FlushReturns(t) ==
    /\ At(t, "flush")
    /\ queue = <<>>
    /\ reports = <<>>
    /\ Goto(t, "idle")
    /\ UNCHANGED <<up, call, result, dropped, clientVars, sent, results,
                   accepted, histVars>>

FlushTimesOut(t) ==
    /\ At(t, "flush")
    /\ Goto(t, "idle")
    /\ waiting' = [waiting EXCEPT ![t] = {}]
    /\ UNCHANGED <<up, call, result, dropped, clientVars, sent, results,
                   accepted, delivered, failed>>

-----------------------------------------------------------------------------
(* librdkafka's own thread, and the process.                               *)

Unsent == {i \in DOMAIN queue : queue[i] \notin Elements(sent)}

\* The broker appends the next message of the queue.
Transmit ==
    /\ up
    /\ \E i \in Unsent :
         /\ \A j \in Unsent : i <= j
         /\ sent' = Append(sent, queue[i])
    /\ UNCHANGED <<up, threadVars, dropped, clientVars, results, accepted, histVars>>

Outcome(ok) ==
    /\ reports' = Append(reports, [call |-> Head(queue), ok |-> ok])
    /\ queue' = Tail(queue)

Acknowledged ==
    /\ up
    /\ queue # <<>>
    /\ Head(queue) \in Elements(sent)
    /\ Outcome(TRUE)
    /\ UNCHANGED <<up, threadVars, dropped, sent, results, accepted, histVars>>

\* Retries or delivery.timeout.ms exhausted, whether or not it was appended.
GivenUp ==
    /\ up
    /\ queue # <<>>
    /\ Outcome(FALSE)
    /\ UNCHANGED <<up, threadVars, dropped, sent, results, accepted, histVars>>

\* The process ends; what the queue holds is gone with it.
Exit ==
    /\ up
    /\ up' = FALSE
    /\ UNCHANGED <<threadVars, dropped, clientVars, sent, results, accepted, histVars>>

-----------------------------------------------------------------------------
Step(t) ==
    \/ SubmitAccepted(t) \/ SubmitFull(t) \/ SubmitFails(t)
    \/ PollFull(t) \/ PollReturns(t)

Next ==
    \/ \E t \in Threads : Step(t)
    \/ \E t \in Threads, payload \in Payloads, key \in Keys :
         Reject(t, payload, key) \/ Encode(t, payload, key)
    \/ \E t \in Threads :
         Flush(t) \/ FlushServes(t) \/ FlushReturns(t) \/ FlushTimesOut(t)
    \/ Transmit \/ Acknowledged \/ GivenUp \/ Exit

Spec == Init /\ [][Next]_vars

(***************************************************************************)
(* Fairness.  Threads inside produce() or flush() go on; librdkafka and    *)
(* the broker answer, at the latest when delivery.timeout.ms has passed;   *)
(* a flush serves reports before it gives up.  Nobody has to call          *)
(* produce() or flush().                                                   *)
(***************************************************************************)
Fairness ==
    /\ \A t \in Threads : WF_vars(Step(t))
    /\ WF_vars(Transmit)
    /\ WF_vars(Acknowledged \/ GivenUp)
    /\ \A t \in Threads : SF_vars(FlushServes(t)) /\ WF_vars(FlushTimesOut(t))

FairSpec == Spec /\ Fairness

-----------------------------------------------------------------------------
(* Properties                                                              *)

Contract == INSTANCE ProduceContract

\* Every call is answered as the docstring of produce() says (producer.py:45-49),
\* refused messages never reach the topic, accepted ones at most once and in
\* the order of acceptance, whatever the threads do.
ImplementsProduceContract == Contract!Spec

\* An accepted message waits in the queue, waits for its report to be served, or
\* was reported, and is in one of these places only; what is reported as
\* delivered is in the topic (producer.py:62, 101-108).
MessageHasOnePlace ==
    LET reported == {r.call : r \in Elements(reports)}
        places == <<Elements(queue), reported, delivered, failed>> IN
    /\ \A c \in Elements(accepted) : 
          Cardinality({k \in 1 .. 4 : c \in places[k]}) = 1
    /\ delivered \subseteq Elements(sent)

\* The counter of the log line at producer.py:68 is the number of messages
\* answered BUFFER_FULL or about to be, for any interleaving of callers.
DroppedIsBufferFull ==
    dropped = Cardinality({c \in DOMAIN results : results[c] = "BUFFER_FULL"})
            + Cardinality({t \in Threads :
                 \/ pc[t] = "full"
                 \/ pc[t] = "poll" /\ result[t] = "BUFFER_FULL"})

\* A flush that did not time out leaves nothing that was accepted before it
\* without a served outcome (producer.py:78-81).
FlushWaits ==
    \A t \in Threads : pc[t] # "flush" => waiting[t] \subseteq delivered \cup failed

\* The outcome of every accepted message is served in the end, unless the
\* process ends first, provided somebody flushes again and again, each time for
\* as long as flush() may take: nothing in the library serves reports on its own
\* (producer.py:74, 81).
OutcomesAreServed ==
    []<><<\E t \in Threads : Flush(t)>>_vars =>
        \A c \in Calls :
            c \in Elements(accepted) ~> c \in delivered \cup failed \/ ~up

=============================================================================
