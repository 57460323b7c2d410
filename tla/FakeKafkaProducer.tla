-------------------------- MODULE FakeKafkaProducer --------------------------
(***************************************************************************)
(* FakeKafkaProducer (test_kit/kafka.py) in the hands of a test, which     *)
(* calls produce(), with a dict that it goes on changing, force_result()   *)
(* and reset().  flush() does nothing and is left out.                     *)
(***************************************************************************)
EXTENDS Naturals, Sequences, ProduceEncoding

CONSTANT MaxCalls       \* bound on the calls of produce() between two resets

ASSUME FakeAssumption == MaxCalls \in Nat

ProduceResults == {"ENQUEUED", "SERIALIZATION_FAILED", "BUFFER_FULL", "PRODUCER_ERROR"}

VARIABLES
    messages,       \* the captured ones: key and payload
    forced_result,
    payload,        \* what the test's dict holds now
    \* history: the result the test has asked for, and its calls since the last
    \* reset, with what the dict held then
    asked, calls

fakeVars == <<messages, forced_result, payload, asked, calls>>

\* A new fake, and a dict of the test.
FakeInit ==
    /\ messages = <<>>
    /\ forced_result = "None"
    /\ payload = "plain"
    /\ asked = "None"
    /\ calls = <<>>

\* fake_kafka_producer(): the test gets a new object.
FakeFixture ==
    /\ messages' = <<>>
    /\ forced_result' = "None"
    /\ payload' = "plain"
    /\ asked' = "None"
    /\ calls' = <<>>

Called(key, answer) ==
    calls' = Append(calls, [payload |-> payload, key |-> key, asked |-> asked,
                            answer |-> answer])

\* Mutant: the payload itself instead of json.loads(raw) (line 64).
Captured_Live(content) == "live"

\* json.loads(raw): a copy, with lists for tuples.
Captured(content) == IF content = "tuples" THEN "plain" ELSE content

ProduceForced(key) ==
    /\ Len(calls) < MaxCalls
    /\ forced_result # "None"
    /\ Called(key, forced_result)
    /\ UNCHANGED <<messages, forced_result, payload, asked>>

ProduceRefused(key) ==
    /\ Len(calls) < MaxCalls
    /\ forced_result = "None"
    /\ ~Dumps(payload)
    /\ Called(key, "SERIALIZATION_FAILED")
    /\ UNCHANGED <<messages, forced_result, payload, asked>>

ProduceCaptured(key) ==
    /\ Len(calls) < MaxCalls
    /\ forced_result = "None"
    /\ Dumps(payload)
    /\ messages' = Append(messages, [key |-> key, payload |-> Captured(payload)])
    /\ Called(key, "ENQUEUED")
    /\ UNCHANGED <<forced_result, payload, asked>>

ForceResult(answer) ==
    /\ forced_result' = answer
    /\ asked' = answer
    /\ UNCHANGED <<messages, payload, calls>>

\* Mutant: only the messages are cleared (line 74).
Reset_KeepsForced ==
    /\ messages' = <<>>
    /\ asked' = "None"
    /\ calls' = <<>>
    /\ UNCHANGED <<forced_result, payload>>

Reset ==
    /\ messages' = <<>>
    /\ forced_result' = "None"
    /\ asked' = "None"
    /\ calls' = <<>>
    /\ UNCHANGED payload

\* The test changes its dict.
Change(content) ==
    /\ payload' = content
    /\ UNCHANGED <<messages, forced_result, asked, calls>>

FakeNext ==
    \/ \E key \in Keys : ProduceForced(key) \/ ProduceRefused(key) \/ ProduceCaptured(key)
    \/ \E answer \in ProduceResults : ForceResult(answer)
    \/ Reset
    \/ \E content \in Payloads : Change(content)

-----------------------------------------------------------------------------
\* What a test reads in .messages now.
Reads(message) == IF message.payload = "live" THEN payload ELSE message.payload

\* The calls since the last reset that were accepted, and not because they were
\* forced to be.
Kept == {i \in DOMAIN calls : calls[i].answer = "ENQUEUED" /\ calls[i].asked = "None"}

\* The messages a test reads are those it produced since the last reset, all of
\* them, in this order and with what its dict held at the time, tuples apart; a
\* refused call captures nothing, nor does a forced ENQUEUED
\* (test_kit/kafka.py:53-68).
CapturedAsCalled ==
    \E of \in [DOMAIN messages -> Kept] :
        /\ \A i, j \in DOMAIN messages : i < j => of[i] < of[j]
        /\ \A c \in Kept : \E i \in DOMAIN messages : of[i] = c
        /\ \A i \in DOMAIN messages :
              LET c == calls[of[i]] IN
              /\ messages[i].key = c.key
              /\ Reads(messages[i]) = IF c.payload = "tuples" THEN "plain" ELSE c.payload

\* A call gets the result asked for since the last reset.  If none was, it gets
\* what the encoding of the real producer says, unless a surrogate is involved:
\* the fake encodes nothing, and accepts what the real one refuses or raises for
\* (test_kit/kafka.py:53-59, kafka_kit/producer.py:51-55).
FakeAnswersLikeProducer ==
    \A i \in DOMAIN calls :
        LET c == calls[i]
            real == Encoding(c.payload, c.key) IN
        IF c.asked # "None" THEN c.answer = c.asked
        ELSE IF "surrogate" \in {c.payload, c.key}
        THEN c.answer = IF c.payload = "unserializable" THEN real ELSE "ENQUEUED"
        ELSE c.answer = IF real = "encoded" THEN "ENQUEUED" ELSE real

=============================================================================
