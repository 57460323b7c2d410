--------------------------- MODULE TestSessionProofs ---------------------------
(***************************************************************************)
(* Proofs about the registry and the fake producer of a test session, for  *)
(* any metrics, any number of tests and calls, and any order of            *)
(* tests with and without the fixtures.                                    *)
(***************************************************************************)
EXTENDS TestSession, TLAPS

\* Collectors that no test with the fixture has created.
Lasting == {c \in created : c.test \notin cleaned}

\* Tests are numbered as they start; only started ones have left anything.
Numbered ==
    /\ test \in Nat
    /\ running \in BOOLEAN /\ fixture \in BOOLEAN
    /\ running => test > 0
    /\ \A c \in created : c.test \in 0 .. test
    /\ cleaned \subseteq 1 .. test

\* While a test with the fixture runs, its snapshot holds what lasts, and nothing
\* that the test has created.
SnapshotLasts ==
    running =>
        /\ fixture <=> test \in cleaned
        /\ fixture => /\ Lasting \subseteq collectors_before
                      /\ \A c \in collectors_before : c.test \notin cleaned

RegistryInv == Numbered /\ SnapshotLasts /\ RegistryHoldsTheLasting

LEMMA RegistryInvInit == Init => RegistryInv
<1> SUFFICES ASSUME RegistryInit PROVE RegistryInv
  BY DEF Init
<1>1. Numbered
  <2>1. created = [name : LibraryMetrics, test : {0}]
    BY DEF RegistryInit
  <2>2. \A c \in created : c.test = 0
    BY <2>1
  <2>3. /\ test = 0 /\ running = FALSE /\ fixture = FALSE /\ cleaned = {}
        /\ 0 \in 0 .. test
    BY DEF RegistryInit
  <2> QED
    BY <2>2, <2>3 DEF Numbered
<1>2. SnapshotLasts
  BY DEF RegistryInit, SnapshotLasts
<1>3. RegistryHoldsTheLasting
  BY DEF RegistryInit, RegistryHoldsTheLasting
<1> QED
  BY <1>1, <1>2, <1>3 DEF RegistryInv

\* A metric is created.
LEMMA CreateKeeps ==
    ASSUME RegistryInv, NEW name \in Names, Create(name)
    PROVE  RegistryInv'
<1> DEFINE new == [name |-> name, test |-> Current]
<1>1. /\ registry' = registry \cup {new} /\ created' = created \cup {new}
      /\ UNCHANGED <<test, running, fixture, collectors_before, cleaned>>
  BY DEF Create
<1>2. new.test = Current
  OBVIOUS
<1>3. Current \in 0 .. test /\ Current' = Current
  BY <1>1 DEF RegistryInv, Numbered, Current
<1> HIDE DEF new
<1>4. Numbered'
  BY <1>1, <1>2, <1>3 DEF RegistryInv, Numbered
<1>5. SnapshotLasts'
  <2> SUFFICES ASSUME running, fixture PROVE Lasting' = Lasting
    BY <1>1 DEF RegistryInv, SnapshotLasts
  <2>1. Current \in cleaned
    BY DEF RegistryInv, SnapshotLasts, Current
  <2> QED
    BY <2>1, <1>1, <1>2 DEF Lasting
<1>6. RegistryHoldsTheLasting'
  BY <1>1, <1>2, <1>3 DEF RegistryInv, RegistryHoldsTheLasting
<1> QED
  BY <1>4, <1>5, <1>6 DEF RegistryInv

\* A test unregisters a metric.
LEMMA UnregisterKeeps ==
    ASSUME RegistryInv, NEW c \in registry, Unregister(c)
    PROVE  RegistryInv'
<1>1. /\ registry' = registry \ {c} /\ created' = created \ {c}
      /\ UNCHANGED <<test, running, fixture, collectors_before, cleaned>>
  BY DEF Unregister
<1>2. Numbered'
  BY <1>1 DEF RegistryInv, Numbered
<1>3. SnapshotLasts'
  BY <1>1 DEF RegistryInv, SnapshotLasts, Lasting
<1>4. RegistryHoldsTheLasting'
  BY <1>1 DEF RegistryInv, RegistryHoldsTheLasting, Current
<1> QED
  BY <1>2, <1>3, <1>4 DEF RegistryInv

\* A test starts.
LEMMA StartTestKeeps ==
    ASSUME RegistryInv, NEW uses \in BOOLEAN, StartTest(uses)
    PROVE  RegistryInv'
<1>1. /\ ~running /\ test' = test + 1 /\ running' = TRUE /\ fixture' = uses
      /\ collectors_before' = IF uses THEN registry ELSE {}
      /\ cleaned' = IF uses THEN cleaned \cup {test + 1} ELSE cleaned
      /\ UNCHANGED <<registry, created>>
  BY DEF StartTest
<1>2. /\ test \in Nat /\ cleaned \subseteq 1 .. test
      /\ \A c \in created : c.test \in 0 .. test
  BY DEF RegistryInv, Numbered
<1>3. registry = Lasting
  <2>1. Current = 0 /\ 0 \notin cleaned
    BY <1>1, <1>2 DEF Current
  <2> QED
    BY <2>1 DEF RegistryInv, RegistryHoldsTheLasting, Lasting
<1>4. Numbered'
  BY <1>1, <1>2 DEF Numbered
<1>5. Current' = test + 1 /\ test + 1 \notin cleaned /\ \A c \in created : c.test # test + 1
  BY <1>1, <1>2 DEF Current
<1>6. Lasting' = Lasting
  BY <1>1, <1>5 DEF Lasting
<1>7. SnapshotLasts'
  <2> SUFFICES ASSUME uses
               PROVE  /\ Lasting \subseteq registry
                      /\ \A c \in registry : c.test \notin cleaned \cup {test + 1}
    BY <1>1, <1>5, <1>6 DEF SnapshotLasts
  <2> QED
    BY <1>3, <1>5 DEF Lasting
<1>8. RegistryHoldsTheLasting'
  BY <1>1, <1>3, <1>5 DEF RegistryHoldsTheLasting, Lasting
<1> QED
  BY <1>4, <1>7, <1>8 DEF RegistryInv

\* A test ends.
LEMMA EndTestKeeps ==
    ASSUME RegistryInv, EndTest
    PROVE  RegistryInv'
<1>1. /\ running /\ running' = FALSE
      /\ registry' = IF fixture THEN registry \ new_collectors ELSE registry
      /\ UNCHANGED <<test, fixture, created, cleaned>>
  BY DEF EndTest
<1>2. Current = test /\ Current' = 0 /\ 0 \notin cleaned
  BY <1>1 DEF RegistryInv, Numbered, Current
<1>3. registry' = Lasting
  <2>1. CASE fixture
    <3>1. registry' = registry \cap collectors_before
      BY <2>1, <1>1 DEF new_collectors
    <3>2. /\ Lasting \subseteq collectors_before
          /\ \A c \in collectors_before : c.test \notin cleaned
      BY <2>1, <1>1 DEF RegistryInv, SnapshotLasts
    <3> QED
      BY <3>1, <3>2 DEF RegistryInv, RegistryHoldsTheLasting, Lasting
  <2>2. CASE ~fixture
    <3>1. test \notin cleaned
      BY <2>2, <1>1 DEF RegistryInv, SnapshotLasts
    <3> QED
      BY <3>1, <2>2, <1>1, <1>2 DEF RegistryInv, RegistryHoldsTheLasting, Lasting
  <2> QED
    BY <2>1, <2>2
<1>4. RegistryHoldsTheLasting'
  BY <1>1, <1>2, <1>3 DEF RegistryHoldsTheLasting, Lasting
<1>5. Numbered' /\ SnapshotLasts'
  BY <1>1 DEF RegistryInv, Numbered, SnapshotLasts
<1> QED
  BY <1>4, <1>5 DEF RegistryInv

LEMMA RegistryInvNext == RegistryInv /\ [Next]_vars => RegistryInv'
<1> SUFFICES ASSUME RegistryInv, [Next]_vars PROVE RegistryInv'
  OBVIOUS
<1>1. ASSUME NEW uses \in BOOLEAN, SetUp(uses) PROVE RegistryInv'
  BY <1>1, StartTestKeeps DEF SetUp
<1>2. CASE Measures
  BY <1>2, CreateKeeps, UnregisterKeeps DEF Measures, RegistryStep
<1>3. CASE TearDown
  BY <1>3, EndTestKeeps DEF TearDown
<1>4. CASE UNCHANGED registryVars
  BY <1>4 DEF registryVars, RegistryInv, Numbered, SnapshotLasts, Lasting,
              RegistryHoldsTheLasting, Current
<1>5. CASE Produces
  BY <1>5, <1>4 DEF Produces
<1>6. CASE UNCHANGED vars
  BY <1>6, <1>4 DEF vars
<1> QED
  BY <1>1, <1>2, <1>3, <1>5, <1>6 DEF Next

\* The registry of a session, test by test.
THEOREM RegistryInvHolds == Spec => []RegistryInv
  BY RegistryInvInit, RegistryInvNext, PTL DEF Spec

\* After any sequence of tests, whatever they create and unregister, the registry
\* holds what was created outside of tests with the fixture and what the running
\* test has created (test_kit/prometheus.py:36-49).
THEOREM RegistryIsRestored == Spec => []RegistryHoldsTheLasting
<1>1. RegistryInv => RegistryHoldsTheLasting
  BY DEF RegistryInv
<1> QED
  BY <1>1, RegistryInvHolds, PTL

-----------------------------------------------------------------------------
(* The fake producer                                                       *)

FakeCalls == [payload : Payloads, key : Keys, asked : ProduceResults \cup {"None"},
              answer : ProduceResults]

\* What the test asked for is what the fake is forced to answer.
FakeInv ==
    /\ asked \in ProduceResults \cup {"None"}
    /\ forced_result = asked
    /\ payload \in Payloads
    /\ calls \in Seq(FakeCalls)
    /\ FakeAnswersLikeProducer

\* What FakeAnswersLikeProducer says of one call.
Like(c) ==
    LET real == Encoding(c.payload, c.key) IN
    IF c.asked # "None" THEN c.answer = c.asked
    ELSE IF "surrogate" \in {c.payload, c.key}
    THEN c.answer = IF c.payload = "unserializable" THEN real ELSE "ENQUEUED"
    ELSE c.answer = IF real = "encoded" THEN "ENQUEUED" ELSE real

LEMMA CallKeeps ==
    ASSUME FakeInv, NEW key \in Keys, NEW answer \in ProduceResults, Called(key, answer),
           UNCHANGED <<forced_result, payload, asked>>,
           Like([payload |-> payload, key |-> key, asked |-> asked, answer |-> answer])
    PROVE  FakeInv'
<1> DEFINE c == [payload |-> payload, key |-> key, asked |-> asked, answer |-> answer]
<1>1. c \in FakeCalls /\ calls' = Append(calls, c)
  BY DEF FakeInv, FakeCalls, Called
<1>2. Like(c)
  OBVIOUS
<1> HIDE DEF c
<1>3. /\ calls' \in Seq(FakeCalls) /\ Len(calls) \in Nat
      /\ DOMAIN calls = 1 .. Len(calls) /\ DOMAIN calls' = 1 .. Len(calls) + 1
      /\ calls'[Len(calls) + 1] = c
      /\ \A i \in 1 .. Len(calls) : calls'[i] = calls[i]
  BY <1>1 DEF FakeInv
<1>4. \A i \in DOMAIN calls' : Like(calls'[i])
  <2>1. \A i \in 1 .. Len(calls) : Like(calls[i])
    BY <1>3 DEF FakeInv, FakeAnswersLikeProducer, Like
  <2> SUFFICES ASSUME NEW i \in DOMAIN calls' PROVE Like(calls'[i])
    OBVIOUS
  <2>2. CASE i \in 1 .. Len(calls)
    BY <1>3, <2>1, <2>2
  <2>3. CASE i = Len(calls) + 1
    BY <1>2, <1>3, <2>3
  <2> QED
    BY <1>3, <2>2, <2>3
<1>5. FakeAnswersLikeProducer'
  BY <1>4 DEF FakeAnswersLikeProducer, Like
<1> QED
  BY <1>3, <1>5 DEF FakeInv

LEMMA FakeInvNext == FakeInv /\ [Next]_vars => FakeInv'
<1> SUFFICES ASSUME FakeInv, [Next]_vars PROVE FakeInv'
  OBVIOUS
<1>1. CASE UNCHANGED fakeVars
  BY <1>1 DEF fakeVars, FakeInv, FakeAnswersLikeProducer
<1>2. CASE FakeFixture
  BY <1>2 DEF FakeFixture, FakeInv, FakeAnswersLikeProducer, Payloads
<1>3. ASSUME NEW key \in Keys, ProduceForced(key) PROVE FakeInv'
  <2>1. forced_result \in ProduceResults /\ asked = forced_result
    BY <1>3 DEF FakeInv, ProduceForced
  <2>2. Like([payload |-> payload, key |-> key, asked |-> asked, answer |-> forced_result])
    BY <1>3, <2>1 DEF Like, ProduceForced
  <2> QED
    BY <1>3, <2>1, <2>2, CallKeeps DEF ProduceForced
<1>4. ASSUME NEW key \in Keys, ProduceRefused(key) PROVE FakeInv'
  <2>1. asked = "None" /\ payload = "unserializable" /\ "SERIALIZATION_FAILED" \in ProduceResults
    BY <1>4 DEF FakeInv, ProduceRefused, Dumps, ProduceResults
  <2>2. Like([payload |-> payload, key |-> key, asked |-> asked,
              answer |-> "SERIALIZATION_FAILED"])
    BY <2>1 DEF Like, Encoding, Dumps
  <2> QED
    BY <1>4, <2>1, <2>2, CallKeeps DEF ProduceRefused
<1>5. ASSUME NEW key \in Keys, ProduceCaptured(key) PROVE FakeInv'
  <2>1. asked = "None" /\ payload # "unserializable" /\ "ENQUEUED" \in ProduceResults
    BY <1>5 DEF FakeInv, ProduceCaptured, Dumps, ProduceResults
  <2>2. Like([payload |-> payload, key |-> key, asked |-> asked, answer |-> "ENQUEUED"])
    BY <2>1 DEF Like, Encoding, Dumps
  <2> QED
    BY <1>5, <2>1, <2>2, CallKeeps DEF ProduceCaptured
<1>6. ASSUME NEW answer \in ProduceResults, ForceResult(answer) PROVE FakeInv'
  BY <1>6 DEF ForceResult, FakeInv, FakeAnswersLikeProducer
<1>7. CASE Reset
  BY <1>7 DEF Reset, FakeInv, FakeAnswersLikeProducer
<1>8. ASSUME NEW content \in Payloads, Change(content) PROVE FakeInv'
  BY <1>8 DEF Change, FakeInv, FakeAnswersLikeProducer
<1> QED
  BY <1>1, <1>2, <1>3, <1>4, <1>5, <1>6, <1>7, <1>8
  DEF Next, SetUp, Produces, Measures, TearDown, FakeNext, vars

\* For any sequence of tests and calls the fake answers as the real producer's
\* encoding does, forced answers and surrogates apart (test_kit/kafka.py:53-59).
THEOREM FakeIsFaithful == Spec => []FakeAnswersLikeProducer
<1>1. Init => FakeInv
  BY DEF Init, FakeInit, FakeInv, FakeAnswersLikeProducer, Payloads
<1>2. FakeInv => FakeAnswersLikeProducer
  BY DEF FakeInv
<1> QED
  BY <1>1, <1>2, FakeInvNext, PTL DEF Spec

-----------------------------------------------------------------------------
(* What the fake captures                                                  *)

\* A capture is a copy: nothing that the test does afterwards changes it.
Copies == messages \in Seq([key : Keys, payload : Payloads])

\* What a message says of the call it was captured in.
Shows(message, c) ==
    /\ message.key = c.key
    /\ message.payload = Captured(c.payload)

CaptureInv == FakeInv /\ Copies /\ CapturedAsCalled

\* A mapping of the messages to the calls, as CapturedAsCalled asks for.
CallsOf(of) ==
    /\ of \in [DOMAIN messages -> Kept]
    /\ \A i, j \in DOMAIN messages : i < j => of[i] < of[j]
    /\ \A c \in Kept : \E i \in DOMAIN messages : of[i] = c
    /\ \A i \in DOMAIN messages : Shows(messages[i], calls[of[i]])

LEMMA CapturedByCalls == Copies => (CapturedAsCalled <=> \E of : CallsOf(of))
<1> SUFFICES ASSUME Copies PROVE CapturedAsCalled <=> \E of : CallsOf(of)
  OBVIOUS
<1>1. \A i \in DOMAIN messages : Reads(messages[i]) = messages[i].payload
  <2> DEFINE Message == [key : Keys, payload : Payloads]
  <2>1. messages \in Seq(Message)
    BY DEF Copies
  <2>2. \A message \in Message : Reads(message) = message.payload
    BY DEF Reads, Payloads
  <2> HIDE DEF Message
  <2> QED
    BY <2>1, <2>2
<1>2. \A of : \A i \in DOMAIN messages :
         Shows(messages[i], calls[of[i]]) <=>
             /\ messages[i].key = calls[of[i]].key
             /\ Reads(messages[i]) = IF calls[of[i]].payload = "tuples" THEN "plain"
                                     ELSE calls[of[i]].payload
  BY <1>1 DEF Shows, Captured
<1> QED
  BY <1>2 DEF CapturedAsCalled, CallsOf

LEMMA CapturedByCallsNext == (Copies => (CapturedAsCalled <=> \E of : CallsOf(of)))'
  BY CapturedByCalls, PTL

\* A call that captures nothing.
LEMMA UncapturedKeeps ==
    ASSUME CaptureInv, NEW key \in Keys, NEW answer \in ProduceResults, Called(key, answer),
           answer # "ENQUEUED" \/ asked # "None", UNCHANGED messages
    PROVE  CapturedAsCalled' /\ Copies'
<1>1. Copies /\ Copies'
  BY DEF CaptureInv, Copies
<1>2. PICK of : CallsOf(of)
  BY <1>1, CapturedByCalls DEF CaptureInv
<1>3. /\ calls \in Seq(FakeCalls) /\ Len(calls) \in Nat
      /\ DOMAIN calls = 1 .. Len(calls) /\ DOMAIN calls' = 1 .. Len(calls) + 1
      /\ calls'[Len(calls) + 1].answer = answer /\ calls'[Len(calls) + 1].asked = asked
      /\ \A i \in 1 .. Len(calls) : calls'[i] = calls[i]
  <2> DEFINE c == [payload |-> payload, key |-> key, asked |-> asked, answer |-> answer]
  <2>1. c \in FakeCalls /\ calls \in Seq(FakeCalls) /\ calls' = Append(calls, c)
    BY DEF CaptureInv, FakeInv, FakeCalls, Called
  <2>2. c.answer = answer /\ c.asked = asked
    OBVIOUS
  <2> HIDE DEF c
  <2> QED
    BY <2>1, <2>2
<1>4. Kept' = Kept
  BY <1>3 DEF Kept
<1>5. Kept \subseteq 1 .. Len(calls)
  BY <1>3 DEF Kept
<1>6. CallsOf(of)'
  BY <1>2, <1>3, <1>4, <1>5 DEF CallsOf, Shows, Captured
<1> QED
  BY CapturedByCallsNext, <1>1, <1>6

\* A call that captures its payload.
LEMMA CapturedKeeps ==
    ASSUME CaptureInv, NEW key \in Keys, ProduceCaptured(key)
    PROVE  CapturedAsCalled' /\ Copies'
<1> DEFINE n == Len(messages)
           c == [payload |-> payload, key |-> key, asked |-> asked, answer |-> "ENQUEUED"]
           message == [key |-> key, payload |-> Captured(payload)]
<1>1. /\ calls \in Seq(FakeCalls) /\ c \in FakeCalls /\ asked = "None"
      /\ calls' = Append(calls, c) /\ messages' = Append(messages, message)
  BY DEF CaptureInv, FakeInv, FakeCalls, ProduceCaptured, Called, ProduceResults
<1>2. /\ messages \in Seq([key : Keys, payload : Payloads])
      /\ message \in [key : Keys, payload : Payloads]
  BY DEF CaptureInv, FakeInv, Copies, Captured, Payloads
<1>3. Copies' /\ Copies
  BY <1>1, <1>2 DEF Copies
<1>4. Shows(message, c) /\ c.answer = "ENQUEUED" /\ c.asked = "None"
  BY <1>1 DEF Shows
<1> HIDE DEF c, message
<1>5. /\ Len(calls) \in Nat
      /\ DOMAIN calls = 1 .. Len(calls) /\ DOMAIN calls' = 1 .. Len(calls) + 1
      /\ calls'[Len(calls) + 1] = c
      /\ \A i \in 1 .. Len(calls) : calls'[i] = calls[i]
  BY <1>1
<1>6. /\ n \in Nat
      /\ DOMAIN messages = 1 .. n /\ DOMAIN messages' = 1 .. n + 1
      /\ messages'[n + 1] = message
      /\ \A i \in 1 .. n : messages'[i] = messages[i]
  BY <1>1, <1>2
<1>7. Kept' = Kept \cup {Len(calls) + 1} /\ Kept \subseteq 1 .. Len(calls)
  BY <1>4, <1>5 DEF Kept
<1>8. PICK of : CallsOf(of)
  BY <1>3, CapturedByCalls DEF CaptureInv
<1> HIDE DEF n
<1>9. /\ \A i \in 1 .. n : of[i] \in Kept /\ of[i] \in 1 .. Len(calls)
      /\ \A i, j \in 1 .. n : i < j => of[i] < of[j]
      /\ \A k \in Kept : \E i \in 1 .. n : of[i] = k
      /\ \A i \in 1 .. n : Shows(messages[i], calls[of[i]])
  BY <1>6, <1>7, <1>8 DEF CallsOf
<1>10. PICK g : /\ g \in [1 .. n + 1 -> Kept'] /\ g[n + 1] = Len(calls) + 1
                /\ \A i \in 1 .. n : g[i] = of[i]
  <2> DEFINE f == [i \in 1 .. n + 1 |-> IF i = n + 1 THEN Len(calls) + 1 ELSE of[i]]
  <2>1. /\ f \in [1 .. n + 1 -> Kept'] /\ f[n + 1] = Len(calls) + 1
        /\ \A i \in 1 .. n : f[i] = of[i]
    BY <1>6, <1>7, <1>9
  <2> QED
    BY <2>1
<1>11. CallsOf(g)'
  <2>1. \A i, j \in 1 .. n + 1 : i < j => g[i] < g[j]
    <3> SUFFICES ASSUME NEW i \in 1 .. n + 1, NEW j \in 1 .. n + 1, i < j
                 PROVE  g[i] < g[j]
      OBVIOUS
    <3>1. i \in 1 .. n /\ g[i] = of[i] /\ of[i] \in 1 .. Len(calls)
      BY <1>6, <1>9, <1>10
    <3>2. CASE j \in 1 .. n
      BY <1>9, <1>10, <3>1, <3>2
    <3>3. CASE j = n + 1
      BY <1>5, <1>10, <3>1, <3>3
    <3> QED
      BY <1>6, <3>2, <3>3
  <2>2. \A k \in Kept' : \E i \in 1 .. n + 1 : g[i] = k
    <3>1. n + 1 \in 1 .. n + 1 /\ 1 .. n \subseteq 1 .. n + 1
      BY <1>6
    <3> QED
      BY <1>7, <1>9, <1>10, <3>1
  <2>3. \A i \in 1 .. n + 1 : Shows(messages'[i], calls'[g[i]])
    <3>1. \A i \in 1 .. n + 1 : i = n + 1 \/ i \in 1 .. n
      BY <1>6
    <3>2. \A i \in 1 .. n : Shows(messages'[i], calls'[g[i]])
      BY <1>5, <1>6, <1>9, <1>10
    <3>3. Shows(messages'[n + 1], calls'[g[n + 1]])
      BY <1>4, <1>5, <1>6, <1>10
    <3> QED
      BY <3>1, <3>2, <3>3
  <2> QED
    BY <1>6, <1>10, <2>1, <2>2, <2>3 DEF CallsOf, Shows, Captured
<1> QED
  BY CapturedByCallsNext, <1>3, <1>11

LEMMA CaptureInvNext == CaptureInv /\ [Next]_vars => CaptureInv'
<1> SUFFICES ASSUME CaptureInv, [Next]_vars PROVE CapturedAsCalled' /\ Copies'
  BY FakeInvNext DEF CaptureInv
<1>0. Copies /\ CapturedAsCalled
  BY DEF CaptureInv
<1>1. CASE UNCHANGED <<messages, calls>>
  <2>1. Copies'
    BY <1>0, <1>1 DEF Copies
  <2>3. \A of : CallsOf(of) <=> CallsOf(of)'
    BY <1>1 DEF CallsOf, Shows, Captured, Kept
  <2> QED
    BY CapturedByCallsNext, <1>0, <2>1, <2>3, CapturedByCalls
<1>2. CASE messages' = <<>> /\ calls' = <<>>
  <2>1. Copies' /\ Kept' = {}
    BY <1>2 DEF Copies, Kept
  <2>2. CallsOf(<<>>)'
    BY <1>2, <2>1 DEF CallsOf
  <2> QED
    BY CapturedByCallsNext, <2>1, <2>2
<1>3. ASSUME NEW key \in Keys, ProduceForced(key) PROVE CapturedAsCalled' /\ Copies'
  <2>1. forced_result \in ProduceResults /\ asked # "None"
    BY <1>3 DEF CaptureInv, FakeInv, ProduceForced
  <2> QED
    BY <1>3, <2>1, UncapturedKeeps DEF ProduceForced
<1>4. ASSUME NEW key \in Keys, ProduceRefused(key) PROVE CapturedAsCalled' /\ Copies'
  BY <1>4, UncapturedKeeps DEF ProduceRefused, ProduceResults
<1>5. ASSUME NEW key \in Keys, ProduceCaptured(key) PROVE CapturedAsCalled' /\ Copies'
  BY <1>5, CapturedKeeps
<1> QED
  BY <1>1, <1>2, <1>3, <1>4, <1>5
  DEF Next, SetUp, FakeFixture, Produces, Measures, TearDown, FakeNext, ForceResult,
      Reset, Change, vars, fakeVars

\* Whatever the test does with its dict, with forced results and with reset(),
\* what it reads is what it has produced (test_kit/kafka.py:53-76).
THEOREM CapturesAreCalls == Spec => []CapturedAsCalled
<1>1. Init => CaptureInv
  <2> SUFFICES ASSUME Init PROVE CaptureInv
    OBVIOUS
  <2>1. FakeInv
    BY DEF Init, FakeInit, FakeInv, FakeAnswersLikeProducer, Payloads
  <2>2. Copies /\ messages = <<>> /\ Kept = {}
    BY DEF Init, FakeInit, Copies, Kept
  <2>3. CallsOf(<<>>)
    BY <2>2 DEF CallsOf
  <2> QED
    BY <2>1, <2>2, <2>3, CapturedByCalls DEF CaptureInv
<1>2. CaptureInv => CapturedAsCalled
  BY DEF CaptureInv
<1> QED
  BY <1>1, <1>2, CaptureInvNext, PTL DEF Spec

=============================================================================
