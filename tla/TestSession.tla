----------------------------- MODULE TestSession -----------------------------
(***************************************************************************)
(* A pytest session with the plugin test_kit/conftest.py: tests run one    *)
(* after the other, each with a fresh fake producer and with or without    *)
(* reset_prometheus_registry; the registry is that of the whole session.   *)
(* The two fixtures share no state, so a session exercises one of them.    *)
(***************************************************************************)
EXTENDS FakeKafkaProducer, PrometheusFixture

VARIABLE subject

vars == <<fakeVars, registryVars, subject>>

Init ==
    /\ FakeInit
    /\ RegistryInit
    /\ subject \in {"fake_kafka_producer", "reset_prometheus_registry"}

\* Each test gets the fixtures that it names.
SetUp(uses) ==
    /\ uses => subject = "reset_prometheus_registry"
    /\ StartTest(uses)
    /\ FakeFixture

Produces ==
    /\ running
    /\ subject = "fake_kafka_producer"
    /\ FakeNext
    /\ UNCHANGED registryVars

Measures ==
    /\ subject = "reset_prometheus_registry"
    /\ RegistryStep
    /\ UNCHANGED fakeVars

TearDown == EndTest /\ UNCHANGED fakeVars

Next ==
    /\ (\E uses \in BOOLEAN : SetUp(uses)) \/ Produces \/ Measures \/ TearDown
    /\ UNCHANGED subject

Spec == Init /\ [][Next]_vars

=============================================================================
