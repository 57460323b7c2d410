-------------------------- MODULE PrometheusFixture --------------------------
(***************************************************************************)
(* reset_prometheus_registry() (test_kit/prometheus.py) around tests that  *)
(* create and unregister metrics.                                          *)
(*                                                                         *)
(* Of prometheus_client, which is external: a metric registers itself when *)
(* it is created, and creation raises if its name is taken.  The metrics   *)
(* of kafka_kit/metrics.py are created when pytest loads the plugin        *)
(* (test_kit/kafka.py:21), before any test; those of another module when a *)
(* test or the collection of tests first imports it.                       *)
(***************************************************************************)
EXTENDS Naturals

CONSTANTS OtherMetrics,     \* names of the metrics of tests and services
          MaxTests

ASSUME FixtureAssumption == MaxTests \in Nat

LibraryMetrics == {"kafka_consumer_messages_total", "kafka_consumer_latency_seconds",
                   "kafka_consumer_errors_total"}

Names == LibraryMetrics \cup OtherMetrics

VARIABLES
    registry,           \* REGISTRY: collectors, each a name and the test it is from
    test, running,      \* tests so far, and whether the last is still running
    fixture,            \* whether it uses reset_prometheus_registry
    collectors_before,  \* the fixture's snapshot
    \* history: all collectors that were registered and that no test has
    \* unregistered itself; the tests that used the fixture
    created, cleaned

registryVars == <<registry, test, running, fixture, collectors_before, created, cleaned>>

RegistryInit ==
    /\ registry = [name : LibraryMetrics, test : {0}]
    /\ test = 0
    /\ running = FALSE
    /\ fixture = FALSE
    /\ collectors_before = {}
    /\ created = registry
    /\ cleaned = {}

\* The test whose code runs; 0 for code outside of tests, as at collection.
Current == IF running THEN test ELSE 0

Taken(name) == \E c \in registry : c.name = name

\* Counter(name, ...), in a test or in a module that is imported.
Create(name) ==
    LET new == [name |-> name, test |-> Current] IN
    /\ ~Taken(name)
    /\ registry' = registry \cup {new}
    /\ created' = created \cup {new}
    /\ UNCHANGED <<test, running, fixture, collectors_before, cleaned>>

\* A test calls REGISTRY.unregister() itself.
Unregister(c) ==
    /\ c \in registry
    /\ running
    /\ registry' = registry \ {c}
    /\ created' = created \ {c}
    /\ UNCHANGED <<test, running, fixture, collectors_before, cleaned>>

-----------------------------------------------------------------------------
(* The fixture                                                             *)

\* Up to the yield.
StartTest(uses) ==
    /\ ~running
    /\ test < MaxTests
    /\ test' = test + 1
    /\ running' = TRUE
    /\ fixture' = uses
    /\ collectors_before' = IF uses THEN registry ELSE {}
    /\ cleaned' = IF uses THEN cleaned \cup {test + 1} ELSE cleaned
    /\ UNCHANGED <<registry, created>>

\* Mutant: no frozenset(): the snapshot is a view of the dict, and grows with
\* it (line 36).
new_collectors_LiveView == {}

new_collectors == registry \ collectors_before

\* From the yield on.
EndTest ==
    /\ running
    /\ running' = FALSE
    /\ registry' = IF fixture THEN registry \ new_collectors ELSE registry
    /\ UNCHANGED <<test, fixture, collectors_before, created, cleaned>>

RegistryStep ==
    \/ \E name \in Names : Create(name)
    \/ \E c \in registry : Unregister(c)

-----------------------------------------------------------------------------
\* The registry holds what was created outside of tests, by tests without the
\* fixture, and by the test that runs, and nothing else: no test with the fixture
\* is in the way of a later one, or takes away what it did not bring, whatever
\* tests unregister themselves (test_kit/prometheus.py:36-49).
RegistryHoldsTheLasting ==
    registry = {c \in created : c.test \notin cleaned \ {Current}}

=============================================================================
