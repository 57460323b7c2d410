# A TLA+ model of iot-hub-shared

`iot-hub-shared` is a Python library that the services of IoT Hub build on: wrappers
around `confluent-kafka`, request-scoped logging, an audit event contract, serializer
base classes, data utilities and a pytest plugin. This directory models it in TLA+,
checks the models with TLC and proves the main results with TLAPS. Paths below are
relative to `src/src/iot_hub_shared/`.

## 1. The system

| Component | State it keeps | Operations | What is hard about it |
|---|---|---|---|
| `kafka_kit.KafkaConsumer` (consumer.py) | `_running`, the client handle, the locals of one iteration (`messages`, `batch`, `last_valid_message`) | `start`, `stop`, `_consume_one`, `_consume_batch`, `_handle_and_commit` | the handler, the coordinator, signals and crashes interleave with fetch and commit; commits are cumulative and per partition; members are expelled while they work |
| `kafka_kit.KafkaProducer` (producer.py) | librdkafka's local queue, `_dropped_messages` | `produce`, `flush`, `_delivery_report` | a bounded queue that only drains through `poll`; a result that says "queued", not "delivered"; several threads |
| `audit_kit` (record.py, publisher.py) | none (frozen records) | `AuditActor.user/system/external`, `to_record`, `publish_audit_event` | only a user's id is made a string; the key is encoded outside of the producer's `try` |
| `serializer_kit` (base_serializer.py, json_serializer.py, base_validator.py) | `_errors`, `_validated_data`, `initial_data` | `is_valid`, `validate`, `validated_data`, `errors` | repeated calls, overrides that change the payload in place, exceptions half way, errors that stick |
| `observability_kit` middleware, context, filters | two `ContextVar`s per thread of execution | request entry and exit, log records | threads are reused; exceptions skip the second half of the middleware |
| `observability_kit` logging.py, CeleryContextFilter | none | `get_json_logging_config`, `filter` | what Python's logging makes of the dictionary: two families of loggers, propagation, filters that write on the record |
| `observability_kit` metrics.py, `kafka_kit` metrics.py | the registry of the process (or files, in multiprocess mode) | `metrics_view`, import of the metrics | collectors may be unregistered behind their module's back |
| `utils_kit` | none | `normalize_str`, `normalize_schema`, `diff_dicts`, `json_equal`, ISO times | boundary values (blank, 0, False, NaN, the ends of the calendar), key sets that differ, two notions of equality |
| `test_kit` | captured messages, forced result, the fixture's snapshot of the registry | `FakeKafkaProducer`, `reset_prometheus_registry`, `audit_record_factory` | a fake that has to behave like the real producer; tests in any order that share one registry |

Interactions: a service calls `publish_audit_event`, which calls `KafkaProducer.produce`;
the message reaches a topic; a `KafkaConsumer` process of some group reads it, decodes it
and calls a `KafkaPayloadHandler` (for instance `CeleryPayloadHandler`), which typically
validates it with a `JSONSerializer`. Requests and their log records share the two context
variables of `observability_kit.context`. `test_kit` replaces the producer in tests.

What makes each part correct:

- **consumer**: nothing below a committed offset lacks an outcome (handled, or counted in
  `kafka_errors_total`); commits never go back, however late they are; no message is
  handled twice while its partition stays with one process; a stop ends the process and
  leaves nothing half done; every published message gets its outcome in the end.
- **producer**: a message is accepted, or reported as refused, never both and never
  neither; accepted messages are sent in order or reported as failed; a full queue is
  recoverable; flush leaves nothing behind unless it timed out.
- **serializers**: `is_valid` says exactly whether the declared schema holds; an override of
  `_validate_fields` can rely on the schema; data and errors of one call are never mixed with
  those of another.
- **request context**: a record carries the identity of the request that wrote it.
- **logging**: a record becomes one line, complete, with the identity of the right context.
- **utilities**: normalizing twice is normalizing once; only blanks are lost; a diff redoes
  and undoes the change it describes; the text of a time depends on its moment and not on its
  zone, and can be read back.
- **audit events**: a record is refused only for what JSON or UTF-8 cannot hold, never for the
  type of a user's id, and publishing it does not raise.
- **test kit**: a test reads what it produced and nothing else; the fake answers as the real
  producer encodes; the registry fixture takes away what its test brought, and no more.

## 2. Modules

| Module | Models | Kind |
|---|---|---|
| `KafkaBroker` | the topic, the group's committed offsets and ownership of partitions; external, modelled from what consumer.py relies on | environment |
| `KafkaConsumer` | consumer.py: every member of a group running the loop; extends `KafkaBroker` | component |
| `DeliveryContract` | what a manually committing group promises | abstract specification |
| `KafkaProducer` | producer.py: several threads sharing one producer, with librdkafka's local queue | component |
| `ProduceContract` | what a producer promises its callers | abstract specification |
| `JSONSerializer` | json_serializer.py and base_serializer.py: one serializer object and its caller | component |
| `RequestContext` | middleware.py, context.py and the request filter, in the threads of a server | component |
| `ProduceEncoding` | what `produce` does to a payload and a key before it submits them; part of `KafkaProducer`, `AuditRecord` and `FakeKafkaProducer` | functions |
| `DictTools` | dicts.py, json.py and `normalize_str` | functions |
| `IsoTime` | the two conversions of normalization.py | functions |
| `LoggingConfig` | logging.py, both filters, and what Python's logging makes of them | functions |
| `AuditRecord` | record.py and publisher.py, up to the producer's encoding | functions |
| `HelperCalls` | callers of the four modules above | component |
| `FakeKafkaProducer` | test_kit/kafka.py in the hands of a test | component |
| `PrometheusFixture` | test_kit/prometheus.py around tests that create and unregister metrics | component |
| `TestSession` | a session of tests that use one or the other | composition |
| `KafkaConsumerProofs`, `KafkaConsumerProcessProofs`, `DeliveryContractProofs`, `KafkaProducerProofs`, `JSONSerializerProofs`, `RequestContextProofs`, `HelperCallsProofs`, `TestSessionProofs` | theorems | proofs |
| `MC_KafkaConsumer`, `MC_KafkaProducer`, `MC_JSONSerializer`, `MC_RequestContext`, `MC_HelperCalls`, `MC_TestSession` | instances for TLC | model checking |

Definitions named `X_Something` just before a definition `X` are mutants: `X` with a
plausible mistake, which some property must notice.

### KafkaConsumer

A member's `pc` is where its process is: `new` (built), `loop` (the test of
`while self._running`), `fetch` (inside `poll`/`consume`), `scan` (looking at the fetched
messages), `handle`, `commit`, `close` (the `finally` clause), `stopped`, `dead`. Steps are
cut where the code leaves the process, since that is where others can act; the scan takes
one message per step because an exception or a signal can arrive between two of them.

| Code | Action |
|---|---|
| `while self._running` 59-60, locals of 117-118 | `LoopEnters`, `LoopEnds` |
| `poll` 94, `consume` 110 | `Assign`, `Lose` (rebalance callbacks run here), `Deliver`, `DeliverError`, `FetchReturns`, `FetchRaises` |
| `_is_valid_message`, `_get_message_payload` 120-133 | `ScanInvalid`, `ScanUndecodable`, `ScanPayload` |
| tests at 95, 99, 135 | `ScanDone` |
| `_handle_payload` 138-155 | `HandlerReturns`, `HandlerRaises` |
| `_commit` 167-169 | `CommitSucceeds`, `CommitRefused` (expelled member), `CommitLost` (request or answer lost) |
| `except KafkaException`, `finally` 61-65 | `Raise`, `OtherException`, `Close` |
| `stop` 67-87 | `Stop` |
| librdkafka's background commit (config.py 34-35) | `AutoCommit` |
| killed, expelled, started again | `Crash`, `Evict`, `Restart` |

`_consume_one` and `_consume_batch` are the same loop with a fetch limit of one or
`batch_max_size`: with one message, lines 95-103 and 120-136 do the same.

History variables (`handled`, `reported`, `called`, `abandoned`) record outcomes; no guard
reads them. `handled` and `reported` are the two outcomes of `_handle_payload`, and
`reported` also holds the messages counted as `decode_error`.

Assumptions on the parts outside the repository: the coordinator gives a partition to one
member at a time and refuses commits of a member it has expelled; rebalance callbacks run
inside `poll`/`consume`; messages already fetched may be delivered to an expelled member;
with auto-commit an offset may be committed as soon as its message was returned, and by
`close()`; a group without committed offset reads from the beginning ('earliest', the
default); a new process waits for its predecessor's session to end before it is started
(it could join at once, but would not get the partition any sooner).

### KafkaProducer

Steps of a thread end where the code calls librdkafka, since there other threads and
librdkafka's own can act. In between, `produce` touches only its locals and
`_dropped_messages`, whose `+= 1` the interpreter lock keeps whole on the CPython versions
the package supports.

| Code | Action |
|---|---|
| `_encode_payload`, `_encode_key` 51-55 | `Reject` (answer, or an exception from the key), `Encode` |
| `Producer.produce` 58-64 | `SubmitAccepted` |
| `except BufferError` 65-69 | `SubmitFull`, `PollFull` |
| `except KafkaException` 70-72 | `SubmitFails` |
| `finally: poll`, `return` 73-76 | `PollReturns` |
| `flush` 78-81 | `Flush`, `FlushServes`, `FlushReturns`, `FlushTimesOut` |
| `_delivery_report` 100-108 | `ServeReports`, part of every `poll` and of `flush` |
| librdkafka and the broker | `Transmit`, `Acknowledged`, `GivenUp` |
| end of the process | `Exit` |

Of librdkafka it is assumed that a message counts against the limits of the queue
(`queue.buffering.max.messages`, and `.kbytes`, which large messages reach first: `SubmitFull`
needs no more than a message in the queue) until its report is served, and that, with
`enable.idempotence`, the messages of a partition are sent in order and at most once. A message
that is given up may have reached the broker all the same. There is one partition.

`ProduceContract` has three variables: the answers, the messages accepted and those that reached
the topic. A call answered with one of `Rejections` (it cannot be encoded) was never submitted;
one that was submitted is answered `ENQUEUED` if librdkafka took its message and with one of
`Failures` if not, so which refusal is given tells a caller how far the call came. Its `Accept`
and `Transmit` say that a message is accepted once, never after its call was refused, and that the
topic receives a subsequence of what was accepted. What this comes to for a caller and for a
reader of the topic is stated beside them: `AnswersAreFinal`, `AnswersAreTrue`, `SentOnceInOrder`.

### JSONSerializer

`is_valid` is one step, since nothing runs beside it: `RejectNonDict`, `RejectSchema`,
`SortRaises` and `Hook` are its ways through `_validate`. An override of `_validate_fields` may
change its argument in place ("normalize values", json_serializer.py:113), add errors, and return
its argument, a new object or None, or raise, each with or without the others, those its docstring
forbids included. A change is one write or deletion per call; the caller may add more. The caller
may assign `initial_data` (as the tests do) and write to the dicts it passed in, of which
`validated_data` may be one. `seen` is a history variable: what the last call was given, and what
the override did, because the dict may be another by the time a property looks at it. A value is
its type, which is all that the checks look at, and a key is a string or an int, which is
all that `sorted(unknown)` can tell apart.

### RequestContext

A thread is `free`, at work for a request `before` the middleware, `inside` `get_response`
or `after` it, or it runs a `task` that a view has started. `Enter` and `Complete` are the
two halves of `__call__`; `Fail` is an exception out of `get_response`, which skips the
second. `Write` is a log record passing through `RequestContextFilter`. Threads are reused
with the context they have, or replaced by new ones; a task runs in a copy of the view's
context or in an empty one. The number of a request stands for its UUID and its duration.

### HelperCalls and the functions without state

`utils_kit`, `audit_kit` and the logging configuration keep no state between calls, so each is a
module of operators, one per function and with its name. `HelperCalls` is their
caller: an initial state holds a call with its arguments, the action of that function returns
the result, and the properties relate the two. TLC thereby compares each function with what
its users rely on, over every argument of the instance.

Values are kinds. For dicts a value is its type, a number that tells values of the type apart,
whether a string has whitespace around it, and whether it stands in a list or a tuple: what
`strip`, `==` and `json.dumps` can tell apart. For payloads and audit records it is one of four
kinds: plain, with tuples (written as lists), refused by JSON, with a lone surrogate (passed on by
JSON, refused by UTF-8). A time is a number in a calendar with a first and a last unit, since its
ends are where the conversion to UTC fails, with a zone that is absent, UTC or an offset. Of
Python's logging, `LoggingConfig` has effective levels (NOTSET is that of the parent),
propagation, the order of handlers, and filters that write attributes on the record they share.

### TestSession

| Code | Action |
|---|---|
| `FakeKafkaProducer.produce` 53-68 | `ProduceForced`, `ProduceRefused`, `ProduceCaptured` |
| `force_result`, `reset` 70-76 | `ForceResult`, `Reset` |
| fixture `fake_kafka_producer` | `FakeFixture`, part of `SetUp` |
| `reset_prometheus_registry` up to its `yield` | `StartTest`, part of `SetUp` |
| the rest of it | `EndTest`, part of `TearDown` |
| the metrics of kafka_kit/metrics.py | `LibraryMetrics`, registered in `RegistryInit` |
| a metric made by a test, or by a module that it imports | `Create` |
| a test unregisters a metric itself | `Unregister` |
| a test changes the dict it has produced | `Change` |

The registry lives as long as the session, the fake as long as its test.
The two fixtures share no state, so a session exercises one of them. The plugin imports
`test_kit.kafka`, and with it `kafka_kit.metrics`, before any test, so those metrics are there from
the start; metrics may also be made outside of tests, at collection. The test they are from is 0.
`created`, `cleaned`, `asked` and `calls` are history variables.

## 3. Runs

| Run | Instance | Shows |
|---|---|---|
| `consumer_group` | 2 members, batches of 2, 1 partition of 2, 2 disturbances | `IInv`; the group implements `DeliveryContract` |
| `consumer_batch` | 1 member, batches of 2 over 2 partitions of 2, 1 disturbance | `TypeOK`, `GracefulStop`, `HandledOncePerAssignment`, `CommitCoversBatch`, and the contract again |
| `consumer_auto` | 2 members, auto-commit, one message per poll, 2 disturbances | `AutoCommitLosesOnlyTheAbandoned` |
| `consumer_live` | 2 members, 1 partition of 1, 2 disturbances, fair | `StopIsObeyed`, `EverythingSettles` |
| `producer` | 2 threads, 3 calls, queue of 2, fair | the producer implements `ProduceContract`; `TypeOK`, `MessageHasOnePlace`, `DroppedIsBufferFull`, `FlushWaits`; `OutcomesAreServed` |
| `serializer_strict` | every payload of 4 keys and 4 types, every outcome of the override | `TypeOK`, `AnswerIsRight`, `HookSeesConforming`, `DataXorErrors` |
| `request_context` | 2 threads, 3 requests, 4 records | `IInv`, `RecordsNameTheirRequest`, `OnlyCompletionIsTimed` |
| `helpers` | every call of the helpers over the values below | normalizing (`SchemaIsIdempotent`, `SchemaLosesOnlyBlanks`), diffs (`DiffRedoesAndUndoes`, `DiffIsSymmetric`, `DiffSeesLostKeysOnly`), `SameMomentSameText`, log lines (`WrittenOnceAndComplete`, `LineNamesOneContext`), `AuditRefusedForCause` |
| `test_kit` | 3 tests, 2 calls of the fake between resets, the 3 metrics of the library and another one | `CapturedAsCalled`, `FakeAnswersLikeProducer`, `RegistryHoldsTheLasting` |
| `consumer_doc_commit` (violated) | 1 member, 1 partition | section 4 |
| `request_doc_reset` (violated) | 1 thread, 2 requests | section 4 |
| `helpers_doc_parse` (violated) | the calendar of `helpers` | section 4 |

Bounds. `MaxLog` bounds the messages of a partition and `MaxFaults` the stops, crashes,
expulsions of live members, lost commits and unexpected exceptions of a run. Two messages
are enough for one to overtake the other's commit, two members for a zombie and its
successor, two disturbances for a member to be expelled and its successor to leave again,
two partitions for a batch that spans them.

Three calls and a queue of two let the queue fill, refuse, drain and accept again while both
threads are under way; `producer` uses no symmetry, as it checks liveness too. Two requests
after another on one thread are enough for a stale context, a third for one that is two
requests old; `MaxRecords` bounds the records that can be related to each other (every
property relates one record to its request). Symmetry of members, partitions and threads is
used in safety runs only.

`helpers` has dicts of up to two keys (a key of both, of one only, required, optional, both or
neither) over 16 values, one for each distinction the helpers make; a calendar of 4 units with
offsets of up to 2, so that both ends are passed in both directions; NOTSET and 3 levels, so that
a record lies below, between and above two thresholds. `serializer_strict` has one dict: calls
follow each other on one payload that caller and override change in between, and
`initial_data` may also be no dict. `test_kit` has 3 tests, so that a test with the fixture stands
between two others, and a metric that some tests create again and others unregister.

Deadlock checking is off where the bounds, or the end of the process, let the system stop: the
producer, the serializer, the request context, the test session, and the helpers, whose calls
return once.

Fairness (`consumer_live`): a process takes its next step (poll has a timeout and the
handler is assumed to terminate, since the loop has no other way out of it); poll serves
rebalances and messages again and again, and returns `None` only if nothing was there for
the whole timeout, hence strong fairness of `Deliver`, `Assign` and `Lose`; the
coordinator expels dead members after `session.timeout.ms`; the supervisor restarts.

Fairness (`producer`): threads inside `produce` or `flush` go on; librdkafka and the
broker answer, at the latest after `delivery.timeout.ms`; a flush serves the reports there
are before it gives up. Nobody has to call anything: that somebody flushes again and again
is the antecedent of `OutcomesAreServed`, because nothing in the library serves reports on
its own.

## 4. Where documentation and code differ

- `consumer_doc_commit`: `start()` "commits offsets if handling succeeds" (consumer.py:53) and
  a failed message is skipped, but Kafka's commits are cumulative: the commit of the next
  good message of the partition covers it. Failed messages are counted, not retried.
  `DeliveryContract` therefore speaks of outcomes and not of handling.
- `request_doc_reset`: the middleware "resets these after the response is sent"
  (demo_observability.py:112); it never does, and the run shows a record with the id of the
  request before. From the entry of the middleware on the id is
  right all the same (`RecordsNameTheirRequest`), but the duration of every record before
  `request completed` is that of an earlier request of the thread, or 0.0.
- `helpers_doc_parse`: `parse_iso8601_utc` "never raises" (demo_utils.py:92), but the conversion
  to UTC stands outside of its `try` (normalization.py:25): a time of the calendar's first or
  last hours, with an offset that leads out of it, raises `OverflowError`.

Met while modelling, without a run of their own:

- `_consume_batch` "Consumes, handles and commits a batch" (consumer.py:107), but passes the
  last valid message only to `commit`: the other partitions of the batch stay uncommitted until
  a batch ends in them, and a restart before that handles their messages again. Nothing is lost
  (`consumer_batch`). `CommitCoversBatch` therefore speaks of the partition of the last message.
- `to_iso8601_utc` raises in the same hours, for a datetime at line 40 and for a str at line 25,
  while the demo says of it too that it "never raises" (demo_utils.py:49, :79).
  `SameMomentSameText` says for which times: if one zone's reading of a moment raises, all do,
  and a naive time or one at UTC never does.
- `_validate` "Must not raise exceptions for validation errors" and collects them in `_errors`
  (json_serializer.py:41-42), but with unknown keys of two types, a string and an int, the
  `sorted(unknown)` of line 101 raises `TypeError` (`SortRaises`). `is_valid` has then reset the
  errors and kept the data of the call before, so a caller that catches the exception sees old
  data and no errors. JSON text has string keys only: this takes a payload built in Python.
  `AnswerIsRight` and `DataXorErrors` speak of calls that return.
- An optional field that is None is "silently omitted from validated_data"
  (demo_serializers.py:34); it passes the checks (`Conforms` has it so, after line 84) and is kept,
  since the default `_validate_fields` returns the payload itself.
- `validated_data` is the payload itself unless an override builds a new object: who goes on
  writing to the dict that was passed in changes what was validated. No doc promises a copy, so
  no property speaks of what `validated_data` holds later.
- An override that returns None without an error leaves `is_valid()` True and makes
  `validated_data` raise "Call is_valid() before" (base_serializer.py:21-22); it breaks
  json_serializer.py:117, and `DataXorErrors` describes what happens.
- A second `validate()` of one `BaseValidator` starts from the errors of the first. No doc or
  test says whether a validator is for one use.
- `django_level` is "Ignored when include_django=False" (logging.py:14), but line 55 gives it to
  the root logger in any case; the model does.
- The fake's `raw` is "the JSON string that would have been sent over the wire"
  (test_kit/kafka.py:35), but it never encodes to UTF-8: it
  accepts a lone surrogate that the real producer refuses in a payload and raises for in a key
  (`FakeAnswersLikeProducer` says so). A forced `ENQUEUED` captures nothing.

## 5. What is proved

All theorems hold for any number of members, partitions, threads, requests, any schema and
any bounds. They rest on the named assumptions of the modules about their constants.

- `KafkaConsumerProofs`, for groups that commit manually. `IInv` is `TypeOK` with `ReadWindow`
  (the owner of a partition has read at least what is committed, and what lies between the two is
  settled or in its hands), `HeldMessages` (what an iteration holds was read from the log and is
  not committed yet), `Locals` (the batch and the last valid message belong to this iteration) and
  `CommittedIsSettled`. `CommittedIsSettled` alone is not inductive: that a commit covers only
  settled messages depends on what its member has read, since a commit says nothing but an offset.
  `LocalStep` treats the steps that stay inside a process, `AcceptedCommit` the commits, a late
  one of an expelled member among them. From `InvariantHolds` follow `CommittedHaveOutcome`,
  `CommitsNeverRegress`, and `Implements`: every step of the group is a step of `DeliveryContract`
  or leaves its variables alone (`ContractStep`).
- `DeliveryContractProofs`: the contract implies `CommittedSettled` and `CommitsAdvance`, so
  everything that implements it has them.
- `KafkaConsumerProcessProofs`, for groups of either way of committing. `IInv` does not hold with
  auto-commit, but the part of it that speaks of one process does: `LoopInv` is `TypeOK`, `Locals`
  and `Fetched` (what an iteration holds lies behind the position), and `LoopInvHolds` has no
  premise. On it rest three theorems. `StopsAreGraceful` looks at the step that ends a loop
  (`StoppingStep`). `HandledOnce` needs that everything given to the handler lies behind the
  position of its partition, and that what a fetch holds is not among it (`Once`), which a
  rebalance keeps because it forgets both. `CommitsCover` needs that a partition's messages are
  fetched and collected in the order of the log, so that the last one has the highest offset of
  its partition (`Ordered`), and that a loop goes on after `commit` only if the broker has
  accepted it (`CommittedStep`).
- The same module, on what is committed. `OnlyTheAbandonedIsLost` follows from `IInv` for manual
  commits. For auto-commit its invariant `AutoInv` says of positions what the property says of
  offsets, since auto-commit takes the one for the other, and that a process which is in none of
  `fetch`, `scan`, `handle` holds nothing open (`AutoLocals`). That offsets do not go back with
  auto-commit is left to the coordinator, which refuses the commits of expelled members; nothing in
  consumer.py bears on it, and no property speaks of it.
- `KafkaProducerProofs`: `ProducerInv` is `TypeOK` with `Callers` (a call under way is its
  thread's own, and pending), `Order` (the queue is the end of what was accepted, and what was
  sent of it its beginning), `Places` (each accepted message is in the queue, reported,
  delivered or failed, and in one of them) and `Waits` (what a flush waits for). `Order` is what
  makes `Transmit` send in order, `Callers` what makes an answer final; without either, the
  refinement `Implements` fails. `MessagesHaveOnePlace` and `FlushesWait` follow from it;
  `DropsAreCounted` counts threads and therefore uses that there are finitely many. Three more
  theorems say what the contract comes to and are proved from its steps: `AnswersAreTruthful`,
  `SentOnceAndInOrder` (each message of the topic is found further on in the order of acceptance
  than the one before it) and `AnswersStay`.
- `JSONSerializerProofs`: lemma `SchemaErrorsFindsAll`, the checks of `_validate` find an error
  exactly in the payloads that do not conform to the declared schema; with it
  `AnswersAreRight`, `HooksSeeConforming` and `DataAndErrorsApart`, for every schema, override and
  order of calls and writes, and `TypeCorrect`. The invariant (`InvariantHolds`) is that what a
  call left behind depends on what it was given and on what the override did, and on no later
  write to the dict.
- `RequestContextProofs`: `InvariantHolds`, `RecordsAreNamed` and `CompletionIsTimed`. The
  strengthening is `ContextOfRequest`: what the context of each thread holds at each point,
  because the log only repeats it.
- `HelperCallsProofs`: nine theorems, for any dicts, schemas, options, values, calendar, offsets,
  records and configurations. Each rests on lemmas about the functions alone and on the
  invariant `Computed`: what was returned is the function's value for the arguments. The lemmas are
  `NormalizedTwice`, `ValueIsKept`, `DiffRestores`, `DiffExchanged`, `DiffOverOldKeys` and
  `TextOfAnyZone`; for log lines (`LinesAreWrittenOnce`, `LinesNameOneContext`) those on the path of
  a record: the level of its logger's family, the one handler that it reaches, and what the filter
  of that handler sets.
- `TestSessionProofs`: `RegistryInv` adds to `RegistryHoldsTheLasting` that tests are numbered
  in their order and that the snapshot is what lasts (`SnapshotLasts`: without it a teardown could
  take anything away). `FakeInv` adds that the fake is forced to what the
  test has asked for since the last reset; with it `FakeIsFaithful`. `CapturesAreCalls` maps each
  captured message to the call it comes from, and keeps the map growing with the calls.

Only model-checked: liveness, which is out of the prover's reach (`StopIsObeyed`,
`EverythingSettles`, `OutcomesAreServed`). Every other property that a passing run checks is stated
by a theorem.

## 6. Not modelled

- Consumer: contents of messages and the flattening of JSON arrays in a batch (an empty array
  leads to `handle([])`); the values of the counters and latencies of `kafka_kit.metrics` (that
  each failed message is counted is `reported`); offset reset 'latest'; `start()` called twice on
  one object; what `CeleryPayloadHandler` does, which is one call of a Celery task.
- Producer: several partitions of its topic; data too deep for `json.dumps`.
- Serializers: `BaseValidator`, a list of errors that `validate` only lets grow and an abstract
  method: a model would repeat its two lines.
- Metrics: `metrics_view` chooses the registry that `prometheus_client` renders, that of the process
  or the files of all processes in multiprocess mode, and keeps no state; the rendering is external.
- Logging and audit: options of the formatters; the random values of `audit_record_factory`,
  whose records are among those of `AuditRecord`.
- Utilities: tuples that hold NaN, whose equality is a matter of identity.
- `examples/` shows how the library is used; its statements about the code are quoted in
  section 4, and its programs are callers like those the models have.

## 7. Plan

Done: the consumer group, the producer, the JSON serializer, the request context, the functions
without state, the test kit, and proofs about each. What is left, in order of importance:

1. Batches with elements: payloads that are arrays, so that `handle([])` and what it commits can
   be stated, and the counters of `kafka_kit.metrics` as part of `KafkaConsumer`.
2. An end-to-end module: `publish_audit_event`, `KafkaProducer`, the topic and a consumer group,
   with `ProduceContract` and `DeliveryContract` composed.
3. 'latest' offset reset, with the loss it allows stated exactly.
4. Proofs: what the composition of 2 promises from end to end, from the two contracts.
