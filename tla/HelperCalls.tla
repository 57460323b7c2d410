----------------------------- MODULE HelperCalls -----------------------------
(***************************************************************************)
(* A caller of the library's functions without state: it has chosen a      *)
(* function and its arguments (call), and gets the result.  The properties *)
(* relate the two; nothing is said of calls still pending.                 *)
(***************************************************************************)
EXTENDS DictTools, IsoTime, LoggingConfig, AuditRecord

CONSTANTS DictKeys,     \* keys of dicts
          Values,       \* Python values, for dicts and normalize_str()
          Levels        \* log levels, 0 is NOTSET

ASSUME HelperAssumption == Values \subseteq PyValues /\ Levels \subseteq Nat

VARIABLES call, returned, result

vars == <<call, returned, result>>

Schemas == [required : SUBSET DictKeys, optional : SUBSET DictKeys]

LoggingCalls ==
    [op : {"log"}, django_level : Levels, celery_level : Levels,
     include_django : BOOLEAN, include_celery : BOOLEAN,
     logger : LoggerNames, level : Levels, situation : CelerySituations]

Init ==
    /\ returned = FALSE /\ result = <<>>
    /\ \/ call \in [op : {"normalize_schema"}, data : Dicts(DictKeys, Values),
                    schema : Schemas, options : Options]
       \/ call \in [op : {"normalize_str"}, value : {v \in Values : IsString(v)},
                    allow_blank : BOOLEAN]
       \/ call \in [op : {"diff_dicts"}, old : Dicts(DictKeys, Values), new : Dicts(DictKeys, Values)]
       \/ call \in [op : {"parse_iso8601_utc"}, stamp : {s \in Stamps : s.type = "str"}]
       \/ call \in [op : {"to_iso8601_utc"}, stamp : Stamps]
       \/ call \in LoggingCalls
       \/ call \in [op : {"publish_audit_event"}, record : Records]

Return(op, value) ==
    /\ call.op = op
    /\ ~returned
    /\ returned' = TRUE /\ result' = value
    /\ UNCHANGED call

NormalizeSchema(schema) ==
    Return("normalize_schema",
           normalize_schema(call.data, schema.required, schema.optional, call.options))

NormalizeStr == Return("normalize_str", normalize_str(call.value, call.allow_blank))

DiffDicts == Return("diff_dicts", diff_dicts(call.old, call.new))

ParseTime == Return("parse_iso8601_utc", parse_iso8601_utc(call.stamp))

FormatTime == Return("to_iso8601_utc", to_iso8601_utc(call.stamp))

Configured == get_json_logging_config(call.django_level, call.celery_level,
                                      call.include_django, call.include_celery)

Log == Return("log", Lines(Configured, call.logger, call.level, call.situation))

Publish == Return("publish_audit_event", publish_audit_event(call.record))

Next ==
    \/ call.op = "normalize_schema" /\ NormalizeSchema(call.schema)
    \/ NormalizeStr \/ DiffDicts \/ ParseTime \/ FormatTime \/ Log \/ Publish

Spec == Init /\ [][Next]_vars

Answered(op) == call.op = op /\ returned

-----------------------------------------------------------------------------
(* Properties of normalize_schema() and normalize_str()                    *)

\* Normalizing what is normalized changes nothing and finds the same fields
\* missing: services may do so at each layer (dicts.py:29-55).
SchemaIsIdempotent ==
    Answered("normalize_schema") =>
        normalize_schema(result.normalized, call.schema.required,
                         call.schema.optional, call.options) = result

\* Nothing is lost but None and blank strings of fields that are only optional:
\* 0 and False are kept; nothing undeclared comes in, and whitespace is all
\* that changes; what normalize_str() calls absent is what an optional field
\* loses by default (dicts.py:19-21, normalization.py:5-9).
SchemaLosesOnlyBlanks ==
    Answered("normalize_schema") =>
        LET data == call.data
            declared == DOMAIN data \cap (call.schema.required \cup call.schema.optional)
            kept == DOMAIN result.normalized IN
        /\ kept \subseteq declared
        /\ \A f \in declared \ kept :
              /\ f \notin call.schema.required
              /\ \/ IsNone(data[f])
                 \/ IsString(data[f]) /\ normalize_str(data[f], FALSE) = NoneValue
        /\ \A f \in kept : Strip(result.normalized[f]) = Strip(data[f])
        /\ \A f \in kept \ call.schema.required :
              call.options = [o \in DOMAIN call.options |-> TRUE] /\ IsString(data[f])
                  => normalize_str(data[f], FALSE) = result.normalized[f]

-----------------------------------------------------------------------------
(* Properties of diff_dicts()                                              *)

Override(dict, changes) ==
    [k \in DOMAIN dict |-> IF k \in DOMAIN changes THEN changes[k] ELSE dict[k]]

\* Nobody who reads the two as JSON sees a difference, or they differ as
\* True differs from 1.
LooksSame(a, b) ==
    \/ a = b
    \/ JSONText(a) = JSONText(b)
    \/ a.box = b.box /\ a.box # "list" /\ {a.type, b.type} \subseteq Numeric /\ a.num = b.num

\* `after' redoes the change and `before' undoes it, which is what an audit
\* record of them is kept for: the old dict with `after' is the new one, the
\* new one with `before' is the old one, on the keys of both (dicts.py:79-93).
DiffRedoesAndUndoes ==
    Answered("diff_dicts") /\ ~result.raised =>
        \A k \in DOMAIN call.old \cap DOMAIN call.new :
            /\ LooksSame(Override(call.old, result.after)[k], call.new[k])
            /\ LooksSame(Override(call.new, result.before)[k], call.old[k])

\* Exchanging the snapshots exchanges before and after, and nothing else
\* (dicts.py:83-91).
DiffIsSymmetric ==
    Answered("diff_dicts") /\ DOMAIN call.old = DOMAIN call.new =>
        diff_dicts(call.new, call.old)
            = [raised |-> result.raised, changed |-> result.changed,
               before |-> result.after, after |-> result.before]

\* Snapshots of different schemas: a key that is gone is never passed over in
\* silence, a key that is new always is (dicts.py:79-81).
DiffSeesLostKeysOnly ==
    Answered("diff_dicts") =>
        IF DOMAIN call.old \subseteq DOMAIN call.new
        THEN result = diff_dicts(call.old, [k \in DOMAIN call.old |-> call.new[k]])
        ELSE result.raised

-----------------------------------------------------------------------------
(* Properties of the ISO conversions                                       *)

\* The stamp as a clock shows it d units further east, at the same moment.
SeenFrom(s, d) == [s EXCEPT !.local = @ + d, !.offset = @ + d]

\* The text of to_iso8601_utc() for a datetime, or for a str that spells one,
\* depends on the moment and not on the zone it was told in: all zones give the
\* same text, or all raise; a naive time, and one at UTC, keeps its clock reading.
\* Reading the text back neither raises nor moves it, however often it goes through
\* a service (normalization.py:12-52).
SameMomentSameText ==
    Answered("to_iso8601_utc")
    /\ call.stamp.type \in {"datetime", "str"} /\ call.stamp.form = "datetime" =>
        LET s == call.stamp
            text == result.value IN
        /\ s.zone = "offset" =>
              \A d \in -2 * MaxOffset .. 2 * MaxOffset :
                 SeenFrom(s, d) \in Stamps => to_iso8601_utc(SeenFrom(s, d)) = result
        /\ s.zone # "offset" \/ s.offset = 0 => ~result.raised /\ text.local = s.local
        /\ ~result.raised =>
              /\ <<text.type, text.form, text.zone>> = <<"str", "datetime", "utc">>
              /\ to_iso8601_utc(text) = Returned(AtUTC("str", text.local, FALSE))
              /\ ~parse_iso8601_utc(text).raised
              /\ parse_iso8601_utc(text).value.local = text.local

\* What demo_utils.py:92 says of parse_iso8601_utc(): it never raises.
ParseNeverRaises == Answered("parse_iso8601_utc") => ~result.raised

-----------------------------------------------------------------------------
(* Properties of the logging configuration                                 *)

OfCelery(logger) == call.include_celery /\ logger \in {"celery", "celery.task"}

\* A record at or above the level asked for its family of loggers is written
\* exactly once, with every field of its line set by a filter; one below never.
\* NOTSET for celery asks for the level of the others (logging.py:38-89).
WrittenOnceAndComplete ==
    Answered("log") =>
        LET threshold == IF OfCelery(call.logger) /\ call.celery_level # 0
                         THEN call.celery_level ELSE call.django_level IN
        /\ Len(result) = IF call.level >= threshold THEN 1 ELSE 0
        /\ \A i \in DOMAIN result : \A f \in DOMAIN result[i] : result[i][f] # "null"

\* A line names the request or the task, never both: the task for the loggers of
\* celery, and only while it runs, with an id if a worker runs it; the request for
\* all others, even inside a task (logging.py:75, filters.py:23-36).
LineNamesOneContext ==
    Answered("log") =>
        \A i \in DOMAIN result :
            IF OfCelery(call.logger)
            THEN /\ DOMAIN result[i] = {"task_id", "task_name"}
                 /\ result[i]["task_id"] = "the task" <=> call.situation = "task"
                 /\ result[i]["task_name"] = "the task" <=>
                       call.situation \in {"task", "called directly"}
            ELSE \A f \in DOMAIN result[i] : result[i][f] = "the request"

-----------------------------------------------------------------------------
(* A property of publish_audit_event()                                     *)

\* Publishing never raises, although the producer encodes keys outside of its try
\* statement: the key is part of the payload, which is encoded first.  It is
\* refused only for what JSON or UTF-8 cannot hold, and never for the type of a
\* user's id (publisher.py:12-15, record.py:21-30, producer.py:51-55).
AuditRefusedForCause ==
    Answered("publish_audit_event") =>
        LET r == call.record
            written == {r.entity_id, r.details}
                       \cup IF r.actor = "user" THEN {} ELSE {r.given_id} IN
        result = IF \/ "unserializable" \in written
                    \/ "surrogate" \in written
                           \cup {r.given_id, r.entity_type, r.event_type}
                 THEN "SERIALIZATION_FAILED" ELSE "encoded"

=============================================================================
