----------------------------- MODULE AuditRecord -----------------------------
(***************************************************************************)
(* AuditRecord and publish_audit_event() (audit_kit): what becomes of the  *)
(* values a service puts into a record on their way to the producer.  A    *)
(* value is one of the Payloads; occurred_at, audit_event_id and the two   *)
(* enumerations are always written as text.                                *)
(***************************************************************************)
EXTENDS ProduceEncoding

\* str(value): only a surrogate is still there.
Str(value) == IF value = "surrogate" THEN value ELSE "plain"

\* Mutant: AuditActor.user() keeps the id as given (line 22).
ActorId_AsGiven(type, id) == id

\* The id of AuditActor.user(id), .system(id), .external(id)
ActorId(type, id) == IF type = "user" THEN Str(id) ELSE id

\* An AuditRecord: of an actor, an entity, for an event, with details.
Records == [actor : {"user", "system", "external"}, given_id : Payloads,
            entity_type : Keys, entity_id : Payloads, event_type : Keys,
            details : Payloads]

to_record(record) ==
    [actor_id    |-> ActorId(record.actor, record.given_id),
     entity_type |-> record.entity_type,
     entity_id   |-> record.entity_id,
     event_type  |-> record.event_type,
     details     |-> record.details]

\* What json.dumps() and encode() make of a dict of such values.
DictOf(fields) ==
    LET values == {fields[f] : f \in DOMAIN fields} IN
    CASE "unserializable" \in values -> "unserializable"
      [] "unserializable" \notin values /\ "surrogate" \in values -> "surrogate"
      [] OTHER -> IF "tuples" \in values THEN "tuples" ELSE "plain"

\* The answer of the producer's encoding; the key is the event_type.
publish_audit_event(record) ==
    Encoding(DictOf(to_record(record)), record.event_type)

=============================================================================
