--------------------------- MODULE ProduceEncoding ---------------------------
(***************************************************************************)
(* What KafkaProducer.produce() does before it submits anything: encoding  *)
(* the payload and the key (kafka_kit/producer.py).                        *)
(*                                                                         *)
(* What a value can be: "plain"; "tuples", which JSON writes as lists;     *)
(* "unserializable", which json.dumps() refuses; "surrogate", a string     *)
(* with a lone surrogate, which json.dumps() passes on and encode()        *)
(* refuses.  Of keys that are not strings str() is taken.  Data too deep   *)
(* for json.dumps(), which raises RecursionError, is left out.             *)
(***************************************************************************)

Payloads == {"plain", "tuples", "unserializable", "surrogate"}
Keys == {"plain", "surrogate"}

\* json.dumps() succeeds.
Dumps(payload) == payload # "unserializable"

\* UnicodeEncodeError is a ValueError, caught for the payload and not for the key.
Encoding(payload, key) ==
    CASE ~Dumps(payload) \/ payload = "surrogate" -> "SERIALIZATION_FAILED"
      [] Dumps(payload) /\ payload # "surrogate" /\ key = "surrogate" -> "raised"
      [] OTHER -> "encoded"

=============================================================================
