--------------------------- MODULE MC_JSONSerializer ---------------------------
(* JSONSerializer with a required field of two types and an optional one. *)
EXTENDS JSONSerializer

MCRequired == [name |-> {"int", "str"}]
MCOptional == [note |-> {"str"}]
MCTypes == {"str", "int", "bool", "none"}

MCAnyHook == Outcomes

=============================================================================
