---------------------------- MODULE JSONSerializer ----------------------------
(***************************************************************************)
(* One JSONSerializer object (json_serializer.py, base_serializer.py) and  *)
(* the code that uses it: it calls is_valid() any number of times, assigns *)
(* initial_data in between, and goes on using the dict it passed in.       *)
(*                                                                         *)
(* A value is its type.  The override of _validate_fields() is external:   *)
(* it may change its argument in place, one field at a time, add errors,   *)
(* and return its argument, as the default does, or a new object, or break *)
(* its contract by returning None or raising; each with or without the     *)
(* others.                                                                 *)
(***************************************************************************)
EXTENDS Naturals, FiniteSets

CONSTANTS Names, Numbers,       \* the strings and the ints used as keys
          Required, Optional,   \* field -> its expected types
          Strict,               \* STRICT_SCHEMA
          Types,
          Objects,              \* the dicts passed in
          NotADict,             \* a payload that is not a dict
          Hooks                 \* what the override does, see Outcomes

Fields == Names \cup Numbers

Payloads == UNION {[F -> Types] : F \in SUBSET Fields}
Schemas == UNION {[F -> SUBSET Types] : F \in SUBSET Names}

\* How a call of the override ends, and whether it has added errors.
Outcomes == [ends : {"same", "new", "none", "raises"}, adds : BOOLEAN]
Unused == [ends |-> "unused", adds |-> FALSE]

ASSUME SchemaAssumption ==
    /\ Names \cap Numbers = {}
    /\ NotADict \notin Objects \cup Payloads
    /\ {"None", "new"} \cap Objects = {}
    /\ Required \in Schemas
    /\ Optional \in Schemas
    /\ Strict \in BOOLEAN
    /\ {"int", "bool", "none"} \subseteq Types
    /\ Hooks \subseteq Outcomes

VARIABLES
    content,        \* what each dict holds: field -> type of its value
    initial_data,   \* a dict, or something that is not one
    errors,         \* keys of self._errors
    validated_data, \* None, a dict, or "new", an object made by the hook
    answer,         \* of the last call of is_valid()
    seen            \* what the last call was given, and what the hook did

vars == <<content, initial_data, errors, validated_data, answer, seen>>

NonField == "non_field_errors"

TypeOK ==
    /\ content \in [Objects -> Payloads]
    /\ initial_data \in Objects \cup {NotADict}
    /\ errors \subseteq Names \cup {NonField, "hook"}
    /\ validated_data \in Objects \cup {"None", "new"}
    /\ answer \in {"unasked", "valid", "invalid", "raised"}
    /\ seen \in [dict : Objects \cup {NotADict}, data : Payloads \cup {NotADict},
                 hook : Outcomes \cup {Unused}]

Init ==
    /\ content \in [Objects -> Payloads]
    /\ initial_data \in Objects \cup {NotADict}
    /\ errors = {}
    /\ validated_data = "None"
    /\ answer = "unasked"
    /\ seen = [dict |-> NotADict, data |-> NotADict, hook |-> Unused]

-----------------------------------------------------------------------------
(* _validate()                                                             *)

\* isinstance(): bool is a subclass of int.
IsInstance(type, expected) ==
    type \in expected \/ (type = "bool" /\ "int" \in expected)

\* Mutant: None passes for any field (line 84).
FieldErrors_NoneAlways(data, fields, required) ==
    {f \in DOMAIN fields :
        IF f \in DOMAIN data
        THEN data[f] # "none" /\ ~IsInstance(data[f], fields[f])
        ELSE required}

\* The keys that _validate_field_map() puts into _errors.
FieldErrors(data, fields, required) ==
    {f \in DOMAIN fields :
        IF f \in DOMAIN data
        THEN (data[f] = "none" => required) /\ ~IsInstance(data[f], fields[f])
        ELSE required}

Unknown(data) == DOMAIN data \ (DOMAIN Required \cup DOMAIN Optional)

\* _validate_no_unknown_fields(): sorted() compares no string with an int.
Unsortable(data) ==
    Strict /\ Unknown(data) \cap Names # {} /\ Unknown(data) \cap Numbers # {}

\* Mutant: each unknown field gets an error of its own (line 101).
SchemaErrors_PerField(data) ==
    FieldErrors(data, Required, TRUE) \cup FieldErrors(data, Optional, FALSE)
    \cup IF Strict THEN Unknown(data) ELSE {}

SchemaErrors(data) ==
    FieldErrors(data, Required, TRUE) \cup FieldErrors(data, Optional, FALSE)
    \cup IF Strict /\ Unknown(data) # {} THEN {NonField} ELSE {}

-----------------------------------------------------------------------------
(* is_valid()                                                              *)

\* What a call is given, as it is then.
Sees(hook) ==
    seen' = [dict |-> initial_data,
             data |-> IF initial_data = NotADict THEN NotADict ELSE content[initial_data],
             hook |-> hook]

\* Mutant: errors of the call before are kept (base_serializer.py:30).
Returns_Accumulates(newErrors, value, hook) ==
    /\ errors' = errors \cup newErrors
    /\ validated_data' = value
    /\ answer' = IF errors' = {} THEN "valid" ELSE "invalid"
    /\ Sees(hook)

\* The end of a call of is_valid(): its errors, and the value of _validate().
Returns(newErrors, value, hook) ==
    /\ errors' = newErrors
    /\ validated_data' = value
    /\ answer' = IF newErrors = {} THEN "valid" ELSE "invalid"
    /\ Sees(hook)

\* _validate() raises: _errors is new, _validated_data what it was.
Raises(newErrors, hook) ==
    /\ errors' = newErrors
    /\ answer' = "raised"
    /\ Sees(hook)
    /\ UNCHANGED validated_data

RejectNonDict ==
    /\ initial_data = NotADict
    /\ Returns({NonField}, "None", Unused)
    /\ UNCHANGED <<content, initial_data>>

RejectSchema ==
    /\ initial_data # NotADict
    /\ LET data == content[initial_data] IN
          /\ ~Unsortable(data)
          /\ SchemaErrors(data) # {}
          /\ Returns(SchemaErrors(data), "None", Unused)
    /\ UNCHANGED <<content, initial_data>>

SortRaises ==
    /\ initial_data # NotADict
    /\ LET data == content[initial_data] IN
          /\ Unsortable(data)
          /\ Raises(SchemaErrors(data) \ {NonField}, Unused)
    /\ UNCHANGED <<content, initial_data>>

\* Mutant: the override is called whatever the schema says (line 60).
CallsHook_InAnyCase ==
    /\ initial_data # NotADict
    /\ ~Unsortable(content[initial_data])

CallsHook ==
    /\ initial_data # NotADict
    /\ ~Unsortable(content[initial_data])
    /\ SchemaErrors(content[initial_data]) = {}

\* What a dict may be after one write or deletion.
Put(data, field, type) ==
    [f \in DOMAIN data \cup {field} |-> IF f = field THEN type ELSE data[f]]
Delete(data, field) == [f \in DOMAIN data \ {field} |-> data[f]]

Changes(data) ==
    {Put(data, field, type) : field \in Fields, type \in Types}
    \cup {Delete(data, field) : field \in DOMAIN data}

\* Mutant: what the override returns is stored in spite of its errors (line 64).
HookEnds_StoresAnyway(hook) ==
    LET added == IF hook.adds THEN {"hook"} ELSE {} IN
    CASE hook.ends = "same" -> Returns(added, initial_data, hook)
      [] hook.ends = "new" -> Returns(added, "new", hook)
      [] hook.ends = "none" -> Returns(added, "None", hook)
      [] hook.ends = "raises" -> Raises(added, hook)

HookEnds(hook) ==
    LET added == IF hook.adds THEN {"hook"} ELSE {} IN
    CASE hook.ends = "raises" -> Raises(added, hook)
      [] hook.ends # "raises" /\ hook.adds -> Returns(added, "None", hook)
      [] hook.ends = "same" /\ ~hook.adds -> Returns(added, initial_data, hook)
      [] hook.ends = "new" /\ ~hook.adds -> Returns(added, "new", hook)
      [] hook.ends = "none" /\ ~hook.adds -> Returns(added, "None", hook)

\* The override is given the caller's dict and leaves it as it was or changed.
Hook(hook) ==
    /\ CallsHook
    /\ HookEnds(hook)
    /\ \/ UNCHANGED content
       \/ \E data \in Changes(content[initial_data]) :
             content' = [content EXCEPT ![initial_data] = data]
    /\ UNCHANGED initial_data

-----------------------------------------------------------------------------
(* The caller                                                              *)

Assign(data) ==
    /\ initial_data' = data
    /\ UNCHANGED <<content, errors, validated_data, answer, seen>>

\* validated_data may be this very dict.
Write(o) ==
    /\ \E data \in Changes(content[o]) : content' = [content EXCEPT ![o] = data]
    /\ UNCHANGED <<initial_data, errors, validated_data, answer, seen>>

Next ==
    \/ RejectNonDict \/ RejectSchema \/ SortRaises
    \/ \E hook \in Hooks : Hook(hook)
    \/ \E data \in Objects \cup {NotADict} : Assign(data)
    \/ \E o \in Objects : Write(o)

Spec == Init /\ [][Next]_vars

-----------------------------------------------------------------------------
(* Properties                                                              *)

\* A payload conforms when the typing rules of the docstring hold
\* (json_serializer.py:31-38), counting a bool as an int.
Conforms(data) ==
    /\ DOMAIN Required \subseteq DOMAIN data
    /\ Strict => DOMAIN data \subseteq DOMAIN Required \cup DOMAIN Optional
    /\ \A f \in DOMAIN data :
         LET ok(fields) == \E t \in fields[f] :
                data[f] = t \/ <<data[f], t>> = <<"bool", "int">> IN
         /\ f \in DOMAIN Required => ok(Required)
         /\ f \in DOMAIN Optional => ok(Optional) \/ data[f] = "none"

\* The answer of a call is that of the schema and the hook for the data as it
\* was then, whatever earlier calls said and whatever the hook made of it
\* (base_serializer.py:29-32).
AnswerIsRight ==
    answer \in {"valid", "invalid"} =>
        (answer = "valid" <=> /\ seen.data # NotADict
                              /\ Conforms(seen.data)
                              /\ ~seen.hook.adds)

\* The override can rely on what it is given, as its docstring says: however often
\* is_valid() is called, and after whatever the caller or an earlier override made
\* of the dict, it is called for the payloads that conform and for no others,
\* calls that raise included (json_serializer.py:54-63, 107-110).
HookSeesConforming ==
    answer # "unasked" =>
        (seen.hook # Unused <=> seen.data # NotADict /\ Conforms(seen.data))

\* A call that returned shows its own data or its own errors, never both, and
\* nothing of another call: the dict it was given, or what the override made of it
\* (base_serializer.py:18-32).  An override that returned None without an error
\* leaves neither.
DataXorErrors ==
    /\ answer = "invalid" => errors # {} /\ validated_data = "None"
    /\ answer = "valid" =>
          /\ errors = {}
          /\ validated_data = CASE seen.hook.ends = "same" -> seen.dict
                                [] seen.hook.ends = "new" -> "new"
                                [] OTHER -> "None"

=============================================================================
