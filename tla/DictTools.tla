------------------------------ MODULE DictTools ------------------------------
(***************************************************************************)
(* The helpers of utils_kit that work on dicts: normalize_schema() and     *)
(* diff_dicts() (dicts.py), json_equal() (json.py), and normalize_str()    *)
(* (normalization.py).  They keep no state.  A dict is a function on its   *)
(* keys.                                                                   *)
(*                                                                         *)
(* A Python value is a record: its type, a number that tells values of the *)
(* type apart (0 is '', 0 or False), whether a string has whitespace       *)
(* around it, and whether the value stands alone or is the only element of *)
(* a list or of a tuple.  "nan" is the float that differs from itself,     *)
(* "object" anything that json.dumps() refuses, a datetime for instance.   *)
(* Whether tuples with NaN are equal is a matter of identity: none is      *)
(* given to diff_dicts().                                                  *)
(***************************************************************************)
EXTENDS Naturals

Numeric == {"int", "bool"}

PyValues == [type : Numeric \cup {"str", "none", "nan", "object"},
             num : 0 .. 1, padded : BOOLEAN, box : {"bare", "list", "tuple"}]

Dicts(keys, values) == UNION {[K -> values] : K \in SUBSET keys}

IsString(v) == v.type = "str" /\ v.box = "bare"
IsNone(v) == v.type = "none" /\ v.box = "bare"

\* str.strip(), on strings only
Strip(v) == IF IsString(v) THEN [v EXCEPT !.padded = FALSE] ELSE v

\* value == ''
IsEmptyString(v) == IsString(v) /\ v.num = 0 /\ ~v.padded

-----------------------------------------------------------------------------
(* normalize_str(), normalize_schema()                                     *)

NoneValue == [type |-> "none", num |-> 0, padded |-> FALSE, box |-> "bare"]

normalize_str(v, allow_blank) ==
    IF IsEmptyString(Strip(v)) /\ ~allow_blank THEN NoneValue ELSE Strip(v)

Options == [strip_strings : BOOLEAN, drop_optional_none : BOOLEAN,
            drop_optional_blank_strings : BOOLEAN]

Prepared(v, options) == IF options.strip_strings THEN Strip(v) ELSE v

\* Mutant: `if not value' instead of value == '' (line 50).
Dropped_Falsy(v, options) ==
    \/ options.drop_optional_none /\ IsNone(v)
    \/ /\ options.drop_optional_blank_strings
       /\ v.box = "bare" /\ v.num = 0 /\ v.type \in Numeric \cup {"str"}

\* What the second loop leaves out of the optional fields.
Dropped(v, options) ==
    \/ options.drop_optional_none /\ IsNone(v)
    \/ options.drop_optional_blank_strings /\ IsEmptyString(v)

\* Mutant: the tests come before the value is stripped (lines 44-51).
normalize_schema_TestsFirst(data, required, optional, options) ==
    LET kept == (required \cap DOMAIN data) \cup
                {f \in optional \cap DOMAIN data : ~Dropped(data[f], options)} IN
    [normalized |-> [f \in kept |-> Prepared(data[f], options)],
     errors |-> required \ DOMAIN data]

\* A field that is required and optional is copied by the first loop; the
\* second can only copy the same value again.
normalize_schema(data, required, optional, options) ==
    LET kept == (required \cap DOMAIN data) \cup
                {f \in optional \cap DOMAIN data :
                    ~Dropped(Prepared(data[f], options), options)} IN
    [normalized |-> [f \in kept |-> Prepared(data[f], options)],
     errors |-> required \ DOMAIN data]

-----------------------------------------------------------------------------
(* json_equal(), diff_dicts()                                              *)

\* json.dumps(): tuples are written as lists.  Strings, numbers, True, None
\* and NaN are all written differently.
JSONText(v) == [type |-> v.type, num |-> v.num, padded |-> v.padded,
                array |-> v.box # "bare"]

is_json_serializable(v) == v.type # "object"

json_equal(a, b) == JSONText(a) = JSONText(b)

\* Python's ==, where True is 1 and NaN is nothing.
PyEqual(a, b) ==
    /\ a.box = b.box
    /\ a.num = b.num
    /\ \/ {a.type, b.type} \subseteq Numeric
       \/ a.type = b.type /\ a.type # "nan" /\ a.padded = b.padded

\* Mutant: only the old value is looked at (line 83).
ComparesAsJSON_OldOnly(a, b) == a.box = "list"

ComparesAsJSON(a, b) == "list" \in {a.box, b.box}

\* Mutant: values are compared by == alone (lines 83-86).
ValuesEqual_Python(a, b) == PyEqual(a, b)

ValuesEqual(a, b) == IF ComparesAsJSON(a, b) THEN json_equal(a, b) ELSE PyEqual(a, b)

\* json.dumps() raises TypeError.
Incomparable(a, b) ==
    ComparesAsJSON(a, b) /\ ~(is_json_serializable(a) /\ is_json_serializable(b))

\* Mutant: new.get(key) instead of new[key] (line 81).
diff_dicts_Get(old, new) ==
    LET at(k) == IF k \in DOMAIN new THEN new[k] ELSE NoneValue
        changed == {k \in DOMAIN old : ~ValuesEqual(old[k], at(k))} IN
    IF \E k \in DOMAIN old : Incomparable(old[k], at(k))
    THEN [raised |-> TRUE, changed |-> {}, before |-> <<>>, after |-> <<>>]
    ELSE [raised |-> FALSE, changed |-> changed,
          before |-> [k \in changed |-> old[k]], after |-> [k \in changed |-> at(k)]]

\* A key that new lacks raises KeyError, a comparison may raise TypeError; what
\* was gathered before is lost then.  Keys that only new has are not looked at.
diff_dicts(old, new) ==
    LET changed == {k \in DOMAIN old : ~ValuesEqual(old[k], new[k])} IN
    IF \E k \in DOMAIN old : k \notin DOMAIN new \/ Incomparable(old[k], new[k])
    THEN [raised |-> TRUE, changed |-> {}, before |-> <<>>, after |-> <<>>]
    ELSE [raised |-> FALSE, changed |-> changed,
          before |-> [k \in changed |-> old[k]], after |-> [k \in changed |-> new[k]]]

=============================================================================
