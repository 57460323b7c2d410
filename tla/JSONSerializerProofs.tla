------------------------- MODULE JSONSerializerProofs -------------------------
(* Theorems about JSONSerializer, for every schema and every payload. *)
EXTENDS JSONSerializer, TLAPS

\* isinstance() and the typing rule of the docstring agree (line 87).
LEMMA InstanceOfExpected ==
    ASSUME NEW type, NEW expected
    PROVE  IsInstance(type, expected) <=>
               \E t \in expected : type = t \/ <<type, t>> = <<"bool", "int">>
BY DEF IsInstance

\* _validate_field_map() and _validate_no_unknown_fields() find nothing exactly
\* in the payloads that conform.
LEMMA SchemaErrorsFindsAll ==
    ASSUME NEW data \in Payloads
    PROVE  SchemaErrors(data) = {} <=> Conforms(data)
<1> DEFINE R == FieldErrors(data, Required, TRUE)
           O == FieldErrors(data, Optional, FALSE)
           ok(fields, f) == \E t \in fields[f] :
               data[f] = t \/ <<data[f], t>> = <<"bool", "int">>
<1>1. R = {} <=> \A f \in DOMAIN Required :
                     f \in DOMAIN data /\ ok(Required, f)
  <2>1. \A f : ok(Required, f) <=> IsInstance(data[f], Required[f])
    BY InstanceOfExpected
  <2> QED
    BY <2>1 DEF FieldErrors
<1>2. O = {} <=> \A f \in DOMAIN Optional \cap DOMAIN data :
                     ok(Optional, f) \/ data[f] = "none"
  <2>1. \A f : ok(Optional, f) <=> IsInstance(data[f], Optional[f])
    BY InstanceOfExpected
  <2> QED
    BY <2>1 DEF FieldErrors
<1>3. (IF Strict /\ Unknown(data) # {} THEN {NonField} ELSE {}) = {} <=>
          (Strict => DOMAIN data \subseteq DOMAIN Required \cup DOMAIN Optional)
  BY DEF Unknown
<1>4. SchemaErrors(data) = {} <=>
          /\ R = {} /\ O = {}
          /\ (IF Strict /\ Unknown(data) # {} THEN {NonField} ELSE {}) = {}
  BY DEF SchemaErrors
<1>5. Conforms(data) <=>
          /\ \A f \in DOMAIN Required : f \in DOMAIN data /\ ok(Required, f)
          /\ \A f \in DOMAIN Optional \cap DOMAIN data :
                 ok(Optional, f) \/ data[f] = "none"
          /\ Strict => DOMAIN data \subseteq DOMAIN Required \cup DOMAIN Optional
  BY DEF Conforms
<1> HIDE DEF R, O, ok
<1> QED
  BY <1>1, <1>2, <1>3, <1>4, <1>5

LEMMA SchemaErrorsType ==
    ASSUME NEW data \in Payloads
    PROVE  SchemaErrors(data) \subseteq Names \cup {NonField}
BY SchemaAssumption DEF SchemaErrors, FieldErrors, Schemas, NonField

\* One write or deletion makes a payload of a payload.
LEMMA ChangesArePayloads ==
    ASSUME NEW data \in Payloads
    PROVE  Changes(data) \subseteq Payloads
<1>1. PICK F \in SUBSET Fields : data \in [F -> Types]
  BY DEF Payloads
<1>2. \A G \in SUBSET Fields : [G -> Types] \subseteq Payloads
  BY DEF Payloads
<1>3. ASSUME NEW field \in Fields, NEW type \in Types
      PROVE  Put(data, field, type) \in Payloads
  <2>1. Put(data, field, type) \in [F \cup {field} -> Types]
    BY <1>1 DEF Put
  <2>2. F \cup {field} \in SUBSET Fields
    BY <1>1
  <2> QED
    BY <2>1, <2>2, <1>2
<1>4. ASSUME NEW field \in DOMAIN data PROVE Delete(data, field) \in Payloads
  <2>1. Delete(data, field) \in [F \ {field} -> Types]
    BY <1>1 DEF Delete
  <2>2. F \ {field} \in SUBSET Fields
    BY <1>1
  <2> QED
    BY <2>1, <2>2, <1>2
<1>5. {Put(data, field, type) : field \in Fields, type \in Types} \subseteq Payloads
  BY <1>3
<1>6. {Delete(data, field) : field \in DOMAIN data} \subseteq Payloads
  BY <1>4
<1> QED
  BY <1>5, <1>6 DEF Changes

\* What a call leaves behind depends on the payload and the hook only.
IInv == TypeOK /\ AnswerIsRight /\ HookSeesConforming /\ DataXorErrors

\* What a call was given is typed, and is no dict only if it was given none.
LEMMA SeenType ==
    ASSUME TypeOK, NEW hook \in Outcomes \cup {Unused}, Sees(hook)
    PROVE  /\ seen' \in [dict : Objects \cup {NotADict}, data : Payloads \cup {NotADict},
                          hook : Outcomes \cup {Unused}]
           /\ seen'.dict = initial_data /\ seen'.hook = hook
           /\ seen'.data # NotADict <=> initial_data # NotADict
           /\ initial_data # NotADict => seen'.data = content[initial_data]
<1>1. initial_data # NotADict => content[initial_data] \in Payloads
  BY DEF TypeOK
<1>2. initial_data # NotADict => content[initial_data] # NotADict
  BY <1>1, SchemaAssumption
<1> QED
  BY <1>1, <1>2 DEF Sees, TypeOK

\* A call that ends by returning keeps the invariant if its answer is right, its
\* hook was asked rightly, and its value is that of the hook.
LEMMA ReturnsRight ==
    ASSUME IInv, NEW newErrors, NEW value, NEW hook \in Outcomes \cup {Unused},
           Returns(newErrors, value, hook),
           content' \in [Objects -> Payloads], initial_data' = initial_data,
           newErrors \subseteq Names \cup {NonField, "hook"},
           newErrors = {} <=> /\ initial_data # NotADict
                              /\ Conforms(content[initial_data])
                              /\ ~hook.adds,
           hook # Unused <=> /\ initial_data # NotADict
                             /\ Conforms(content[initial_data]),
           newErrors # {} => value = "None",
           newErrors = {} => value = CASE hook.ends = "same" -> initial_data
                                       [] hook.ends = "new" -> "new"
                                       [] OTHER -> "None",
           newErrors = {} /\ hook.ends = "same" => initial_data # NotADict
    PROVE  IInv'
<1>1. /\ errors' = newErrors /\ validated_data' = value
      /\ answer' = IF newErrors = {} THEN "valid" ELSE "invalid"
  BY DEF Returns
<1>2. /\ seen' \in [dict : Objects \cup {NotADict}, data : Payloads \cup {NotADict},
                     hook : Outcomes \cup {Unused}]
      /\ seen'.dict = initial_data /\ seen'.hook = hook
      /\ seen'.data # NotADict <=> initial_data # NotADict
      /\ initial_data # NotADict => seen'.data = content[initial_data]
  BY SeenType DEF Returns, IInv
<1>3. value \in Objects \cup {"None", "new"}
  BY DEF IInv, TypeOK
<1>4. TypeOK'
  BY <1>1, <1>2, <1>3 DEF IInv, TypeOK
<1>5. AnswerIsRight' /\ HookSeesConforming'
  BY <1>1, <1>2 DEF AnswerIsRight, HookSeesConforming, Conforms
<1>6. DataXorErrors'
  BY <1>1, <1>2 DEF DataXorErrors
<1> QED
  BY <1>4, <1>5, <1>6 DEF IInv

\* So does one that raises.
LEMMA RaisesRight ==
    ASSUME IInv, NEW newErrors, NEW hook \in Outcomes \cup {Unused},
           Raises(newErrors, hook),
           content' \in [Objects -> Payloads], initial_data' = initial_data,
           newErrors \subseteq Names \cup {NonField, "hook"},
           hook # Unused <=> /\ initial_data # NotADict
                             /\ Conforms(content[initial_data])
    PROVE  IInv'
<1>1. errors' = newErrors /\ validated_data' = validated_data /\ answer' = "raised"
  BY DEF Raises
<1>2. /\ seen' \in [dict : Objects \cup {NotADict}, data : Payloads \cup {NotADict},
                     hook : Outcomes \cup {Unused}]
      /\ seen'.hook = hook
      /\ seen'.data # NotADict <=> initial_data # NotADict
      /\ initial_data # NotADict => seen'.data = content[initial_data]
  BY SeenType DEF Raises, IInv
<1>3. TypeOK'
  BY <1>1, <1>2 DEF IInv, TypeOK
<1>4. AnswerIsRight' /\ HookSeesConforming' /\ DataXorErrors'
  BY <1>1, <1>2 DEF AnswerIsRight, HookSeesConforming, DataXorErrors, Conforms
<1> QED
  BY <1>3, <1>4 DEF IInv

\* An override that is called ends in one of its ways.
LEMMA HookRight ==
    ASSUME IInv, NEW hook \in Hooks, Hook(hook)
    PROVE  IInv'
<1>1. initial_data \in Objects /\ content[initial_data] \in Payloads
  BY DEF Hook, CallsHook, IInv, TypeOK
<1>2. Conforms(content[initial_data])
  BY <1>1, SchemaErrorsFindsAll DEF Hook, CallsHook
<1>3. /\ hook \in Outcomes /\ hook.ends \in {"same", "new", "none", "raises"}
      /\ hook.adds \in BOOLEAN /\ hook # Unused
  BY SchemaAssumption DEF Outcomes, Unused
<1>4. initial_data # NotADict
  BY <1>1, SchemaAssumption
<1>5. content' \in [Objects -> Payloads]
  <2>1. Changes(content[initial_data]) \subseteq Payloads
    BY <1>1, ChangesArePayloads
  <2> QED
    BY <1>1, <2>1 DEF Hook, IInv, TypeOK
<1>6. initial_data' = initial_data /\ HookEnds(hook)
  BY DEF Hook
<1> DEFINE added == IF hook.adds THEN {"hook"} ELSE {}
<1>7. CASE hook.ends = "raises"
  <2>1. Raises(added, hook)
    BY <1>6, <1>7 DEF HookEnds
  <2> QED
    BY <1>2, <1>3, <1>4, <1>5, <1>6, <2>1, RaisesRight
<1>8. CASE hook.ends # "raises" /\ hook.adds
  <2>1. Returns({"hook"}, "None", hook)
    BY <1>6, <1>8 DEF HookEnds
  <2> QED
    BY <1>2, <1>3, <1>4, <1>5, <1>6, <1>8, <2>1, ReturnsRight
<1>9. CASE hook.ends # "raises" /\ ~hook.adds
  <2>1. PICK value : /\ Returns({}, value, hook)
                     /\ hook.ends = "same" => value = initial_data
                     /\ hook.ends = "new" => value = "new"
                     /\ hook.ends = "none" => value = "None"
    BY <1>3, <1>6, <1>9 DEF HookEnds
  <2>2. value = CASE hook.ends = "same" -> initial_data
                  [] hook.ends = "new" -> "new"
                  [] OTHER -> "None"
    BY <1>3, <1>9, <2>1
  <2> QED
    BY <1>2, <1>3, <1>4, <1>5, <1>6, <1>9, <2>1, <2>2, ReturnsRight
<1> QED
  BY <1>7, <1>8, <1>9

\* Whatever the schema, the payloads, the overrides and the order of the calls,
\* the answers are right, the override sees conforming data only, and data and
\* errors are not mixed.
THEOREM InvariantHolds == Spec => []IInv
<1>1. Init => IInv
  BY DEF Init, IInv, TypeOK, AnswerIsRight, HookSeesConforming, DataXorErrors
<1>2. IInv /\ [Next]_vars => IInv'
  <2> SUFFICES ASSUME IInv, [Next]_vars
               PROVE  IInv'
    OBVIOUS
  <2>0. content \in [Objects -> Payloads] /\ initial_data \in Objects \cup {NotADict}
    BY DEF IInv, TypeOK
  <2>1. CASE RejectNonDict
    BY <2>0, <2>1, ReturnsRight DEF RejectNonDict, Unused
  <2>2. CASE RejectSchema
    <3>1. initial_data \in Objects /\ content[initial_data] \in Payloads
      BY <2>0, <2>2 DEF RejectSchema
    <3>2. ~Conforms(content[initial_data])
      BY <2>2, <3>1, SchemaErrorsFindsAll DEF RejectSchema
    <3>3. SchemaErrors(content[initial_data]) \subseteq Names \cup {NonField}
      BY <3>1, SchemaErrorsType
    <3> QED
      BY <2>0, <2>2, <3>2, <3>3, ReturnsRight DEF RejectSchema
  <2>3. CASE SortRaises
    <3>1. initial_data \in Objects /\ content[initial_data] \in Payloads
      BY <2>0, <2>3 DEF SortRaises
    <3>2. ~Conforms(content[initial_data])
      BY <2>3 DEF SortRaises, Unsortable, Unknown, Conforms
    <3>3. SchemaErrors(content[initial_data]) \subseteq Names \cup {NonField}
      BY <3>1, SchemaErrorsType
    <3> QED
      BY <2>0, <2>3, <3>2, <3>3, RaisesRight DEF SortRaises
  <2>4. ASSUME NEW hook \in Hooks, Hook(hook)
        PROVE  IInv'
    BY <2>4, HookRight
  <2>5. ASSUME NEW data \in Objects \cup {NotADict}, Assign(data)
        PROVE  IInv'
    BY <2>5 DEF Assign, IInv, TypeOK, AnswerIsRight, HookSeesConforming, DataXorErrors, Conforms
  <2>6. ASSUME NEW o \in Objects, Write(o)
        PROVE  IInv'
    <3>1. Changes(content[o]) \subseteq Payloads
      BY <2>0, ChangesArePayloads
    <3>2. content' \in [Objects -> Payloads]
      BY <2>0, <2>6, <3>1 DEF Write
    <3> QED
      BY <2>6, <3>2
      DEF Write, IInv, TypeOK, AnswerIsRight, HookSeesConforming, DataXorErrors, Conforms
  <2>7. CASE UNCHANGED vars
    BY <2>7 DEF vars, IInv, TypeOK, AnswerIsRight, HookSeesConforming, DataXorErrors, Conforms
  <2> QED
    BY <2>1, <2>2, <2>3, <2>4, <2>5, <2>6, <2>7 DEF Next
<1> QED
  BY <1>1, <1>2, PTL DEF Spec

\* Errors name fields, the object or the hook only, and validated_data is a dict
\* of the caller or a new one, whatever the schema (json_serializer.py:40-126).
THEOREM TypeCorrect == Spec => []TypeOK
<1>1. IInv => TypeOK
  BY DEF IInv
<1> QED
  BY <1>1, InvariantHolds, PTL

\* is_valid() answers as the schema and the hook say (base_serializer.py:29-32).
THEOREM AnswersAreRight == Spec => []AnswerIsRight
<1>1. IInv => AnswerIsRight
  BY DEF IInv
<1> QED
  BY <1>1, InvariantHolds, PTL

\* The override is called for the payloads that conform and for no others
\* (json_serializer.py:107-110).
THEOREM HooksSeeConforming == Spec => []HookSeesConforming
<1>1. IInv => HookSeesConforming
  BY DEF IInv
<1> QED
  BY <1>1, InvariantHolds, PTL

\* A call that returns shows data or errors, never both, and never those of
\* another call (base_serializer.py:18-32).
THEOREM DataAndErrorsApart == Spec => []DataXorErrors
<1>1. IInv => DataXorErrors
  BY DEF IInv
<1> QED
  BY <1>1, InvariantHolds, PTL

=============================================================================
