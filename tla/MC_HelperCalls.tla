---------------------------- MODULE MC_HelperCalls ----------------------------
(* HelperCalls with one value for each distinction that the helpers make. *)
EXTENDS HelperCalls

Py(type, num, padded, box) == [type |-> type, num |-> num, padded |-> padded, box |-> box]

\* 'north', ' north ', '', '  '; None, nan, a datetime; 0, 1, False, True;
\* [1], [True], (1,), [nan], [datetime]
MCValues ==
    {Py("str", n, p, "bare") : n \in 0 .. 1, p \in BOOLEAN}
    \cup {Py(t, 0, FALSE, "bare") : t \in {"none", "nan", "object"}}
    \cup {Py(t, n, FALSE, "bare") : t \in Numeric, n \in 0 .. 1}
    \cup {Py(t, 1, FALSE, "list") : t \in Numeric}
    \cup {Py("int", 1, FALSE, "tuple")}
    \cup {Py(t, 0, FALSE, "list") : t \in {"nan", "object"}}

\* For a question about times only.
MCFewValues == {Py("str", 1, FALSE, "bare")}

=============================================================================
