------------------------- MODULE RequestContextProofs -------------------------
(* Theorems about RequestContext, for any pool of threads. *)
EXTENDS RequestContext, TLAPS

\* A step that writes no record and keeps the contexts right keeps IInv.
LEMMA QuietStep ==
    ASSUME IInv, TypeOK', ContextOfRequest', UNCHANGED log
    PROVE  IInv'
BY DEF IInv, RecordsNameTheirRequest, OnlyCompletionIsTimed

\* A step that adds one record, right in itself, keeps what is said of the log.
LEMMA WritingStep ==
    ASSUME IInv, TypeOK', ContextOfRequest',
           NEW r \in Record, log' = log \cup {r},
           r.at # "before" =>
               \/ r.request_id = r.of
               \/ r.at = "task" /\ r.request_id = Default,
           r.at = "completed" => r.duration = r.of,
           r.at \in {"before", "inside", "task"} => r.duration # r.of
    PROVE  IInv'
BY DEF IInv, RecordsNameTheirRequest, OnlyCompletionIsTimed

\* In any number of threads, started and reused in any order, the contexts
\* belong to the requests and the records to them (middleware.py, filters.py).
THEOREM InvariantHolds == Spec => []IInv
<1>1. Init => IInv
  BY BoundsAssumption DEF Init, IInv, TypeOK, ContextOfRequest, RecordsNameTheirRequest,
     OnlyCompletionIsTimed, Points, Default
<1>2. IInv /\ [Next]_vars => IInv'
  <2> SUFFICES ASSUME IInv, [Next]_vars
               PROVE  IInv'
    OBVIOUS
  <2> USE BoundsAssumption DEF Default, Requests
  <2>1. ASSUME NEW t \in Threads, Accept(t)
        PROVE  IInv'
    <3>1. TypeOK'
      BY <2>1 DEF Accept, IInv, TypeOK, Points, Goto, contextVars
    <3>2. ContextOfRequest'
      BY <2>1 DEF Accept, IInv, TypeOK, ContextOfRequest, Goto, contextVars
    <3> QED
      BY <2>1, <3>1, <3>2, QuietStep DEF Accept
  <2>2. ASSUME NEW t \in Threads, Enter(t)
        PROVE  IInv'
    <3>1. TypeOK'
      BY <2>2 DEF Enter, IInv, TypeOK, Points, Goto
    <3>2. ContextOfRequest'
      BY <2>2 DEF Enter, IInv, TypeOK, ContextOfRequest, Goto
    <3> QED
      BY <2>2, <3>1, <3>2, QuietStep DEF Enter
  <2>3. ASSUME NEW t \in Threads, Complete(t)
        PROVE  IInv'
    <3> DEFINE r == Filtered(t, "completed", request_id[t], request[t])
    <3>1. r \in Record /\ r.at = "completed" /\ r.of = request[t]
          /\ r.request_id = request[t] /\ r.duration = request[t]
      BY <2>3 DEF Complete, Filtered, Record, IInv, TypeOK, ContextOfRequest, Points
    <3>2. log' = log \cup {r}
      BY <2>3 DEF Complete
    <3>3. TypeOK'
      <4>1. log' \subseteq Record
        BY <3>1, <3>2 DEF IInv, TypeOK
      <4> QED
        BY <2>3, <4>1 DEF Complete, IInv, TypeOK, Points, Goto
    <3>4. ContextOfRequest'
      BY <2>3 DEF Complete, IInv, TypeOK, ContextOfRequest, Goto
    <3> HIDE DEF r
    <3> QED
      BY <3>1, <3>2, <3>3, <3>4, WritingStep
  <2>4. ASSUME NEW t \in Threads, Fail(t) \/ Leave(t)
        PROVE  IInv'
    <3>1. TypeOK'
      BY <2>4 DEF Fail, Leave, IInv, TypeOK, Points, Goto, contextVars
    <3>2. ContextOfRequest'
      BY <2>4 DEF Fail, Leave, IInv, TypeOK, ContextOfRequest, Goto, contextVars
    <3> QED
      BY <2>4, <3>1, <3>2, QuietStep DEF Fail, Leave
  <2>5. ASSUME NEW t \in Threads, Write(t)
        PROVE  IInv'
    <3> DEFINE r == Filtered(t, pc[t], request_id[t], request_duration[t])
    <3>1. r \in Record /\ r.at = pc[t] /\ r.of = request[t]
          /\ r.request_id = request_id[t] /\ r.duration = request_duration[t]
      BY <2>5 DEF Write, Filtered, Record, IInv, TypeOK, ContextOfRequest, Points
    <3>2. log' = log \cup {r}
      BY <2>5 DEF Write
    <3>3. TypeOK'
      <4>1. log' \subseteq Record
        BY <3>1, <3>2 DEF IInv, TypeOK
      <4> QED
        BY <2>5, <4>1 DEF Write, IInv, TypeOK, contextVars
    <3>4. ContextOfRequest'
      BY <2>5 DEF Write, IInv, ContextOfRequest, contextVars
    <3>5. /\ pc[t] # "before" => \/ request_id[t] = request[t]
                                 \/ pc[t] = "task" /\ request_id[t] = Default
          /\ pc[t] # "completed"
          /\ pc[t] \in {"before", "inside", "task"} => request_duration[t] # request[t]
      BY <2>5 DEF Write, IInv, TypeOK, ContextOfRequest, Points
    <3> HIDE DEF r
    <3> QED
      BY <3>1, <3>2, <3>3, <3>4, <3>5, WritingStep
  <2>6. ASSUME NEW t \in Threads, NEW u \in Threads, StartTask(t, u)
        PROVE  IInv'
    <3>1. TypeOK'
      BY <2>6 DEF StartTask, IInv, TypeOK, Points, Goto
    <3>2. ContextOfRequest'
      BY <2>6 DEF StartTask, IInv, TypeOK, ContextOfRequest, Goto
    <3> QED
      BY <2>6, <3>1, <3>2, QuietStep DEF StartTask
  <2>7. ASSUME NEW t \in Threads, EndTask(t)
        PROVE  IInv'
    <3>1. TypeOK'
      BY <2>7 DEF EndTask, IInv, TypeOK, Points, Goto
    <3>2. ContextOfRequest'
      BY <2>7 DEF EndTask, IInv, TypeOK, ContextOfRequest, Goto
    <3> QED
      BY <2>7, <3>1, <3>2, QuietStep DEF EndTask
  <2>8. CASE UNCHANGED vars
    BY <2>8 DEF vars, contextVars, IInv, TypeOK, ContextOfRequest,
       RecordsNameTheirRequest, OnlyCompletionIsTimed
  <2> QED
    BY <2>1, <2>2, <2>3, <2>4, <2>5, <2>6, <2>7, <2>8 DEF Next
<1> QED
  BY <1>1, <1>2, PTL DEF Spec

\* A record written after the middleware was entered names its own request or,
\* from a context of its own, none (middleware.py:18, filters.py:11).
THEOREM RecordsAreNamed == Spec => []RecordsNameTheirRequest
<1>1. IInv => RecordsNameTheirRequest
  BY DEF IInv
<1> QED
  BY <1>1, InvariantHolds, PTL

\* Only 'request completed' and what is written after it has the duration of its
\* request (middleware.py:22-25).
THEOREM CompletionIsTimed == Spec => []OnlyCompletionIsTimed
<1>1. IInv => OnlyCompletionIsTimed
  BY DEF IInv
<1> QED
  BY <1>1, InvariantHolds, PTL

=============================================================================
