---------------------------- MODULE RequestContext ----------------------------
(***************************************************************************)
(* The request context of observability_kit: RequestLoggingMiddleware      *)
(* (middleware.py) writes the two ContextVars of context.py, and           *)
(* RequestContextFilter (filters.py) stamps every log record with them.    *)
(*                                                                         *)
(* A ContextVar has one value per context, and each thread of the server   *)
(* has a context of its own, which lasts as long as the thread.  The       *)
(* server hands the requests it accepts to the threads of a pool.  Before  *)
(* the middleware runs, and again after it, a thread is already at work    *)
(* for the request: the framework's signals, its own logging, middleware   *)
(* listed earlier.  A view may start work that outlives the request, in a  *)
(* copy of its context (asyncio) or in a new one (threading).              *)
(***************************************************************************)
EXTENDS Naturals, FiniteSets

CONSTANTS Threads,
          MaxRequests,  \* bound on the requests of a run
          MaxRecords    \* bound on the distinct records of a run

ASSUME BoundsAssumption == MaxRequests \in Nat /\ MaxRecords \in Nat

\* Requests are numbered; the number of a request stands for its UUID and for
\* its duration.  Default stands for 'no-request-id' and 0.0 (context.py:4-5).
Requests == 1 .. MaxRequests
Default == 0

VARIABLES
    pc,                 \* what a thread is doing
    request,            \* the request it does it for
    request_id, request_duration,   \* the ContextVars, by thread
    arrived,            \* requests so far
    log                 \* the records written

contextVars == <<request_id, request_duration>>
vars == <<pc, request, contextVars, arrived, log>>

\* "before" and "after" the middleware, "inside" get_response(), and "task",
\* work started by a view.
Points == {"free", "before", "inside", "after", "task"}

Record == [at : Points \cup {"completed"}, of : Requests,
           request_id : Requests \cup {Default},
           duration : Requests \cup {Default}]

TypeOK ==
    /\ pc \in [Threads -> Points]
    /\ request \in [Threads -> 0 .. arrived]
    /\ request_id \in [Threads -> 0 .. arrived]
    /\ request_duration \in [Threads -> 0 .. arrived]
    /\ arrived \in 0 .. MaxRequests
    /\ log \subseteq Record

Init ==
    /\ pc = [t \in Threads |-> "free"]
    /\ request = [t \in Threads |-> Default]
    /\ request_id = [t \in Threads |-> Default]
    /\ request_duration = [t \in Threads |-> Default]
    /\ arrived = 0
    /\ log = {}

Goto(t, point) == pc' = [pc EXCEPT ![t] = point]

\* RequestContextFilter.filter(): the record gets the values of the context.
Filtered(t, point, id, duration) ==
    [at |-> point, of |-> request[t], request_id |-> id, duration |-> duration]

-----------------------------------------------------------------------------
\* The server hands a request to a thread of its pool, or to a new thread.
Accept(t) ==
    /\ pc[t] = "free"
    /\ arrived < MaxRequests
    /\ arrived' = arrived + 1
    /\ request' = [request EXCEPT ![t] = arrived + 1]
    /\ Goto(t, "before")
    /\ \/ UNCHANGED contextVars
       \/ /\ request_id' = [request_id EXCEPT ![t] = Default]
          /\ request_duration' = [request_duration EXCEPT ![t] = Default]
    /\ UNCHANGED log

\* Mutant: request_id is a variable of the module and not of the context.
Enter_Global(t) ==
    /\ pc[t] = "before"
    /\ request_id' = [u \in Threads |-> request[t]]
    /\ Goto(t, "inside")
    /\ UNCHANGED <<request, request_duration, arrived, log>>

\* Mutant: the id is set once per context.
Enter_Once(t) ==
    /\ pc[t] = "before"
    /\ request_id' = [request_id EXCEPT ![t] = IF @ = Default THEN request[t] ELSE @]
    /\ Goto(t, "inside")
    /\ UNCHANGED <<request, request_duration, arrived, log>>

\* __call__() up to get_response()
Enter(t) ==
    /\ pc[t] = "before"
    /\ request_id' = [request_id EXCEPT ![t] = request[t]]
    /\ Goto(t, "inside")
    /\ UNCHANGED <<request, request_duration, arrived, log>>

\* Mutant: 'request completed' is logged before the duration is set.
Complete_LogsFirst(t) ==
    /\ pc[t] = "inside"
    /\ Cardinality(log) < MaxRecords
    /\ request_duration' = [request_duration EXCEPT ![t] = request[t]]
    /\ log' = log \cup {Filtered(t, "completed", request_id[t], request_duration[t])}
    /\ Goto(t, "after")
    /\ UNCHANGED <<request, request_id, arrived>>

\* get_response() returns: the duration is set, 'request completed' logged.
Complete(t) ==
    /\ pc[t] = "inside"
    /\ Cardinality(log) < MaxRecords
    /\ request_duration' = [request_duration EXCEPT ![t] = request[t]]
    /\ log' = log \cup {Filtered(t, "completed", request_id[t], request[t])}
    /\ Goto(t, "after")
    /\ UNCHANGED <<request, request_id, arrived>>

\* get_response() raises: the rest of __call__() is skipped.
Fail(t) ==
    /\ pc[t] = "inside"
    /\ Goto(t, "after")
    /\ UNCHANGED <<request, contextVars, arrived, log>>

\* The thread goes back to the pool, with the context as it is.
Leave(t) ==
    /\ pc[t] = "after"
    /\ Goto(t, "free")
    /\ UNCHANGED <<request, contextVars, arrived, log>>

-----------------------------------------------------------------------------
\* Whoever is at work for a request writes a record.
Write(t) ==
    /\ pc[t] # "free"
    /\ Cardinality(log) < MaxRecords
    /\ log' = log \cup {Filtered(t, pc[t], request_id[t], request_duration[t])}
    /\ UNCHANGED <<pc, request, contextVars, arrived>>

\* A view starts work of its own in thread u.
StartTask(t, u) ==
    /\ pc[t] = "inside"
    /\ pc[u] = "free"
    /\ Goto(u, "task")
    /\ request' = [request EXCEPT ![u] = request[t]]
    /\ \/ /\ request_id' = [request_id EXCEPT ![u] = request_id[t]]
          /\ request_duration' = [request_duration EXCEPT ![u] = request_duration[t]]
       \/ /\ request_id' = [request_id EXCEPT ![u] = Default]
          /\ request_duration' = [request_duration EXCEPT ![u] = Default]
    /\ UNCHANGED <<arrived, log>>

\* Its context goes with it.
EndTask(t) ==
    /\ pc[t] = "task"
    /\ Goto(t, "free")
    /\ request_id' = [request_id EXCEPT ![t] = Default]
    /\ request_duration' = [request_duration EXCEPT ![t] = Default]
    /\ UNCHANGED <<request, arrived, log>>

Next ==
    \/ \E t \in Threads :
         Accept(t) \/ Enter(t) \/ Complete(t) \/ Fail(t) \/ Leave(t)
         \/ Write(t) \/ EndTask(t)
    \/ \E t, u \in Threads : StartTask(t, u)

Spec == Init /\ [][Next]_vars

-----------------------------------------------------------------------------
(* Properties                                                              *)

\* From the entry of the middleware on, a record names the request it was
\* written for, or no request at all (work in a context of its own), never
\* another one, whatever the threads are reused for (middleware.py:18,
\* filters.py:11).
RecordsNameTheirRequest ==
    \A r \in log :
        r.at # "before" =>
            \/ r.request_id = r.of
            \/ r.at = "task" /\ r.request_id = Default

\* 'request completed' carries the duration of its request; no record written
\* before it, in the request or in work it started, does (middleware.py:22-25,
\* filters.py:10).
OnlyCompletionIsTimed ==
    \A r \in log :
        /\ r.at = "completed" => r.duration = r.of
        /\ r.at \in {"before", "inside", "task"} => r.duration # r.of

\* What the log relies on: ids and durations in a thread's context are those
\* of its request, or of an earlier one where they are not set yet.
ContextOfRequest ==
    \A t \in Threads :
        /\ pc[t] # "free" => request[t] \in Requests
        /\ pc[t] \in {"inside", "after"} => request_id[t] = request[t]
        /\ pc[t] = "task" => request_id[t] \in {request[t], Default}
        /\ pc[t] \in {"before", "inside", "task"} => request_duration[t] < request[t]

IInv ==
    /\ TypeOK
    /\ ContextOfRequest
    /\ RecordsNameTheirRequest
    /\ OnlyCompletionIsTimed

\* What demo_observability.py:112-113 says of the middleware: it resets both
\* variables after the response, so that they do not bleed into the next request.
NothingBleeds ==
    \A r \in log :
        /\ r.request_id \in {r.of, Default}
        /\ r.duration \in {r.of, Default}

=============================================================================
