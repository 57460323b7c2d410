---------------------------- MODULE LoggingConfig ----------------------------
(***************************************************************************)
(* get_json_logging_config() (observability_kit/logging.py) with the two   *)
(* filters of filters.py, and what Python's logging makes of it: which     *)
(* lines a record turns into, and what their fields hold.                  *)
(*                                                                         *)
(* A level is a number.  Each handler has one filter; it writes attributes *)
(* on the record, which the handlers called after it see too.  A field of  *)
(* a format that no filter has set is written as null.  The options of     *)
(* formatters are left out.                                                *)
(***************************************************************************)
EXTENDS Naturals, Sequences

Root == ""

\* Mutant: the record also goes to the root logger (line 81).
CeleryLogger_Propagates(level) ==
    [handlers |-> <<"celery_console">>, level |-> level, propagate |-> TRUE]

CeleryLogger(level) ==
    [handlers |-> <<"celery_console">>, level |-> level, propagate |-> FALSE]

\* Mutant: celery_console has the filter of console (line 75).
CeleryHandler_RequestFilter == [filter |-> "request_context", formatter |-> "celery_json"]

CeleryHandler == [filter |-> "celery_context", formatter |-> "celery_json"]

\* The attributes, beyond those every record has, of a formatter's lines.
get_json_logging_config(django_level, celery_level, include_django, include_celery) ==
    LET console == [handlers |-> <<"console">>, level |-> django_level, propagate |-> FALSE]
        celery(keys) == IF include_celery THEN keys ELSE {}
        django(keys) == IF include_django THEN keys ELSE {} IN
    [formatters |-> [f \in {"json"} \cup celery({"celery_json"}) |->
                        IF f = "json" THEN {"request_id", "duration"}
                                      ELSE {"task_id", "task_name"}],
     filters    |-> [f \in {"request_context"} \cup celery({"celery_context"}) |->
                        IF f = "request_context" THEN "RequestContextFilter"
                                                 ELSE "CeleryContextFilter"],
     handlers   |-> [h \in {"console"} \cup celery({"celery_console"}) |->
                        IF h = "console"
                        THEN [filter |-> "request_context", formatter |-> "json"]
                        ELSE CeleryHandler],
     loggers    |-> [n \in {Root} \cup celery({"celery"}) \cup django({"django"}) |->
                        IF n = "celery" THEN CeleryLogger(celery_level) ELSE console]]

-----------------------------------------------------------------------------
(* The filters.                                                            *)

\* Whether celery can be imported, and what current_task is: nothing, a task
\* without a request, which the filter is ready for, a task that was called as a
\* function, whose request has no id, or one at work.
CelerySituations == {"not installed", "no task", "idle task", "called directly", "task"}

\* Mutant: the task is asked for its request without a look at it (line 32).
CeleryContextFilter_AnyTask(situation) ==
    [a \in {"task_id", "task_name"} |->
        IF \/ situation \in {"task", "idle task"}
           \/ situation = "called directly" /\ a = "task_name"
        THEN "the task" ELSE "None"]

CeleryContextFilter(situation) ==
    [a \in {"task_id", "task_name"} |->
        IF \/ situation = "task"
           \/ situation = "called directly" /\ a = "task_name"
        THEN "the task" ELSE "None"]

RequestContextFilter == [a \in {"request_id", "duration"} |-> "the request"]

FilterOutput(class, situation) ==
    IF class = "CeleryContextFilter" THEN CeleryContextFilter(situation)
                                     ELSE RequestContextFilter

-----------------------------------------------------------------------------
(* Python's logging.                                                       *)

\* Some loggers of a service, each with its parent.
Parent ==
    [n \in {"celery", "celery.task", "django", "django.request", "service.devices"} |->
        CASE n = "celery.task" -> "celery"
          [] n = "django.request" -> "django"
          [] OTHER -> Root]

LoggerNames == DOMAIN Parent \cup {Root}

\* A level of 0 (NOTSET) is none, except for the root.
EffectiveLevel(config, name) ==
    LET own == {n \in DOMAIN config.loggers : n = Root \/ config.loggers[n].level # 0}
        level[n \in LoggerNames] ==
            IF n \in own THEN config.loggers[n].level ELSE level[Parent[n]]
    IN level[name]

\* The handlers that a record of a logger is given to, one after the other.
HandlersCalled(config, name) ==
    LET called[n \in LoggerNames] ==
            IF n \notin DOMAIN config.loggers THEN called[Parent[n]]
            ELSE config.loggers[n].handlers \o
                 IF n # Root /\ config.loggers[n].propagate THEN called[Root] ELSE <<>>
    IN called[name]

\* The attributes that the filters of the first i handlers have set.
Attributes(config, handlers, i, situation) ==
    LET set[j \in 0 .. i] ==
            IF j = 0 THEN <<>>
            ELSE LET filter == config.handlers[handlers[j]].filter
                     added == FilterOutput(config.filters[filter], situation) IN
                 [a \in DOMAIN added \cup DOMAIN set[j - 1] |->
                     IF a \in DOMAIN added THEN added[a] ELSE set[j - 1][a]]
    IN set[i]

\* The lines a record turns into: for each, its fields.
Lines(config, name, level, situation) ==
    LET handlers == HandlersCalled(config, name)
        fields(i) == config.formatters[config.handlers[handlers[i]].formatter]
        attributes(i) == Attributes(config, handlers, i, situation) IN
    IF level < EffectiveLevel(config, name) THEN <<>>
    ELSE [i \in DOMAIN handlers |->
            [f \in fields(i) |->
                IF f \in DOMAIN attributes(i) THEN attributes(i)[f] ELSE "null"]]

=============================================================================
