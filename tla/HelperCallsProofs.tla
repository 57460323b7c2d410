-------------------------- MODULE HelperCallsProofs --------------------------
(***************************************************************************)
(* Proofs about the functions of utils_kit and publish_audit_event(), for  *)
(* dicts of any keys and any calendar.                                     *)
(*                                                                         *)
(* A lemma says what a function returns, for all arguments; the invariant  *)
(* Computed says that what a caller gets is what the function returns for  *)
(* its arguments, and a theorem combines the two.                          *)
(***************************************************************************)
EXTENDS HelperCalls, TLAPS

-----------------------------------------------------------------------------
(* normalize_schema()                                                      *)

\* Stripping what is stripped changes nothing.
LEMMA PreparedTwice ==
    ASSUME NEW v \in PyValues, NEW options \in Options
    PROVE  /\ Prepared(v, options) \in PyValues
           /\ Prepared(Prepared(v, options), options) = Prepared(v, options)
  BY DEF PyValues, Prepared, Strip, IsString

\* Normalizing what is normalized changes nothing.
LEMMA NormalizedTwice ==
    ASSUME NEW data \in Dicts(DictKeys, PyValues), NEW required, NEW optional,
           NEW options \in Options
    PROVE  LET once == normalize_schema(data, required, optional, options) IN
           normalize_schema(once.normalized, required, optional, options) = once
<1> DEFINE keeps(d) == (required \cap DOMAIN d) \cup
                       {f \in optional \cap DOMAIN d :
                           ~Dropped(Prepared(d[f], options), options)}
           kept == keeps(data)
           n == [f \in kept |-> Prepared(data[f], options)]
<1>1. \A f \in DOMAIN data : data[f] \in PyValues
  BY DEF Dicts
<1>2. \A f \in kept : /\ f \in DOMAIN data
                      /\ n[f] = Prepared(data[f], options)
                      /\ Prepared(n[f], options) = n[f]
  BY <1>1, PreparedTwice
<1>3. keeps(n) = kept
  <2>1. DOMAIN n = kept
    OBVIOUS
  <2> HIDE DEF n
  <2>2. keeps(n) \subseteq kept
    BY <2>1
  <2>3. ASSUME NEW f \in kept
        PROVE  f \in keeps(n)
    <3>1. CASE f \in required
      BY <3>1, <2>1
    <3>2. CASE f \notin required
      BY <3>2, <2>1, <1>2
    <3> QED
      BY <3>1, <3>2
  <2> QED
    BY <2>2, <2>3
<1>4. [f \in keeps(n) |-> Prepared(n[f], options)] = n
  BY <1>2, <1>3, Zenon
<1>5. required \ DOMAIN n = required \ DOMAIN data
  BY <1>2
<1> QED
  BY <1>3, <1>4, <1>5, Zenon DEF normalize_schema

\* What happens to one value: whitespace is all it loses, and what is dropped is
\* None, or a string that normalize_str() calls absent.
LEMMA ValueIsKept ==
    ASSUME NEW v \in PyValues, NEW options \in Options
    PROVE  LET p == Prepared(v, options) IN
           /\ Strip(p) = Strip(v)
           /\ Dropped(p, options) =>
                 IsNone(v) \/ (IsString(v) /\ normalize_str(v, FALSE) = NoneValue)
           /\ options.strip_strings /\ options.drop_optional_blank_strings
                  /\ ~Dropped(p, options) /\ IsString(v)
                => normalize_str(v, FALSE) = p
<1> DEFINE p == Prepared(v, options)
<1>1. Strip(p) = Strip(v)
  BY DEF PyValues, Prepared, Strip, IsString
<1>2. ASSUME Dropped(p, options)
      PROVE  IsNone(v) \/ (IsString(v) /\ normalize_str(v, FALSE) = NoneValue)
  <2>1. CASE IsNone(p)
    BY <2>1 DEF PyValues, Prepared, Strip, IsString, IsNone
  <2>2. CASE IsEmptyString(p)
    <3>1. IsString(v) /\ IsEmptyString(Strip(v))
      BY <2>2 DEF PyValues, Prepared, Strip, IsString, IsEmptyString
    <3> QED
      BY <3>1 DEF normalize_str
  <2> QED
    BY <1>2, <2>1, <2>2 DEF Dropped
<1>3. ASSUME options.strip_strings, options.drop_optional_blank_strings,
             ~Dropped(p, options), IsString(v)
      PROVE  normalize_str(v, FALSE) = p
  <2>1. p = Strip(v)
    BY <1>3 DEF Prepared
  <2>2. ~IsEmptyString(p)
    BY <1>3 DEF Dropped
  <2> QED
    BY <2>1, <2>2 DEF normalize_str
<1>4. Dropped(p, options) =>
          IsNone(v) \/ (IsString(v) /\ normalize_str(v, FALSE) = NoneValue)
  BY <1>2
<1>5. options.strip_strings /\ options.drop_optional_blank_strings
          /\ ~Dropped(p, options) /\ IsString(v)
        => normalize_str(v, FALSE) = p
  BY <1>3
<1> QED
  BY <1>1, <1>4, <1>5, Zenon

-----------------------------------------------------------------------------
(* diff_dicts()                                                            *)

\* How two values are compared does not depend on their order.
LEMMA ComparisonIsSymmetric ==
    ASSUME NEW a \in PyValues, NEW b \in PyValues
    PROVE  /\ ValuesEqual(a, b) = ValuesEqual(b, a)
           /\ Incomparable(a, b) = Incomparable(b, a)
<1>1. ComparesAsJSON(a, b) <=> ComparesAsJSON(b, a)
  BY DEF ComparesAsJSON
<1>2. Incomparable(a, b) <=> Incomparable(b, a)
  BY <1>1 DEF Incomparable
<1>3. json_equal(a, b) <=> json_equal(b, a)
  BY DEF json_equal
<1>4. PyEqual(a, b) <=> PyEqual(b, a)
  BY DEF PyEqual, Numeric
<1>5. ValuesEqual(a, b) <=> ValuesEqual(b, a)
  BY <1>1, <1>3, <1>4 DEF ValuesEqual
<1>6. /\ ValuesEqual(a, b) \in BOOLEAN
      /\ ValuesEqual(b, a) \in BOOLEAN
      /\ Incomparable(a, b) \in BOOLEAN
      /\ Incomparable(b, a) \in BOOLEAN
  BY Zenon DEF ValuesEqual, json_equal, PyEqual, Incomparable
<1> QED
  BY <1>2, <1>5, <1>6

\* Values that are equal look the same, whichever comparison was made.
LEMMA EqualLooksSame ==
    ASSUME NEW a \in PyValues, NEW b \in PyValues, ValuesEqual(a, b)
    PROVE  LooksSame(a, b) /\ LooksSame(b, a)
<1>1. CASE ComparesAsJSON(a, b)
  BY <1>1 DEF ValuesEqual, json_equal, LooksSame
<1>2. CASE ~ComparesAsJSON(a, b)
  <2>1. PyEqual(a, b) /\ a.box # "list" /\ b.box # "list"
    BY <1>2 DEF ValuesEqual, ComparesAsJSON
  <2>2. CASE {a.type, b.type} \subseteq Numeric
    BY <2>1, <2>2 DEF PyEqual, LooksSame
  <2>3. CASE a.type = b.type /\ a.padded = b.padded
    <3>1. a = b
      BY <2>1, <2>3 DEF PyEqual, PyValues
    <3> QED
      BY <3>1 DEF LooksSame
  <2> QED
    BY <2>1, <2>2, <2>3 DEF PyEqual
<1> QED
  BY <1>1, <1>2

\* The new dict is the old one with `after', the old one the new with `before'.
LEMMA DiffRestores ==
    ASSUME NEW old \in Dicts(DictKeys, PyValues), NEW new \in Dicts(DictKeys, PyValues),
           ~diff_dicts(old, new).raised,
           NEW k \in DOMAIN old \cap DOMAIN new
    PROVE  LET diff == diff_dicts(old, new) IN
           /\ LooksSame(Override(old, diff.after)[k], new[k])
           /\ LooksSame(Override(new, diff.before)[k], old[k])
<1> DEFINE changed == {j \in DOMAIN old : ~ValuesEqual(old[j], new[j])}
           before == [j \in changed |-> old[j]]
           after == [j \in changed |-> new[j]]
<1>1. old[k] \in PyValues /\ new[k] \in PyValues
  BY DEF Dicts
<1>2. diff_dicts(old, new) = [raised |-> FALSE, changed |-> changed,
                              before |-> before, after |-> after]
  BY DEF diff_dicts
<1>3. diff_dicts(old, new).before = before /\ diff_dicts(old, new).after = after
  BY <1>2
<1>4. CASE k \in changed
  <2>1. Override(old, after)[k] = new[k] /\ Override(new, before)[k] = old[k]
    BY <1>4 DEF Override
  <2> QED
    BY <2>1, <1>3 DEF LooksSame
<1>5. CASE k \notin changed
  <2>1. Override(old, after)[k] = old[k] /\ Override(new, before)[k] = new[k]
    BY <1>5 DEF Override
  <2>2. ValuesEqual(old[k], new[k])
    BY <1>5
  <2> QED
    BY <2>1, <2>2, <1>1, <1>3, EqualLooksSame
<1> QED
  BY <1>4, <1>5

\* Exchanging the dicts exchanges before and after.
LEMMA DiffExchanged ==
    ASSUME NEW old \in Dicts(DictKeys, PyValues), NEW new \in Dicts(DictKeys, PyValues),
           DOMAIN old = DOMAIN new
    PROVE  LET diff == diff_dicts(old, new) IN
           diff_dicts(new, old) = [raised |-> diff.raised, changed |-> diff.changed,
                                   before |-> diff.after, after |-> diff.before]
<1> DEFINE failing(o, n) == \E k \in DOMAIN o : k \notin DOMAIN n \/ Incomparable(o[k], n[k])
           changed(o, n) == {k \in DOMAIN o : ~ValuesEqual(o[k], n[k])}
           diff == diff_dicts(old, new)
           error == [raised |-> TRUE, changed |-> {}, before |-> <<>>, after |-> <<>>]
<1>1. \A k \in DOMAIN old : /\ ValuesEqual(old[k], new[k]) = ValuesEqual(new[k], old[k])
                            /\ Incomparable(old[k], new[k]) = Incomparable(new[k], old[k])
  BY ComparisonIsSymmetric DEF Dicts
<1>2. failing(old, new) <=> failing(new, old)
  BY <1>1
<1>3. changed(old, new) = changed(new, old)
  BY <1>1
<1>4. CASE failing(old, new)
  <2>1. diff = error
    BY <1>4, Zenon DEF diff_dicts
  <2>2. diff_dicts(new, old) = error
    BY <1>4, <1>2, Zenon DEF diff_dicts
  <2> QED
    BY <2>1, <2>2
<1>5. CASE ~failing(old, new)
  <2> DEFINE C == changed(old, new)
             b == [k \in C |-> old[k]]
             a == [k \in C |-> new[k]]
  <2>1. diff = [raised |-> FALSE, changed |-> C, before |-> b, after |-> a]
    BY <1>5, Zenon DEF diff_dicts
  <2>2. diff_dicts(new, old) = [raised |-> FALSE, changed |-> changed(new, old),
                                before |-> [k \in changed(new, old) |-> new[k]],
                                after |-> [k \in changed(new, old) |-> old[k]]]
    BY <1>5, <1>2, Zenon DEF diff_dicts
  <2>3. diff_dicts(new, old) = [raised |-> FALSE, changed |-> C, before |-> a, after |-> b]
    BY <2>2, <1>3, Zenon
  <2> HIDE DEF C, a, b
  <2> QED
    BY <2>1, <2>3
<1> QED
  BY <1>4, <1>5

\* Keys that only the new dict has make no difference; one that it lacks raises.
LEMMA DiffOverOldKeys ==
    ASSUME NEW old \in Dicts(DictKeys, PyValues), NEW new \in Dicts(DictKeys, PyValues)
    PROVE  IF DOMAIN old \subseteq DOMAIN new
           THEN diff_dicts(old, new) = diff_dicts(old, [k \in DOMAIN old |-> new[k]])
           ELSE diff_dicts(old, new).raised
<1> DEFINE cut == [k \in DOMAIN old |-> new[k]]
           failing(n) == \E k \in DOMAIN old : k \notin DOMAIN n \/ Incomparable(old[k], n[k])
           changed(n) == {k \in DOMAIN old : ~ValuesEqual(old[k], n[k])}
<1>1. CASE DOMAIN old \subseteq DOMAIN new
  <2>1. failing(cut) <=> failing(new)
    BY <1>1
  <2>2. changed(cut) = changed(new)
    OBVIOUS
  <2>3. [k \in changed(cut) |-> cut[k]] = [k \in changed(new) |-> new[k]]
    BY <2>2
  <2> QED
    BY <1>1, <2>1, <2>2, <2>3, Zenon DEF diff_dicts
<1>2. CASE ~(DOMAIN old \subseteq DOMAIN new)
  BY <1>2 DEF diff_dicts
<1> QED
  BY <1>1, <1>2

-----------------------------------------------------------------------------
(* to_iso8601_utc(), parse_iso8601_utc()                                   *)

\* What to_iso8601_utc() makes of a datetime and of a str that spells one.
SpellsDatetime(s) == s.type \in {"datetime", "str"} /\ s.form = "datetime"
Moment(s) == s.local - Offset(s)
Text(s) == AtUTC("str", Moment(s), IF s.type = "datetime" THEN s.micro ELSE FALSE)

LEMMA TextOfMoment ==
    ASSUME NEW s \in Stamps, SpellsDatetime(s)
    PROVE  to_iso8601_utc(s) = IF Moment(s) \in Calendar THEN Returned(Text(s)) ELSE Raised
<1> DEFINE at == Moment(s)
           micro == IF s.type = "datetime" THEN s.micro ELSE FALSE
<1>1. InUTC(s) = at
  BY DEF Moment, InUTC
<1>2. to_iso8601_utc(s) = AsText(Converted(s, micro))
  BY DEF to_iso8601_utc, parse_iso8601_utc, SpellsDatetime
<1>3. CASE at \notin Calendar
  BY <1>1, <1>2, <1>3 DEF Converted, AsText, Raised
<1>4. CASE at \in Calendar
  <2> DEFINE dt == AtUTC("datetime", at, micro)
  <2>1. Converted(s, micro) = Returned(dt)
    BY <1>1, <1>4 DEF Converted
  <2>2. dt.type = "datetime" /\ dt.local = at /\ dt.micro = micro
    BY DEF AtUTC
  <2>3. Text(s) = AtUTC("str", at, micro)
    BY DEF Text
  <2> HIDE DEF dt, at, micro
  <2>4. AsText(Returned(dt)) = Returned(AtUTC("str", dt.local, dt.micro))
    BY <2>2 DEF AsText, Returned
  <2> QED
    BY <2>1, <1>2, <1>4, <2>2, <2>3, <2>4 DEF at
<1> QED
  BY <1>3, <1>4

\* A text at UTC is a stamp of the same moment, and is read as it is.
LEMMA TextIsReadAsItIs ==
    ASSUME NEW at \in Calendar, NEW micro \in BOOLEAN
    PROVE  LET text == AtUTC("str", at, micro) IN
           /\ <<text.type, text.form, text.zone>> = <<"str", "datetime", "utc">>
           /\ text.local = at
           /\ to_iso8601_utc(text) = Returned(AtUTC("str", text.local, FALSE))
           /\ ~parse_iso8601_utc(text).raised
           /\ parse_iso8601_utc(text).value.local = text.local
<1> DEFINE text == AtUTC("str", at, micro)
<1>1. /\ text \in Stamps /\ text.type = "str" /\ text.form = "datetime"
      /\ text.zone = "utc" /\ text.local = at /\ Offset(text) = 0
  <2>1. 0 \in -MaxOffset .. MaxOffset
    BY CalendarAssumption
  <2>2. text \in Stamps
    BY <2>1 DEF AtUTC, Stamps
  <2> QED
    BY <2>2 DEF AtUTC, Offset
<1>2. at \in Int
  BY CalendarAssumption DEF Calendar
<1> HIDE DEF text
<1>3. Moment(text) = at /\ InUTC(text) = at
  BY <1>1, <1>2 DEF Moment, InUTC
<1>4. to_iso8601_utc(text) = Returned(AtUTC("str", at, FALSE))
  BY <1>1, <1>3, TextOfMoment DEF SpellsDatetime, Text
<1>5. parse_iso8601_utc(text) = Returned(AtUTC("datetime", at, FALSE))
  BY <1>1, <1>3 DEF parse_iso8601_utc, Converted
<1>6. ~parse_iso8601_utc(text).raised /\ parse_iso8601_utc(text).value.local = at
  BY <1>5 DEF Returned, AtUTC
<1> QED
  BY <1>1, <1>4, <1>6 DEF text

\* Seen from another zone a stamp stands for the same moment.
LEMMA TextOfAnyZone ==
    ASSUME NEW s \in Stamps, SpellsDatetime(s), s.zone = "offset", NEW d \in Int,
           SeenFrom(s, d) \in Stamps
    PROVE  to_iso8601_utc(SeenFrom(s, d)) = to_iso8601_utc(s)
<1> DEFINE t == SeenFrom(s, d)
<1>1. /\ s.local \in Int /\ s.offset \in Int
  BY CalendarAssumption DEF Stamps, Calendar
<1>2. /\ t.local = s.local + d /\ t.offset = s.offset + d
      /\ t.type = s.type /\ t.form = s.form /\ t.zone = s.zone /\ t.micro = s.micro
  BY DEF SeenFrom, Stamps
<1> HIDE DEF t
<1>3. Moment(t) = Moment(s)
  BY <1>1, <1>2 DEF Moment, Offset
<1>4. Text(t) = Text(s) /\ SpellsDatetime(t)
  BY <1>2, <1>3 DEF Text, SpellsDatetime
<1> QED
  BY <1>3, <1>4, TextOfMoment DEF t

-----------------------------------------------------------------------------
(* get_json_logging_config()                                               *)

\* The loggers of celery.
Celery == {"celery", "celery.task"}

LEMMA Parents ==
    /\ LoggerNames = Celery \cup {"django", "django.request", "service.devices", Root}
    /\ Root \notin Celery \cup {"django", "django.request", "service.devices"}
    /\ Parent["celery"] = Root /\ Parent["celery.task"] = "celery"
    /\ Parent["django"] = Root /\ Parent["django.request"] = "django"
    /\ Parent["service.devices"] = Root
  BY DEF LoggerNames, Parent, Root, Celery

\* The loggers of a configuration.
LoggersOf(dl, cl, dj, ce) == get_json_logging_config(dl, cl, dj, ce).loggers

LEMMA LoggerNamesOf ==
    ASSUME NEW dl, NEW cl, NEW dj, NEW ce
    PROVE  DOMAIN LoggersOf(dl, cl, dj, ce) = {Root} \cup (IF ce THEN {"celery"} ELSE {})
                                                     \cup (IF dj THEN {"django"} ELSE {})
  BY DEF LoggersOf, get_json_logging_config

LEMMA LevelsOf ==
    ASSUME NEW dl, NEW cl, NEW dj, NEW ce
    PROVE  \A n \in DOMAIN LoggersOf(dl, cl, dj, ce) :
              LoggersOf(dl, cl, dj, ce)[n].level = IF n = "celery" THEN cl ELSE dl
  BY DEF LoggersOf, get_json_logging_config, CeleryLogger

LEMMA HandlersOf ==
    ASSUME NEW dl, NEW cl, NEW dj, NEW ce
    PROVE  \A n \in DOMAIN LoggersOf(dl, cl, dj, ce) :
              LoggersOf(dl, cl, dj, ce)[n].handlers = IF n = "celery" THEN <<"celery_console">>
                                                                      ELSE <<"console">>
  BY DEF LoggersOf, get_json_logging_config, CeleryLogger

LEMMA NonePropagates ==
    ASSUME NEW dl, NEW cl, NEW dj, NEW ce
    PROVE  \A n \in DOMAIN LoggersOf(dl, cl, dj, ce) :
              LoggersOf(dl, cl, dj, ce)[n].propagate = FALSE
  BY DEF LoggersOf, get_json_logging_config, CeleryLogger

\* A logger of celery has its own level if celery is included and has one.
LevelOf(dl, cl, ce, name) == IF ce /\ name \in Celery /\ cl # 0 THEN cl ELSE dl

LEMMA LevelOfFamily ==
    ASSUME NEW dl, NEW cl, NEW dj, NEW ce, NEW name \in LoggerNames
    PROVE  EffectiveLevel(get_json_logging_config(dl, cl, dj, ce), name)
               = LevelOf(dl, cl, ce, name)
<1> DEFINE loggers == LoggersOf(dl, cl, dj, ce)
           own == {n \in DOMAIN loggers : n = Root \/ loggers[n].level # 0}
           Solves(level) ==
               level = [n \in LoggerNames |-> IF n \in own THEN loggers[n].level
                                              ELSE level[Parent[n]]]
           level == CHOOSE f : Solves(f)
<1>1. EffectiveLevel(get_json_logging_config(dl, cl, dj, ce), name) = level[name]
  BY DEF EffectiveLevel, LoggersOf
<1>2. \A n \in DOMAIN loggers : loggers[n].level = IF n = "celery" THEN cl ELSE dl
  BY LevelsOf
<1>n. own = {Root} \cup (IF ce /\ cl # 0 THEN {"celery"} ELSE {})
                  \cup (IF dj /\ dl # 0 THEN {"django"} ELSE {})
  <2>1. DOMAIN loggers = {Root} \cup (IF ce THEN {"celery"} ELSE {})
                              \cup (IF dj THEN {"django"} ELSE {})
    BY LoggerNamesOf
  <2> HIDE DEF loggers
  <2> QED
    BY <2>1, <1>2, Parents DEF Celery
<1>3. \A n \in own : loggers[n].level = IF n = "celery" THEN cl ELSE dl
  BY <1>2
<1> HIDE DEF loggers, own
<1>4. Solves([n \in LoggerNames |-> LevelOf(dl, cl, ce, n)])
  BY <1>n, <1>3, Parents DEF Celery, LevelOf
<1>5. Solves(level)
  BY <1>4
<1> HIDE DEF level
<1>6. \A n \in LoggerNames : level[n] = IF n \in own THEN loggers[n].level
                                        ELSE level[Parent[n]]
  BY <1>5
<1> QED
  BY <1>1, <1>3, <1>n, <1>6, Parents DEF Celery, LevelOf

\* Every record is given to one handler.
LEMMA OneHandler ==
    ASSUME NEW dl, NEW cl, NEW dj, NEW ce, NEW name \in LoggerNames
    PROVE  HandlersCalled(get_json_logging_config(dl, cl, dj, ce), name)
               = IF ce /\ name \in Celery THEN <<"celery_console">> ELSE <<"console">>
<1> DEFINE loggers == LoggersOf(dl, cl, dj, ce)
           Solves(called) ==
               called = [n \in LoggerNames |->
                            IF n \notin DOMAIN loggers THEN called[Parent[n]]
                            ELSE loggers[n].handlers \o
                                 IF n # Root /\ loggers[n].propagate THEN called[Root] ELSE <<>>]
           called == CHOOSE f : Solves(f)
<1>1. HandlersCalled(get_json_logging_config(dl, cl, dj, ce), name) = called[name]
  BY DEF HandlersCalled, LoggersOf
<1>n. DOMAIN loggers = {Root} \cup (IF ce THEN {"celery"} ELSE {})
                            \cup (IF dj THEN {"django"} ELSE {})
  BY LoggerNamesOf
<1>2. \A n \in DOMAIN loggers :
         loggers[n].handlers = IF n = "celery" THEN <<"celery_console">> ELSE <<"console">>
  BY HandlersOf
<1>p. \A n \in DOMAIN loggers : loggers[n].propagate = FALSE
  BY NonePropagates
<1> HIDE DEF loggers
<1>3. \A n \in DOMAIN loggers :
         \A rest : loggers[n].handlers \o (IF n # Root /\ loggers[n].propagate THEN rest ELSE <<>>)
                       = IF n = "celery" THEN <<"celery_console">> ELSE <<"console">>
  <2>1. <<"celery_console">> \o <<>> = <<"celery_console">> /\ <<"console">> \o <<>> = <<"console">>
    OBVIOUS
  <2> QED
    BY <1>2, <1>p, <2>1
<1>4. Solves([n \in LoggerNames |-> IF ce /\ n \in Celery THEN <<"celery_console">>
                                                          ELSE <<"console">>])
  BY <1>n, <1>3, Parents DEF Celery
<1>5. Solves(called)
  BY <1>4
<1> HIDE DEF called
<1>6. \A n \in LoggerNames :
         called[n] = IF n \notin DOMAIN loggers THEN called[Parent[n]]
                     ELSE IF n = "celery" THEN <<"celery_console">> ELSE <<"console">>
  BY <1>3, <1>5
<1> QED
  BY <1>1, <1>n, <1>6, Parents DEF Celery


\* The first handler sees what its own filter has set.
LEMMA FirstAttributes ==
    ASSUME NEW config, NEW handlers, NEW situation
    PROVE  Attributes(config, handlers, 1, situation)
               = FilterOutput(config.filters[config.handlers[handlers[1]].filter], situation)
<1> DEFINE added(j) == FilterOutput(config.filters[config.handlers[handlers[j]].filter], situation)
           Solves(set) ==
               set = [j \in 0 .. 1 |->
                         IF j = 0 THEN <<>>
                         ELSE [a \in DOMAIN added(j) \cup DOMAIN set[j - 1] |->
                                  IF a \in DOMAIN added(j) THEN added(j)[a] ELSE set[j - 1][a]]]
           set == CHOOSE s : Solves(s)
           one == added(1)
<1>1. Attributes(config, handlers, 1, situation) = set[1]
  BY Zenon DEF Attributes
<1>2. one = [a \in DOMAIN one |-> one[a]]
  BY DEF FilterOutput, CeleryContextFilter, RequestContextFilter
<1> DEFINE with(x) == [a \in DOMAIN one \cup DOMAIN x |->
                          IF a \in DOMAIN one THEN one[a] ELSE x[a]]
<1>3. with(<<>>) = one
  <2> HIDE DEF one
  <2>1. DOMAIN one \cup DOMAIN <<>> = DOMAIN one
    OBVIOUS
  <2> QED
    BY <1>2, <2>1
<1>4. \A s : Solves(s) <=> s = [j \in 0 .. 1 |-> IF j = 0 THEN <<>> ELSE with(s[0])]
  <2>1. \A j \in 0 .. 1 : j # 0 => j = 1 /\ j - 1 = 0
    OBVIOUS
  <2> QED
    BY <2>1
<1> HIDE DEF one, Solves, with
<1>5. \E s : Solves(s)
  <2> DEFINE s == [j \in 0 .. 1 |-> IF j = 0 THEN <<>> ELSE one]
  <2>1. s[0] = <<>>
    OBVIOUS
  <2>2. s = [j \in 0 .. 1 |-> IF j = 0 THEN <<>> ELSE with(s[0])]
    BY <1>3, <2>1
  <2> QED
    BY <1>4, <2>2
<1>6. Solves(set)
  BY <1>5
<1> HIDE DEF set
<1>7. set = [j \in 0 .. 1 |-> IF j = 0 THEN <<>> ELSE with(set[0])]
  BY <1>4, <1>6
<1>8. set[1] = one
  BY <1>3, <1>7
<1> QED
  BY <1>1, <1>8 DEF one

\* What one handler makes of a record.
Written(dl, cl, dj, ce, name, level, situation) ==
    Lines(get_json_logging_config(dl, cl, dj, ce), name, level, situation)

\* A record below the threshold is no line, and any other is one, of these fields.
Shows(lines, level, threshold, fields) ==
    /\ level < threshold => lines = <<>>
    /\ ~(level < threshold) => Len(lines) = 1
    /\ \A i \in DOMAIN lines : lines[i] = fields

FieldsOf(celery, situation) ==
    IF celery THEN CeleryContextFilter(situation) ELSE RequestContextFilter

LEMMA OneLine ==
    ASSUME NEW dl, NEW cl, NEW dj, NEW ce,
           NEW name \in LoggerNames, NEW level, NEW situation
    PROVE  Shows(Written(dl, cl, dj, ce, name, level, situation), level,
                 LevelOf(dl, cl, ce, name), FieldsOf(ce /\ name \in Celery, situation))
<1> DEFINE config == get_json_logging_config(dl, cl, dj, ce)
           celery == ce /\ name \in Celery
           called == HandlersCalled(config, name)
           added == IF celery THEN CeleryContextFilter(situation) ELSE RequestContextFilter
           fields == config.formatters[config.handlers[called[1]].formatter]
           attributes == Attributes(config, called, 1, situation)
           lines == Lines(config, name, level, situation)
           threshold == LevelOf(dl, cl, ce, name)
<1>1. /\ EffectiveLevel(config, name) = threshold
      /\ called = IF celery THEN <<"celery_console">> ELSE <<"console">>
  BY LevelOfFamily, OneHandler
<1>2. DOMAIN called = {1} /\ called[1] = IF celery THEN "celery_console" ELSE "console"
  BY <1>1
<1>3. /\ fields = DOMAIN added
      /\ config.handlers[called[1]].filter = IF celery THEN "celery_context" ELSE "request_context"
      /\ config.filters[config.handlers[called[1]].filter]
             = IF celery THEN "CeleryContextFilter" ELSE "RequestContextFilter"
  BY <1>2 DEF get_json_logging_config, CeleryHandler, CeleryContextFilter, RequestContextFilter, Celery
<1>4. attributes = added
  BY <1>3, FirstAttributes DEF FilterOutput
<1>5. level < threshold => lines = <<>>
  BY <1>1 DEF Lines
<1>6. added = [f \in DOMAIN added |-> added[f]]
  BY DEF CeleryContextFilter, RequestContextFilter
<1>7. [f \in fields |-> IF f \in DOMAIN attributes THEN attributes[f] ELSE "null"] = added
  BY <1>3, <1>4, <1>6
<1>8. ~(level < threshold) => Len(lines) = 1 /\ DOMAIN lines = {1} /\ lines[1] = added
  <2> SUFFICES ASSUME ~(level < threshold) PROVE lines = <<added>>
    OBVIOUS
  <2>1. lines = [i \in DOMAIN called |->
                   [f \in config.formatters[config.handlers[called[i]].formatter] |->
                       IF f \in DOMAIN Attributes(config, called, i, situation)
                       THEN Attributes(config, called, i, situation)[f] ELSE "null"]]
    BY <1>1, Zenon DEF Lines
  <2>2. \A i \in DOMAIN called : i = 1
    BY <1>2
  <2> DEFINE line(i) == [f \in config.formatters[config.handlers[called[i]].formatter] |->
                           IF f \in DOMAIN Attributes(config, called, i, situation)
                           THEN Attributes(config, called, i, situation)[f] ELSE "null"]
  <2>4. line(1) = added
    BY <1>7
  <2> HIDE DEF line
  <2>5. \A i \in DOMAIN called : line(i) = added
    BY <2>2, <2>4
  <2>3. lines = [i \in DOMAIN called |-> added]
    BY <2>1, <2>5 DEF line
  <2> HIDE DEF lines, added, called
  <2> QED
    BY <2>3, <1>2
<1> QED
  BY <1>5, <1>8 DEF Written, Shows, FieldsOf

-----------------------------------------------------------------------------
(* The caller                                                              *)

\* What a caller has in hand: a call of one of the functions, and, once it has
\* returned, its result.
Computed ==
    /\ call.op = "normalize_schema" =>
          /\ call.data \in Dicts(DictKeys, PyValues) /\ call.options \in Options
          /\ returned => result = normalize_schema(call.data, call.schema.required,
                                      call.schema.optional, call.options)
    /\ call.op = "diff_dicts" =>
          /\ call.old \in Dicts(DictKeys, PyValues) /\ call.new \in Dicts(DictKeys, PyValues)
          /\ returned => result = diff_dicts(call.old, call.new)
    /\ call.op = "to_iso8601_utc" =>
          call.stamp \in Stamps /\ (returned => result = to_iso8601_utc(call.stamp))
    /\ call.op = "publish_audit_event" =>
          call.record \in Records /\ (returned => result = publish_audit_event(call.record))
    /\ call.op = "log" =>
          /\ call \in LoggingCalls
          /\ returned => result = Lines(Configured, call.logger, call.level, call.situation)

LEMMA ComputedInit == Init => Computed
<1> SUFFICES ASSUME Init PROVE Computed
  OBVIOUS
<1>1. returned = FALSE
  BY DEF Init
<1>2. Dicts(DictKeys, Values) \subseteq Dicts(DictKeys, PyValues)
  BY HelperAssumption DEF Dicts
<1>3. \/ call.op = "normalize_schema" /\ call.data \in Dicts(DictKeys, Values)
                                      /\ call.options \in Options
      \/ call.op = "diff_dicts" /\ call.old \in Dicts(DictKeys, Values)
                                /\ call.new \in Dicts(DictKeys, Values)
      \/ call.op = "to_iso8601_utc" /\ call.stamp \in Stamps
      \/ call.op = "publish_audit_event" /\ call.record \in Records
      \/ call.op = "log" /\ call \in LoggingCalls
      \/ call.op \in {"normalize_str", "parse_iso8601_utc"}
  BY DEF Init, LoggingCalls
<1> QED
  BY <1>1, <1>2, <1>3 DEF Computed

LEMMA ComputedNext == Computed /\ [Next]_vars => Computed'
<1> SUFFICES ASSUME Computed, [Next]_vars PROVE Computed'
  OBVIOUS
<1>1. CASE call.op = "normalize_schema" /\ NormalizeSchema(call.schema)
  BY <1>1 DEF Computed, NormalizeSchema, Return
<1>2. CASE NormalizeStr
  BY <1>2 DEF Computed, NormalizeStr, Return
<1>3. CASE DiffDicts
  BY <1>3 DEF Computed, DiffDicts, Return
<1>4. CASE ParseTime
  BY <1>4 DEF Computed, ParseTime, Return
<1>5. CASE FormatTime
  BY <1>5 DEF Computed, FormatTime, Return
<1>6. CASE Log
  BY <1>6 DEF Computed, Log, Return, Configured
<1>7. CASE Publish
  BY <1>7 DEF Computed, Publish, Return
<1>8. CASE UNCHANGED vars
  <2>1. call' = call /\ returned' = returned /\ result' = result
    BY <1>8 DEF vars
  <2> QED
    BY <2>1, Zenon DEF Computed, Configured
<1> QED
  BY <1>1, <1>2, <1>3, <1>4, <1>5, <1>6, <1>7, <1>8 DEF Next

\* Whoever calls a function of the library gets its value for the arguments.
THEOREM CallersGetValues == Spec => []Computed
  BY ComputedInit, ComputedNext, PTL DEF Spec

\* Normalizing what is normalized changes nothing (dicts.py:29-55).
THEOREM SchemaStaysNormal == Spec => []SchemaIsIdempotent
<1>1. Computed => SchemaIsIdempotent
  <2> SUFFICES ASSUME Computed, Answered("normalize_schema")
               PROVE  normalize_schema(result.normalized, call.schema.required,
                          call.schema.optional, call.options) = result
    BY DEF SchemaIsIdempotent
  <2> QED
    BY NormalizedTwice DEF Computed, Answered
<1> QED
  BY <1>1, CallersGetValues, PTL

\* `after' redoes a change and `before' undoes it (dicts.py:79-93).
THEOREM DiffsRestore == Spec => []DiffRedoesAndUndoes
<1>1. Computed => DiffRedoesAndUndoes
  BY DiffRestores DEF Computed, DiffRedoesAndUndoes, Answered
<1> QED
  BY <1>1, CallersGetValues, PTL

\* Exchanging the snapshots exchanges before and after (dicts.py:83-91).
THEOREM DiffsAreSymmetric == Spec => []DiffIsSymmetric
<1>1. Computed => DiffIsSymmetric
  BY DiffExchanged DEF Computed, DiffIsSymmetric, Answered
<1> QED
  BY <1>1, CallersGetValues, PTL

\* A lost key raises, a new one is passed over (dicts.py:79-81).
THEOREM DiffsSeeLostKeys == Spec => []DiffSeesLostKeysOnly
<1>1. Computed => DiffSeesLostKeysOnly
  BY DiffOverOldKeys DEF Computed, DiffSeesLostKeysOnly, Answered
<1> QED
  BY <1>1, CallersGetValues, PTL

\* The text of a moment does not depend on the zone it was told in, and is read as
\* it is, whatever the calendar and the offsets (normalization.py:12-52).
THEOREM MomentsHaveOneText == Spec => []SameMomentSameText
<1>1. Computed => SameMomentSameText
  <2> DEFINE s == call.stamp
             text == result.value
  <2> SUFFICES ASSUME Computed, Answered("to_iso8601_utc"), SpellsDatetime(s)
      PROVE  /\ s.zone = "offset" =>
                   \A d \in -2 * MaxOffset .. 2 * MaxOffset :
                      SeenFrom(s, d) \in Stamps => to_iso8601_utc(SeenFrom(s, d)) = result
             /\ s.zone # "offset" \/ s.offset = 0 => ~result.raised /\ text.local = s.local
             /\ ~result.raised =>
                   /\ <<text.type, text.form, text.zone>> = <<"str", "datetime", "utc">>
                   /\ to_iso8601_utc(text) = Returned(AtUTC("str", text.local, FALSE))
                   /\ ~parse_iso8601_utc(text).raised
                   /\ parse_iso8601_utc(text).value.local = text.local
    BY Zenon DEF SameMomentSameText, SpellsDatetime
  <2>1. s \in Stamps /\ result = to_iso8601_utc(s)
    BY DEF Computed, Answered
  <2>2. result = IF Moment(s) \in Calendar THEN Returned(Text(s)) ELSE Raised
    BY <2>1, TextOfMoment
  <2>3. /\ ~result.raised => Moment(s) \in Calendar /\ text = Text(s)
        /\ Moment(s) \in Calendar => ~result.raised
    BY <2>2 DEF Returned, Raised
  <2> HIDE DEF s, text
  <2>4. ASSUME s.zone = "offset", NEW d \in -2 * MaxOffset .. 2 * MaxOffset,
               SeenFrom(s, d) \in Stamps
        PROVE  to_iso8601_utc(SeenFrom(s, d)) = result
    <3>1. d \in Int
      BY CalendarAssumption
    <3> QED
      BY <2>1, <2>4, <3>1, TextOfAnyZone
  <2>5. ASSUME s.zone # "offset" \/ s.offset = 0
        PROVE  ~result.raised /\ text.local = s.local
    <3>1. s.local \in Calendar /\ s.local \in Int
      BY <2>1, CalendarAssumption DEF Stamps, Calendar
    <3>2. Moment(s) = s.local
      BY <2>5, <3>1 DEF Moment, Offset
    <3>3. ~result.raised /\ text = Text(s)
      BY <2>3, <3>1, <3>2
    <3> QED
      BY <3>2, <3>3 DEF Text, AtUTC
  <2>6. ASSUME ~result.raised
        PROVE  /\ <<text.type, text.form, text.zone>> = <<"str", "datetime", "utc">>
               /\ to_iso8601_utc(text) = Returned(AtUTC("str", text.local, FALSE))
               /\ ~parse_iso8601_utc(text).raised
               /\ parse_iso8601_utc(text).value.local = text.local
    <3>1. Moment(s) \in Calendar /\ text = Text(s)
      BY <2>3, <2>6
    <3>2. (IF s.type = "datetime" THEN s.micro ELSE FALSE) \in BOOLEAN
      BY <2>1 DEF Stamps
    <3> QED
      BY <3>1, <3>2, TextIsReadAsItIs DEF Text
  <2> QED
    BY <2>4, <2>5, <2>6
<1> QED
  BY <1>1, CallersGetValues, PTL

\* Only blanks are lost, and only whitespace changes (dicts.py:29-55,
\* normalization.py:5-9).
THEOREM BlanksAreLost == Spec => []SchemaLosesOnlyBlanks
<1>1. Computed => SchemaLosesOnlyBlanks
  <2> DEFINE data == call.data
             required == call.schema.required
             optional == call.schema.optional
             declared == DOMAIN data \cap (required \cup optional)
             n == result.normalized
             kept == (required \cap DOMAIN data) \cup
                     {f \in optional \cap DOMAIN data :
                         ~Dropped(Prepared(data[f], call.options), call.options)}
  <2> SUFFICES ASSUME Computed, Answered("normalize_schema")
               PROVE  /\ DOMAIN n \subseteq declared
                      /\ \A f \in declared \ DOMAIN n :
                            /\ f \notin required
                            /\ \/ IsNone(data[f])
                               \/ /\ IsString(data[f])
                                  /\ normalize_str(data[f], FALSE) = NoneValue
                      /\ \A f \in DOMAIN n : Strip(n[f]) = Strip(data[f])
                      /\ \A f \in DOMAIN n \ required :
                            call.options = [o \in DOMAIN call.options |-> TRUE]
                                /\ IsString(data[f])
                              => normalize_str(data[f], FALSE) = n[f]
    BY Zenon DEF SchemaLosesOnlyBlanks
  <2>1. /\ call.data \in Dicts(DictKeys, PyValues)
        /\ call.options \in Options
        /\ result = normalize_schema(data, required, optional, call.options)
    BY DEF Computed, Answered
  <2>2. \A f \in DOMAIN data : data[f] \in PyValues
    BY <2>1 DEF Dicts
  <2>3. n = [f \in kept |-> Prepared(data[f], call.options)]
    BY <2>1 DEF normalize_schema
  <2>4. DOMAIN n = kept /\ \A f \in kept : n[f] = Prepared(data[f], call.options)
    BY <2>3
  <2>5. call.options = [o \in DOMAIN call.options |-> TRUE] =>
            call.options.strip_strings /\ call.options.drop_optional_blank_strings
    BY <2>1 DEF Options
  <2> HIDE DEF n, data
  <2>6. DOMAIN n \subseteq declared
    BY <2>4
  <2>7. ASSUME NEW f \in declared \ DOMAIN n
        PROVE  /\ f \notin required
               /\ \/ IsNone(data[f])
                  \/ IsString(data[f]) /\ normalize_str(data[f], FALSE) = NoneValue
    <3>1. f \notin required /\ Dropped(Prepared(data[f], call.options), call.options)
      BY <2>4
    <3> QED
      BY <3>1, <2>1, <2>2, ValueIsKept
  <2>8. ASSUME NEW f \in DOMAIN n PROVE Strip(n[f]) = Strip(data[f])
    BY <2>1, <2>2, <2>4, ValueIsKept
  <2>9. ASSUME NEW f \in DOMAIN n \ required,
               call.options = [o \in DOMAIN call.options |-> TRUE], IsString(data[f])
        PROVE  normalize_str(data[f], FALSE) = n[f]
    <3>1. ~Dropped(Prepared(data[f], call.options), call.options)
      BY <2>4
    <3>2. call.options.strip_strings /\ call.options.drop_optional_blank_strings
      BY <2>5, <2>9, Zenon
    <3>3. data[f] \in PyValues /\ n[f] = Prepared(data[f], call.options)
      BY <2>2, <2>4
    <3> QED
      BY <3>1, <3>2, <3>3, <2>1, <2>9, ValueIsKept, Zenon
  <2>10. \A f \in DOMAIN n \ required :
            call.options = [o \in DOMAIN call.options |-> TRUE] /\ IsString(data[f])
              => normalize_str(data[f], FALSE) = n[f]
    BY <2>9, Zenon
  <2> QED
    BY <2>6, <2>7, <2>8, <2>10, Zenon
<1> QED
  BY <1>1, CallersGetValues, PTL

\* Publishing an audit event never raises, and is refused only for what JSON or
\* UTF-8 cannot hold (publisher.py:12-15, record.py:21-30, producer.py:51-55).
THEOREM AuditsAreRefusedForCause == Spec => []AuditRefusedForCause
<1>1. ASSUME NEW r \in Records
      PROVE  LET written == {r.entity_id, r.details}
                       \cup IF r.actor = "user" THEN {} ELSE {r.given_id} IN
             publish_audit_event(r) =
                 IF \/ "unserializable" \in written
                    \/ "surrogate" \in written
                           \cup {r.given_id, r.entity_type, r.event_type}
                 THEN "SERIALIZATION_FAILED" ELSE "encoded"
  <2> DEFINE fields == to_record(r)
             values == {fields[f] : f \in DOMAIN fields}
  <2>1. values = {ActorId(r.actor, r.given_id), r.entity_type, r.entity_id,
                  r.event_type, r.details}
    BY DEF to_record
  <2>2. publish_audit_event(r) =
            IF "unserializable" \in values \/ "surrogate" \in values
            THEN "SERIALIZATION_FAILED" ELSE "encoded"
    <3>1. r.event_type = "surrogate" => "surrogate" \in values
      BY <2>1
    <3>2. DictOf(fields) = CASE "unserializable" \in values -> "unserializable"
             [] "unserializable" \notin values /\ "surrogate" \in values -> "surrogate"
             [] OTHER -> IF "tuples" \in values THEN "tuples" ELSE "plain"
      BY DEF DictOf
    <3> HIDE DEF values
    <3> QED
      BY <3>1, <3>2 DEF publish_audit_event, Encoding, Dumps
  <2> HIDE DEF values
  <2> QED
    BY <2>1, <2>2 DEF ActorId, Str, Records, Payloads, Keys
<1>2. Computed => AuditRefusedForCause
  BY <1>1, Zenon DEF Computed, AuditRefusedForCause, Answered
<1> QED
  BY <1>2, CallersGetValues, PTL

\* What a caller of the logging sees.
Threshold == LevelOf(call.django_level, call.celery_level, call.include_celery, call.logger)

LEMMA LoggedLines ==
    ASSUME Computed, Answered("log")
    PROVE  /\ call.level \in Nat /\ Threshold \in Nat
           /\ call.level < Threshold => Len(result) = 0
           /\ ~(call.level < Threshold) => Len(result) = 1
           /\ \A i \in DOMAIN result :
                 result[i] = FieldsOf(OfCelery(call.logger), call.situation)
<1>1. /\ call.django_level \in Nat /\ call.celery_level \in Nat /\ call.level \in Nat
      /\ call.logger \in LoggerNames
  BY HelperAssumption DEF Computed, Answered, LoggingCalls
<1>2. result = Written(call.django_level, call.celery_level, call.include_django,
                       call.include_celery, call.logger, call.level, call.situation)
  BY DEF Computed, Answered, Configured, Written
<1>3. Threshold \in Nat
  BY <1>1 DEF Threshold, LevelOf
<1>4. Shows(result, call.level, Threshold,
            FieldsOf(call.include_celery /\ call.logger \in Celery, call.situation))
  BY <1>1, <1>2, OneLine DEF Threshold
<1>5. FieldsOf(call.include_celery /\ call.logger \in Celery, call.situation)
          = FieldsOf(OfCelery(call.logger), call.situation)
  BY DEF OfCelery, Celery, FieldsOf
<1>6. Len(<<>>) = 0
  OBVIOUS
<1> QED
  BY <1>1, <1>3, <1>4, <1>5, <1>6 DEF Shows

\* Every record is written once, complete, or not at all, whatever the levels
\* (logging.py:38-89).
THEOREM LinesAreWrittenOnce == Spec => []WrittenOnceAndComplete
<1>1. Computed => WrittenOnceAndComplete
  <2> DEFINE celery == OfCelery(call.logger)
             threshold == IF celery /\ call.celery_level # 0
                          THEN call.celery_level ELSE call.django_level
  <2> SUFFICES ASSUME Computed, Answered("log")
               PROVE  /\ Len(result) = IF call.level >= threshold THEN 1 ELSE 0
                      /\ \A i \in DOMAIN result : \A f \in DOMAIN result[i] :
                            result[i][f] # "null"
    BY Zenon DEF WrittenOnceAndComplete
  <2>1. threshold = Threshold
    BY DEF Threshold, LevelOf, OfCelery, Celery
  <2> HIDE DEF threshold
  <2>2. /\ call.level \in Nat /\ threshold \in Nat
        /\ call.level < threshold => Len(result) = 0
        /\ ~(call.level < threshold) => Len(result) = 1
    BY <2>1, LoggedLines, Zenon
  <2>3. \A i \in DOMAIN result : \A f \in DOMAIN result[i] : result[i][f] # "null"
    BY LoggedLines DEF FieldsOf, CeleryContextFilter, RequestContextFilter
  <2> QED
    BY <2>2, <2>3
<1> QED
  BY <1>1, CallersGetValues, PTL

\* A line names the request or the task, never both (logging.py:75,
\* filters.py:23-36).
THEOREM LinesNameOneContext == Spec => []LineNamesOneContext
<1>1. Computed => LineNamesOneContext
  <2> SUFFICES ASSUME Computed, Answered("log"), NEW i \in DOMAIN result
      PROVE  IF OfCelery(call.logger)
             THEN /\ DOMAIN result[i] = {"task_id", "task_name"}
                  /\ result[i]["task_id"] = "the task" <=> call.situation = "task"
                  /\ result[i]["task_name"] = "the task" <=>
                        call.situation \in {"task", "called directly"}
             ELSE \A f \in DOMAIN result[i] : result[i][f] = "the request"
    BY DEF LineNamesOneContext
  <2>1. result[i] = IF OfCelery(call.logger) THEN CeleryContextFilter(call.situation)
                                             ELSE RequestContextFilter
    BY LoggedLines DEF FieldsOf
  <2>2. CASE ~OfCelery(call.logger)
    BY <2>1, <2>2 DEF RequestContextFilter
  <2>3. CASE OfCelery(call.logger)
    <3> DEFINE output == CeleryContextFilter(call.situation)
    <3>1. DOMAIN output = {"task_id", "task_name"}
      BY DEF CeleryContextFilter
    <3>2. output["task_id"] = "the task" <=> call.situation = "task"
      BY DEF CeleryContextFilter
    <3>3. output["task_name"] = "the task" <=>
             call.situation \in {"task", "called directly"}
      BY DEF CeleryContextFilter
    <3>4. result[i] = output
      BY <2>1, <2>3
    <3> QED
      BY <2>3, <3>1, <3>2, <3>3, <3>4
  <2> QED
    BY <2>2, <2>3
<1> QED
  BY <1>1, CallersGetValues, PTL

=============================================================================
