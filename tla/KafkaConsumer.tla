---------------------------- MODULE KafkaConsumer ----------------------------
(***************************************************************************)
(* KafkaConsumer (kafka_kit/consumer.py): the poll, decode, handle, commit *)
(* loop, run by every member of a consumer group against KafkaBroker.      *)
(*                                                                         *)
(* A member is one process: it builds a KafkaConsumer, calls start(), may  *)
(* have stop() called by a signal handler between any two steps, may be    *)
(* killed, and is started again by its supervisor.  The steps of a member  *)
(* are cut at the calls that leave the process (poll/consume, the handler, *)
(* commit, close), because that is where the other members, the            *)
(* coordinator, signals and crashes come in between.                       *)
(*                                                                         *)
(* Abstracted: the content of payloads beyond KafkaBroker!Values; the      *)
(* flattening of JSON arrays in a batch (lines 128-131), so batch holds    *)
(* the messages whose payload went in; the counters and the latency        *)
(* histogram, except that `reported' holds the messages for which          *)
(* kafka_errors_total was incremented.                                     *)
(***************************************************************************)
EXTENDS KafkaBroker

CONSTANTS DecodeJson,        \* decode_json
          ConsumeBatch,      \* consume_batch
          BatchMaxSize,      \* batch_max_size
          EnableAutoCommit,  \* config.enable_auto_commit
          NoMessage,         \* None, as the value of last_valid_message
          MaxFaults          \* bound on stops, crashes, expulsions and errors

ASSUME ConsumerAssumption ==
    /\ DecodeJson \in BOOLEAN
    /\ ConsumeBatch \in BOOLEAN
    /\ BatchMaxSize \in Nat \ {0}
    /\ EnableAutoCommit \in BOOLEAN
    /\ MaxFaults \in Nat

(***************************************************************************)
(* What poll() and consume() return: a message of a partition or an error  *)
(* event (message.error() is set), which has no offset of the log.         *)
(***************************************************************************)
Message == [part : Partitions, offset : Nat, kind : Values \cup {"error"}]

ASSUME NoMessageAssumption == NoMessage \notin Message

VARIABLES
    \* self._running, the control point of start(), and how it is left
    running, pc, raised,
    \* the confluent_kafka handle: what it believes it owns, its positions
    assigned, position,
    \* locals of one iteration: fetched and not yet looked at, the payloads
    \* collected, last_valid_message
    messages, batch, last,
    \* history: outcomes of messages, calls of handle() per assignment,
    \* messages a process took with it when it died
    handled, reported, called, abandoned,
    \* disturbances so far
    faults

loopVars   == <<running, pc, raised>>
clientVars == <<assigned, position>>
localVars  == <<messages, batch, last>>
histVars   == <<handled, reported, called, abandoned>>
vars == <<brokerVars, loopVars, clientVars, localVars, histVars, faults>>

Points == {"new", "loop", "fetch", "scan", "handle", "commit", "close",
           "stopped", "dead"}

Offsets == Partitions \X Nat

Id(x) == <<x.part, x.offset>>
Ids(S) == {Id(x) : x \in S}

\* A message has its outcome: handled, or counted in kafka_errors_total.
Settled == handled \cup reported

IsValid(x) == x.kind # "error"

\* The messages m has fetched in the current iteration and not dropped.
Held(m) ==
    {messages[m][i] : i \in DOMAIN messages[m]} \cup batch[m]

\* Those whose outcome the iteration decides.
InFlight(m) == Ids({x \in Held(m) : IsValid(x)})

Alive(m) == pc[m] \notin {"stopped", "dead"}

TypeOK ==
    /\ BrokerTypeOK
    /\ running \in [Members -> BOOLEAN]
    /\ pc \in [Members -> Points]
    /\ raised \in [Members -> {"none", "KafkaException", "BaseException"}]
    /\ assigned \in [Members -> SUBSET Partitions]
    /\ position \in [Members -> [Partitions -> Nat]]
    /\ messages \in [Members -> Seq(Message)]
    /\ batch \in [Members -> SUBSET Message]
    /\ last \in [Members -> Message \cup {NoMessage}]
    /\ \A m \in Members :
          pc[m] \in {"handle", "commit"} => last[m] # NoMessage
    /\ handled \subseteq Offsets
    /\ reported \subseteq Offsets
    /\ called \in [Members -> SUBSET Offsets]
    /\ abandoned \subseteq Offsets
    /\ faults \in 0 .. MaxFaults

Init ==
    /\ BrokerInit
    /\ running = [m \in Members |-> TRUE]
    /\ pc = [m \in Members |-> "new"]
    /\ raised = [m \in Members |-> "none"]
    /\ assigned = [m \in Members |-> {}]
    /\ position = [m \in Members |-> [p \in Partitions |-> 0]]
    /\ messages = [m \in Members |-> <<>>]
    /\ batch = [m \in Members |-> {}]
    /\ last = [m \in Members |-> NoMessage]
    /\ handled = {}
    /\ reported = {}
    /\ called = [m \in Members |-> {}]
    /\ abandoned = {}
    /\ faults = 0

Goto(m, point) == pc' = [pc EXCEPT ![m] = point]

Disturbance ==
    /\ faults < MaxFaults
    /\ faults' = faults + 1

\* An exception leaves self._consume(); start() goes to its finally clause.
Raise(m, exception) ==
    /\ raised' = [raised EXCEPT ![m] = exception]
    /\ Goto(m, "close")

-----------------------------------------------------------------------------
(* start() *)

Start(m) ==
    /\ pc[m] = "new"
    /\ Goto(m, "loop")
    /\ UNCHANGED <<brokerVars, running, raised, clientVars, localVars,
                   histVars, faults>>

\* Mutant: batch and last_valid_message outlive the iteration.
LoopEnters_KeepsLocals(m) ==
    /\ pc[m] = "loop"
    /\ running[m]
    /\ Goto(m, "fetch")
    /\ messages' = [messages EXCEPT ![m] = <<>>]
    /\ UNCHANGED <<brokerVars, running, raised, clientVars, batch, last,
                   histVars, faults>>

\* Mutant: the loop goes on without a look at self._running.
LoopEnters_Unasked(m) ==
    /\ pc[m] = "loop"
    /\ Goto(m, "fetch")
    /\ messages' = [messages EXCEPT ![m] = <<>>]
    /\ batch' = [batch EXCEPT ![m] = {}]
    /\ last' = [last EXCEPT ![m] = NoMessage]
    /\ UNCHANGED <<brokerVars, running, raised, clientVars, histVars, faults>>

\* while self._running: self._consume(), whose locals start empty
LoopEnters(m) ==
    /\ pc[m] = "loop"
    /\ running[m]
    /\ Goto(m, "fetch")
    /\ messages' = [messages EXCEPT ![m] = <<>>]
    /\ batch' = [batch EXCEPT ![m] = {}]
    /\ last' = [last EXCEPT ![m] = NoMessage]
    /\ UNCHANGED <<brokerVars, running, raised, clientVars, histVars, faults>>

LoopEnds(m) ==
    /\ pc[m] = "loop"
    /\ ~running[m]
    /\ Goto(m, "close")
    /\ UNCHANGED <<brokerVars, running, raised, clientVars, localVars,
                   histVars, faults>>

-----------------------------------------------------------------------------
(* Inside poll() and consume(): rebalances are served, then messages.      *)

\* Takes a free partition over, from the group's committed offset.
Assign(m, p) ==
    /\ pc[m] = "fetch"
    /\ messages[m] = <<>>
    /\ p \notin assigned[m]
    /\ Grant(p, m)
    /\ assigned' = [assigned EXCEPT ![m] = @ \cup {p}]
    /\ position' = [position EXCEPT ![m][p] = committed[p]]
    /\ called' = [called EXCEPT ![m] = {id \in @ : id[1] # p}]
    /\ UNCHANGED <<loopVars, localVars, handled, reported, abandoned, faults>>

\* Notices that the coordinator has taken partitions away.
Lose(m) ==
    /\ pc[m] = "fetch"
    /\ messages[m] = <<>>
    /\ \E p \in assigned[m] : owner[p] # m
    /\ assigned' = [assigned EXCEPT ![m] = {p \in @ : owner[p] = m}]
    /\ UNCHANGED <<brokerVars, loopVars, position, localVars, histVars, faults>>

FetchLimit == IF ConsumeBatch THEN BatchMaxSize ELSE 1

\* The next message of a partition m believes it owns; one that m has
\* prefetched may come out after the coordinator has expelled m.
Deliver(m, p) ==
    /\ pc[m] = "fetch"
    /\ p \in assigned[m]
    /\ Len(messages[m]) < FetchLimit
    /\ position[m][p] < Len(log[p])
    /\ messages' = [messages EXCEPT ![m] =
            Append(@, [part |-> p, offset |-> position[m][p],
                       kind |-> log[p][position[m][p] + 1]])]
    /\ position' = [position EXCEPT ![m][p] = @ + 1]
    /\ UNCHANGED <<brokerVars, loopVars, assigned, batch, last, histVars, faults>>

DeliverError(m) ==
    /\ pc[m] = "fetch"
    /\ Len(messages[m]) < FetchLimit
    /\ \E p \in Partitions :
          messages' = [messages EXCEPT ![m] =
            Append(@, [part |-> p, offset |-> 0, kind |-> "error"])]
    /\ UNCHANGED <<brokerVars, loopVars, clientVars, batch, last, histVars, faults>>

FetchRaises(m) ==
    /\ pc[m] = "fetch"
    /\ messages[m] = <<>>
    /\ Disturbance
    /\ Raise(m, "KafkaException")
    /\ UNCHANGED <<brokerVars, running, clientVars, localVars, histVars>>

\* poll() returns a message, an error event or, on a timeout, None; consume()
\* returns what it has gathered.  Either way the messages are looked at next.
FetchReturns(m) ==
    /\ pc[m] = "fetch"
    /\ Goto(m, "scan")
    /\ UNCHANGED <<brokerVars, running, raised, clientVars, localVars,
                   histVars, faults>>

-----------------------------------------------------------------------------
(* The loop over the messages (lines 95-101 of _consume_one, 120-133 of    *)
(* _consume_batch): x is the message looked at.                            *)

\* _get_message_payload() gives something other than None.
HasPayload(x) ==
    /\ x.kind # "tombstone"
    /\ DecodeJson => x.kind = "json"

Looking(m) ==
    /\ pc[m] = "scan"
    /\ messages[m] # <<>>
    /\ messages' = [messages EXCEPT ![m] = Tail(@)]

ScanInvalid(m) ==
    /\ Looking(m)
    /\ ~IsValid(Head(messages[m]))
    /\ UNCHANGED <<brokerVars, loopVars, clientVars, batch, last, histVars, faults>>

\* Mutant: the message is skipped without kafka_errors_total (line 197).
ScanUndecodable_Uncounted(m) ==
    /\ Looking(m)
    /\ IsValid(Head(messages[m]))
    /\ ~HasPayload(Head(messages[m]))
    /\ UNCHANGED <<brokerVars, loopVars, clientVars, batch, last, histVars, faults>>

ScanUndecodable(m) ==
    LET x == Head(messages[m]) IN
    /\ Looking(m)
    /\ IsValid(x)
    /\ ~HasPayload(x)
    /\ reported' = reported \cup {Id(x)}
    /\ UNCHANGED <<brokerVars, loopVars, clientVars, batch, last, handled,
                   called, abandoned, faults>>

\* Mutant: the first message of a batch with a payload stays the one committed.
ScanPayload_KeepsFirst(m) ==
    LET x == Head(messages[m]) IN
    /\ Looking(m)
    /\ IsValid(x)
    /\ HasPayload(x)
    /\ batch' = [batch EXCEPT ![m] = @ \cup {x}]
    /\ last' = [last EXCEPT ![m] = IF @ = NoMessage THEN x ELSE @]
    /\ UNCHANGED <<brokerVars, loopVars, clientVars, histVars, faults>>

ScanPayload(m) ==
    LET x == Head(messages[m]) IN
    /\ Looking(m)
    /\ IsValid(x)
    /\ HasPayload(x)
    /\ batch' = [batch EXCEPT ![m] = @ \cup {x}]
    /\ last' = [last EXCEPT ![m] = x]
    /\ UNCHANGED <<brokerVars, loopVars, clientVars, histVars, faults>>

\* Mutant: the test of last_valid_message (lines 95, 135) is gone.
ScanDone_Untested(m) ==
    /\ pc[m] = "scan"
    /\ messages[m] = <<>>
    /\ Goto(m, "handle")
    /\ called' = [called EXCEPT ![m] = @ \cup Ids(batch[m])]
    /\ UNCHANGED <<brokerVars, running, raised, clientVars, localVars,
                   handled, reported, abandoned, faults>>

\* Mutant: the batch is committed before it is handled.
ScanDone_CommitsFirst(m) ==
    /\ pc[m] = "scan"
    /\ messages[m] = <<>>
    /\ Goto(m, IF last[m] = NoMessage THEN "loop" ELSE "commit")
    /\ called' = [called EXCEPT ![m] = @ \cup Ids(batch[m])]
    /\ UNCHANGED <<brokerVars, running, raised, clientVars, localVars,
                   handled, reported, abandoned, faults>>

\* Nothing to handle: back to the loop.  Otherwise handle() is called.
ScanDone(m) ==
    /\ pc[m] = "scan"
    /\ messages[m] = <<>>
    /\ Goto(m, IF last[m] = NoMessage THEN "loop" ELSE "handle")
    /\ called' = [called EXCEPT ![m] = @ \cup Ids(batch[m])]
    /\ UNCHANGED <<brokerVars, running, raised, clientVars, localVars,
                   handled, reported, abandoned, faults>>

-----------------------------------------------------------------------------
(* _handle_and_commit()                                                    *)

HandlerReturns(m) ==
    /\ pc[m] = "handle"
    /\ handled' = handled \cup Ids(batch[m])
    /\ Goto(m, IF EnableAutoCommit THEN "loop" ELSE "commit")
    /\ UNCHANGED <<brokerVars, running, raised, clientVars, localVars,
                   reported, called, abandoned, faults>>

\* Mutant: the exception is swallowed and not counted (line 150).
HandlerRaises_Uncounted(m) ==
    /\ pc[m] = "handle"
    /\ Goto(m, "loop")
    /\ UNCHANGED <<brokerVars, running, raised, clientVars, localVars,
                   histVars, faults>>

\* except Exception: counted as handler_error, nothing is committed
HandlerRaises(m) ==
    /\ pc[m] = "handle"
    /\ reported' = reported \cup Ids(batch[m])
    /\ Goto(m, "loop")
    /\ UNCHANGED <<brokerVars, running, raised, clientVars, localVars,
                   handled, called, abandoned, faults>>

CommitSucceeds(m) ==
    /\ pc[m] = "commit"
    /\ AcceptCommit(m, last[m].part, last[m].offset + 1)
    /\ Goto(m, "loop")
    /\ UNCHANGED <<running, raised, clientVars, localVars, histVars, faults>>

\* commit() raises KafkaException: the coordinator refuses it, the request
\* is lost, or only its answer is.
CommitRefused(m) ==
    /\ pc[m] = "commit"
    /\ owner[last[m].part] # m
    /\ Raise(m, "KafkaException")
    /\ UNCHANGED <<brokerVars, running, clientVars, localVars, histVars, faults>>

CommitLost(m) ==
    /\ pc[m] = "commit"
    /\ Disturbance
    /\ \/ UNCHANGED brokerVars
       \/ AcceptCommit(m, last[m].part, last[m].offset + 1)
    /\ Raise(m, "KafkaException")
    /\ UNCHANGED <<running, clientVars, localVars, histVars>>

\* An exception start() does not catch leaves the iteration: one that
\* json.loads() raises and line 187 does not list, KeyboardInterrupt or
\* SystemExit out of the handler.
OtherException(m) ==
    /\ pc[m] \in {"fetch", "scan", "handle", "commit"}
    /\ Disturbance
    /\ abandoned' = abandoned \cup (InFlight(m) \ Settled)
    /\ Raise(m, "BaseException")
    /\ UNCHANGED <<brokerVars, running, clientVars, localVars, handled,
                   reported, called>>

-----------------------------------------------------------------------------
(* The finally clause of start(), stop(), and the life of the process.     *)

\* The positions that auto-commit may store: those of partitions m owns.
Storable(m, p) ==
    /\ EnableAutoCommit
    /\ p \in assigned[m]
    /\ owner[p] = m

\* close() leaves the group; with auto-commit it first commits, if it can.
Close(m) ==
    /\ pc[m] = "close"
    /\ \/ UNCHANGED committed
       \/ committed' = [p \in Partitions |->
            IF Storable(m, p) THEN position[m][p] ELSE committed[p]]
    /\ owner' = WithoutMember(m)
    /\ assigned' = [assigned EXCEPT ![m] = {}]
    /\ Goto(m, "stopped")
    /\ UNCHANGED <<log, running, raised, position, localVars, histVars, faults>>

\* The background commit of auto.commit.interval.ms.
AutoCommit(m, p) ==
    /\ Alive(m)
    /\ Storable(m, p)
    /\ committed[p] < position[m][p]
    /\ AcceptCommit(m, p, position[m][p])
    /\ UNCHANGED <<loopVars, clientVars, localVars, histVars, faults>>

\* A signal handler calls stop().
Stop(m) ==
    /\ Alive(m)
    /\ running[m]
    /\ Disturbance
    /\ running' = [running EXCEPT ![m] = FALSE]
    /\ UNCHANGED <<brokerVars, pc, raised, clientVars, localVars, histVars>>

Crash(m) ==
    /\ Alive(m)
    /\ Disturbance
    /\ Goto(m, "dead")
    /\ abandoned' = abandoned \cup (InFlight(m) \ Settled)
    /\ UNCHANGED <<brokerVars, running, raised, clientVars, localVars, handled,
                   reported, called>>

\* The coordinator expels a member whose timeouts have passed.
Evict(m) ==
    /\ Owns(m)
    /\ IF Alive(m) THEN Disturbance ELSE UNCHANGED faults
    /\ owner' = WithoutMember(m)
    /\ UNCHANGED <<log, committed, loopVars, clientVars, localVars, histVars>>

\* The supervisor starts the program again, with a new KafkaConsumer, which
\* the coordinator treats as a new member.
Restart(m) ==
    /\ ~Alive(m)
    /\ ~Owns(m)
    /\ running' = [running EXCEPT ![m] = TRUE]
    /\ raised' = [raised EXCEPT ![m] = "none"]
    /\ Goto(m, "new")
    /\ assigned' = [assigned EXCEPT ![m] = {}]
    /\ position' = [position EXCEPT ![m] = [p \in Partitions |-> 0]]
    /\ messages' = [messages EXCEPT ![m] = <<>>]
    /\ batch' = [batch EXCEPT ![m] = {}]
    /\ last' = [last EXCEPT ![m] = NoMessage]
    /\ called' = [called EXCEPT ![m] = {}]
    /\ UNCHANGED <<brokerVars, handled, reported, abandoned, faults>>

Arrive(p, v) ==
    /\ Publish(p, v)
    /\ UNCHANGED <<loopVars, clientVars, localVars, histVars, faults>>

-----------------------------------------------------------------------------
\* What keeps the loop of m going: every step but deliveries and faults.
Advance(m) ==
    \/ Start(m) \/ LoopEnters(m) \/ LoopEnds(m) \/ FetchReturns(m)
    \/ ScanInvalid(m) \/ ScanUndecodable(m) \/ ScanPayload(m) \/ ScanDone(m)
    \/ HandlerReturns(m) \/ HandlerRaises(m)
    \/ CommitSucceeds(m) \/ CommitRefused(m)
    \/ Close(m)

Fault(m) ==
    \/ FetchRaises(m) \/ CommitLost(m) \/ OtherException(m)
    \/ Stop(m) \/ Crash(m)

Next ==
    \/ \E m \in Members :
         \/ Advance(m) \/ Fault(m)
         \/ Lose(m) \/ DeliverError(m) \/ Evict(m) \/ Restart(m)
    \/ \E m \in Members, p \in Partitions :
         Assign(m, p) \/ Deliver(m, p) \/ AutoCommit(m, p)
    \/ \E p \in Partitions, v \in Values : Arrive(p, v)

Spec == Init /\ [][Next]_vars

(***************************************************************************)
(* Fairness.  The process takes its next step, which includes that poll()  *)
(* comes back (it has a timeout) and that the handler terminates; the      *)
(* coordinator expels a dead member after session.timeout.ms and the       *)
(* supervisor starts a stopped process again.  Strong fairness where a     *)
(* call may come back without result any number of times but not for ever: *)
(* poll() serves rebalances, and returns None only when no message was     *)
(* there for the whole timeout.                                            *)
(***************************************************************************)
Fairness ==
    /\ \A m \in Members :
         /\ WF_vars(Advance(m))
         /\ SF_vars(Lose(m))
         /\ WF_vars(~Alive(m) /\ Evict(m))
         /\ WF_vars(Restart(m))
    /\ \A m \in Members, p \in Partitions :
         SF_vars(Assign(m, p)) /\ SF_vars(Deliver(m, p))

FairSpec == Spec /\ Fairness

-----------------------------------------------------------------------------
(***************************************************************************)
(* What holds in every reachable state when commits are manual, strong     *)
(* enough to be preserved by each step on its own.                         *)
(***************************************************************************)
Busy == {"fetch", "scan", "handle", "commit"}

\* A partition's owner reads from the committed offset on, and between there
\* and its position every message has an outcome or is in its hands.
ReadWindow(m, p) ==
    owner[p] = m =>
        /\ p \in assigned[m]
        /\ committed[p] <= position[m][p]
        /\ \A o \in committed[p] .. position[m][p] - 1 :
              <<p, o>> \in Settled \cup InFlight(m)

\* What an iteration holds was read from the log, behind the position, and is
\* not committed yet if the member still owns the partition.
HeldMessages(m) ==
    pc[m] \in Busy =>
        \A x \in Held(m) : IsValid(x) =>
            /\ x.offset < position[m][x.part]
            /\ x.offset < Len(log[x.part])
            /\ owner[x.part] = m => committed[x.part] <= x.offset

\* The locals of _consume() at each control point.
Locals(m) ==
    /\ \A x \in batch[m] : IsValid(x)
    /\ pc[m] = "fetch" => batch[m] = {} /\ last[m] = NoMessage
    /\ pc[m] = "scan" => IF last[m] = NoMessage THEN batch[m] = {}
                                                ELSE last[m] \in batch[m]
    /\ pc[m] \in {"handle", "commit"} =>
          messages[m] = <<>> /\ last[m] \in batch[m]
    /\ pc[m] \in {"new", "loop", "commit"} => InFlight(m) \subseteq Settled

CommittedIsSettled ==
    \A p \in Partitions : \A o \in 0 .. committed[p] - 1 : <<p, o>> \in Settled

IInv ==
    /\ TypeOK
    /\ \A m \in Members :
          HeldMessages(m) /\ Locals(m) /\ \A p \in Partitions : ReadWindow(m, p)
    /\ CommittedIsSettled

-----------------------------------------------------------------------------
(* Properties                                                              *)

\* The contract of the group, with the outcomes of this model.
Contract == INSTANCE DeliveryContract WITH settled <- Settled

\* With manual commits the group implements the contract: commit() moves an
\* offset forward and over nothing whose outcome is open (consumer.py:163-169).
ImplementsContract == Contract!Spec

\* With auto-commit an offset can be committed before the handler has seen the
\* message (config.py:35); the message is then in the hands of a process, or
\* of one that died holding it, and nowhere else.
AutoCommitLosesOnlyTheAbandoned ==
    \A p \in Partitions : \A o \in 0 .. committed[p] - 1 :
        \/ <<p, o>> \in Settled \cup abandoned
        \/ \E m \in Members : <<p, o>> \in InFlight(m)

\* While a partition stays with one process, no message of it is handed to
\* handle() twice: neither batches nor polls overlap (consumer.py:117-136).
HandledOncePerAssignment ==
    [][\A m \in Members :
         pc[m] = "scan" /\ pc'[m] = "handle"
             => Ids(batch[m]) \cap called[m] = {}]_vars

\* One commit stands for the whole batch: after it nothing the handler was given
\* of the partition of the last message comes again (consumer.py:107, 133-136,
\* 163-165); what it was given of other partitions may.
CommitCoversBatch ==
    [][\A m \in Members :
         pc[m] = "commit" /\ pc'[m] = "loop"
             => \A x \in batch[m] :
                   x.part = last[m].part => x.offset < committed'[x.part]]_vars

\* stop() lets the iteration finish: a process that stopped without an
\* exception leaves no message it fetched without an outcome (consumer.py:55).
GracefulStop ==
    \A m \in Members :
        pc[m] \in {"close", "stopped"} /\ raised[m] = "none"
            => InFlight(m) \subseteq Settled

\* What the docstring of start() says of manual commits: the offset is
\* committed if handling succeeded, so what lies below it was handled.
CommittedImpliesHandled ==
    \A p \in Partitions : \A o \in 0 .. committed[p] - 1 : <<p, o>> \in handled

\* A process told to stop does stop, whatever it was doing (consumer.py:59, 86).
StopIsObeyed ==
    \A m \in Members : ~running[m] ~> pc[m] \in {"stopped", "dead"}

\* With manual commits every published message gets its outcome, across
\* stops, crashes, expulsions and failed commits.
EverythingSettles ==
    \A p \in Partitions : \A o \in 0 .. MaxLog - 1 :
        Contract!Exists(p, o) ~> <<p, o>> \in Settled

=============================================================================
