---------------------- MODULE KafkaConsumerProcessProofs ----------------------
(***************************************************************************)
(* More proofs about KafkaConsumer: what a process leaves behind when it   *)
(* stops, that it hands no message over twice, that one commit stands for  *)
(* a batch, and what auto-commit can lose.                                 *)
(***************************************************************************)
EXTENDS KafkaConsumerProofs

-----------------------------------------------------------------------------
(* The loop of a process, in either way of committing                      *)

\* Outcomes are for ever, and so is what a process took with it.
LEMMA SettledGrows ==
    ASSUME [Next]_vars
    PROVE  Settled \subseteq Settled' /\ abandoned \subseteq abandoned'
<1> DEFINE Grow == Settled \subseteq Settled' /\ abandoned \subseteq abandoned'
<1> USE DEF histVars, Settled
<1>1. ASSUME NEW m \in Members, Advance(m) PROVE Grow
  BY <1>1 DEF Advance, Start, LoopEnters, LoopEnds, FetchReturns, ScanInvalid,
     ScanUndecodable, ScanPayload, ScanDone, HandlerReturns, HandlerRaises,
     CommitSucceeds, CommitRefused, Close
<1>2. ASSUME NEW m \in Members,
             Fault(m) \/ Lose(m) \/ DeliverError(m) \/ Evict(m) \/ Restart(m)
      PROVE  Grow
  BY <1>2 DEF Fault, FetchRaises, CommitLost, OtherException, Stop, Crash, Lose,
     DeliverError, Evict, Restart
<1>3. ASSUME NEW m \in Members, NEW p \in Partitions,
             Assign(m, p) \/ Deliver(m, p) \/ AutoCommit(m, p)
      PROVE  Grow
  BY <1>3 DEF Assign, Deliver, AutoCommit
<1>4. ASSUME NEW p \in Partitions, NEW v \in Values, Arrive(p, v)
      PROVE  Grow
  BY <1>4 DEF Arrive
<1>5. CASE UNCHANGED vars
  BY <1>5 DEF vars
<1> QED
  BY <1>1, <1>2, <1>3, <1>4, <1>5 DEF Next

\* What an iteration holds was fetched behind the position.
Fetched(m) ==
    pc[m] \in Busy =>
        \A x \in Held(m) : IsValid(x) => x.offset < position[m][x.part]

\* The part of IInv that says nothing of the other members and of the group's
\* offsets; it does not depend on who commits.
LoopInv ==
    /\ TypeOK
    /\ \A m \in Members : Locals(m) /\ Fetched(m)

LEMMA TypeKept ==
    ASSUME TypeOK, [Next]_vars
    PROVE  TypeOK'
<1>1. CASE UNCHANGED vars
  BY <1>1, BrokerTypeFacts DEF vars, TypeOK, loopVars, clientVars, localVars, histVars
<1> QED
  BY <1>1, NextType

\* Most steps fetch nothing: what is held stays, and is not given up unsettled.
LEMMA LoopKept ==
    ASSUME NEW k \in Members, Locals(k), Fetched(k), Settled \subseteq Settled',
           pc'[k] = pc[k], messages'[k] = messages[k], batch'[k] = batch[k],
           last'[k] = last[k], position'[k] = position[k]
    PROVE  Locals(k)' /\ Fetched(k)'
<1>1. Held(k)' = Held(k)
  BY DEF Held
<1>2. InFlight(k)' = InFlight(k)
  BY <1>1 DEF InFlight, Ids, IsValid, Id
<1>3. Locals(k)'
  BY <1>2 DEF Locals, IsValid
<1>4. Fetched(k)'
  BY <1>1 DEF Fetched, IsValid
<1> QED
  BY <1>3, <1>4

LEMMA LoopAdvance ==
    ASSUME LoopInv, NEW k \in Members, Advance(k), Settled \subseteq Settled'
    PROVE  Locals(k)' /\ Fetched(k)'
<1> USE DEF loopVars, clientVars, localVars, histVars
<1>t. /\ pc \in [Members -> Points] /\ messages \in [Members -> Seq(Message)]
      /\ batch \in [Members -> SUBSET Message]
      /\ last \in [Members -> Message \cup {NoMessage}]
      /\ Locals(k) /\ Fetched(k)
  BY DEF LoopInv, TypeOK
<1>h. /\ Held(k) = Elements(messages[k]) \cup batch[k]
      /\ Held(k)' = Elements(messages'[k]) \cup batch'[k]
  BY DEF Held, Elements
<1>i. /\ InFlight(k) = {Id(x) : x \in {y \in Held(k) : IsValid(y)}}
      /\ InFlight(k)' = {Id(x) : x \in {y \in Held(k)' : IsValid(y)}}
  BY DEF InFlight, Ids, IsValid, Id
<1> DEFINE Goal == Locals(k)' /\ Fetched(k)'
<1>1. CASE Start(k) \/ LoopEnds(k) \/ CommitSucceeds(k) \/ CommitRefused(k) \/ Close(k)
  <2>1. /\ messages' = messages /\ batch' = batch
        /\ pc'[k] \in {"loop", "close", "stopped"}
        /\ pc'[k] = "loop" => pc[k] \in {"new", "loop", "commit"}
    BY <1>t, <1>1 DEF Start, LoopEnds, CommitSucceeds, CommitRefused, Close, Raise, Goto
  <2>2. InFlight(k)' = InFlight(k)
    BY <2>1, <1>h, <1>i
  <2>3. pc'[k] = "loop" => InFlight(k)' \subseteq Settled'
    BY <1>t, <2>1, <2>2 DEF Locals
  <2> QED
    BY <1>t, <2>1, <2>3 DEF Locals, Fetched, Busy, IsValid
<1>2. CASE LoopEnters(k)
  <2>1. /\ messages'[k] = <<>> /\ batch'[k] = {} /\ last'[k] = NoMessage /\ pc'[k] = "fetch"
    BY <1>t, <1>2 DEF LoopEnters, Goto
  <2>2. Held(k)' = {}
    BY <2>1, <1>h DEF Elements
  <2> QED
    BY <2>1, <2>2 DEF Locals, Fetched
<1>3. CASE FetchReturns(k)
  <2>1. /\ pc[k] = "fetch" /\ pc'[k] = "scan"
        /\ UNCHANGED <<messages, batch, last, position>>
    BY <1>t, <1>3 DEF FetchReturns, Goto
  <2>2. Held(k)' = Held(k)
    BY <2>1, <1>h
  <2> QED
    BY <1>t, <2>1, <2>2 DEF Locals, Fetched, Busy, IsValid
<1>4. CASE ScanInvalid(k) \/ ScanUndecodable(k) \/ ScanPayload(k)
  <2> DEFINE x == Head(messages[k])
  <2>1. /\ pc[k] = "scan" /\ pc'[k] = "scan" /\ messages[k] # <<>>
        /\ messages'[k] = Tail(messages[k]) /\ x \in Message /\ position' = position
    BY <1>t, <1>4 DEF ScanInvalid, ScanUndecodable, ScanPayload, Looking
  <2>2. Elements(messages[k]) = {x} \cup Elements(Tail(messages[k]))
    BY <1>t, <2>1, ElementsOfTail
  <2>3. \/ batch'[k] = batch[k] /\ last'[k] = last[k]
        \/ IsValid(x) /\ batch'[k] = batch[k] \cup {x} /\ last'[k] = x
    BY <1>t, <1>4 DEF ScanInvalid, ScanUndecodable, ScanPayload
  <2> HIDE DEF x
  <2>4. Held(k)' \subseteq Held(k)
    BY <1>h, <2>1, <2>2, <2>3
  <2>5. Fetched(k)'
    BY <1>t, <2>1, <2>4 DEF Fetched, Busy, IsValid
  <2>6. Locals(k)'
    BY <1>t, <2>1, <2>3, NoMessageAssumption DEF Locals, IsValid
  <2> QED
    BY <2>5, <2>6
<1>5. CASE ScanDone(k)
  <2>1. /\ pc[k] = "scan" /\ messages[k] = <<>>
        /\ UNCHANGED <<messages, batch, last, position>>
        /\ pc'[k] = IF last[k] = NoMessage THEN "loop" ELSE "handle"
    BY <1>t, <1>5 DEF ScanDone, Goto
  <2>2. Held(k)' = Held(k) /\ InFlight(k)' = InFlight(k)
    BY <2>1, <1>h, <1>i
  <2>3. last[k] = NoMessage => InFlight(k) = {}
    BY <1>t, <2>1, <1>h, <1>i DEF Locals, Elements
  <2> QED
    BY <1>t, <2>1, <2>2, <2>3 DEF Locals, Fetched, Busy, IsValid
<1>6. CASE HandlerReturns(k) \/ HandlerRaises(k)
  <2>1. /\ pc[k] = "handle" /\ pc'[k] \in {"loop", "commit"}
        /\ UNCHANGED <<messages, batch, last, position>>
        /\ Ids(batch[k]) \subseteq Settled'
    BY <1>t, <1>6 DEF HandlerReturns, HandlerRaises, Goto, Settled
  <2>2. Held(k) = batch[k] /\ Held(k)' = Held(k)
    BY <1>t, <2>1, <1>h DEF Locals, Elements
  <2>3. InFlight(k)' \subseteq Settled'
    BY <2>1, <2>2, <1>i DEF Ids
  <2> QED
    BY <1>t, <2>1, <2>2, <2>3 DEF Locals, Fetched, Busy, IsValid
<1> QED
  BY <1>1, <1>2, <1>3, <1>4, <1>5, <1>6 DEF Advance

LEMMA LoopStep ==
    ASSUME LoopInv, [Next]_vars, NEW k \in Members
    PROVE  Locals(k)' /\ Fetched(k)'
<1> USE DEF loopVars, clientVars, localVars, histVars
<1>t. /\ pc \in [Members -> Points] /\ messages \in [Members -> Seq(Message)]
      /\ batch \in [Members -> SUBSET Message]
      /\ last \in [Members -> Message \cup {NoMessage}]
      /\ position \in [Members -> [Partitions -> Nat]]
      /\ Locals(k) /\ Fetched(k) /\ Settled \subseteq Settled'
  BY SettledGrows DEF LoopInv, TypeOK
<1>h. /\ Held(k) = Elements(messages[k]) \cup batch[k]
      /\ Held(k)' = Elements(messages'[k]) \cup batch'[k]
  BY DEF Held, Elements
<1> DEFINE Goal == Locals(k)' /\ Fetched(k)'
<1>o. ASSUME pc'[k] = pc[k], messages'[k] = messages[k], batch'[k] = batch[k],
             last'[k] = last[k], position'[k] = position[k]
      PROVE  Goal
  BY <1>o, <1>t, LoopKept
<1>p. ASSUME pc'[k] \in {"close", "dead"}, batch'[k] = batch[k] PROVE Goal
  BY <1>p, <1>t DEF Locals, Fetched, Busy, IsValid
<1>1. ASSUME NEW m \in Members, Advance(m) PROVE Goal
  <2>1. CASE k # m
    BY <1>1, <1>t, <1>o, <2>1
    DEF Advance, Start, LoopEnters, LoopEnds, FetchReturns, ScanInvalid, ScanUndecodable,
        ScanPayload, ScanDone, HandlerReturns, HandlerRaises, CommitSucceeds,
        CommitRefused, Close, Looking, Raise, Goto
  <2> QED
    BY <1>1, <1>t, <2>1, LoopAdvance
<1>2. ASSUME NEW m \in Members,
             FetchRaises(m) \/ CommitLost(m) \/ OtherException(m) \/ Crash(m)
      PROVE  Goal
  <2>1. /\ UNCHANGED <<messages, batch, last, position>>
        /\ IF k = m THEN pc'[k] \in {"close", "dead"} ELSE pc'[k] = pc[k]
    BY <1>2, <1>t DEF FetchRaises, CommitLost, OtherException, Crash, Raise, Goto
  <2> QED
    BY <1>o, <1>p, <2>1
<1>3. ASSUME NEW m \in Members, Stop(m) \/ Lose(m) \/ Evict(m) PROVE Goal
  BY <1>3, <1>o DEF Stop, Lose, Evict
<1>4. ASSUME NEW x \in Message, pc[k] = "fetch", UNCHANGED <<pc, batch, last>>,
             messages'[k] = Append(messages[k], x),
             \A p \in Partitions : position[k][p] <= position'[k][p],
             IsValid(x) => x.offset < position'[k][x.part]
      PROVE  Goal
  <2>1. Held(k)' = Held(k) \cup {x}
    BY <1>4, <1>t, <1>h, ElementsOfAppend
  <2>2. position' \in [Members -> [Partitions -> Nat]]
    BY TypeKept DEF LoopInv, TypeOK
  <2>3. ASSUME NEW y \in Held(k), IsValid(y) PROVE y.offset < position'[k][y.part]
    <3>1. /\ y \in Message /\ y.offset < position[k][y.part]
      BY <1>4, <1>t, <2>3 DEF Held, Fetched, Busy
    <3>2. /\ y.part \in Partitions /\ y.offset \in Nat
      BY <3>1 DEF Message
    <3>3. position[k][y.part] \in Nat /\ position'[k][y.part] \in Nat
      BY <1>t, <2>2, <3>2
    <3>4. position[k][y.part] <= position'[k][y.part]
      BY <1>4, <3>2
    <3> QED
      BY <3>1, <3>2, <3>3, <3>4
  <2>4. Fetched(k)'
    BY <1>4, <2>1, <2>3 DEF Fetched, IsValid
  <2>5. Locals(k)'
    BY <1>4, <1>t DEF Locals, IsValid
  <2> QED
    BY <2>4, <2>5
<1>5. ASSUME NEW m \in Members, DeliverError(m) PROVE Goal
  <2>1. CASE k # m
    BY <1>5, <1>t, <1>o, <2>1 DEF DeliverError
  <2>2. CASE k = m
    <3>1. PICK p \in Partitions :
             messages'[k] = Append(messages[k], [part |-> p, offset |-> 0, kind |-> "error"])
      BY <1>5, <1>t, <2>2 DEF DeliverError
    <3>2. /\ [part |-> p, offset |-> 0, kind |-> "error"] \in Message
          /\ ~IsValid([part |-> p, offset |-> 0, kind |-> "error"])
      BY DEF Message, IsValid
    <3>3. /\ pc[k] = "fetch" /\ UNCHANGED <<pc, batch, last, position>>
          /\ \A q \in Partitions : position[k][q] \in Nat
      BY <1>5, <1>t, <2>2 DEF DeliverError
    <3> QED
      BY <1>4, <3>1, <3>2, <3>3
  <2> QED
    BY <2>1, <2>2
<1>6. ASSUME NEW m \in Members, NEW p \in Partitions, Deliver(m, p) PROVE Goal
  <2>1. CASE k # m
    BY <1>6, <1>t, <1>o, <2>1 DEF Deliver
  <2>2. CASE k = m
    <3> DEFINE x == [part |-> p, offset |-> position[k][p],
                     kind |-> log[p][position[k][p] + 1]]
    <3>1. log[p] \in Seq(Values) /\ position[k][p] < Len(log[p]) /\ position[k][p] \in Nat
      BY <1>6, <1>t, <2>2 DEF Deliver, LoopInv, TypeOK, BrokerTypeOK
    <3>2. log[p][position[k][p] + 1] \in Values
      BY <3>1
    <3>3. x \in Message /\ x.part = p /\ x.offset = position[k][p]
      BY <3>1, <3>2 DEF Message
    <3>4. /\ pc[k] = "fetch" /\ messages'[k] = Append(messages[k], x)
          /\ UNCHANGED <<pc, batch, last>>
      BY <1>6, <1>t, <2>2 DEF Deliver
    <3> HIDE DEF x
    <3>5. position'[k] = [position[k] EXCEPT ![p] = position[k][p] + 1]
      BY <1>6, <1>t, <2>2 DEF Deliver
    <3>6. position[k] \in [Partitions -> Nat]
      BY <1>t
    <3>7. /\ \A q \in Partitions : position[k][q] <= position'[k][q]
          /\ x.offset < position'[k][x.part]
      BY <3>1, <3>3, <3>5, <3>6
    <3> QED
      BY <1>4, <3>3, <3>4, <3>7
  <2> QED
    BY <2>1, <2>2
<1>7. ASSUME NEW m \in Members, NEW p \in Partitions, Assign(m, p) PROVE Goal
  <2>1. CASE k # m
    BY <1>7, <1>t, <1>o, <2>1 DEF Assign
  <2>2. CASE k = m
    <3>1. /\ pc[k] = "fetch" /\ messages[k] = <<>>
          /\ UNCHANGED <<pc, messages, batch, last>>
      BY <1>7, <2>2 DEF Assign
    <3>2. Held(k)' = {}
      BY <1>t, <3>1, <1>h DEF Locals, Elements
    <3> QED
      BY <1>t, <3>1, <3>2 DEF Locals, Fetched, IsValid
  <2> QED
    BY <2>1, <2>2
<1>8. ASSUME NEW m \in Members, Restart(m) PROVE Goal
  <2>1. CASE k # m
    BY <1>8, <1>t, <1>o, <2>1 DEF Restart, Goto
  <2>2. CASE k = m
    <3>1. pc'[k] = "new" /\ messages'[k] = <<>> /\ batch'[k] = {}
      BY <1>8, <1>t, <2>2 DEF Restart, Goto
    <3>2. Held(k)' = {} /\ InFlight(k)' = {}
      BY <3>1, <1>h DEF Elements, InFlight, Ids
    <3> QED
      BY <3>1, <3>2 DEF Locals, Fetched, Busy
  <2> QED
    BY <2>1, <2>2
<1>9. ASSUME NEW m \in Members, NEW p \in Partitions, AutoCommit(m, p) PROVE Goal
  BY <1>9, <1>o DEF AutoCommit
<1>10. ASSUME NEW p \in Partitions, NEW v \in Values, Arrive(p, v) PROVE Goal
  BY <1>10, <1>o DEF Arrive
<1>11. CASE UNCHANGED vars
  BY <1>11, <1>o DEF vars
<1> QED
  BY <1>1, <1>2, <1>3, <1>5, <1>6, <1>7, <1>8, <1>9, <1>10, <1>11 DEF Next, Fault

\* Whoever commits, an iteration's locals belong together and to what it fetched.
THEOREM LoopInvHolds == Spec => []LoopInv
<1>1. Init => LoopInv
  <2> SUFFICES ASSUME Init PROVE LoopInv
    OBVIOUS
  <2>1. TypeOK
    BY BrokerAssumption, ConsumerAssumption
       DEF Init, BrokerInit, TypeOK, BrokerTypeOK, Points
  <2>2. ASSUME NEW m \in Members PROVE Locals(m) /\ Fetched(m)
    <3>1. Held(m) = {} /\ InFlight(m) = {}
      BY DEF Init, Held, InFlight, Ids
    <3> QED
      BY <3>1 DEF Init, Locals, Fetched
  <2> QED
    BY <2>1, <2>2 DEF LoopInv
<1>2. LoopInv /\ [Next]_vars => LoopInv'
  BY TypeKept, LoopStep DEF LoopInv
<1> QED
  BY <1>1, <1>2, PTL DEF Spec

-----------------------------------------------------------------------------
(* A graceful stop                                                         *)

\* Where a process comes from that is past its loop without an exception.
Calm(m) == pc[m] \in {"loop", "close", "stopped"} /\ raised[m] = "none"

LEMMA StoppingStep ==
    ASSUME TypeOK, [Next]_vars, NEW k \in Members,
           pc'[k] \in {"close", "stopped"}, raised'[k] = "none"
    PROVE  Calm(k) /\ messages'[k] = messages[k] /\ batch'[k] = batch[k]
<1> USE DEF Calm, loopVars, localVars
<1>t. /\ pc \in [Members -> Points] /\ messages \in [Members -> Seq(Message)]
      /\ raised \in [Members -> {"none", "KafkaException", "BaseException"}]
      /\ batch \in [Members -> SUBSET Message]
  BY DEF TypeOK
<1> DEFINE Goal == Calm(k) /\ messages'[k] = messages[k] /\ batch'[k] = batch[k]
<1>1. ASSUME NEW m \in Members, Advance(m) PROVE Goal
  <2>1. CASE \/ Start(m) \/ LoopEnters(m) \/ LoopEnds(m) \/ FetchReturns(m) \/ Close(m)
    BY <1>t, <2>1 DEF Start, LoopEnters, LoopEnds, FetchReturns, Close, Goto
  <2>2. CASE ScanInvalid(m) \/ ScanUndecodable(m) \/ ScanPayload(m)
    BY <1>t, <2>2 DEF ScanInvalid, ScanUndecodable, ScanPayload, Looking
  <2>3. CASE ScanDone(m) \/ HandlerReturns(m) \/ HandlerRaises(m) \/ CommitSucceeds(m)
    BY <1>t, <2>3 DEF ScanDone, HandlerReturns, HandlerRaises, CommitSucceeds, Goto
  <2>4. CASE CommitRefused(m)
    BY <1>t, <2>4 DEF CommitRefused, Raise, Goto
  <2> QED
    BY <1>1, <2>1, <2>2, <2>3, <2>4 DEF Advance
<1>2. ASSUME NEW m \in Members, FetchRaises(m) \/ CommitLost(m) \/ OtherException(m)
      PROVE  Goal
  BY <1>t, <1>2 DEF FetchRaises, CommitLost, OtherException, Raise, Goto
<1>3. ASSUME NEW m \in Members, Stop(m) \/ Lose(m) \/ Evict(m) PROVE Goal
  BY <1>t, <1>3 DEF Stop, Lose, Evict
<1>4. ASSUME NEW m \in Members, Crash(m) \/ Restart(m) PROVE Goal
  BY <1>t, <1>4 DEF Crash, Restart, Goto
<1>5. ASSUME NEW m \in Members, DeliverError(m) PROVE Goal
  BY <1>t, <1>5 DEF DeliverError
<1>6. ASSUME NEW m \in Members, NEW p \in Partitions,
             Assign(m, p) \/ Deliver(m, p) \/ AutoCommit(m, p)
      PROVE  Goal
  BY <1>t, <1>6 DEF Assign, Deliver, AutoCommit
<1>7. ASSUME NEW p \in Partitions, NEW v \in Values, Arrive(p, v) PROVE Goal
  BY <1>7 DEF Arrive
<1>8. CASE UNCHANGED vars
  BY <1>8 DEF vars
<1> QED
  BY <1>1, <1>2, <1>3, <1>4, <1>5, <1>6, <1>7, <1>8 DEF Next, Fault

\* stop() lets the iteration finish (consumer.py:55, 59): a process that ends
\* without an exception has an outcome for all that it fetched.
THEOREM StopsAreGraceful == Spec => []GracefulStop
<1>1. Init => GracefulStop
  BY DEF Init, GracefulStop
<1>2. LoopInv /\ GracefulStop /\ [Next]_vars => GracefulStop'
  <2> SUFFICES ASSUME LoopInv, GracefulStop, [Next]_vars, NEW k \in Members,
                      pc'[k] \in {"close", "stopped"}, raised'[k] = "none"
               PROVE  InFlight(k)' \subseteq Settled'
    BY DEF GracefulStop
  <2>1. Calm(k) /\ messages'[k] = messages[k] /\ batch'[k] = batch[k]
    BY StoppingStep DEF LoopInv
  <2>2. InFlight(k)' = InFlight(k)
    BY <2>1 DEF InFlight, Held, Ids, IsValid
  <2>3. InFlight(k) \subseteq Settled
    BY <2>1 DEF Calm, GracefulStop, LoopInv, Locals
  <2> QED
    BY <2>2, <2>3, SettledGrows
<1> QED
  BY <1>1, <1>2, LoopInvHolds, PTL DEF Spec

-----------------------------------------------------------------------------
(* No message is handed over twice                                         *)

\* What was handed over lies behind the position; what is held was not.
Once(m) ==
    /\ \A id \in called[m] : id[2] < position[m][id[1]]
    /\ pc[m] \in {"fetch", "scan"} =>
          \A x \in Held(m) : IsValid(x) => Id(x) \notin called[m]

\* Most steps fetch nothing and hand nothing over.
LEMMA OnceKept ==
    ASSUME NEW k \in Members, Once(k),
           called'[k] = called[k], position'[k] = position[k],
           pc'[k] \in {"fetch", "scan"} =>
              \A x \in Held(k)' : IsValid(x) => pc[k] \in {"fetch", "scan"} /\ x \in Held(k)
    PROVE  Once(k)'
BY DEF Once, IsValid, Id

LEMMA OnceStep ==
    ASSUME LoopInv, [Next]_vars, NEW k \in Members, Once(k)
    PROVE  Once(k)'
<1> USE DEF loopVars, clientVars, localVars, histVars
<1>t. /\ pc \in [Members -> Points] /\ messages \in [Members -> Seq(Message)]
      /\ batch \in [Members -> SUBSET Message] /\ called \in [Members -> SUBSET Offsets]
      /\ position \in [Members -> [Partitions -> Nat]]
  BY DEF LoopInv, TypeOK
<1>h. \A m \in Members : Held(m) = Elements(messages[m]) \cup batch[m]
      /\ Held(m)' = Elements(messages'[m]) \cup batch'[m]
  BY DEF Held, Elements
<1>o. ASSUME pc'[k] = pc[k], messages'[k] = messages[k], batch'[k] = batch[k],
             called'[k] = called[k], position'[k] = position[k]
      PROVE  Once(k)'
  <2>1. Held(k)' = Held(k)
    BY <1>o, <1>h
  <2> QED
    BY <1>o, <2>1, OnceKept
<1>1. ASSUME NEW m \in Members, Advance(m) PROVE Once(k)'
  <2>1. CASE k # m
    BY <1>1, <1>t, <1>o, <2>1
    DEF Advance, Start, LoopEnters, LoopEnds, FetchReturns, ScanInvalid, ScanUndecodable,
        ScanPayload, ScanDone, HandlerReturns, HandlerRaises, CommitSucceeds,
        CommitRefused, Close, Looking, Raise, Goto
  <2>2. CASE Start(m) \/ LoopEnds(m) \/ HandlerReturns(m) \/ HandlerRaises(m)
             \/ CommitSucceeds(m) \/ CommitRefused(m) \/ Close(m)
    <3>1. CASE k = m
      <4>1. pc'[k] \notin {"fetch", "scan"} /\ UNCHANGED <<called, position>>
        BY <1>t, <2>2, <3>1
        DEF Start, LoopEnds, HandlerReturns, HandlerRaises, CommitSucceeds,
            CommitRefused, Close, Raise, Goto
      <4> QED
        BY <4>1, OnceKept
    <3> QED
      BY <2>1, <3>1
  <2>3. CASE LoopEnters(m) /\ k = m
    <3>1. messages'[k] = <<>> /\ batch'[k] = {} /\ UNCHANGED <<called, position>>
      BY <1>t, <2>3 DEF LoopEnters
    <3>2. Held(k)' = {}
      BY <3>1, <1>h DEF Elements
    <3> QED
      BY <3>1, <3>2, OnceKept
  <2>4. CASE FetchReturns(m) /\ k = m
    <3>1. /\ pc[k] = "fetch" /\ UNCHANGED <<called, position, messages, batch>>
      BY <2>4 DEF FetchReturns
    <3> QED
      BY <3>1, <1>h, OnceKept
  <2>5. CASE (ScanInvalid(m) \/ ScanUndecodable(m) \/ ScanPayload(m)) /\ k = m
    <3>1. /\ pc[k] = "scan" /\ messages[k] # <<>> /\ messages'[k] = Tail(messages[k])
          /\ UNCHANGED <<called, position>>
          /\ batch'[k] \subseteq batch[k] \cup {Head(messages[k])}
      BY <1>t, <2>5 DEF ScanInvalid, ScanUndecodable, ScanPayload, Looking
    <3>2. Elements(messages[k]) = {Head(messages[k])} \cup Elements(Tail(messages[k]))
      BY <1>t, <3>1, ElementsOfTail
    <3>3. Held(k)' \subseteq Held(k)
      BY <1>h, <3>1, <3>2
    <3> QED
      BY <3>1, <3>3, OnceKept
  <2>6. CASE ScanDone(m) /\ k = m
    <3>1. /\ pc[k] = "scan" /\ pc'[k] \in {"loop", "handle"} /\ position' = position
          /\ called'[k] = called[k] \cup Ids(batch[k])
      BY <1>t, <2>6 DEF ScanDone, Goto
    <3>2. ASSUME NEW x \in batch[k] PROVE x.offset < position[k][x.part]
      BY <1>h, <3>1 DEF LoopInv, Fetched, Locals, Busy
    <3>3. \A id \in Ids(batch[k]) : id[2] < position[k][id[1]]
      BY <3>2 DEF Ids, Id
    <3> QED
      BY <3>1, <3>3 DEF Once
  <2> QED
    BY <1>1, <2>1, <2>2, <2>3, <2>4, <2>5, <2>6 DEF Advance
<1>2. ASSUME NEW m \in Members,
             FetchRaises(m) \/ CommitLost(m) \/ OtherException(m) \/ Crash(m)
      PROVE  Once(k)'
  <2>1. /\ UNCHANGED <<called, position, messages, batch>>
        /\ pc'[k] \in {"close", "dead"} \/ pc'[k] = pc[k]
    BY <1>2, <1>t DEF FetchRaises, CommitLost, OtherException, Crash, Raise, Goto
  <2>2. Held(k)' = Held(k)
    BY <2>1, <1>h
  <2> QED
    BY <2>1, <2>2, OnceKept
<1>3. ASSUME NEW m \in Members, Stop(m) \/ Lose(m) \/ Evict(m) PROVE Once(k)'
  BY <1>3, <1>o DEF Stop, Lose, Evict
<1>4. ASSUME NEW m \in Members, DeliverError(m) PROVE Once(k)'
  <2>1. UNCHANGED <<pc, batch, called, position>>
    BY <1>4 DEF DeliverError
  <2>2. CASE k # m
    BY <1>4, <1>t, <1>o, <2>1, <2>2 DEF DeliverError
  <2>3. CASE k = m
    <3>1. pc[k] = "fetch"
      BY <1>4, <2>3 DEF DeliverError
    <3>2. PICK p \in Partitions :
             messages'[k] = Append(messages[k], [part |-> p, offset |-> 0, kind |-> "error"])
      BY <1>4, <1>t, <2>3 DEF DeliverError
    <3> DEFINE e == [part |-> p, offset |-> 0, kind |-> "error"]
    <3>3. e \in Message /\ ~IsValid(e)
      BY DEF Message, IsValid
    <3> HIDE DEF e
    <3>4. Elements(messages'[k]) = Elements(messages[k]) \cup {e}
      BY <1>t, <3>2, <3>3, ElementsOfAppend DEF e
    <3> QED
      BY <1>h, <2>1, <3>1, <3>3, <3>4, OnceKept
  <2> QED
    BY <2>2, <2>3
<1>5. ASSUME NEW m \in Members, Restart(m) PROVE Once(k)'
  <2>1. CASE k = m
    <3>1. called'[k] = {} /\ pc'[k] = "new"
      BY <1>5, <1>t, <2>1 DEF Restart, Goto
    <3> QED
      BY <3>1 DEF Once
  <2> QED
    BY <1>5, <1>t, <1>o, <2>1 DEF Restart, Goto
<1>6. ASSUME NEW m \in Members, NEW p \in Partitions, Assign(m, p) PROVE Once(k)'
  <2>1. CASE k = m
    <3>1. /\ messages[k] = <<>> /\ batch[k] = {} /\ UNCHANGED <<messages, batch, pc>>
      BY <1>6, <2>1 DEF Assign, LoopInv, Locals
    <3>2. Held(k)' = {}
      BY <3>1, <1>h DEF Elements
    <3>3. /\ called'[k] = {id \in called[k] : id[1] # p}
          /\ \A q \in Partitions \ {p} : position'[k][q] = position[k][q]
      BY <1>6, <1>t, <2>1 DEF Assign
    <3>4. \A id \in called'[k] : id[2] < position'[k][id[1]]
      BY <1>t, <3>3 DEF Once, Offsets
    <3> QED
      BY <3>2, <3>4 DEF Once
  <2> QED
    BY <1>6, <1>t, <1>o, <2>1 DEF Assign
<1>7. ASSUME NEW m \in Members, NEW p \in Partitions, Deliver(m, p) PROVE Once(k)'
  <2>1. CASE k = m
    <3> DEFINE x == [part |-> p, offset |-> position[k][p],
                     kind |-> log[p][position[k][p] + 1]]
    <3>1. /\ pc[k] = "fetch" /\ messages'[k] = Append(messages[k], x)
          /\ position'[k] = [position[k] EXCEPT ![p] = position[k][p] + 1]
          /\ UNCHANGED <<pc, batch, called>>
      BY <1>7, <1>t, <2>1 DEF Deliver
    <3>2. x \in Message
      <4>1. log[p] \in Seq(Values) /\ position[k][p] < Len(log[p]) /\ position[k][p] \in Nat
        BY <1>7, <1>t, <2>1 DEF Deliver, LoopInv, TypeOK, BrokerTypeOK
      <4>2. log[p][position[k][p] + 1] \in Values
        BY <4>1
      <4> QED
        BY <4>1, <4>2 DEF Message
    <3>3. Id(x) \notin called[k]
      <4>1. Id(x) = <<p, position[k][p]>> /\ position[k][p] \in Nat
        BY <1>t DEF Id
      <4>2. ~(position[k][p] < position[k][p])
        BY <4>1
      <4> HIDE DEF x
      <4> QED
        BY <4>1, <4>2 DEF Once
    <3> HIDE DEF x
    <3>4. Elements(messages'[k]) = Elements(messages[k]) \cup {x}
      BY <1>t, <3>1, <3>2, ElementsOfAppend
    <3>5. Held(k)' = Held(k) \cup {x}
      BY <1>h, <3>1, <3>4
    <3>6. \A id \in called[k] : id[2] < position'[k][id[1]]
      <4> SUFFICES ASSUME NEW id \in called[k] PROVE id[2] < position'[k][id[1]]
        OBVIOUS
      <4>1. id[1] \in Partitions /\ id[2] \in Nat /\ id[2] < position[k][id[1]]
        BY <1>t DEF Once, Offsets
      <4>2. position[k] \in [Partitions -> Nat]
        BY <1>t
      <4> QED
        BY <3>1, <4>1, <4>2
    <3>7. \A y \in Held(k) : IsValid(y) => Id(y) \notin called[k]
      BY <3>1 DEF Once
    <3>8. called'[k] = called[k]
      BY <3>1
    <3> QED
      BY <3>3, <3>5, <3>6, <3>7, <3>8 DEF Once, IsValid, Id
  <2> QED
    BY <1>7, <1>t, <1>o, <2>1 DEF Deliver
<1>8. ASSUME NEW m \in Members, NEW p \in Partitions, AutoCommit(m, p) PROVE Once(k)'
  BY <1>8, <1>o DEF AutoCommit
<1>9. ASSUME NEW p \in Partitions, NEW v \in Values, Arrive(p, v) PROVE Once(k)'
  BY <1>9, <1>o DEF Arrive
<1>10. CASE UNCHANGED vars
  BY <1>10, <1>o DEF vars
<1> QED
  BY <1>1, <1>2, <1>3, <1>4, <1>5, <1>6, <1>7, <1>8, <1>9, <1>10 DEF Next, Fault

\* Batches and polls do not overlap: while a process keeps a partition, no message
\* of it is given to handle() again (consumer.py:117-136).
THEOREM HandledOnce == Spec => HandledOncePerAssignment
<1> DEFINE OnceInv == \A m \in Members : Once(m)
<1>1. Init => OnceInv
  BY DEF Init, Once
<1>2. LoopInv /\ OnceInv /\ [Next]_vars => OnceInv'
  BY OnceStep
<1>3. LoopInv /\ OnceInv
         => \A m \in Members :
               pc[m] = "scan" /\ pc'[m] = "handle" => Ids(batch[m]) \cap called[m] = {}
  BY DEF LoopInv, Locals, Once, Held, Ids
<1>4. LoopInv /\ OnceInv
         => [\A m \in Members :
                pc[m] = "scan" /\ pc'[m] = "handle"
                   => Ids(batch[m]) \cap called[m] = {}]_vars
  BY <1>3
<1> QED
  <2> HIDE DEF OnceInv
  <2> QED
    BY <1>1, <1>2, <1>4, LoopInvHolds, PTL DEF Spec, HandledOncePerAssignment

-----------------------------------------------------------------------------
(* One commit for a batch                                                  *)

\* Two messages of one partition, neither of them an error event.
SameLog(x, y) == IsValid(x) /\ IsValid(y) /\ x.part = y.part

\* Within a partition messages come, and are collected, in the order of the log.
Ordered(m) ==
    /\ \A i, j \in DOMAIN messages[m] :
          i < j /\ SameLog(messages[m][i], messages[m][j])
             => messages[m][i].offset < messages[m][j].offset
    /\ \A x \in batch[m], i \in DOMAIN messages[m] :
          SameLog(x, messages[m][i]) => x.offset < messages[m][i].offset
    /\ last[m] # NoMessage =>
          \A x \in batch[m] : x.part = last[m].part => x.offset <= last[m].offset

LEMMA OrderedFetch ==
    ASSUME LoopInv, NEW k \in Members, Ordered(k), pc[k] = "fetch",
           NEW x \in Message, messages'[k] = Append(messages[k], x),
           batch'[k] = batch[k], last'[k] = last[k],
           \A y \in Held(k) : SameLog(y, x) => y.offset < x.offset
    PROVE  Ordered(k)'
<1>1. /\ messages[k] \in Seq(Message) /\ batch[k] = {}
  BY DEF LoopInv, TypeOK, Locals
<1>2. /\ DOMAIN messages'[k] = 1 .. Len(messages[k]) + 1
      /\ DOMAIN messages[k] = 1 .. Len(messages[k])
      /\ Len(messages[k]) \in Nat
  BY <1>1
<1>3. ASSUME NEW i \in DOMAIN messages'[k]
      PROVE  messages'[k][i] = IF i = Len(messages[k]) + 1 THEN x ELSE messages[k][i]
  BY <1>1, <1>2
<1>4. ASSUME NEW i \in DOMAIN messages'[k], NEW j \in DOMAIN messages'[k], i < j,
             SameLog(messages'[k][i], messages'[k][j])
      PROVE  messages'[k][i].offset < messages'[k][j].offset
  <2>1. i \in DOMAIN messages[k] /\ messages'[k][i] = messages[k][i]
    BY <1>2, <1>3, <1>4
  <2>2. CASE j = Len(messages[k]) + 1
    <3>1. messages[k][i] \in Held(k) /\ messages'[k][j] = x
      BY <1>3, <2>1, <2>2 DEF Held
    <3> QED
      BY <1>4, <2>1, <3>1
  <2>3. CASE j # Len(messages[k]) + 1
    <3>1. j \in DOMAIN messages[k] /\ messages'[k][j] = messages[k][j]
      BY <1>2, <1>3, <2>3
    <3> QED
      BY <1>4, <2>1, <3>1 DEF Ordered
  <2> QED
    BY <2>2, <2>3
<1> QED
  BY <1>1, <1>4 DEF Ordered, SameLog, IsValid

LEMMA OrderedLook ==
    ASSUME LoopInv, NEW k \in Members, Ordered(k), pc[k] = "scan", messages[k] # <<>>,
           messages'[k] = Tail(messages[k]),
           \/ batch'[k] = batch[k] /\ last'[k] = last[k]
           \/ /\ IsValid(Head(messages[k]))
              /\ batch'[k] = batch[k] \cup {Head(messages[k])}
              /\ last'[k] = Head(messages[k])
    PROVE  Ordered(k)'
<1> DEFINE x == Head(messages[k])
<1>1. messages[k] \in Seq(Message) /\ batch[k] \subseteq Message
  BY DEF LoopInv, TypeOK
<1>2. /\ 1 \in DOMAIN messages[k] /\ x = messages[k][1] /\ x \in Message
      /\ DOMAIN messages'[k] = 1 .. Len(messages[k]) - 1
      /\ DOMAIN messages[k] = 1 .. Len(messages[k])
      /\ Len(messages[k]) \in Nat
  BY <1>1
<1>3. ASSUME NEW i \in DOMAIN messages'[k]
      PROVE  /\ messages'[k][i] = messages[k][i + 1]
             /\ i + 1 \in DOMAIN messages[k] /\ 1 < i + 1
  BY <1>1, <1>2
<1>4. ASSUME NEW i \in DOMAIN messages'[k], NEW j \in DOMAIN messages'[k], i < j,
             SameLog(messages'[k][i], messages'[k][j])
      PROVE  messages'[k][i].offset < messages'[k][j].offset
  <2>1. i + 1 < j + 1
    BY <1>2, <1>4
  <2> QED
    BY <1>3, <1>4, <2>1 DEF Ordered
<1>5. ASSUME NEW y \in batch'[k], NEW i \in DOMAIN messages'[k],
             SameLog(y, messages'[k][i])
      PROVE  y.offset < messages'[k][i].offset
  <2>1. CASE y \in batch[k]
    BY <1>3, <1>5, <2>1 DEF Ordered
  <2>2. CASE y = x
    BY <1>2, <1>3, <1>5, <2>2 DEF Ordered
  <2> QED
    BY <2>1, <2>2
<1>6. ASSUME last'[k] # NoMessage, NEW y \in batch'[k], y.part = last'[k].part
      PROVE  y.offset <= last'[k].offset
  <2>1. CASE batch'[k] = batch[k] /\ last'[k] = last[k]
    BY <1>6, <2>1 DEF Ordered
  <2>2. CASE IsValid(x) /\ batch'[k] = batch[k] \cup {x} /\ last'[k] = x
    <3>1. CASE y = x
      <4>1. x.offset \in Nat
        BY <1>2 DEF Message
      <4> QED
        BY <2>2, <3>1, <4>1
    <3>2. CASE y \in batch[k]
      <4>1. SameLog(y, x)
        BY <1>6, <2>2, <3>2 DEF SameLog, LoopInv, Locals
      <4>2. y.offset < x.offset
        BY <1>2, <3>2, <4>1 DEF Ordered
      <4>3. y.offset \in Nat /\ x.offset \in Nat
        BY <1>1, <1>2, <3>2 DEF Message
      <4> QED
        BY <2>2, <4>2, <4>3
    <3> QED
      BY <2>2, <3>1, <3>2
  <2> QED
    BY <2>1, <2>2
<1> QED
  BY <1>4, <1>5, <1>6 DEF Ordered, SameLog, IsValid

LEMMA OrderedStep ==
    ASSUME LoopInv, [Next]_vars, NEW k \in Members, Ordered(k)
    PROVE  Ordered(k)'
<1> USE DEF localVars
<1>t. /\ messages \in [Members -> Seq(Message)] /\ batch \in [Members -> SUBSET Message]
      /\ last \in [Members -> Message \cup {NoMessage}]
      /\ position \in [Members -> [Partitions -> Nat]]
  BY DEF LoopInv, TypeOK
<1>o. ASSUME messages'[k] = messages[k], batch'[k] = batch[k], last'[k] = last[k]
      PROVE  Ordered(k)'
  BY <1>o DEF Ordered, SameLog, IsValid
<1>n. ASSUME messages'[k] = <<>>, batch'[k] = {}
      PROVE  Ordered(k)'
  BY <1>n DEF Ordered
<1>1. ASSUME NEW m \in Members, Advance(m) PROVE Ordered(k)'
  <2>1. CASE \/ Start(m) \/ LoopEnds(m) \/ FetchReturns(m) \/ ScanDone(m)
             \/ HandlerReturns(m) \/ HandlerRaises(m)
             \/ CommitSucceeds(m) \/ CommitRefused(m) \/ Close(m)
    BY <1>o, <2>1
    DEF Start, LoopEnds, FetchReturns, ScanDone, HandlerReturns, HandlerRaises,
        CommitSucceeds, CommitRefused, Close
  <2>2. CASE LoopEnters(m)
    BY <1>t, <1>o, <1>n, <2>2 DEF LoopEnters
  <2>3. CASE ScanInvalid(m) \/ ScanUndecodable(m) \/ ScanPayload(m)
    <3>1. CASE k = m
      <4>1. /\ pc[k] = "scan" /\ messages[k] # <<>> /\ messages'[k] = Tail(messages[k])
        BY <1>t, <2>3, <3>1 DEF ScanInvalid, ScanUndecodable, ScanPayload, Looking
      <4>2. \/ batch'[k] = batch[k] /\ last'[k] = last[k]
            \/ /\ IsValid(Head(messages[k]))
               /\ batch'[k] = batch[k] \cup {Head(messages[k])}
               /\ last'[k] = Head(messages[k])
        BY <1>t, <2>3, <3>1 DEF ScanInvalid, ScanUndecodable, ScanPayload
      <4> QED
        BY <4>1, <4>2, OrderedLook
    <3>2. CASE k # m
      BY <1>t, <1>o, <2>3, <3>2 DEF ScanInvalid, ScanUndecodable, ScanPayload, Looking
    <3> QED
      BY <3>1, <3>2
  <2> QED
    BY <1>1, <2>1, <2>2, <2>3 DEF Advance
<1>2. ASSUME NEW m \in Members,
             \/ FetchRaises(m) \/ CommitLost(m) \/ OtherException(m) \/ Stop(m)
             \/ Crash(m) \/ Lose(m) \/ Evict(m)
      PROVE  Ordered(k)'
  BY <1>o, <1>2 DEF FetchRaises, CommitLost, OtherException, Stop, Crash, Lose, Evict
<1>3. ASSUME NEW m \in Members, DeliverError(m) PROVE Ordered(k)'
  <2>1. CASE k # m
    BY <1>3, <1>t, <1>o, <2>1 DEF DeliverError
  <2>2. CASE k = m
    <3>1. PICK p \in Partitions :
             messages'[k] = Append(messages[k], [part |-> p, offset |-> 0, kind |-> "error"])
      BY <1>3, <1>t, <2>2 DEF DeliverError
    <3> DEFINE e == [part |-> p, offset |-> 0, kind |-> "error"]
    <3>2. /\ e \in Message /\ ~IsValid(e)
          /\ pc[k] = "fetch" /\ batch'[k] = batch[k] /\ last'[k] = last[k]
      BY <1>3, <2>2 DEF DeliverError, Message, IsValid
    <3> HIDE DEF e
    <3>3. \A y \in Held(k) : ~SameLog(y, e)
      BY <3>2 DEF SameLog
    <3> QED
      BY <3>1, <3>2, <3>3, OrderedFetch DEF e
  <2> QED
    BY <2>1, <2>2
<1>4. ASSUME NEW m \in Members, Restart(m) PROVE Ordered(k)'
  BY <1>4, <1>t, <1>o, <1>n DEF Restart
<1>5. ASSUME NEW m \in Members, NEW p \in Partitions, Deliver(m, p) PROVE Ordered(k)'
  <2>1. CASE k # m
    BY <1>5, <1>t, <1>o, <2>1 DEF Deliver
  <2>2. CASE k = m
    <3> DEFINE x == [part |-> p, offset |-> position[k][p],
                     kind |-> log[p][position[k][p] + 1]]
    <3>1. log[p] \in Seq(Values) /\ position[k][p] < Len(log[p]) /\ position[k][p] \in Nat
      BY <1>5, <1>t, <2>2 DEF Deliver, LoopInv, TypeOK, BrokerTypeOK
    <3>2. log[p][position[k][p] + 1] \in Values
      BY <3>1
    <3>3. x \in Message /\ x.part = p /\ x.offset = position[k][p]
      BY <3>1, <3>2 DEF Message
    <3>4. /\ pc[k] = "fetch" /\ messages'[k] = Append(messages[k], x)
          /\ batch'[k] = batch[k] /\ last'[k] = last[k]
      BY <1>5, <1>t, <2>2 DEF Deliver
    <3> HIDE DEF x
    <3>5. \A y \in Held(k) : SameLog(y, x) => y.offset < x.offset
      BY <3>3, <3>4 DEF LoopInv, Fetched, Busy, SameLog
    <3> QED
      BY <3>3, <3>4, <3>5, OrderedFetch
  <2> QED
    BY <2>1, <2>2
<1>6. ASSUME NEW m \in Members, NEW p \in Partitions, Assign(m, p) \/ AutoCommit(m, p)
      PROVE  Ordered(k)'
  BY <1>6, <1>o DEF Assign, AutoCommit
<1>7. ASSUME NEW p \in Partitions, NEW v \in Values, Arrive(p, v) PROVE Ordered(k)'
  BY <1>7, <1>o DEF Arrive
<1>8. CASE UNCHANGED vars
  BY <1>8, <1>o DEF vars
<1> QED
  BY <1>1, <1>2, <1>3, <1>4, <1>5, <1>6, <1>7, <1>8 DEF Next, Fault

\* The loop goes on after a commit only when the broker has accepted it.
LEMMA CommittedStep ==
    ASSUME TypeOK, [Next]_vars, NEW k \in Members, pc[k] = "commit", pc'[k] = "loop"
    PROVE  CommitSucceeds(k)
<1> USE DEF loopVars
<1>t. pc \in [Members -> Points]
  BY DEF TypeOK
<1>1. ASSUME NEW m \in Members, Advance(m) PROVE CommitSucceeds(k)
  <2>1. CASE CommitSucceeds(m)
    BY <1>t, <2>1 DEF CommitSucceeds, Goto
  <2>2. CASE \/ Start(m) \/ LoopEnters(m) \/ LoopEnds(m) \/ FetchReturns(m)
             \/ ScanDone(m) \/ HandlerReturns(m) \/ HandlerRaises(m) \/ Close(m)
    BY <1>t, <2>2 DEF Start, LoopEnters, LoopEnds, FetchReturns, ScanDone,
       HandlerReturns, HandlerRaises, Close, Goto
  <2>3. CASE ScanInvalid(m) \/ ScanUndecodable(m) \/ ScanPayload(m)
    BY <2>3 DEF ScanInvalid, ScanUndecodable, ScanPayload
  <2>4. CASE CommitRefused(m)
    BY <1>t, <2>4 DEF CommitRefused, Raise, Goto
  <2> QED
    BY <1>1, <2>1, <2>2, <2>3, <2>4 DEF Advance
<1>2. ASSUME NEW m \in Members, FetchRaises(m) \/ CommitLost(m) \/ OtherException(m)
      PROVE  CommitSucceeds(k)
  BY <1>t, <1>2 DEF FetchRaises, CommitLost, OtherException, Raise, Goto
<1>3. ASSUME NEW m \in Members, Crash(m) \/ Restart(m) PROVE CommitSucceeds(k)
  BY <1>t, <1>3 DEF Crash, Restart, Goto
<1>4. ASSUME NEW m \in Members, Stop(m) \/ Lose(m) \/ Evict(m) \/ DeliverError(m)
      PROVE  CommitSucceeds(k)
  BY <1>4 DEF Stop, Lose, Evict, DeliverError
<1>5. ASSUME NEW m \in Members, NEW p \in Partitions,
             Assign(m, p) \/ Deliver(m, p) \/ AutoCommit(m, p)
      PROVE  CommitSucceeds(k)
  BY <1>5 DEF Assign, Deliver, AutoCommit
<1>6. ASSUME NEW p \in Partitions, NEW v \in Values, Arrive(p, v)
      PROVE  CommitSucceeds(k)
  BY <1>6 DEF Arrive
<1>7. CASE UNCHANGED vars
  BY <1>7 DEF vars
<1> QED
  BY <1>1, <1>2, <1>3, <1>4, <1>5, <1>6, <1>7 DEF Next, Fault

\* One commit stands for the batch, in any number of partitions and for any batch
\* size: of the partition of the last message nothing the handler was given comes
\* again, as within a partition messages keep the order of the log (consumer.py:107,
\* 133-136, 163-165).
THEOREM CommitsCover == Spec => CommitCoversBatch
<1> DEFINE OrderInv == \A m \in Members : Ordered(m)
           Covers == \A m \in Members :
                        pc[m] = "commit" /\ pc'[m] = "loop"
                           => \A x \in batch[m] :
                                 x.part = last[m].part => x.offset < committed'[x.part]
<1>1. Init => OrderInv
  BY DEF Init, Ordered
<1>2. LoopInv /\ OrderInv /\ [Next]_vars => OrderInv'
  BY OrderedStep
<1>3. LoopInv /\ OrderInv /\ [Next]_vars => Covers
  <2> SUFFICES ASSUME LoopInv, OrderInv, [Next]_vars, NEW m \in Members,
                      pc[m] = "commit", pc'[m] = "loop", NEW x \in batch[m],
                      x.part = last[m].part
               PROVE  x.offset < committed'[x.part]
    OBVIOUS
  <2>1. committed' = [committed EXCEPT ![last[m].part] = last[m].offset + 1]
    BY CommittedStep DEF LoopInv, CommitSucceeds, AcceptCommit
  <2>2. /\ last[m] \in Message /\ x \in Message
        /\ last[m] # NoMessage
        /\ committed \in [Partitions -> Nat]
    <3>1. /\ committed \in [Partitions -> Nat] /\ batch[m] \subseteq Message
          /\ last[m] # NoMessage /\ last[m] \in Message \cup {NoMessage}
      BY DEF LoopInv, TypeOK, BrokerTypeOK
    <3> QED
      BY <3>1
  <2>3. x.offset <= last[m].offset
    BY <2>2 DEF Ordered
  <2>4. /\ x.part \in Partitions /\ x.offset \in Nat /\ last[m].offset \in Nat
    BY <2>2 DEF Message
  <2>5. committed'[x.part] = last[m].offset + 1
    BY <2>1, <2>2, <2>4
  <2> QED
    BY <2>3, <2>4, <2>5
<1>4. LoopInv /\ OrderInv /\ [Next]_vars => [Covers]_vars
  BY <1>3
<1> QED
  <2> HIDE DEF OrderInv
  <2> QED
    BY <1>1, <1>2, <1>4, LoopInvHolds, PTL DEF Spec, CommitCoversBatch

-----------------------------------------------------------------------------
(* Auto-commit                                                             *)

\* A message has its outcome, a process died with it, or one holds it.
Accounted == Settled \cup abandoned \cup UNION {InFlight(m) : m \in Members}

\* The locals of _consume() when nothing is committed by the loop itself.
AutoLocals(m) ==
    /\ pc[m] # "commit"
    /\ \A x \in batch[m] : IsValid(x)
    /\ pc[m] = "fetch" => batch[m] = {}
    /\ pc[m] = "scan" /\ last[m] = NoMessage => batch[m] = {}
    /\ pc[m] = "handle" => messages[m] = <<>>
    /\ pc[m] \notin {"fetch", "scan", "handle"} => InFlight(m) \subseteq Settled \cup abandoned

\* What the owner of a partition has behind its position is accounted for, and so
\* is what is committed: auto-commit takes the position for the offset.
AutoInv ==
    /\ TypeOK
    /\ \A m \in Members : AutoLocals(m)
    /\ \A p \in Partitions, m \in Members : owner[p] = m =>
          \A o \in 0 .. position[m][p] - 1 : <<p, o>> \in Accounted
    /\ \A p \in Partitions : \A o \in 0 .. committed[p] - 1 : <<p, o>> \in Accounted

\* A process lets go of a message only with an outcome, or by dying.
LEMMA AutoLocalStep ==
    ASSUME EnableAutoCommit, TypeOK, [Next]_vars, NEW k \in Members, AutoLocals(k)
    PROVE  AutoLocals(k)' /\ InFlight(k) \subseteq InFlight(k)' \cup Settled' \cup abandoned'
<1> USE DEF loopVars, clientVars, localVars, histVars
<1>t. /\ pc \in [Members -> Points] /\ messages \in [Members -> Seq(Message)]
      /\ batch \in [Members -> SUBSET Message]
      /\ last \in [Members -> Message \cup {NoMessage}]
  BY DEF TypeOK
<1>g. Settled \subseteq Settled' /\ abandoned \subseteq abandoned'
  BY SettledGrows
<1>h. /\ Held(k) = Elements(messages[k]) \cup batch[k]
      /\ Held(k)' = Elements(messages'[k]) \cup batch'[k]
  BY DEF Held, Elements
<1>i. /\ InFlight(k) = {Id(x) : x \in {y \in Held(k) : IsValid(y)}}
      /\ InFlight(k)' = {Id(x) : x \in {y \in Held(k)' : IsValid(y)}}
  BY DEF InFlight, Ids, IsValid, Id
<1> DEFINE Goal == AutoLocals(k)' /\ InFlight(k) \subseteq InFlight(k)' \cup Settled' \cup abandoned'
<1>o. ASSUME pc'[k] = pc[k], messages'[k] = messages[k], batch'[k] = batch[k],
             last'[k] = last[k]
      PROVE  Goal
  <2>1. Held(k)' = Held(k)
    BY <1>o, <1>h
  <2>2. InFlight(k)' = InFlight(k)
    BY <2>1, <1>i
  <2> QED
    BY <1>o, <1>g, <2>2 DEF AutoLocals, IsValid
<1>p. ASSUME messages'[k] = messages[k], batch'[k] = batch[k],
             pc'[k] \notin {"fetch", "scan", "handle", "commit"},
             InFlight(k) \subseteq Settled' \cup abandoned'
      PROVE  Goal
  <2>1. Held(k)' = Held(k)
    BY <1>p, <1>h
  <2>2. InFlight(k)' = InFlight(k)
    BY <2>1, <1>i
  <2> QED
    BY <1>p, <2>2 DEF AutoLocals, IsValid
<1>1. ASSUME NEW m \in Members, Advance(m) PROVE Goal
  <2>1. CASE k # m
    BY <1>1, <1>t, <1>o, <2>1
    DEF Advance, Start, LoopEnters, LoopEnds, FetchReturns, ScanInvalid, ScanUndecodable,
        ScanPayload, ScanDone, HandlerReturns, HandlerRaises, CommitSucceeds,
        CommitRefused, Close, Looking, Raise, Goto
  <2>2. CASE (Start(m) \/ LoopEnds(m) \/ Close(m)) /\ k = m
    <3>1. /\ messages' = messages /\ batch' = batch
          /\ pc[k] \in {"new", "loop", "close"}
          /\ pc'[k] \notin {"fetch", "scan", "handle", "commit"}
      BY <1>t, <2>2 DEF Start, LoopEnds, Close, Goto
    <3> QED
      BY <1>g, <1>p, <3>1 DEF AutoLocals
  <2>3. CASE LoopEnters(m) /\ k = m
    <3>1. messages'[k] = <<>> /\ batch'[k] = {} /\ pc[k] = "loop" /\ pc'[k] = "fetch"
      BY <1>t, <2>3 DEF LoopEnters, Goto
    <3>2. InFlight(k) \subseteq Settled \cup abandoned
      BY <3>1 DEF AutoLocals
    <3> QED
      BY <1>g, <3>1, <3>2 DEF AutoLocals
  <2>4. CASE FetchReturns(m) /\ k = m
    <3>1. /\ pc[k] = "fetch" /\ pc'[k] = "scan" /\ UNCHANGED <<messages, batch>>
      BY <1>t, <2>4 DEF FetchReturns, Goto
    <3>2. InFlight(k)' = InFlight(k)
      BY <3>1, <1>h, <1>i
    <3> QED
      BY <3>1, <3>2 DEF AutoLocals
  <2>5. CASE (ScanInvalid(m) \/ ScanUndecodable(m) \/ ScanPayload(m)) /\ k = m
    <3> DEFINE x == Head(messages[k])
    <3>1. /\ pc[k] = "scan" /\ pc'[k] = "scan" /\ messages[k] # <<>>
          /\ messages'[k] = Tail(messages[k]) /\ x \in Message
      BY <1>t, <2>5 DEF ScanInvalid, ScanUndecodable, ScanPayload, Looking
    <3>2. /\ Elements(messages[k]) = {x} \cup Elements(Tail(messages[k]))
      BY <1>t, <3>1, ElementsOfTail
    <3>3. \/ ~IsValid(x) /\ batch'[k] = batch[k] /\ last'[k] = last[k]
          \/ Id(x) \in Settled' /\ batch'[k] = batch[k] /\ last'[k] = last[k]
          \/ IsValid(x) /\ batch'[k] = batch[k] \cup {x} /\ last'[k] = x
      BY <1>t, <2>5 DEF ScanInvalid, ScanUndecodable, ScanPayload, Settled
    <3> HIDE DEF x
    <3>4. \A y \in Held(k) : y \in Held(k)' \/ ~IsValid(y) \/ Id(y) \in Settled'
      BY <1>h, <3>1, <3>2, <3>3
    <3>5. InFlight(k) \subseteq InFlight(k)' \cup Settled'
      BY <1>i, <3>4
    <3>6. AutoLocals(k)'
      BY <3>1, <3>3, NoMessageAssumption DEF AutoLocals, IsValid
    <3> QED
      BY <3>5, <3>6
  <2>6. CASE ScanDone(m) /\ k = m
    <3>1. /\ pc[k] = "scan" /\ messages[k] = <<>> /\ UNCHANGED <<messages, batch, last>>
          /\ pc'[k] = IF last[k] = NoMessage THEN "loop" ELSE "handle"
      BY <1>t, <2>6 DEF ScanDone, Goto
    <3>2. InFlight(k)' = InFlight(k)
      BY <3>1, <1>h, <1>i
    <3>3. last[k] = NoMessage => InFlight(k) = {}
      BY <3>1, <1>h, <1>i DEF AutoLocals, Elements
    <3> QED
      BY <3>1, <3>2, <3>3 DEF AutoLocals, IsValid
  <2>7. CASE (HandlerReturns(m) \/ HandlerRaises(m)) /\ k = m
    <3>1. /\ pc[k] = "handle" /\ pc'[k] = "loop" /\ messages' = messages /\ batch' = batch
          /\ Ids(batch[k]) \subseteq Settled'
      BY <1>t, <2>7 DEF HandlerReturns, HandlerRaises, Goto, Settled
    <3>2. Held(k) = batch[k]
      BY <3>1, <1>h DEF AutoLocals, Elements
    <3>3. InFlight(k) \subseteq Settled'
      BY <3>1, <3>2, <1>i DEF Ids
    <3> QED
      BY <3>1, <3>3, <1>p
  <2>8. CASE (CommitSucceeds(m) \/ CommitRefused(m)) /\ k = m
    BY <2>8 DEF CommitSucceeds, CommitRefused, AutoLocals
  <2> QED
    BY <1>1, <2>1, <2>2, <2>3, <2>4, <2>5, <2>6, <2>7, <2>8 DEF Advance
<1>2. ASSUME NEW m \in Members,
             FetchRaises(m) \/ CommitLost(m) \/ OtherException(m) \/ Crash(m)
      PROVE  Goal
  <2>1. UNCHANGED <<messages, batch, last>>
    BY <1>2 DEF FetchRaises, CommitLost, OtherException, Crash
  <2>2. CASE k # m
    BY <1>2, <1>t, <1>o, <2>1, <2>2
    DEF FetchRaises, CommitLost, OtherException, Crash, Raise, Goto
  <2>3. CASE FetchRaises(m) /\ k = m
    <3>1. pc[k] = "fetch" /\ messages[k] = <<>> /\ pc'[k] = "close"
      BY <1>t, <2>3 DEF FetchRaises, Raise, Goto
    <3>2. InFlight(k) = {}
      BY <3>1, <1>h, <1>i DEF AutoLocals, Elements
    <3> QED
      BY <2>1, <3>1, <3>2, <1>p
  <2>4. CASE CommitLost(m) /\ k = m
    BY <2>4 DEF CommitLost, AutoLocals
  <2>5. CASE (OtherException(m) \/ Crash(m)) /\ k = m
    <3>1. /\ pc'[k] \in {"close", "dead"} /\ InFlight(k) \subseteq Settled \cup abandoned'
      BY <1>t, <2>5 DEF OtherException, Crash, Raise, Goto
    <3> QED
      BY <2>1, <3>1, <1>g, <1>p
  <2> QED
    BY <1>2, <2>2, <2>3, <2>4, <2>5
<1>3. ASSUME NEW m \in Members, Stop(m) \/ Lose(m) \/ Evict(m) PROVE Goal
  BY <1>3, <1>o DEF Stop, Lose, Evict
<1>4. ASSUME NEW m \in Members, NEW x \in Message, pc[m] = "fetch",
             messages' = [messages EXCEPT ![m] = Append(messages[m], x)],
             UNCHANGED <<pc, batch, last>>
      PROVE  Goal
  <2>1. CASE k # m
    BY <1>4, <1>t, <1>o, <2>1
  <2>2. CASE k = m
    <3>1. Elements(messages'[k]) = Elements(messages[k]) \cup {x}
      BY <1>4, <1>t, <2>2, ElementsOfAppend
    <3>2. InFlight(k) \subseteq InFlight(k)'
      BY <1>4, <3>1, <1>h, <1>i
    <3> QED
      BY <1>4, <2>2, <3>2 DEF AutoLocals, IsValid
  <2> QED
    BY <2>1, <2>2
<1>5. ASSUME NEW m \in Members, DeliverError(m) PROVE Goal
  <2>1. PICK p \in Partitions : messages' = [messages EXCEPT ![m] =
            Append(messages[m], [part |-> p, offset |-> 0, kind |-> "error"])]
    BY <1>5, <1>t DEF DeliverError
  <2>2. [part |-> p, offset |-> 0, kind |-> "error"] \in Message
    BY DEF Message
  <2> QED
    BY <1>4, <1>5, <2>1, <2>2 DEF DeliverError
<1>6. ASSUME NEW m \in Members, NEW p \in Partitions, Deliver(m, p) PROVE Goal
  <2> DEFINE x == [part |-> p, offset |-> position[m][p],
                   kind |-> log[p][position[m][p] + 1]]
  <2>1. x \in Message
    <3>1. log[p] \in Seq(Values) /\ position[m][p] < Len(log[p]) /\ position[m][p] \in Nat
      BY <1>6 DEF Deliver, TypeOK, BrokerTypeOK
    <3>2. log[p][position[m][p] + 1] \in Values
      BY <3>1
    <3> QED
      BY <3>1, <3>2 DEF Message
  <2>2. messages' = [messages EXCEPT ![m] = Append(messages[m], x)]
    BY <1>6, <1>t DEF Deliver
  <2> HIDE DEF x
  <2> QED
    BY <1>4, <1>6, <2>1, <2>2 DEF Deliver
<1>7. ASSUME NEW m \in Members, Restart(m) PROVE Goal
  <2>1. CASE k # m
    BY <1>7, <1>t, <1>o, <2>1 DEF Restart, Goto
  <2>2. CASE k = m
    <3>1. /\ pc[k] \in {"stopped", "dead"} /\ pc'[k] = "new"
          /\ messages'[k] = <<>> /\ batch'[k] = {}
      BY <1>7, <1>t, <2>2 DEF Restart, Goto, Alive
    <3>2. InFlight(k)' = {}
      BY <3>1, <1>h, <1>i DEF Elements
    <3> QED
      BY <3>1, <3>2, <1>g DEF AutoLocals
  <2> QED
    BY <2>1, <2>2
<1>8. ASSUME NEW m \in Members, NEW p \in Partitions, Assign(m, p) \/ AutoCommit(m, p)
      PROVE  Goal
  BY <1>8, <1>o DEF Assign, AutoCommit
<1>9. ASSUME NEW p \in Partitions, NEW v \in Values, Arrive(p, v) PROVE Goal
  BY <1>9, <1>o DEF Arrive
<1>10. CASE UNCHANGED vars
  BY <1>10, <1>o DEF vars
<1> QED
  BY <1>1, <1>2, <1>3, <1>5, <1>6, <1>7, <1>8, <1>9, <1>10 DEF Next, Fault

LEMMA AccountedGrows ==
    ASSUME EnableAutoCommit, AutoInv, [Next]_vars
    PROVE  Accounted \subseteq Accounted' /\ \A m \in Members : AutoLocals(m)'
<1>1. \A m \in Members :
         AutoLocals(m)' /\ InFlight(m) \subseteq InFlight(m)' \cup Settled' \cup abandoned'
  BY AutoLocalStep DEF AutoInv
<1> QED
  BY <1>1, SettledGrows DEF Accounted

\* What is behind a position or an offset, accounted for now, still is later.
LEMMA AutoStep ==
    ASSUME EnableAutoCommit, AutoInv, [Next]_vars
    PROVE  AutoInv'
<1> USE DEF loopVars, clientVars, localVars, histVars
<1>a. Accounted \subseteq Accounted' /\ \A m \in Members : AutoLocals(m)'
  BY AccountedGrows
<1>b. /\ TypeOK /\ position \in [Members -> [Partitions -> Nat]]
      /\ committed \in [Partitions -> Nat]
      /\ owner \in [Partitions -> Members \cup {NoMember}]
      /\ NoMember \notin Members
  BY BrokerAssumption DEF AutoInv, TypeOK, BrokerTypeOK
<1>c. TypeOK'
  <2>1. TypeOK /\ UNCHANGED vars => TypeOK'
    BY BrokerTypeFacts DEF vars, TypeOK
  <2> QED
    BY <1>b, <2>1, NextType
<1> DEFINE Behind(p, n) == \A o \in 0 .. n - 1 : <<p, o>> \in Accounted
           Read == \A p \in Partitions, m \in Members :
                      owner'[p] = m => \A o \in 0 .. position'[m][p] - 1 : <<p, o>> \in Accounted'
           Done == \A p \in Partitions : \A o \in 0 .. committed'[p] - 1 : <<p, o>> \in Accounted'
<1>d. /\ \A p \in Partitions, m \in Members : owner[p] = m => Behind(p, position[m][p])
      /\ \A p \in Partitions : Behind(p, committed[p])
  BY DEF AutoInv
<1>e. ASSUME \A p \in Partitions, m \in Members :
                owner'[p] = m => owner[p] = m /\ position'[m][p] = position[m][p],
             committed' = committed
      PROVE  Read /\ Done
  BY <1>a, <1>d, <1>e
<1> SUFFICES Read /\ Done
  BY <1>a, <1>c DEF AutoInv
<1>1. ASSUME NEW m \in Members, Advance(m) PROVE Read /\ Done
  <2>1. CASE Close(m)
    <3>1. /\ \/ committed' = committed
             \/ committed' = [p \in Partitions |->
                    IF Storable(m, p) THEN position[m][p] ELSE committed[p]]
          /\ position' = position
          /\ \A p \in Partitions, k \in Members : owner'[p] = k => owner[p] = k
      BY <1>b, <2>1 DEF Close, WithoutMember
    <3>2. \A p \in Partitions : Storable(m, p) => Behind(p, position[m][p])
      BY <1>d DEF Storable
    <3>3. \A p \in Partitions : Behind(p, committed'[p])
      BY <1>d, <3>1, <3>2
    <3> QED
      BY <1>a, <1>d, <3>1, <3>3
  <2>2. CASE CommitSucceeds(m) \/ CommitRefused(m)
    BY <2>2 DEF CommitSucceeds, CommitRefused, AutoInv, AutoLocals
  <2>3. CASE \/ Start(m) \/ LoopEnters(m) \/ LoopEnds(m) \/ FetchReturns(m)
             \/ ScanInvalid(m) \/ ScanUndecodable(m) \/ ScanPayload(m) \/ ScanDone(m)
             \/ HandlerReturns(m) \/ HandlerRaises(m)
    BY <1>e, <2>3 DEF Start, LoopEnters, LoopEnds, FetchReturns, ScanInvalid,
       ScanUndecodable, ScanPayload, ScanDone, HandlerReturns, HandlerRaises, brokerVars
  <2> QED
    BY <1>1, <2>1, <2>2, <2>3 DEF Advance
<1>2. ASSUME NEW m \in Members, CommitLost(m) PROVE Read /\ Done
  BY <1>2 DEF CommitLost, AutoInv, AutoLocals
<1>3. ASSUME NEW m \in Members,
             \/ FetchRaises(m) \/ OtherException(m) \/ Stop(m) \/ Crash(m)
             \/ Lose(m) \/ DeliverError(m)
      PROVE  Read /\ Done
  BY <1>e, <1>3 DEF FetchRaises, OtherException, Stop, Crash, Lose, DeliverError, brokerVars
<1>4. ASSUME NEW m \in Members, Evict(m) PROVE Read /\ Done
  BY <1>b, <1>e, <1>4 DEF Evict, WithoutMember
<1>5. ASSUME NEW m \in Members, Restart(m) PROVE Read /\ Done
  <2>1. /\ UNCHANGED <<owner, committed>> /\ \A p \in Partitions : owner[p] # m
        /\ \A k \in Members \ {m} : position'[k] = position[k]
    BY <1>b, <1>5 DEF Restart, Owns, brokerVars
  <2> QED
    BY <1>e, <2>1
<1>6. ASSUME NEW m \in Members, NEW q \in Partitions, Assign(m, q) PROVE Read /\ Done
  <2>1. /\ committed' = committed /\ owner' = [owner EXCEPT ![q] = m]
        /\ position' = [position EXCEPT ![m][q] = committed[q]]
    BY <1>6 DEF Assign, Grant
  <2>2. position'[m][q] = committed[q]
    BY <1>b, <2>1
  <2>3. ASSUME NEW p \in Partitions, NEW k \in Members, owner'[p] = k
        PROVE  Behind(p, position'[k][p])
    <3>1. CASE p = q
      <4>1. k = m
        BY <1>b, <2>1, <2>3, <3>1
      <4> QED
        BY <1>d, <2>2, <3>1, <4>1
    <3>2. CASE p # q
      <4>1. owner[p] = k /\ position'[k][p] = position[k][p]
        BY <1>b, <2>1, <2>3, <3>2
      <4> QED
        BY <1>d, <4>1
    <3> QED
      BY <3>1, <3>2
  <2> QED
    BY <1>a, <1>d, <2>1, <2>3
<1>7. ASSUME NEW m \in Members, NEW q \in Partitions, Deliver(m, q) PROVE Read /\ Done
  <2>1. /\ UNCHANGED <<owner, committed, batch>>
        /\ position' = [position EXCEPT ![m][q] = position[m][q] + 1]
        /\ position[m][q] \in Nat
    BY <1>b, <1>7 DEF Deliver, brokerVars
  <2>2. <<q, position[m][q]>> \in Accounted'
    <3> DEFINE x == [part |-> q, offset |-> position[m][q],
                     kind |-> log[q][position[m][q] + 1]]
    <3>1. log[q] \in Seq(Values) /\ position[m][q] < Len(log[q])
      BY <1>7, <1>b DEF Deliver, TypeOK, BrokerTypeOK
    <3>2. x.kind \in Values
      BY <2>1, <3>1
    <3>3. x \in Message /\ IsValid(x) /\ Id(x) = <<q, position[m][q]>>
      BY <2>1, <3>2 DEF Message, IsValid, Values, Id
    <3>4. /\ messages[m] \in Seq(Message) /\ messages'[m] = Append(messages[m], x)
      BY <1>7, <1>b DEF Deliver, TypeOK
    <3> HIDE DEF x
    <3>5. x \in Elements(messages'[m])
      BY <3>3, <3>4, ElementsOfAppend
    <3>6. x \in Held(m)'
      BY <3>5 DEF Held, Elements
    <3>7. Id(x) \in InFlight(m)'
      BY <3>3, <3>6 DEF InFlight, Ids, IsValid, Id
    <3> QED
      BY <3>3, <3>7 DEF Accounted
  <2>3. ASSUME NEW p \in Partitions, NEW k \in Members, owner'[p] = k,
               NEW o \in 0 .. position'[k][p] - 1
        PROVE  <<p, o>> \in Accounted'
    <3>1. CASE p = q /\ k = m
      <4>1. position'[k][p] = position[m][q] + 1
        BY <1>b, <2>1, <3>1
      <4>2. o \in 0 .. position[m][q] - 1 \/ o = position[m][q]
        BY <2>1, <4>1
      <4>3. owner[q] = m
        BY <2>1, <2>3, <3>1
      <4> QED
        BY <1>a, <1>d, <2>2, <3>1, <4>2, <4>3
    <3>2. CASE ~(p = q /\ k = m)
      <4>1. owner[p] = k /\ position'[k][p] = position[k][p]
        BY <1>b, <2>1, <2>3, <3>2
      <4> QED
        BY <1>a, <1>d, <2>3, <4>1
    <3> QED
      BY <3>1, <3>2
  <2> QED
    BY <1>a, <1>d, <2>1, <2>3
<1>8. ASSUME NEW m \in Members, NEW q \in Partitions, AutoCommit(m, q) PROVE Read /\ Done
  <2>1. /\ owner[q] = m /\ UNCHANGED <<owner, position>>
        /\ committed' = [committed EXCEPT ![q] = position[m][q]]
    BY <1>8 DEF AutoCommit, AcceptCommit
  <2>2. \A p \in Partitions : Behind(p, committed'[p])
    BY <1>b, <1>d, <2>1
  <2> QED
    BY <1>a, <1>d, <2>1, <2>2
<1>9. ASSUME NEW p \in Partitions, NEW v \in Values, Arrive(p, v) PROVE Read /\ Done
  BY <1>e, <1>9 DEF Arrive, Publish
<1>10. CASE UNCHANGED vars
  BY <1>e, <1>10 DEF vars, brokerVars
<1> QED
  BY <1>1, <1>2, <1>3, <1>4, <1>5, <1>6, <1>7, <1>8, <1>9, <1>10 DEF Next, Fault

LEMMA AutoInvHolds ==
    ASSUME EnableAutoCommit
    PROVE  Spec => []AutoInv
<1>1. Init => AutoInv
  <2> SUFFICES ASSUME Init PROVE AutoInv
    OBVIOUS
  <2>1. TypeOK
    BY BrokerAssumption, ConsumerAssumption
       DEF Init, BrokerInit, TypeOK, BrokerTypeOK, Points
  <2>2. ASSUME NEW m \in Members PROVE AutoLocals(m)
    <3>1. InFlight(m) = {}
      BY DEF Init, Held, InFlight, Ids
    <3> QED
      BY <3>1 DEF Init, AutoLocals
  <2> QED
    BY <2>1, <2>2, BrokerAssumption DEF Init, BrokerInit, AutoInv
<1>2. AutoInv /\ [Next]_vars => AutoInv'
  BY AutoStep
<1> QED
  BY <1>1, <1>2, PTL DEF Spec

\* Nothing is lost but what was in the hands of a process when it died or an
\* exception left its loop, and that with auto-commit only (config.py:35).
THEOREM OnlyTheAbandonedIsLost == Spec => []AutoCommitLosesOnlyTheAbandoned
<1>1. CASE EnableAutoCommit
  <2>1. AutoInv => AutoCommitLosesOnlyTheAbandoned
    BY DEF AutoInv, Accounted, AutoCommitLosesOnlyTheAbandoned
  <2> QED
    BY <1>1, <2>1, AutoInvHolds, PTL
<1>2. CASE ~EnableAutoCommit
  <2>1. IInv => AutoCommitLosesOnlyTheAbandoned
    BY DEF IInv, CommittedIsSettled, AutoCommitLosesOnlyTheAbandoned
  <2> QED
    BY <1>2, <2>1, InvariantHolds, PTL
<1> QED
  BY <1>1, <1>2

=============================================================================
