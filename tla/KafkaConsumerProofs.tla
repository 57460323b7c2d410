-------------------------- MODULE KafkaConsumerProofs --------------------------
(***************************************************************************)
(* Proofs about KafkaConsumer, for every number of members and partitions, *)
(* every batch size and every bound.                                       *)
(***************************************************************************)
EXTENDS KafkaConsumer, TLAPS

\* The variables of KafkaBroker that no step inside the process touches.
LEMMA BrokerTypeFacts ==
    ASSUME BrokerTypeOK
    PROVE  /\ UNCHANGED brokerVars => BrokerTypeOK'
           /\ \A p \in Partitions, m \in Members :
                 Grant(p, m) => BrokerTypeOK'
           /\ \A p \in Partitions, m \in Members, o \in Nat :
                 AcceptCommit(m, p, o) => BrokerTypeOK'
           /\ \A p \in Partitions, v \in Values :
                 Publish(p, v) => BrokerTypeOK'
           /\ \A m \in Members :
                 WithoutMember(m) \in [Partitions -> Members \cup {NoMember}]
<1>1. UNCHANGED brokerVars => BrokerTypeOK'
  BY DEF BrokerTypeOK, brokerVars
<1>2. \A p \in Partitions, m \in Members : Grant(p, m) => BrokerTypeOK'
  BY DEF BrokerTypeOK, Grant
<1>3. \A p \in Partitions, m \in Members, o \in Nat :
         AcceptCommit(m, p, o) => BrokerTypeOK'
  BY DEF BrokerTypeOK, AcceptCommit
<1>4. \A p \in Partitions, v \in Values : Publish(p, v) => BrokerTypeOK'
  BY BrokerAssumption DEF BrokerTypeOK, Publish
<1>5. \A m \in Members :
         WithoutMember(m) \in [Partitions -> Members \cup {NoMember}]
  BY DEF BrokerTypeOK, WithoutMember
<1> QED
  BY <1>1, <1>2, <1>3, <1>4, <1>5

LEMMA IdsType ==
    ASSUME NEW S \in SUBSET Message
    PROVE  Ids(S) \subseteq Offsets
BY DEF Ids, Id, Message, Offsets

LEMMA BatchType ==
    ASSUME TypeOK, NEW m \in Members
    PROVE  Ids(batch[m]) \subseteq Offsets
BY IdsType DEF TypeOK

\* The steps of one member between two calls that leave the process.
LEMMA AdvanceType ==
    ASSUME TypeOK, NEW m \in Members, Advance(m)
    PROVE  TypeOK'
<1> USE BrokerTypeFacts DEF TypeOK, Goto, Points
<1>1. CASE Start(m)
  BY <1>1 DEF Start, clientVars, localVars, histVars
<1>2. CASE LoopEnters(m)
  BY <1>2 DEF LoopEnters, clientVars, histVars
<1>3. CASE LoopEnds(m)
  BY <1>3 DEF LoopEnds, clientVars, localVars, histVars
<1>4. CASE FetchReturns(m)
  BY <1>4 DEF FetchReturns, clientVars, localVars, histVars
<1>5. CASE ScanInvalid(m)
  BY <1>5 DEF ScanInvalid, Looking, loopVars, clientVars, histVars
<1>6. CASE ScanUndecodable(m)
  <2>1. Head(messages[m]) \in Message
    BY <1>6 DEF ScanUndecodable, Looking
  <2>2. Id(Head(messages[m])) \in Offsets
    BY <2>1 DEF Message, Id, Offsets
  <2> QED
    BY <1>6, <2>2 DEF ScanUndecodable, Looking, loopVars, clientVars
<1>7. CASE ScanPayload(m)
  BY <1>7 DEF ScanPayload, Looking, loopVars, clientVars, histVars
<1>8. CASE ScanDone(m)
  BY <1>8, BatchType DEF ScanDone, clientVars, localVars
<1>9. CASE HandlerReturns(m)
  BY <1>9, BatchType DEF HandlerReturns, clientVars, localVars
<1>10. CASE HandlerRaises(m)
  BY <1>10, BatchType DEF HandlerRaises, clientVars, localVars
<1>11. CASE CommitSucceeds(m)
  <2>1. last[m] \in Message
    BY <1>11 DEF CommitSucceeds
  <2>2. last[m].part \in Partitions /\ last[m].offset + 1 \in Nat
    BY <2>1 DEF Message
  <2>3. BrokerTypeOK'
    BY <1>11, <2>2 DEF CommitSucceeds
  <2> QED
    BY <1>11, <2>3 DEF CommitSucceeds, clientVars, localVars, histVars
<1>12. CASE CommitRefused(m)
  BY <1>12 DEF CommitRefused, Raise, clientVars, localVars, histVars
<1>13. CASE Close(m)
  <2>1. committed' \in [Partitions -> Nat]
    BY <1>13 DEF Close, BrokerTypeOK
  <2>2. owner' \in [Partitions -> Members \cup {NoMember}]
    BY <1>13 DEF Close
  <2>3. BrokerTypeOK'
    BY <1>13, <2>1, <2>2 DEF Close, BrokerTypeOK
  <2> QED
    BY <1>13, <2>3 DEF Close, localVars, histVars
<1> QED
  BY <1>1, <1>2, <1>3, <1>4, <1>5, <1>6, <1>7, <1>8, <1>9, <1>10, <1>11,
     <1>12, <1>13 DEF Advance

\* What InFlight holds are offsets.
LEMMA InFlightType ==
    ASSUME TypeOK, NEW m \in Members
    PROVE  InFlight(m) \subseteq Offsets
<1>1. messages[m] \in Seq(Message) /\ batch[m] \subseteq Message
  BY DEF TypeOK
<1>2. Held(m) \subseteq Message
  BY <1>1 DEF Held
<1> QED
  BY <1>2, IdsType DEF InFlight

\* Rebalances and deliveries, disturbances, and the life of the process.
LEMMA SurroundingsType ==
    ASSUME TypeOK, NEW m \in Members,
           \/ Fault(m) \/ Lose(m) \/ DeliverError(m) \/ Evict(m) \/ Restart(m)
    PROVE  TypeOK'
<1> USE BrokerTypeFacts, ConsumerAssumption DEF TypeOK, Goto, Points, Disturbance
<1>1. CASE FetchRaises(m)
  BY <1>1 DEF FetchRaises, Raise, clientVars, localVars, histVars
<1>2. CASE CommitLost(m)
  <2>1. last[m] \in Message
    BY <1>2 DEF CommitLost
  <2>2. last[m].part \in Partitions /\ last[m].offset + 1 \in Nat
    BY <2>1 DEF Message
  <2>3. BrokerTypeOK'
    BY <1>2, <2>2 DEF CommitLost
  <2> QED
    BY <1>2, <2>3 DEF CommitLost, Raise, clientVars, localVars, histVars
<1>3. CASE OtherException(m)
  BY <1>3, InFlightType DEF OtherException, Raise, clientVars, localVars
<1>4. CASE Stop(m)
  BY <1>4 DEF Stop, clientVars, localVars, histVars
<1>5. CASE Crash(m)
  BY <1>5, InFlightType DEF Crash, clientVars, localVars
<1>6. CASE Lose(m)
  BY <1>6 DEF Lose, loopVars, localVars, histVars
<1>7. CASE DeliverError(m)
  <2>1. \A p \in Partitions :
           [part |-> p, offset |-> 0, kind |-> "error"] \in Message
    BY DEF Message
  <2> QED
    BY <1>7, <2>1 DEF DeliverError, loopVars, clientVars, histVars
<1>8. CASE Evict(m)
  <2>1. BrokerTypeOK'
    BY <1>8 DEF Evict, BrokerTypeOK
  <2> QED
    BY <1>8, <2>1 DEF Evict, loopVars, clientVars, localVars, histVars
<1>9. CASE Restart(m)
  BY <1>9 DEF Restart
<1> QED
  BY <1>1, <1>2, <1>3, <1>4, <1>5, <1>6, <1>7, <1>8, <1>9 DEF Fault

LEMMA PartitionType ==
    ASSUME TypeOK, NEW m \in Members, NEW p \in Partitions,
           Assign(m, p) \/ Deliver(m, p) \/ AutoCommit(m, p)
    PROVE  TypeOK'
<1> USE BrokerTypeFacts DEF TypeOK
<1>1. CASE Assign(m, p)
  <2>1. committed[p] \in Nat
    BY DEF BrokerTypeOK
  <2> QED
    BY <1>1, <2>1 DEF Assign, loopVars, localVars
<1>2. CASE Deliver(m, p)
  <2>1. log[p][position[m][p] + 1] \in Values
    BY <1>2 DEF Deliver, BrokerTypeOK
  <2>2. [part |-> p, offset |-> position[m][p],
         kind |-> log[p][position[m][p] + 1]] \in Message
    BY <2>1 DEF Message
  <2> QED
    BY <1>2, <2>2 DEF Deliver, loopVars, histVars
<1>3. CASE AutoCommit(m, p)
  BY <1>3 DEF AutoCommit, loopVars, clientVars, localVars, histVars
<1> QED
  BY <1>1, <1>2, <1>3

\* TypeOK is inductive on its own; the other proofs start from TypeOK'.
LEMMA NextType ==
    ASSUME TypeOK, Next
    PROVE  TypeOK'
<1>1. ASSUME NEW m \in Members, Advance(m) PROVE TypeOK'
  BY <1>1, AdvanceType
<1>2. ASSUME NEW m \in Members,
             Fault(m) \/ Lose(m) \/ DeliverError(m) \/ Evict(m) \/ Restart(m)
      PROVE TypeOK'
  BY <1>2, SurroundingsType
<1>3. ASSUME NEW m \in Members, NEW p \in Partitions,
             Assign(m, p) \/ Deliver(m, p) \/ AutoCommit(m, p)
      PROVE TypeOK'
  BY <1>3, PartitionType
<1>4. ASSUME NEW p \in Partitions, NEW v \in Values, Arrive(p, v)
      PROVE TypeOK'
  BY <1>4, BrokerTypeFacts
     DEF Arrive, TypeOK, loopVars, clientVars, localVars, histVars
<1> QED
  BY <1>1, <1>2, <1>3, <1>4 DEF Next

\* The variables have their types, and handle() and commit() are only reached
\* with a last valid message (consumer.py:135), in every reachable state.
THEOREM TypeCorrect == Spec => []TypeOK
<1>1. Init => TypeOK
  BY BrokerAssumption, ConsumerAssumption
     DEF Init, BrokerInit, TypeOK, BrokerTypeOK, Points
<1>2. TypeOK /\ UNCHANGED vars => TypeOK'
  BY BrokerTypeFacts
     DEF vars, TypeOK, loopVars, clientVars, localVars, histVars
<1>3. TypeOK /\ [Next]_vars => TypeOK'
  BY <1>2, NextType
<1> QED
  BY <1>1, <1>3, PTL DEF Spec

-----------------------------------------------------------------------------
(* The inductive invariant                                                 *)

Elements(s) == {s[i] : i \in DOMAIN s}

LEMMA ElementsOfTail ==
    ASSUME NEW S, NEW s \in Seq(S), s # <<>>
    PROVE  Elements(s) = {Head(s)} \cup Elements(Tail(s))
<1>1. Elements(s) \subseteq {Head(s)} \cup Elements(Tail(s))
  <2> SUFFICES ASSUME NEW i \in 1 .. Len(s), i # 1
               PROVE  s[i] \in Elements(Tail(s))
    BY DEF Elements
  <2>1. i - 1 \in DOMAIN Tail(s) /\ Tail(s)[i - 1] = s[i]
    OBVIOUS
  <2> QED
    BY <2>1 DEF Elements
<1>2. {Head(s)} \cup Elements(Tail(s)) \subseteq Elements(s)
  <2>1. Head(s) \in Elements(s)
    BY 1 \in 1 .. Len(s) DEF Elements
  <2>2. ASSUME NEW i \in 1 .. Len(Tail(s)) PROVE Tail(s)[i] \in Elements(s)
    BY i + 1 \in 1 .. Len(s), Tail(s)[i] = s[i + 1] DEF Elements
  <2> QED
    BY <2>1, <2>2 DEF Elements
<1> QED
  BY <1>1, <1>2

LEMMA ElementsOfAppend ==
    ASSUME NEW S, NEW s \in Seq(S), NEW x \in S
    PROVE  Elements(Append(s, x)) = Elements(s) \cup {x}
<1>1. ASSUME NEW i \in 1 .. Len(s) + 1
      PROVE  Append(s, x)[i] = IF i = Len(s) + 1 THEN x ELSE s[i]
  OBVIOUS
<1>2. DOMAIN Append(s, x) = 1 .. Len(s) + 1 /\ DOMAIN s = 1 .. Len(s)
  OBVIOUS
<1> QED
  BY <1>1, <1>2 DEF Elements

\* A step of m that neither moves an offset or a position of its partitions
\* nor fetches a message: what is left to show is how it settles what it holds.
LEMMA LocalStep ==
    ASSUME IInv, TypeOK', NEW m \in Members,
           \A k \in Members \ {m} :
              /\ pc'[k] = pc[k] /\ messages'[k] = messages[k]
              /\ batch'[k] = batch[k] /\ last'[k] = last[k]
              /\ assigned'[k] = assigned[k] /\ position'[k] = position[k],
           Settled \subseteq Settled',
           log' = log, committed' = committed,
           \A p \in Partitions, k \in Members : owner'[p] = k => owner[p] = k,
           \A p \in Partitions : owner'[p] = m =>
              /\ p \in assigned'[m] /\ position'[m][p] = position[m][p]
              /\ InFlight(m) \subseteq InFlight(m)' \cup Settled',
           pc'[m] \in Busy =>
              /\ position'[m] = position[m]
              /\ \A x \in Held(m)' : IsValid(x) => pc[m] \in Busy /\ x \in Held(m),
           Locals(m)'
    PROVE  IInv'
<1>1. ASSUME NEW k \in Members, k # m
      PROVE  Held(k)' = Held(k) /\ InFlight(k)' = InFlight(k)
  BY <1>1 DEF Held, InFlight, Ids, IsValid
<1>2. ASSUME NEW k \in Members PROVE Locals(k)'
  BY <1>1, k # m => Locals(k) DEF IInv, Locals
<1>3. ASSUME NEW k \in Members PROVE HeldMessages(k)'
  <2>1. HeldMessages(k)
    BY DEF IInv
  <2>2. ASSUME NEW x \in Held(k)', pc'[k] \in Busy, IsValid(x)
        PROVE  pc[k] \in Busy /\ x \in Held(k) /\ position'[k] = position[k]
    BY <2>2, <1>1
  <2>3. Held(k)' \subseteq Message
    BY DEF TypeOK, Held
  <2> QED
    BY <2>1, <2>2, <2>3 DEF HeldMessages, Message
<1>4. ASSUME NEW k \in Members, NEW p \in Partitions PROVE ReadWindow(k, p)'
  <2>1. ReadWindow(k, p)
    BY DEF IInv
  <2>2. SUFFICES ASSUME owner'[p] = k PROVE ReadWindow(k, p)'
    BY DEF ReadWindow
  <2>3. /\ owner[p] = k /\ position'[k][p] = position[k][p]
        /\ p \in assigned'[k]
        /\ InFlight(k) \subseteq InFlight(k)' \cup Settled'
    BY <2>1, <2>2, <1>1 DEF ReadWindow
  <2> QED
    BY <2>1, <2>2, <2>3 DEF ReadWindow
<1>5. CommittedIsSettled'
  BY DEF IInv, CommittedIsSettled
<1> QED
  BY <1>2, <1>3, <1>4, <1>5 DEF IInv

\* Before the handler: the loop and the look at each message.
LEMMA FetchedInv ==
    ASSUME IInv, TypeOK', NEW m \in Members,
           \/ Start(m) \/ LoopEnters(m) \/ LoopEnds(m) \/ FetchReturns(m)
           \/ ScanInvalid(m) \/ ScanUndecodable(m) \/ ScanPayload(m) \/ ScanDone(m)
    PROVE  IInv'
<1> USE DEF Goto, brokerVars, loopVars, clientVars, localVars, histVars, Settled
<1>a. TypeOK /\ Locals(m) /\ \A p \in Partitions : ReadWindow(m, p)
  BY DEF IInv
<1>b. pc[m] \in Points /\ messages[m] \in Seq(Message) /\ batch[m] \subseteq Message
  BY <1>a DEF TypeOK
<1>c. \A p \in Partitions : owner[p] = m => p \in assigned[m]
  BY <1>a DEF ReadWindow
<1>1. CASE Start(m)
  <2>1. Held(m)' = Held(m) /\ InFlight(m)' = InFlight(m)
    BY <1>1, <1>a DEF Start, TypeOK, Held, InFlight, Ids, IsValid
  <2>2. Locals(m)'
    BY <1>1, <1>a, <2>1 DEF Start, TypeOK, Locals
  <2> QED
    BY <1>1, <1>a, <1>c, <2>1, <2>2, LocalStep DEF Start, TypeOK, Busy
<1>2. CASE LoopEnters(m)
  <2>1. messages'[m] = <<>> /\ batch'[m] = {} /\ last'[m] = NoMessage
        /\ pc[m] = "loop" /\ pc'[m] = "fetch"
    BY <1>2, <1>a DEF LoopEnters, TypeOK
  <2>2. Held(m)' = {} /\ InFlight(m) \subseteq Settled
    BY <1>a, <2>1 DEF Held, Locals
  <2>3. Locals(m)'
    BY <2>1 DEF Locals
  <2> QED
    BY <1>2, <1>a, <1>c, <2>2, <2>3, LocalStep DEF LoopEnters, TypeOK, Busy
<1>3. CASE LoopEnds(m)
  <2>1. Held(m)' = Held(m) /\ InFlight(m)' = InFlight(m)
    BY <1>3, <1>a DEF LoopEnds, TypeOK, Held, InFlight, Ids, IsValid
  <2>2. Locals(m)'
    BY <1>3, <1>a, <2>1 DEF LoopEnds, TypeOK, Locals
  <2> QED
    BY <1>3, <1>a, <1>c, <2>1, <2>2, LocalStep DEF LoopEnds, TypeOK, Busy
<1>4. CASE FetchReturns(m)
  <2>1. Held(m)' = Held(m) /\ InFlight(m)' = InFlight(m)
    BY <1>4, <1>a DEF FetchReturns, TypeOK, Held, InFlight, Ids, IsValid
  <2>2. Locals(m)'
    BY <1>4, <1>a, <2>1 DEF FetchReturns, TypeOK, Locals
  <2> QED
    BY <1>4, <1>a, <1>c, <2>1, <2>2, LocalStep DEF FetchReturns, TypeOK, Busy
<1>5. ASSUME Looking(m)
      PROVE  /\ pc[m] = "scan"
             /\ Held(m) = {Head(messages[m])} \cup Elements(Tail(messages[m]))
                            \cup batch[m]
             /\ Held(m)' = Elements(Tail(messages[m])) \cup batch'[m]
             /\ Head(messages[m]) \in Message
  <2>1. pc[m] = "scan" /\ messages[m] # <<>> /\ messages'[m] = Tail(messages[m])
    BY <1>5, <1>a DEF Looking, TypeOK
  <2>2. Elements(messages[m]) =
           {Head(messages[m])} \cup Elements(Tail(messages[m]))
    BY <1>b, <2>1, ElementsOfTail
  <2>3. Held(m) = Elements(messages[m]) \cup batch[m]
        /\ Held(m)' = Elements(messages'[m]) \cup batch'[m]
    BY DEF Held, Elements
  <2>4. Head(messages[m]) \in Message
    BY <1>b, <2>1
  <2> QED
    BY <2>1, <2>2, <2>3, <2>4
<1>6. CASE ScanInvalid(m)
  <2>1. Looking(m)
    BY <1>6 DEF ScanInvalid
  <2>2. batch'[m] = batch[m] /\ last'[m] = last[m] /\ pc'[m] = "scan"
    BY <1>6, <1>5, <2>1 DEF ScanInvalid
  <2>3. InFlight(m)' = InFlight(m) /\ Held(m)' \subseteq Held(m)
    BY <1>6, <1>5, <2>1, <2>2 DEF ScanInvalid, InFlight, Ids, IsValid
  <2>4. Locals(m)'
    BY <1>a, <1>5, <2>1, <2>2 DEF Locals
  <2>5. \A k \in Members \ {m} :
           /\ pc'[k] = pc[k] /\ messages'[k] = messages[k]
           /\ batch'[k] = batch[k] /\ last'[k] = last[k]
           /\ assigned'[k] = assigned[k] /\ position'[k] = position[k]
    BY <1>6, <1>a DEF ScanInvalid, Looking, TypeOK
  <2>6. UNCHANGED <<log, committed, owner, position, assigned, Settled>>
    BY <1>6 DEF ScanInvalid
  <2> QED
    BY <1>5, <1>c, <2>1, <2>2, <2>3, <2>4, <2>5, <2>6, LocalStep DEF Busy
<1>7. CASE ScanUndecodable(m)
  <2>1. Looking(m)
    BY <1>7 DEF ScanUndecodable
  <2>2. batch'[m] = batch[m] /\ last'[m] = last[m] /\ pc'[m] = "scan"
    BY <1>7, <1>5, <2>1 DEF ScanUndecodable
  <2>3. Id(Head(messages[m])) \in reported' /\ Settled \subseteq Settled'
    BY <1>7 DEF ScanUndecodable
  <2>4. InFlight(m) \subseteq InFlight(m)' \cup Settled' /\ Held(m)' \subseteq Held(m)
    BY <1>5, <2>1, <2>2, <2>3 DEF InFlight, Ids, IsValid
  <2>5. Locals(m)'
    BY <1>a, <1>5, <2>1, <2>2 DEF Locals
  <2>6. \A k \in Members \ {m} :
           /\ pc'[k] = pc[k] /\ messages'[k] = messages[k]
           /\ batch'[k] = batch[k] /\ last'[k] = last[k]
           /\ assigned'[k] = assigned[k] /\ position'[k] = position[k]
    BY <1>7, <1>a DEF ScanUndecodable, Looking, TypeOK
  <2>7. UNCHANGED <<log, committed, owner, position, assigned>>
    BY <1>7 DEF ScanUndecodable
  <2> QED
    BY <1>5, <1>c, <2>1, <2>2, <2>3, <2>4, <2>5, <2>6, <2>7, LocalStep DEF Busy
<1>8. CASE ScanPayload(m)
  <2>1. Looking(m)
    BY <1>8 DEF ScanPayload
  <2>2. /\ batch'[m] = batch[m] \cup {Head(messages[m])}
        /\ last'[m] = Head(messages[m]) /\ pc'[m] = "scan"
        /\ IsValid(Head(messages[m]))
    BY <1>8, <1>5, <1>a, <2>1 DEF ScanPayload, TypeOK
  <2>3. Held(m)' = Held(m) /\ InFlight(m)' = InFlight(m)
    BY <1>5, <2>1, <2>2 DEF InFlight, Ids, IsValid
  <2>4. Locals(m)'
    BY <1>a, <1>5, <2>1, <2>2, NoMessageAssumption DEF Locals, IsValid
  <2>5. \A k \in Members \ {m} :
           /\ pc'[k] = pc[k] /\ messages'[k] = messages[k]
           /\ batch'[k] = batch[k] /\ last'[k] = last[k]
           /\ assigned'[k] = assigned[k] /\ position'[k] = position[k]
    BY <1>8, <1>a DEF ScanPayload, Looking, TypeOK
  <2>6. UNCHANGED <<log, committed, owner, position, assigned, Settled>>
    BY <1>8 DEF ScanPayload
  <2> QED
    BY <1>5, <1>c, <2>1, <2>3, <2>4, <2>5, <2>6, LocalStep DEF Busy
<1>9. CASE ScanDone(m)
  <2>1. pc[m] = "scan" /\ messages[m] = <<>> /\ pc'[m] \in {"loop", "handle"}
        /\ (pc'[m] = "loop" <=> last[m] = NoMessage)
    BY <1>9, <1>a DEF ScanDone, TypeOK
  <2>2. Held(m)' = Held(m) /\ InFlight(m)' = InFlight(m) /\ Held(m) = batch[m]
    BY <1>9, <1>a, <2>1 DEF ScanDone, TypeOK, Held, InFlight, Ids, IsValid
  <2>3. last[m] = NoMessage => InFlight(m) = {}
    BY <1>a, <2>1, <2>2 DEF Locals, InFlight, Ids
  <2>4. Locals(m)'
    BY <1>9, <1>a, <2>1, <2>2, <2>3 DEF ScanDone, Locals
  <2>5. \A k \in Members \ {m} :
           /\ pc'[k] = pc[k] /\ messages'[k] = messages[k]
           /\ batch'[k] = batch[k] /\ last'[k] = last[k]
           /\ assigned'[k] = assigned[k] /\ position'[k] = position[k]
    BY <1>9, <1>a DEF ScanDone, TypeOK
  <2>6. UNCHANGED <<log, committed, owner, position, assigned, Settled>>
    BY <1>9 DEF ScanDone
  <2> QED
    BY <1>c, <2>1, <2>2, <2>4, <2>5, <2>6, LocalStep DEF Busy
<1> QED
  BY <1>1, <1>2, <1>3, <1>4, <1>6, <1>7, <1>8, <1>9

\* The handler's outcome settles the batch, before any commit.
LEMMA HandledInv ==
    ASSUME IInv, TypeOK', NEW m \in Members,
           HandlerReturns(m) \/ HandlerRaises(m) \/ CommitRefused(m)
    PROVE  IInv'
<1> USE DEF Goto, brokerVars, loopVars, clientVars, localVars, histVars, Settled
<1>a. TypeOK /\ Locals(m) /\ \A p \in Partitions : ReadWindow(m, p)
  BY DEF IInv
<1>b. \A p \in Partitions : owner[p] = m => p \in assigned[m]
  BY <1>a DEF ReadWindow
<1>c. pc[m] \in {"handle", "commit"}
  BY DEF HandlerReturns, HandlerRaises, CommitRefused
<1>d. messages[m] = <<>> /\ last[m] \in batch[m]
  BY <1>a, <1>c DEF Locals
<1>e. Held(m)' = Held(m) /\ InFlight(m)' = InFlight(m)
  BY DEF HandlerReturns, HandlerRaises, CommitRefused, Held, InFlight, Ids, IsValid
<1>f. InFlight(m) \subseteq Ids(batch[m])
  BY <1>d DEF InFlight, Held, Ids
<1>1. CASE HandlerReturns(m)
  <2>1. Locals(m)'
    BY <1>1, <1>a, <1>c, <1>d, <1>e, <1>f DEF HandlerReturns, Locals, TypeOK
  <2> QED
    BY <1>1, <1>a, <1>b, <1>c, <1>e, <2>1, LocalStep
       DEF HandlerReturns, TypeOK, Busy
<1>2. CASE HandlerRaises(m)
  <2>1. Locals(m)'
    BY <1>2, <1>a, <1>c, <1>d, <1>e, <1>f DEF HandlerRaises, Locals, TypeOK
  <2> QED
    BY <1>2, <1>a, <1>b, <1>c, <1>e, <2>1, LocalStep
       DEF HandlerRaises, TypeOK, Busy
<1>3. CASE CommitRefused(m)
  <2>1. pc'[m] = "close"
    BY <1>3, <1>a DEF CommitRefused, Raise, TypeOK
  <2>2. Locals(m)'
    BY <1>3, <1>a, <2>1 DEF CommitRefused, Locals
  <2> QED
    BY <1>3, <1>a, <1>b, <1>e, <2>1, <2>2, LocalStep
       DEF CommitRefused, Raise, TypeOK, Busy
<1> QED
  BY <1>1, <1>2, <1>3

\* What commit(message=last_valid) covers when the coordinator accepts it.
LEMMA CommitCovers ==
    ASSUME IInv, NEW m \in Members, pc[m] = "commit", owner[last[m].part] = m
    PROVE  /\ last[m].part \in Partitions /\ last[m].offset \in Nat
           /\ committed[last[m].part] <= last[m].offset
           /\ last[m].offset < position[m][last[m].part]
           /\ last[m].offset < Len(log[last[m].part])
           /\ \A o \in committed[last[m].part] .. last[m].offset :
                 <<last[m].part, o>> \in Settled
<1>1. TypeOK /\ Locals(m) /\ HeldMessages(m)
  BY DEF IInv
<1>2. last[m] \in Message /\ last[m] \in Held(m) /\ IsValid(last[m])
  BY <1>1 DEF TypeOK, Locals, Held
<1>3. last[m].part \in Partitions /\ last[m].offset \in Nat
  BY <1>2 DEF Message
<1>4. /\ last[m].offset < position[m][last[m].part]
      /\ last[m].offset < Len(log[last[m].part])
      /\ committed[last[m].part] <= last[m].offset
  BY <1>1, <1>2 DEF HeldMessages, Busy
<1>5. InFlight(m) \subseteq Settled
  BY <1>1 DEF Locals
<1>6. ReadWindow(m, last[m].part)
  BY <1>3 DEF IInv
<1>7. committed[last[m].part] \in Nat /\ position[m][last[m].part] \in Nat
  BY <1>1, <1>3 DEF TypeOK, BrokerTypeOK
<1> QED
  BY <1>3, <1>4, <1>5, <1>6, <1>7 DEF ReadWindow

LEMMA AcceptedCommitInv ==
    ASSUME IInv, TypeOK', NEW m \in Members, pc[m] = "commit",
           AcceptCommit(m, last[m].part, last[m].offset + 1),
           NEW point \in {"loop", "close"}, Goto(m, point),
           UNCHANGED <<clientVars, localVars, handled, reported>>
    PROVE  IInv'
<1> DEFINE c == last[m].part
           n == last[m].offset
<1> USE DEF clientVars, localVars, Settled
<1>a. TypeOK /\ Locals(m)
  BY DEF IInv
<1>b. /\ owner' = owner /\ log' = log
      /\ owner[c] = m
  BY DEF AcceptCommit
<1>c. /\ c \in Partitions /\ n \in Nat /\ committed[c] <= n
      /\ n < position[m][c] /\ n < Len(log[c])
      /\ \A o \in committed[c] .. n : <<c, o>> \in Settled
  BY <1>b, CommitCovers
<1>d. /\ \A p \in Partitions \ {c} : committed'[p] = committed[p]
      /\ committed'[c] = n + 1
      /\ \A p \in Partitions : committed[p] \in Nat
  BY <1>a, <1>c DEF AcceptCommit, TypeOK, BrokerTypeOK
<1>e. \A k \in Members : Held(k)' = Held(k) /\ InFlight(k)' = InFlight(k)
  BY DEF Held, InFlight, Ids, IsValid
<1>f. pc'[m] = point /\ \A k \in Members \ {m} : pc'[k] = pc[k]
  BY <1>a DEF Goto, TypeOK
<1>1. ASSUME NEW k \in Members PROVE Locals(k)'
  <2>1. Locals(k)
    BY DEF IInv
  <2>2. CASE k = m
    BY <2>1, <2>2, <1>e, <1>f DEF Locals
  <2>3. CASE k # m
    BY <2>1, <2>3, <1>e, <1>f DEF Locals
  <2> QED
    BY <2>2, <2>3
<1>2. ASSUME NEW k \in Members PROVE HeldMessages(k)'
  <2>1. SUFFICES ASSUME k # m PROVE HeldMessages(k)'
    BY <1>f DEF HeldMessages, Busy
  <2>2. HeldMessages(k)
    BY DEF IInv
  <2>3. Held(k) \subseteq Message
    BY <1>a DEF TypeOK, Held
  <2>4. \A x \in Held(k) : x.part \in Partitions
    BY <2>3 DEF Message
  <2> QED
    BY <2>1, <2>2, <2>4, <1>b, <1>d, <1>e, <1>f DEF HeldMessages
<1>3. ASSUME NEW k \in Members, NEW p \in Partitions PROVE ReadWindow(k, p)'
  <2>1. ReadWindow(k, p)
    BY DEF IInv
  <2>2. CASE p = c
    <3>1. owner[p] = m
      BY <2>2, <1>b
    <3>2. position[m][c] \in Nat
      BY <1>a, <1>c DEF TypeOK
    <3> QED
      BY <2>1, <2>2, <3>1, <3>2, <1>b, <1>c, <1>d, <1>e DEF ReadWindow
  <2>3. CASE p # c
    BY <2>1, <2>3, <1>b, <1>d, <1>e DEF ReadWindow
  <2> QED
    BY <2>2, <2>3
<1>4. ASSUME NEW p \in Partitions, NEW o \in 0 .. committed'[p] - 1
      PROVE  <<p, o>> \in Settled'
  <2>1. committed[p] \in Nat /\ committed'[p] \in Nat
    BY <1>c, <1>d
  <2>2. CASE o \in 0 .. committed[p] - 1
    BY <2>2 DEF IInv, CommittedIsSettled
  <2>3. CASE o \notin 0 .. committed[p] - 1
    <3>1. p = c /\ o \in committed[c] .. n
      BY <2>1, <2>3, <1>c, <1>d
    <3> QED
      BY <3>1, <1>c
  <2> QED
    BY <2>2, <2>3
<1>5. CommittedIsSettled'
  BY <1>4 DEF CommittedIsSettled
<1> QED
  BY <1>1, <1>2, <1>3, <1>5 DEF IInv

\* The ends of an iteration that are not its own, and the ends of a process.
LEMMA DisturbedInv ==
    ASSUME IInv, TypeOK', NEW m \in Members,
           \/ FetchRaises(m) \/ OtherException(m) \/ Stop(m) \/ Crash(m)
           \/ Evict(m) \/ Restart(m)
           \/ (~EnableAutoCommit /\ Close(m))
    PROVE  IInv'
<1> USE DEF Goto, brokerVars, loopVars, clientVars, localVars, histVars, Settled
<1>a. TypeOK /\ Locals(m) /\ \A p \in Partitions : ReadWindow(m, p)
  BY DEF IInv
<1>b. \A p \in Partitions : owner[p] = m => p \in assigned[m]
  BY <1>a DEF ReadWindow
<1>c. \A p \in Partitions, k \in Members :
         WithoutMember(m)[p] = k => owner[p] = k /\ k # m
  BY BrokerAssumption DEF WithoutMember
<1>d. ASSUME UNCHANGED <<messages, batch>>
      PROVE  Held(m)' = Held(m) /\ InFlight(m)' = InFlight(m)
  BY <1>d DEF Held, InFlight, Ids, IsValid
<1>1. CASE FetchRaises(m)
  <2>1. pc'[m] = "close" /\ Held(m)' = Held(m) /\ InFlight(m)' = InFlight(m)
    BY <1>1, <1>a, <1>d DEF FetchRaises, Raise, TypeOK
  <2>2. Locals(m)'
    BY <1>1, <1>a, <2>1 DEF FetchRaises, Locals
  <2> QED
    BY <1>1, <1>a, <1>b, <2>1, <2>2, LocalStep
       DEF FetchRaises, Raise, TypeOK, Busy
<1>2. CASE OtherException(m)
  <2>1. pc'[m] = "close" /\ Held(m)' = Held(m) /\ InFlight(m)' = InFlight(m)
    BY <1>2, <1>a, <1>d DEF OtherException, Raise, TypeOK
  <2>2. Locals(m)'
    BY <1>2, <1>a, <2>1 DEF OtherException, Locals
  <2> QED
    BY <1>2, <1>a, <1>b, <2>1, <2>2, LocalStep
       DEF OtherException, Raise, TypeOK, Busy
<1>3. CASE Stop(m)
  <2>1. Held(m)' = Held(m) /\ InFlight(m)' = InFlight(m)
    BY <1>3, <1>d DEF Stop
  <2>2. Locals(m)'
    BY <1>3, <1>a, <2>1 DEF Stop, Locals
  <2>3. UNCHANGED <<log, committed, owner, pc, messages, batch, last, assigned,
                    position, Settled>>
    BY <1>3 DEF Stop
  <2> QED
    BY <1>b, <2>1, <2>2, <2>3, LocalStep
<1>4. CASE Crash(m)
  <2>1. pc'[m] = "dead" /\ Held(m)' = Held(m) /\ InFlight(m)' = InFlight(m)
    BY <1>4, <1>a, <1>d DEF Crash, TypeOK
  <2>2. Locals(m)'
    BY <1>4, <1>a, <2>1 DEF Crash, Locals
  <2> QED
    BY <1>4, <1>a, <1>b, <2>1, <2>2, LocalStep DEF Crash, TypeOK, Busy
<1>5. CASE Evict(m)
  <2>1. Held(m)' = Held(m) /\ InFlight(m)' = InFlight(m)
    BY <1>5, <1>d DEF Evict
  <2>2. Locals(m)'
    BY <1>5, <1>a, <2>1 DEF Evict, Locals
  <2> QED
    BY <1>5, <1>a, <1>c, <2>1, <2>2, LocalStep DEF Evict, TypeOK, Busy
<1>6. CASE Restart(m)
  <2>1. /\ pc'[m] = "new" /\ messages'[m] = <<>>
        /\ batch'[m] = {} /\ last'[m] = NoMessage
    BY <1>6, <1>a DEF Restart, TypeOK
  <2>2. InFlight(m)' = {}
    BY <2>1 DEF InFlight, Held, Ids
  <2>3. Locals(m)'
    BY <2>1, <2>2 DEF Locals
  <2> QED
    BY <1>6, <1>a, <2>1, <2>3, LocalStep DEF Restart, Owns, TypeOK, Busy
<1>7. CASE ~EnableAutoCommit /\ Close(m)
  <2>1. committed' = committed
    BY <1>7, <1>a DEF Close, Storable, TypeOK, BrokerTypeOK
  <2>2. pc'[m] = "stopped" /\ Held(m)' = Held(m) /\ InFlight(m)' = InFlight(m)
    BY <1>7, <1>a, <1>d DEF Close, TypeOK
  <2>3. Locals(m)'
    BY <1>7, <1>a, <2>2 DEF Close, Locals
  <2> QED
    BY <1>7, <1>a, <1>c, <2>1, <2>2, <2>3, LocalStep DEF Close, TypeOK, Busy
<1> QED
  BY <1>1, <1>2, <1>3, <1>4, <1>5, <1>6, <1>7

\* Rebalances, deliveries and new messages.
LEMMA FetchingInv ==
    ASSUME IInv, TypeOK', NEW m \in Members,
           \/ Lose(m) \/ DeliverError(m)
           \/ \E p \in Partitions : Assign(m, p) \/ Deliver(m, p)
    PROVE  IInv'
<1> USE DEF brokerVars, loopVars, clientVars, localVars, histVars, Settled
<1>a. TypeOK /\ Locals(m) /\ HeldMessages(m)
      /\ \A p \in Partitions : ReadWindow(m, p)
  BY DEF IInv
<1>b. pc' = pc /\ pc[m] = "fetch" /\ batch' = batch /\ last' = last
      /\ batch[m] = {} /\ last[m] = NoMessage
  BY <1>a DEF Lose, DeliverError, Assign, Deliver, Locals
<1>c. Locals(m)'
  BY <1>b DEF Locals
<1>d. messages[m] \in Seq(Message) /\ Held(m) = Elements(messages[m])
      /\ Held(m)' = Elements(messages'[m])
  BY <1>a, <1>b DEF TypeOK, Held, Elements
<1>e. \A k \in Members : Held(k) \subseteq Message
  BY <1>a DEF TypeOK, Held
<1>1. CASE Lose(m)
  <2>1. Held(m)' = Held(m) /\ InFlight(m)' = InFlight(m)
    BY <1>1, <1>b DEF Lose, Held, InFlight, Ids, IsValid
  <2>2. \A p \in Partitions : owner'[p] = m => p \in assigned'[m]
    BY <1>1, <1>a DEF Lose, ReadWindow, TypeOK
  <2>3. UNCHANGED <<log, committed, owner, messages, position, Settled>>
        /\ \A k \in Members \ {m} : assigned'[k] = assigned[k]
    BY <1>1, <1>a DEF Lose, TypeOK
  <2> QED
    BY <1>b, <1>c, <2>1, <2>2, <2>3, LocalStep DEF Busy
<1>2. CASE DeliverError(m)
  <2>1. PICK p \in Partitions : messages' = [messages EXCEPT ![m] =
            Append(@, [part |-> p, offset |-> 0, kind |-> "error"])]
    BY <1>2 DEF DeliverError
  <2> DEFINE e == [part |-> p, offset |-> 0, kind |-> "error"]
  <2>2. e \in Message /\ ~IsValid(e)
    BY DEF Message, IsValid
  <2>3. Held(m)' = Held(m) \cup {e}
    BY <1>a, <1>d, <2>1, <2>2, ElementsOfAppend DEF TypeOK
  <2>4. InFlight(m)' = InFlight(m)
    BY <2>2, <2>3 DEF InFlight, Ids, IsValid
  <2>5. UNCHANGED <<log, committed, owner, assigned, position, Settled>>
        /\ \A k \in Members \ {m} : messages'[k] = messages[k]
    BY <1>2, <1>a, <2>1 DEF DeliverError, TypeOK
  <2>6. \A p1 \in Partitions : owner[p1] = m => p1 \in assigned[m]
    BY <1>a DEF ReadWindow
  <2> HIDE DEF e
  <2> QED
    BY <1>b, <1>c, <2>2, <2>3, <2>4, <2>5, <2>6, LocalStep DEF Busy
<1>3. ASSUME NEW p \in Partitions, Assign(m, p) PROVE IInv'
  <2>1. /\ messages' = messages /\ messages[m] = <<>> /\ log' = log
        /\ committed' = committed /\ Settled' = Settled
        /\ owner[p] = NoMember /\ owner'[p] = m
        /\ \A q \in Partitions \ {p} : owner'[q] = owner[q]
        /\ p \in assigned'[m] /\ assigned[m] \subseteq assigned'[m]
        /\ position'[m][p] = committed[p]
        /\ \A q \in Partitions \ {p} : position'[m][q] = position[m][q]
        /\ \A k \in Members \ {m} :
              assigned'[k] = assigned[k] /\ position'[k] = position[k]
    BY <1>3, <1>a DEF Assign, Grant, TypeOK, BrokerTypeOK
  <2>2. \A k \in Members : Held(k)' = Held(k) /\ InFlight(k)' = InFlight(k)
    BY <2>1, <1>b DEF Held, InFlight, Ids, IsValid
  <2>3. Held(m) = {}
    BY <2>1, <1>d DEF Elements
  <2>4. ASSUME NEW k \in Members PROVE Locals(k)'
    <3>1. Locals(k)
      BY DEF IInv
    <3> QED
      BY <3>1, <2>1, <2>2, <1>b DEF Locals
  <2>5. ASSUME NEW k \in Members PROVE HeldMessages(k)'
    <3>1. SUFFICES ASSUME k # m PROVE HeldMessages(k)'
      BY <2>2, <2>3 DEF HeldMessages
    <3>2. HeldMessages(k)
      BY DEF IInv
    <3>3. \A q \in Partitions : owner'[q] = k => owner[q] = k
      BY <2>1, <3>1
    <3>4. \A x \in Held(k) : x.part \in Partitions
      BY <1>e DEF Message
    <3> QED
      BY <1>b, <2>1, <2>2, <3>1, <3>2, <3>3, <3>4 DEF HeldMessages
  <2>6. ASSUME NEW k \in Members, NEW q \in Partitions PROVE ReadWindow(k, q)'
    <3>1. ReadWindow(k, q)
      BY DEF IInv
    <3>2. CASE q = p
      <4>1. committed[p] \in Nat
        BY <1>a DEF TypeOK, BrokerTypeOK
      <4> QED
        BY <3>2, <2>1, <4>1 DEF ReadWindow
    <3>3. CASE q # p
      <4>1. position'[k][q] = position[k][q] /\ assigned[k] \subseteq assigned'[k]
        BY <3>3, <2>1
      <4> QED
        BY <3>1, <3>3, <2>1, <2>2, <4>1 DEF ReadWindow
    <3> QED
      BY <3>2, <3>3
  <2>7. CommittedIsSettled'
    BY <2>1 DEF IInv, CommittedIsSettled
  <2> QED
    BY <2>4, <2>5, <2>6, <2>7 DEF IInv
<1>4. ASSUME NEW p \in Partitions, Deliver(m, p) PROVE IInv'
  <2> DEFINE n == position[m][p]
             x == [part |-> p, offset |-> n, kind |-> log[p][n + 1]]
  <2>0. n \in Nat /\ log[p] \in Seq(Values) /\ Len(log[p]) \in Nat
        /\ committed[p] \in Nat
    BY <1>a DEF TypeOK, BrokerTypeOK
  <2>1. n < Len(log[p]) /\ messages' = [messages EXCEPT ![m] = Append(@, x)]
        /\ position' = [position EXCEPT ![m][p] = n + 1]
        /\ UNCHANGED <<log, committed, owner, assigned, Settled>>
    BY <1>4 DEF Deliver
  <2>2. log[p][n + 1] \in Values
    BY <2>0, <2>1
  <2>3. x \in Message /\ IsValid(x) /\ x.part = p /\ x.offset = n
        /\ Id(x) = <<p, n>>
    BY <2>0, <2>2 DEF Message, IsValid, Values, Id
  <2>4. messages'[m] = Append(messages[m], x)
        /\ \A k \in Members \ {m} :
              messages'[k] = messages[k] /\ position'[k] = position[k]
    BY <1>a, <2>1 DEF TypeOK
  <2>p. /\ position'[m][p] = n + 1
        /\ \A q \in Partitions : q # p => position'[m][q] = position[m][q]
        /\ \A k \in Members : k # m => position'[k] = position[k]
        /\ \A q \in Partitions : position[m][q] \in Nat
    BY <1>a, <2>1 DEF TypeOK
  <2> HIDE DEF x
  <2>5. Held(m)' = Held(m) \cup {x}
    BY <1>d, <2>3, <2>4, ElementsOfAppend
  <2>6. InFlight(m)' = InFlight(m) \cup {<<p, n>>}
    BY <2>3, <2>5 DEF InFlight, Ids
  <2>7. \A k \in Members \ {m} :
           Held(k)' = Held(k) /\ InFlight(k)' = InFlight(k)
    BY <2>4, <1>b DEF Held, InFlight, Ids, IsValid
  <2>8. ASSUME NEW k \in Members PROVE Locals(k)'
    <3>1. Locals(k)
      BY DEF IInv
    <3> QED
      BY <3>1, <1>b, <1>c, <2>1, <2>4, <2>7 DEF Locals
  <2>9. ASSUME NEW k \in Members PROVE HeldMessages(k)'
    <3>1. HeldMessages(k) /\ \A y \in Held(k) : y.part \in Partitions
          /\ y.offset \in Nat
      BY <1>e DEF IInv, Message
    <3>2. CASE k # m
      BY <3>1, <3>2, <1>b, <2>1, <2>4, <2>7 DEF HeldMessages
    <3>3. CASE k = m
      <4>1. \A q \in Partitions : position[m][q] \in Nat
                                  /\ position[m][q] <= position'[m][q]
        BY <2>0, <2>p
      <4>2. owner[p] = m => committed[p] <= n
        BY <1>a DEF ReadWindow
      <4>3. ASSUME NEW y \in Held(m), IsValid(y)
            PROVE  /\ y.offset < position'[m][y.part]
                   /\ y.offset < Len(log[y.part])
                   /\ owner[y.part] = m => committed[y.part] <= y.offset
        <5>1. y.part \in Partitions /\ y.offset \in Nat
          BY <4>3, <3>1, <3>3
        <5>2. /\ y.offset < position[m][y.part]
              /\ y.offset < Len(log[y.part])
              /\ owner[y.part] = m => committed[y.part] <= y.offset
          BY <4>3, <1>a, <1>b DEF HeldMessages, Busy
        <5>3. position[m][y.part] \in Nat
              /\ position[m][y.part] <= position'[m][y.part]
          BY <5>1, <4>1
        <5>4. position'[m][y.part] \in Nat
          BY <5>1, <2>0, <2>p
        <5>5. y.offset < position'[m][y.part]
          BY <5>1, <5>2, <5>3, <5>4
        <5> QED
          BY <5>2, <5>5
      <4>4. /\ x.offset < position'[m][x.part]
            /\ x.offset < Len(log[x.part])
            /\ owner[x.part] = m => committed[x.part] <= x.offset
        BY <2>0, <2>1, <2>3, <2>p, <4>2
      <4> QED
        BY <3>3, <4>3, <4>4, <2>1, <2>5 DEF HeldMessages
    <3> QED
      BY <3>2, <3>3
  <2>10. ASSUME NEW k \in Members, NEW q \in Partitions PROVE ReadWindow(k, q)'
    <3>1. ReadWindow(k, q)
      BY DEF IInv
    <3>2. CASE k = m /\ q = p
      BY <3>1, <3>2, <2>0, <2>1, <2>p, <2>6 DEF ReadWindow
    <3>3. CASE ~(k = m /\ q = p)
      <4>1. position'[k][q] = position[k][q]
        BY <3>3, <2>p
      <4>2. InFlight(k) \subseteq InFlight(k)'
        BY <2>6, <2>7
      <4> QED
        BY <3>1, <4>1, <4>2, <2>1 DEF ReadWindow
    <3> QED
      BY <3>2, <3>3
  <2>11. CommittedIsSettled'
    BY <2>1 DEF IInv, CommittedIsSettled
  <2> QED
    BY <2>8, <2>9, <2>10, <2>11 DEF IInv
<1> QED
  BY <1>1, <1>2, <1>3, <1>4

LEMMA ArriveInv ==
    ASSUME IInv, NEW p \in Partitions, NEW v \in Values, Arrive(p, v)
    PROVE  IInv'
<1> USE DEF loopVars, clientVars, localVars, histVars, Settled
<1>1. TypeOK'
  <2>1. TypeOK
    BY DEF IInv
  <2> QED
    BY <2>1, BrokerTypeFacts DEF Arrive, TypeOK
<1>2. UNCHANGED <<committed, owner, pc, assigned, position, messages, batch,
                  last, Settled>>
  BY DEF Arrive, Publish
<1>3. \A q \in Partitions : Len(log[q]) \in Nat /\ Len(log'[q]) \in Nat
                            /\ Len(log[q]) <= Len(log'[q])
  BY DEF IInv, TypeOK, BrokerTypeOK, Arrive, Publish
<1>4. \A k \in Members : Held(k)' = Held(k) /\ InFlight(k)' = InFlight(k)
  BY <1>2 DEF Held, InFlight, Ids, IsValid
<1>5. ASSUME NEW k \in Members PROVE Locals(k)'
  <2>1. Locals(k)
    BY DEF IInv
  <2> QED
    BY <2>1, <1>2, <1>4 DEF Locals
<1>6. ASSUME NEW k \in Members PROVE HeldMessages(k)'
  <2>1. HeldMessages(k)
    BY DEF IInv
  <2>2. Held(k) \subseteq Message
    BY DEF IInv, TypeOK, Held
  <2>3. \A x \in Held(k) : x.part \in Partitions /\ x.offset \in Nat
    BY <2>2 DEF Message
  <2> QED
    BY <2>1, <2>3, <1>2, <1>3, <1>4 DEF HeldMessages
<1>7. ASSUME NEW k \in Members, NEW q \in Partitions PROVE ReadWindow(k, q)'
  <2>1. ReadWindow(k, q)
    BY DEF IInv
  <2> QED
    BY <2>1, <1>2, <1>4 DEF ReadWindow
<1>8. CommittedIsSettled'
  BY <1>2 DEF IInv, CommittedIsSettled
<1> QED
  BY <1>1, <1>5, <1>6, <1>7, <1>8 DEF IInv

LEMMA StutterInv ==
    ASSUME IInv, UNCHANGED vars
    PROVE  IInv'
<1> USE DEF vars, brokerVars, loopVars, clientVars, localVars, histVars
<1>1. TypeOK' /\ CommittedIsSettled'
  BY DEF IInv, TypeOK, BrokerTypeOK, CommittedIsSettled, Settled
<1>2. \A k \in Members : Held(k)' = Held(k) /\ InFlight(k)' = InFlight(k)
  BY DEF Held, InFlight, Ids, IsValid
<1>3. ASSUME NEW k \in Members
      PROVE  HeldMessages(k)' /\ Locals(k)'
             /\ \A p \in Partitions : ReadWindow(k, p)'
  <2>1. HeldMessages(k) /\ Locals(k) /\ \A p \in Partitions : ReadWindow(k, p)
    BY DEF IInv
  <2> QED
    BY <2>1, <1>2 DEF HeldMessages, Locals, ReadWindow, Settled
<1> QED
  BY <1>1, <1>3 DEF IInv

LEMMA InitInv == Init => IInv
<1> SUFFICES ASSUME Init PROVE IInv
  OBVIOUS
<1>1. TypeOK
  BY BrokerAssumption, ConsumerAssumption
     DEF Init, BrokerInit, TypeOK, BrokerTypeOK, Points
<1>2. ASSUME NEW m \in Members PROVE Held(m) = {} /\ InFlight(m) = {}
  BY DEF Init, Held, InFlight, Ids
<1>3. ASSUME NEW m \in Members
      PROVE  HeldMessages(m) /\ Locals(m)
             /\ \A p \in Partitions : ReadWindow(m, p)
  BY <1>2, BrokerAssumption
     DEF Init, BrokerInit, HeldMessages, Locals, ReadWindow, Busy
<1>4. CommittedIsSettled
  BY DEF Init, BrokerInit, CommittedIsSettled
<1> QED
  BY <1>1, <1>3, <1>4 DEF IInv

LEMMA NextInv ==
    ASSUME ~EnableAutoCommit, IInv, Next
    PROVE  IInv'
<1>t. TypeOK'
  BY NextType DEF IInv
<1>1. ASSUME NEW m \in Members, Advance(m) PROVE IInv'
  <2>1. CASE CommitSucceeds(m)
    BY <2>1, <1>t, AcceptedCommitInv DEF CommitSucceeds, histVars
  <2>2. CASE Close(m)
    BY <2>2, <1>t, DisturbedInv
  <2>3. CASE ~CommitSucceeds(m) /\ ~Close(m)
    BY <1>1, <2>3, <1>t, FetchedInv, HandledInv DEF Advance
  <2> QED
    BY <2>1, <2>2, <2>3
<1>2. ASSUME NEW m \in Members, CommitLost(m) PROVE IInv'
  <2>1. CASE UNCHANGED brokerVars
    <3>1. TypeOK /\ Locals(m) /\ \A p \in Partitions : ReadWindow(m, p)
      BY DEF IInv
    <3>2. pc'[m] = "close" /\ \A k \in Members \ {m} : pc'[k] = pc[k]
      BY <1>2, <3>1 DEF CommitLost, Raise, Goto, TypeOK
    <3>3. UNCHANGED <<log, committed, owner, assigned, position, messages,
                      batch, last, Settled>>
      BY <1>2, <2>1
         DEF CommitLost, brokerVars, clientVars, localVars, histVars, Settled
    <3>4. Held(m)' = Held(m) /\ InFlight(m)' = InFlight(m)
      BY <3>3 DEF Held, InFlight, Ids, IsValid
    <3>5. Locals(m)'
      BY <3>1, <3>2, <3>3 DEF Locals
    <3>6. \A p \in Partitions : owner[p] = m => p \in assigned[m]
      BY <3>1 DEF ReadWindow
    <3> QED
      BY <1>t, <3>2, <3>3, <3>4, <3>5, <3>6, LocalStep DEF Busy
  <2>2. CASE AcceptCommit(m, last[m].part, last[m].offset + 1)
    BY <1>2, <2>2, <1>t, AcceptedCommitInv DEF CommitLost, Raise, histVars
  <2> QED
    BY <1>2, <2>1, <2>2 DEF CommitLost
<1>3. ASSUME NEW m \in Members,
             \/ FetchRaises(m) \/ OtherException(m) \/ Stop(m) \/ Crash(m)
             \/ Evict(m) \/ Restart(m)
      PROVE IInv'
  BY <1>3, <1>t, DisturbedInv
<1>4. ASSUME NEW m \in Members,
             \/ Lose(m) \/ DeliverError(m)
             \/ \E p \in Partitions : Assign(m, p) \/ Deliver(m, p)
      PROVE IInv'
  BY <1>4, <1>t, FetchingInv
<1>5. ASSUME NEW p \in Partitions, NEW v \in Values, Arrive(p, v) PROVE IInv'
  BY <1>5, ArriveInv
<1>6. \A m \in Members, p \in Partitions : ~AutoCommit(m, p)
  BY DEF AutoCommit, Storable
<1> QED
  BY <1>1, <1>2, <1>3, <1>4, <1>5, <1>6 DEF Next, Fault

\* The inductive invariant holds in every reachable state of every group that
\* commits manually.
THEOREM InvariantHolds ==
    ASSUME ~EnableAutoCommit
    PROVE  Spec => []IInv
<1>1. IInv /\ [Next]_vars => IInv'
  BY NextInv, StutterInv
<1> QED
  BY <1>1, InitInv, PTL DEF Spec

-----------------------------------------------------------------------------
(* The group implements its contract                                       *)

\* Outcomes are only given to messages that exist.
LEMMA HeldExist ==
    ASSUME IInv, NEW m \in Members, pc[m] \in Busy
    PROVE  InFlight(m) \subseteq Contract!Existing
<1> SUFFICES ASSUME NEW x \in Held(m), IsValid(x)
             PROVE  Id(x) \in Contract!Existing
  BY DEF InFlight, Ids
<1>1. x \in Message
  BY DEF IInv, TypeOK, Held
<1>2. x.part \in Partitions /\ x.offset \in Nat /\ x.offset < Len(log[x.part])
  BY <1>1 DEF IInv, HeldMessages, Message
<1>3. x.offset \in 0 .. Len(log[x.part]) - 1
  BY <1>2 DEF IInv, TypeOK, BrokerTypeOK
<1> QED
  BY <1>2, <1>3 DEF Id, Contract!Existing

LEMMA SettleStep ==
    ASSUME IInv, NEW m \in Members,
           ScanUndecodable(m) \/ HandlerReturns(m) \/ HandlerRaises(m)
    PROVE  Contract!Settle
<1>1. pc[m] \in Busy /\ UNCHANGED <<log, committed>> /\ Settled \subseteq Settled'
  BY DEF ScanUndecodable, HandlerReturns, HandlerRaises, Looking, Busy,
         brokerVars, Settled
<1>2. Settled' \ Settled \subseteq InFlight(m)
  <2>1. CASE ScanUndecodable(m)
    <3>1. Head(messages[m]) \in Held(m)
      <4>1. messages[m] \in Seq(Message) /\ messages[m] # <<>>
        BY <2>1 DEF IInv, TypeOK, ScanUndecodable, Looking
      <4>2. 1 \in DOMAIN messages[m] /\ Head(messages[m]) = messages[m][1]
        BY <4>1
      <4> QED
        BY <4>2 DEF Held
    <3>2. Settled' \ Settled \subseteq {Id(Head(messages[m]))}
          /\ IsValid(Head(messages[m]))
      BY <2>1 DEF ScanUndecodable, Settled
    <3> QED
      BY <3>1, <3>2 DEF InFlight, Ids
  <2>2. CASE HandlerReturns(m) \/ HandlerRaises(m)
    <3>1. Settled' \ Settled \subseteq Ids(batch[m])
      BY <2>2 DEF HandlerReturns, HandlerRaises, Settled
    <3>2. \A x \in batch[m] : x \in Held(m) /\ IsValid(x)
      BY DEF IInv, Locals, Held
    <3> QED
      BY <3>1, <3>2 DEF InFlight, Ids
  <2> QED
    BY <2>1, <2>2
<1>3. Settled' \ Settled \in SUBSET Contract!Existing
        /\ Settled' = Settled \cup (Settled' \ Settled)
  BY <1>1, <1>2, HeldExist
<1> QED
  BY <1>1, <1>3 DEF Contract!Settle

LEMMA CommitStep ==
    ASSUME IInv, NEW m \in Members, pc[m] = "commit",
           AcceptCommit(m, last[m].part, last[m].offset + 1),
           Settled' = Settled
    PROVE  Contract!Commit(last[m].part) /\ last[m].part \in Partitions
<1> DEFINE c == last[m].part
           n == last[m].offset
<1>1. /\ c \in Partitions /\ n \in Nat /\ committed[c] <= n
      /\ n < Len(log[c])
      /\ \A o \in committed[c] .. n : <<c, o>> \in Settled
  BY CommitCovers DEF AcceptCommit
<1>2. committed[c] \in Nat /\ Len(log[c]) \in Nat
  BY <1>1 DEF IInv, TypeOK, BrokerTypeOK
<1>3. committed' = [committed EXCEPT ![c] = n + 1] /\ log' = log
  BY DEF AcceptCommit
<1> HIDE DEF c, n
<1>4. /\ n + 1 \in 1 .. Len(log[c]) /\ committed[c] < n + 1
      /\ \A o \in committed[c] .. (n + 1) - 1 : <<c, o>> \in Settled
  BY <1>1, <1>2
<1>5. Contract!Commit(c)
  BY <1>3, <1>4 DEF Contract!Commit
<1> QED
  BY <1>1, <1>5 DEF c

LEMMA ContractStep ==
    ASSUME ~EnableAutoCommit, IInv, [Next]_vars
    PROVE  [Contract!Next]_Contract!vars
<1> USE DEF Contract!vars
<1>1. ASSUME NEW m \in Members, Advance(m) PROVE [Contract!Next]_Contract!vars
  <2>1. CASE ScanUndecodable(m) \/ HandlerReturns(m) \/ HandlerRaises(m)
    BY <2>1, SettleStep DEF Contract!Next
  <2>2. CASE CommitSucceeds(m)
    BY <2>2, CommitStep DEF CommitSucceeds, histVars, Settled, Contract!Next
  <2>3. CASE Close(m)
    BY <2>3 DEF Close, Storable, histVars, Settled, IInv, TypeOK, BrokerTypeOK
  <2>4. CASE \/ Start(m) \/ LoopEnters(m) \/ LoopEnds(m) \/ FetchReturns(m)
             \/ ScanInvalid(m) \/ ScanPayload(m) \/ ScanDone(m)
             \/ CommitRefused(m)
    BY <2>4 DEF Start, LoopEnters, LoopEnds, FetchReturns, ScanInvalid,
       ScanPayload, ScanDone, CommitRefused, brokerVars, histVars, Settled
  <2> QED
    BY <1>1, <2>1, <2>2, <2>3, <2>4 DEF Advance
<1>2. ASSUME NEW m \in Members, CommitLost(m)
      PROVE  [Contract!Next]_Contract!vars
  <2>1. Settled' = Settled /\ pc[m] = "commit"
    BY <1>2 DEF CommitLost, histVars, Settled
  <2>2. CASE UNCHANGED brokerVars
    BY <2>1, <2>2 DEF brokerVars
  <2>3. CASE AcceptCommit(m, last[m].part, last[m].offset + 1)
    BY <2>1, <2>3, CommitStep DEF Contract!Next
  <2> QED
    BY <1>2, <2>2, <2>3 DEF CommitLost
<1>3. ASSUME NEW m \in Members,
             \/ FetchRaises(m) \/ OtherException(m) \/ Stop(m) \/ Crash(m)
             \/ Lose(m) \/ DeliverError(m) \/ Evict(m) \/ Restart(m)
      PROVE  [Contract!Next]_Contract!vars
  BY <1>3 DEF FetchRaises, OtherException, Stop, Crash, Lose, DeliverError,
     Evict, Restart, brokerVars, histVars, Settled
<1>4. ASSUME NEW m \in Members, NEW p \in Partitions, Assign(m, p) \/ Deliver(m, p)
      PROVE  [Contract!Next]_Contract!vars
  BY <1>4 DEF Assign, Grant, Deliver, brokerVars, histVars, Settled
<1>5. ASSUME NEW p \in Partitions, NEW v \in Values, Arrive(p, v)
      PROVE  [Contract!Next]_Contract!vars
  BY <1>5 DEF Arrive, Publish, histVars, Settled, Contract!Next, Contract!Publish
<1>6. \A m \in Members, p \in Partitions : ~AutoCommit(m, p)
  BY DEF AutoCommit, Storable
<1>7. CASE UNCHANGED vars
  BY <1>7 DEF vars, brokerVars, histVars, Settled
<1> QED
  BY <1>1, <1>2, <1>3, <1>4, <1>5, <1>6, <1>7 DEF Next, Fault

\* A group of any size, polling one message or batches of any size, whatever
\* is lost, expelled or killed, implements the contract: a commit only moves
\* an offset forward, over messages that all have their outcome
\* (consumer.py:94-136, 163-169).
THEOREM Implements ==
    ASSUME ~EnableAutoCommit
    PROVE  Spec => ImplementsContract
<1>1. Init => Contract!Init
  BY DEF Init, BrokerInit, Settled, Contract!Init
<1>2. IInv /\ [Next]_vars => [Contract!Next]_Contract!vars
  BY ContractStep
<1> QED
  BY <1>1, <1>2, InvariantHolds, PTL DEF Spec, ImplementsContract, Contract!Spec

\* No message below a committed offset is without its outcome: what the group
\* will not be given again was handled or counted as an error.
THEOREM CommittedHaveOutcome ==
    ASSUME ~EnableAutoCommit
    PROVE  Spec => []Contract!CommittedSettled
<1>1. IInv => Contract!CommittedSettled
  BY DEF IInv, CommittedIsSettled, Contract!CommittedSettled
<1> QED
  BY <1>1, InvariantHolds, PTL

\* No commit of any member, a late or a repeated one included, takes the group
\* back to an offset it has left behind (consumer.py:169).
THEOREM CommitsNeverRegress ==
    ASSUME ~EnableAutoCommit
    PROVE  Spec => Contract!CommitsAdvance
<1>1. IInv /\ [Contract!Next]_Contract!vars
         => \A p \in Partitions : committed[p] <= committed'[p]
  <2> SUFFICES ASSUME IInv, [Contract!Next]_Contract!vars, NEW p \in Partitions
               PROVE  committed[p] <= committed'[p]
    OBVIOUS
  <2>1. committed \in [Partitions -> Nat]
    BY DEF IInv, TypeOK, BrokerTypeOK
  <2>2. CASE committed' = committed
    BY <2>1, <2>2
  <2>3. ASSUME NEW c \in Partitions, Contract!Commit(c)
        PROVE  committed[p] <= committed'[p]
    <3>1. PICK o \in 1 .. Len(log[c]) :
             committed[c] < o /\ committed' = [committed EXCEPT ![c] = o]
      BY <2>3 DEF Contract!Commit
    <3>2. o \in Nat
      BY <3>1
    <3> QED
      BY <2>1, <3>1, <3>2
  <2> QED
    BY <2>2, <2>3 DEF Contract!Next, Contract!vars, Contract!Settle,
                      Contract!Publish
<1>2. IInv /\ [Next]_vars
         => [\A p \in Partitions : committed[p] <= committed'[p]]_Contract!vars
  BY <1>1, ContractStep
<1> QED
  BY <1>2, InvariantHolds, PTL DEF Spec, Contract!CommitsAdvance

=============================================================================
