------------------------- MODULE KafkaProducerProofs -------------------------
(***************************************************************************)
(* Proofs about KafkaProducer, for any threads, any length of the queue    *)
(* and any number of calls: its type invariant, where a message can be,    *)
(* what a flush leaves behind, and that it implements ProduceContract.     *)
(***************************************************************************)
EXTENDS KafkaProducer, FiniteSetTheorems, TLAPS

\* Inside produce(), between its first and its last step.
Busy == {"submit", "full", "poll"}

\* A thread inside produce() works on a call that has no answer yet; before the
\* final poll() its result says whether librdkafka has the message.
Caller(t) ==
    pc[t] \in Busy =>
        /\ call[t] \in 1 .. Len(results)
        /\ results[call[t]] = "pending"
        /\ pc[t] # "poll" => call[t] \notin Elements(accepted)
        /\ pc[t] = "poll" => IF call[t] \in Elements(accepted)
                             THEN result[t] = "ENQUEUED" ELSE result[t] \in Failures

\* Each thread works on a call of its own, and only calls are accepted.
Callers ==
    /\ \A t \in Threads : Caller(t)
    /\ \A t, u \in Threads : t # u /\ {pc[t], pc[u]} \subseteq Busy => call[t] # call[u]
    /\ Elements(accepted) \subseteq 1 .. Len(results)

\* The queue is the end of what was accepted, and what was sent of it its
\* beginning.
Order ==
    /\ Len(queue) <= Len(accepted)
    /\ \A i \in 1 .. Len(queue) : queue[i] = accepted[Len(accepted) - Len(queue) + i]
    /\ \A i, j \in 1 .. Len(queue) :
          i < j /\ queue[j] \in Elements(sent) => queue[i] \in Elements(sent)
    /\ Elements(sent) \subseteq Elements(accepted)

Reported == {r.call : r \in Elements(reports)}

\* An accepted message is in the queue, in one report, or has a served outcome.
Places ==
    /\ Elements(accepted) = Elements(queue) \cup Reported \cup delivered \cup failed
    /\ Elements(queue) \cap (Reported \cup delivered \cup failed) = {}
    /\ Reported \cap (delivered \cup failed) = {}
    /\ delivered \cap failed = {}
    /\ \A i, j \in 1 .. Len(queue) : queue[i] = queue[j] => i = j
    /\ \A r, s \in Elements(reports) : r.call = s.call => r = s
    /\ delivered \subseteq Elements(sent)
    /\ \A r \in Elements(reports) : r.ok => r.call \in Elements(sent)

\* A flush waits for messages that were accepted.
Waits ==
    \A t \in Threads :
        /\ waiting[t] \subseteq Elements(accepted)
        /\ pc[t] # "flush" => waiting[t] \subseteq delivered \cup failed

ProducerInv ==
    /\ TypeOK
    /\ Len(results) <= MaxCalls
    /\ Callers
    /\ Order
    /\ Places
    /\ Waits

-----------------------------------------------------------------------------
(* Elements of sequences                                                   *)

LEMMA ElementsOfAppend ==
    ASSUME NEW S, NEW s \in Seq(S), NEW e \in S
    PROVE  Elements(Append(s, e)) = Elements(s) \cup {e}
<1> DEFINE a == Append(s, e)
<1>1. /\ Len(a) = Len(s) + 1
      /\ DOMAIN a = 1 .. Len(s) + 1
      /\ DOMAIN s = 1 .. Len(s)
      /\ \A i \in 1 .. Len(s) : a[i] = s[i]
      /\ a[Len(s) + 1] = e
      /\ Len(s) \in Nat
  OBVIOUS
<1> HIDE DEF a
<1>2. Elements(a) \subseteq Elements(s) \cup {e}
  BY <1>1 DEF Elements
<1>3. ASSUME NEW x \in Elements(s) PROVE x \in Elements(a)
  BY <1>1 DEF Elements
<1>4. e \in Elements(a)
  BY <1>1 DEF Elements
<1> QED
  BY <1>2, <1>3, <1>4 DEF a

LEMMA ElementsOfTail ==
    ASSUME NEW S, NEW s \in Seq(S), s # <<>>
    PROVE  /\ Elements(s) = Elements(Tail(s)) \cup {Head(s)}
           /\ Head(s) = s[1] /\ Head(s) \in S
           /\ Tail(s) \in Seq(S) /\ Len(Tail(s)) = Len(s) - 1
           /\ \A i \in 1 .. Len(s) - 1 : Tail(s)[i] = s[i + 1]
<1> DEFINE t == Tail(s)
<1>1. /\ Len(s) \in Nat \ {0}
      /\ Head(s) = s[1] /\ Head(s) \in S
      /\ t \in Seq(S) /\ Len(t) = Len(s) - 1
      /\ \A i \in 1 .. Len(s) - 1 : t[i] = s[i + 1]
      /\ DOMAIN s = 1 .. Len(s) /\ DOMAIN t = 1 .. Len(s) - 1
  OBVIOUS
<1> HIDE DEF t
<1>2. ASSUME NEW i \in 1 .. Len(s) PROVE s[i] \in Elements(t) \cup {s[1]}
  <2>1. CASE i # 1
    <3>1. i - 1 \in 1 .. Len(s) - 1 /\ t[i - 1] = s[i]
      BY <2>1, <1>1
    <3> QED
      BY <3>1, <1>1 DEF Elements
  <2> QED
    BY <2>1
<1>3. ASSUME NEW i \in 1 .. Len(s) - 1 PROVE t[i] \in Elements(s)
  <2>1. i + 1 \in DOMAIN s /\ t[i] = s[i + 1]
    BY <1>1
  <2> QED
    BY <2>1 DEF Elements
<1>4. s[1] \in Elements(s)
  BY <1>1 DEF Elements
<1>5. Elements(s) = Elements(t) \cup {s[1]}
  <2>1. ASSUME NEW x \in Elements(s) PROVE x \in Elements(t) \cup {s[1]}
    <3>1. PICK i \in 1 .. Len(s) : x = s[i]
      BY <1>1 DEF Elements
    <3> QED
      BY <3>1, <1>2
  <2>2. ASSUME NEW x \in Elements(t) PROVE x \in Elements(s)
    <3>1. PICK i \in 1 .. Len(s) - 1 : x = t[i]
      BY <1>1 DEF Elements
    <3> QED
      BY <3>1, <1>3
  <2> QED
    BY <2>1, <2>2, <1>4
<1> QED
  BY <1>1, <1>5 DEF t

LEMMA ElementsOfEmpty == Elements(<<>>) = {}
  BY DEF Elements

LEMMA ElementsAreTyped ==
    ASSUME NEW S, NEW s \in Seq(S)
    PROVE  Elements(s) \subseteq S
<1>1. \A i \in DOMAIN s : s[i] \in S
  OBVIOUS
<1> QED
  BY <1>1 DEF Elements

-----------------------------------------------------------------------------
(* The parts of librdkafka, and what they do to the places of messages     *)

\* poll() serves all reports: each message goes where its report says.
LEMMA ServeKeeps ==
    ASSUME TypeOK, Order, Places, ServeReports, UNCHANGED <<queue, accepted, sent>>
    PROVE  /\ reports' \in Seq([call : Calls, ok : BOOLEAN]) /\ Len(reports') = 0
           /\ delivered' \subseteq Calls /\ failed' \subseteq Calls
           /\ Order' /\ Places'
           /\ delivered \cup failed \subseteq delivered' \cup failed'
<1> DEFINE good == {r.call : r \in {x \in Elements(reports) : x.ok}}
           bad == {r.call : r \in {x \in Elements(reports) : ~x.ok}}
<1>1. reports' = <<>> /\ delivered' = delivered \cup good /\ failed' = failed \cup bad
  BY DEF ServeReports
<1>2. good \cup bad = Reported /\ good \subseteq Elements(sent)
  BY DEF Reported, Places
<1>3. good \cap bad = {}
  BY DEF Places
<1>4. Reported \subseteq Calls
  <2>1. Elements(reports) \subseteq [call : Calls, ok : BOOLEAN]
    BY ElementsAreTyped DEF TypeOK
  <2> QED
    BY <2>1 DEF Reported
<1>5. Elements(reports') = {} /\ Reported' = {}
  BY <1>1, ElementsOfEmpty DEF Reported
<1> HIDE DEF good, bad
<1>6. Places'
  BY <1>1, <1>2, <1>3, <1>5 DEF Places
<1>7. Order'
  <2>1. queue' = queue /\ accepted' = accepted /\ sent' = sent
    OBVIOUS
  <2> QED
    BY <2>1 DEF Order
<1> QED
  BY <1>1, <1>2, <1>4, <1>6, <1>7 DEF TypeOK

\* The message at the head of the queue gets an outcome.
LEMMA OutcomeKeeps ==
    ASSUME TypeOK, Order, Places, queue # <<>>,
           NEW ok \in BOOLEAN, ok => Head(queue) \in Elements(sent),
           Outcome(ok), UNCHANGED <<accepted, sent, delivered, failed>>
    PROVE  /\ reports' \in Seq([call : Calls, ok : BOOLEAN])
           /\ queue' \in Seq(Calls) /\ Len(queue') + Len(reports') <= MaxQueue
           /\ Order' /\ Places'
<1> DEFINE h == Head(queue)
           r == [call |-> h, ok |-> ok]
           R == [call : Calls, ok : BOOLEAN]
<1>1. queue' = Tail(queue) /\ reports' = Append(reports, r)
  BY DEF Outcome
<1>2. queue \in Seq(Calls) /\ reports \in Seq(R) /\ Len(queue) + Len(reports) <= MaxQueue
  BY DEF TypeOK
<1>3. /\ Elements(queue) = Elements(queue') \cup {h}
      /\ h = queue[1] /\ h \in Calls
      /\ queue' \in Seq(Calls) /\ Len(queue') = Len(queue) - 1
      /\ \A i \in 1 .. Len(queue) - 1 : queue'[i] = queue[i + 1]
      /\ Len(queue) \in Nat \ {0}
  BY <1>1, <1>2, ElementsOfTail
<1>4. r \in R
  BY <1>3
<1>5. /\ reports' \in Seq(R) /\ Len(reports') = Len(reports) + 1 /\ Len(reports) \in Nat
      /\ Elements(reports') = Elements(reports) \cup {r}
  <2> HIDE DEF r, R
  <2> QED
    BY <1>1, <1>2, <1>4, ElementsOfAppend
<1>6. Len(queue') + Len(reports') <= MaxQueue
  BY <1>2, <1>3, <1>5, ProducerAssumption
<1>7. Reported' = Reported \cup {h}
  <2>1. r.call = h
    OBVIOUS
  <2> HIDE DEF r
  <2> QED
    BY <2>1, <1>5 DEF Reported
<1>8. h \notin Elements(queue')
  <2> SUFFICES ASSUME NEW i \in 1 .. Len(queue'), queue'[i] = h PROVE FALSE
    BY <1>3 DEF Elements
  <2>1. i + 1 \in 1 .. Len(queue) /\ queue[i + 1] = queue[1]
    BY <1>3
  <2> QED
    BY <2>1, <1>3 DEF Places
<1>9. \A i, j \in 1 .. Len(queue') : queue'[i] = queue'[j] => i = j
  <2> SUFFICES ASSUME NEW i \in 1 .. Len(queue'), NEW j \in 1 .. Len(queue'),
                      queue'[i] = queue'[j]
               PROVE  i = j
    OBVIOUS
  <2>1. /\ i + 1 \in 1 .. Len(queue) /\ j + 1 \in 1 .. Len(queue)
        /\ queue[i + 1] = queue[j + 1]
    BY <1>3
  <2>2. i + 1 = j + 1
    BY <2>1 DEF Places
  <2> QED
    BY <2>2, <1>3
<1>10. h \notin Reported \cup delivered \cup failed
  BY <1>3 DEF Places
<1>11. \A x, y \in Elements(reports') : x.call = y.call => x = y
  <2>1. \A x \in Elements(reports) : x.call # r.call
    BY <1>10 DEF Reported
  <2> QED
    BY <2>1, <1>5 DEF Places
<1>12. \A x \in Elements(reports') : x.ok => x.call \in Elements(sent)
  BY <1>5 DEF Places
<1>13. Places'
  <2> HIDE DEF h
  <2> QED
    BY <1>3, <1>7, <1>8, <1>9, <1>10, <1>11, <1>12 DEF Places
<1>14. Order'
  <2>1. \A i \in 1 .. Len(queue') : queue'[i] = accepted[Len(accepted) - Len(queue') + i]
    <3> SUFFICES ASSUME NEW i \in 1 .. Len(queue')
                 PROVE  queue'[i] = accepted[Len(accepted) - Len(queue') + i]
      OBVIOUS
    <3>1. i + 1 \in 1 .. Len(queue) /\ queue'[i] = queue[i + 1]
      BY <1>3
    <3>2. queue[i + 1] = accepted[Len(accepted) - Len(queue) + (i + 1)]
      BY <3>1 DEF Order
    <3>3. Len(accepted) \in Nat
      BY DEF TypeOK
    <3>4. Len(accepted) - Len(queue) + (i + 1) = Len(accepted) - Len(queue') + i
      BY <1>3, <3>3
    <3> QED
      BY <3>1, <3>2, <3>4
  <2>2. \A i, j \in 1 .. Len(queue') :
            i < j /\ queue'[j] \in Elements(sent) => queue'[i] \in Elements(sent)
    <3> SUFFICES ASSUME NEW i \in 1 .. Len(queue'), NEW j \in 1 .. Len(queue'),
                        i < j, queue'[j] \in Elements(sent)
                 PROVE  queue'[i] \in Elements(sent)
      OBVIOUS
    <3>1. /\ i + 1 \in 1 .. Len(queue) /\ j + 1 \in 1 .. Len(queue) /\ i + 1 < j + 1
          /\ queue'[i] = queue[i + 1] /\ queue'[j] = queue[j + 1]
      BY <1>3
    <3> QED
      BY <3>1 DEF Order
  <2>3. Len(queue') <= Len(accepted)
    BY <1>3 DEF Order, TypeOK
  <2> QED
    BY <2>1, <2>2, <2>3 DEF Order
<1> QED
  BY <1>3, <1>5, <1>6, <1>13, <1>14

\* librdkafka accepts a message that it does not have.
LEMMA AcceptKeeps ==
    ASSUME TypeOK, Order, Places, NEW c \in Calls, c \notin Elements(accepted),
           Len(queue) + Len(reports) < MaxQueue,
           queue' = Append(queue, c), accepted' = Append(accepted, c),
           UNCHANGED <<reports, sent, delivered, failed>>
    PROVE  /\ queue' \in Seq(Calls) /\ accepted' \in Seq(Calls)
           /\ Len(queue') + Len(reports') <= MaxQueue
           /\ Elements(accepted') = Elements(accepted) \cup {c}
           /\ Order' /\ Places'
<1>1. /\ queue \in Seq(Calls) /\ accepted \in Seq(Calls)
      /\ Len(queue) \in Nat /\ Len(accepted) \in Nat /\ Len(reports) \in Nat
  BY DEF TypeOK
<1>2. /\ Len(queue') = Len(queue) + 1 /\ Len(accepted') = Len(accepted) + 1
      /\ queue' \in Seq(Calls) /\ accepted' \in Seq(Calls)
      /\ \A i \in 1 .. Len(queue) : queue'[i] = queue[i]
      /\ queue'[Len(queue) + 1] = c
      /\ \A i \in 1 .. Len(accepted) : accepted'[i] = accepted[i]
      /\ accepted'[Len(accepted) + 1] = c
  BY <1>1
<1>a. \A i \in 1 .. Len(queue') : i \in 1 .. Len(queue) \/ i = Len(queue) + 1
  BY <1>1, <1>2
<1>3. /\ Elements(queue') = Elements(queue) \cup {c}
      /\ Elements(accepted') = Elements(accepted) \cup {c}
  BY <1>1, ElementsOfAppend
<1>4. Len(queue') + Len(reports') <= MaxQueue
  BY <1>1, <1>2, ProducerAssumption
<1>5. c \notin Elements(queue) \cup Reported \cup delivered \cup failed
  BY DEF Places
<1>6. \A i \in 1 .. Len(queue) : queue[i] \in Elements(queue)
  BY <1>1 DEF Elements
<1>7. \A i, j \in 1 .. Len(queue') : queue'[i] = queue'[j] => i = j
  <2> SUFFICES ASSUME NEW i \in 1 .. Len(queue'), NEW j \in 1 .. Len(queue'),
                      queue'[i] = queue'[j]
               PROVE  i = j
    OBVIOUS
  <2>1. CASE i \in 1 .. Len(queue) /\ j \in 1 .. Len(queue)
    BY <2>1, <1>2 DEF Places
  <2>2. CASE i = Len(queue) + 1 /\ j \in 1 .. Len(queue)
    BY <2>2, <1>2, <1>5, <1>6
  <2>3. CASE j = Len(queue) + 1 /\ i \in 1 .. Len(queue)
    BY <2>3, <1>2, <1>5, <1>6
  <2> QED
    BY <2>1, <2>2, <2>3, <1>1, <1>2
<1>8. Places'
  <2>1. Reported' = Reported
    BY DEF Reported
  <2> QED
    BY <2>1, <1>3, <1>5, <1>7 DEF Places
<1>9. Order'
  <2>1. \A i \in 1 .. Len(queue') : queue'[i] = accepted'[Len(accepted') - Len(queue') + i]
    <3> SUFFICES ASSUME NEW i \in 1 .. Len(queue')
                 PROVE  queue'[i] = accepted'[Len(accepted') - Len(queue') + i]
      OBVIOUS
    <3>1. Len(accepted') - Len(queue') + i = Len(accepted) - Len(queue) + i
      BY <1>1, <1>2
    <3>2. CASE i \in 1 .. Len(queue)
      <4>1. Len(accepted) - Len(queue) + i \in 1 .. Len(accepted)
        BY <3>2, <1>1 DEF Order
      <4> QED
        BY <3>1, <3>2, <4>1, <1>2 DEF Order
    <3>3. CASE i = Len(queue) + 1
      <4>1. Len(accepted) - Len(queue) + i = Len(accepted) + 1
        BY <3>3, <1>1
      <4> QED
        BY <3>1, <3>3, <4>1, <1>2
    <3> QED
      BY <3>2, <3>3, <1>a
  <2>2. c \notin Elements(sent)
    BY DEF Order
  <2>3. \A i, j \in 1 .. Len(queue') :
            i < j /\ queue'[j] \in Elements(sent) => queue'[i] \in Elements(sent)
    <3> SUFFICES ASSUME NEW i \in 1 .. Len(queue'), NEW j \in 1 .. Len(queue'),
                        i < j, queue'[j] \in Elements(sent)
                 PROVE  queue'[i] \in Elements(sent)
      OBVIOUS
    <3>1. j # Len(queue) + 1
      BY <2>2, <1>2
    <3>2. i \in 1 .. Len(queue) /\ j \in 1 .. Len(queue)
      <4>1. j \in 1 .. Len(queue)
        BY <3>1, <1>a
      <4>2. i # Len(queue) + 1
        BY <4>1, <1>1
      <4> QED
        BY <4>1, <4>2, <1>a
    <3> QED
      BY <3>2, <1>2 DEF Order
  <2>4. Len(queue') <= Len(accepted')
    BY <1>1, <1>2 DEF Order
  <2>5. Elements(sent') \subseteq Elements(accepted')
    <3>1. Elements(sent') = Elements(sent)
      OBVIOUS
    <3> QED
      BY <3>1, <1>3 DEF Order
  <2>6. sent' = sent
    OBVIOUS
  <2> QED
    BY <2>1, <2>3, <2>4, <2>5, <2>6 DEF Order
<1> QED
  BY <1>2, <1>3, <1>4, <1>8, <1>9

\* The next message of the queue is sent: behind all that was sent before it.
LEMMA TransmitKeeps ==
    ASSUME TypeOK, Order, Places, Transmit
    PROVE  /\ sent' \in Seq(Calls) /\ Order' /\ Places'
           /\ \E k \in 1 .. Len(accepted) :
                 /\ \A j \in 1 .. Len(sent) : \E l \in 1 .. k - 1 : accepted[l] = sent[j]
                 /\ sent' = Append(sent, accepted[k])
<1>1. PICK i \in Unsent : (\A j \in Unsent : i <= j) /\ sent' = Append(sent, queue[i])
  BY DEF Transmit
<1>2. UNCHANGED <<queue, accepted, reports, delivered, failed>>
  BY DEF Transmit, clientVars, histVars
<1>3. /\ queue \in Seq(Calls) /\ accepted \in Seq(Calls) /\ sent \in Seq(Calls)
      /\ Len(queue) \in Nat /\ Len(accepted) \in Nat /\ Len(sent) \in Nat
      /\ DOMAIN queue = 1 .. Len(queue) /\ DOMAIN accepted = 1 .. Len(accepted)
      /\ DOMAIN sent = 1 .. Len(sent)
  BY DEF TypeOK
<1>4. /\ i \in 1 .. Len(queue) /\ queue[i] \notin Elements(sent) /\ queue[i] \in Calls
      /\ \A j \in 1 .. Len(queue) : j < i => queue[j] \in Elements(sent)
  BY <1>1, <1>3 DEF Unsent
<1>5. sent' \in Seq(Calls) /\ Elements(sent') = Elements(sent) \cup {queue[i]}
  BY <1>1, <1>3, <1>4, ElementsOfAppend
<1>6. queue[i] \in Elements(accepted)
  <2>1. queue[i] \in Elements(queue)
    BY <1>3, <1>4 DEF Elements
  <2> QED
    BY <2>1 DEF Places
<1>7. Order'
  <2>1. \A m, j \in 1 .. Len(queue) :
            m < j /\ queue[j] \in Elements(sent') => queue[m] \in Elements(sent')
    <3> SUFFICES ASSUME NEW m \in 1 .. Len(queue), NEW j \in 1 .. Len(queue),
                        m < j, queue[j] \in Elements(sent')
                 PROVE  queue[m] \in Elements(sent')
      OBVIOUS
    <3>1. CASE queue[j] \in Elements(sent)
      BY <3>1, <1>5 DEF Order
    <3>2. CASE queue[j] = queue[i]
      <4>1. j = i
        BY <3>2, <1>4 DEF Places
      <4> QED
        BY <4>1, <1>4, <1>5
    <3> QED
      BY <3>1, <3>2, <1>5
  <2> QED
    BY <2>1, <1>2, <1>5, <1>6 DEF Order
<1>8. Places'
  <2>1. Reported' = Reported
    BY <1>2 DEF Reported
  <2> QED
    BY <2>1, <1>2, <1>5 DEF Places
<1>9. \E k \in 1 .. Len(accepted) :
         /\ \A j \in 1 .. Len(sent) : \E l \in 1 .. k - 1 : accepted[l] = sent[j]
         /\ sent' = Append(sent, accepted[k])
  <2> DEFINE off == Len(accepted) - Len(queue)
             k == off + i
  <2>1. off \in Nat /\ k \in 1 .. Len(accepted) /\ queue[i] = accepted[k]
    BY <1>3, <1>4 DEF Order
  <2>2. ASSUME NEW j \in 1 .. Len(sent)
        PROVE  \E l \in 1 .. k - 1 : accepted[l] = sent[j]
    <3>1. sent[j] \in Elements(sent)
      BY <1>3 DEF Elements
    <3>2. PICK l \in 1 .. Len(accepted) : accepted[l] = sent[j]
      BY <3>1, <1>3 DEF Order, Elements
    <3>3. ASSUME l >= k PROVE FALSE
      <4>1. l - off \in 1 .. Len(queue) /\ l - off >= i
        BY <3>3, <2>1, <1>3, <1>4
      <4>2. queue[l - off] = accepted[off + (l - off)]
        BY <4>1 DEF Order
      <4>3. off + (l - off) = l
        BY <2>1
      <4>4. queue[l - off] \in Elements(sent)
        BY <4>2, <4>3, <3>1, <3>2
      <4> HIDE DEF off
      <4>5. queue[i] \in Elements(sent)
        <5>1. CASE l - off = i
          BY <5>1, <4>4
        <5>2. CASE l - off > i
          BY <5>2, <4>1, <4>4, <1>4 DEF Order
        <5> QED
          BY <5>1, <5>2, <4>1, <2>1, <1>4
      <4> QED
        BY <4>5, <1>4
    <3>4. l < k
      BY <3>3, <2>1
    <3> QED
      BY <3>2, <3>4, <2>1
  <2> QED
    BY <2>1, <2>2, <1>1
<1> QED
  BY <1>5, <1>7, <1>8, <1>9

-----------------------------------------------------------------------------
(* The threads                                                             *)

\* What the step of one thread must respect for the others to keep their calls.
LEMMA CallerStep ==
    ASSUME TypeOK, Callers, NEW t \in Threads, results' \in Seq(Refusals \cup {"ENQUEUED", "pending"}),
           \A u \in Threads \ {t} :
              pc'[u] = pc[u] /\ call'[u] = call[u] /\ result'[u] = result[u],
           Len(results) <= Len(results'),
           \A c \in 1 .. Len(results) :
              results'[c] = results[c] \/ (pc[t] \in Busy /\ c = call[t]),
           Elements(accepted) \subseteq Elements(accepted'),
           \A c \in Elements(accepted') :
              c \in Elements(accepted) \/ (pc[t] \in Busy /\ c = call[t]),
           pc'[t] \in Busy =>
              \/ pc[t] \in Busy /\ call'[t] = call[t]
              \/ call'[t] = Len(results) + 1,
           Caller(t)'
    PROVE  Callers'
<1>0. Len(results) \in Nat /\ Len(results') \in Nat
  BY DEF TypeOK
<1>1. ASSUME NEW u \in Threads, u # t PROVE Caller(u)'
  <2>1. SUFFICES ASSUME pc'[u] \in Busy
                 PROVE  /\ call'[u] \in 1 .. Len(results')
                        /\ results'[call'[u]] = "pending"
                        /\ pc'[u] # "poll" => call'[u] \notin Elements(accepted')
                        /\ pc'[u] = "poll" =>
                              IF call'[u] \in Elements(accepted')
                              THEN result'[u] = "ENQUEUED" ELSE result'[u] \in Failures
    BY DEF Caller
  <2>2. /\ pc'[u] = pc[u] /\ call'[u] = call[u] /\ result'[u] = result[u]
        /\ pc[u] \in Busy
    BY <1>1, <2>1
  <2>3. Caller(u) /\ ~(pc[t] \in Busy /\ call[u] = call[t])
    BY <1>1, <2>2 DEF Callers
  <2>4. call[u] \in 1 .. Len(results) /\ results[call[u]] = "pending"
    BY <2>2, <2>3 DEF Caller
  <2>5. call[u] \in 1 .. Len(results') /\ results'[call[u]] = "pending"
    BY <1>0, <2>3, <2>4
  <2>6. call[u] \in Elements(accepted') <=> call[u] \in Elements(accepted)
    BY <2>3
  <2> QED
    BY <2>2, <2>3, <2>5, <2>6 DEF Caller
<1>2. ASSUME NEW u \in Threads, u # t, pc'[t] \in Busy, pc'[u] \in Busy
      PROVE  call'[t] # call'[u]
  <2>1. pc[u] \in Busy /\ call'[u] = call[u] /\ call[u] \in 1 .. Len(results)
    BY <1>2 DEF Callers, Caller
  <2>2. CASE pc[t] \in Busy /\ call'[t] = call[t]
    BY <1>2, <2>1, <2>2 DEF Callers
  <2>3. CASE call'[t] = Len(results) + 1
    BY <1>0, <2>1, <2>3
  <2> QED
    BY <1>2, <2>2, <2>3
<1>3. ASSUME NEW u \in Threads, NEW v \in Threads, u # v, u # t, v # t,
             pc'[u] \in Busy, pc'[v] \in Busy
      PROVE  call'[u] # call'[v]
  BY <1>3 DEF Callers
<1>4. \A u, v \in Threads : u # v /\ {pc'[u], pc'[v]} \subseteq Busy => call'[u] # call'[v]
  BY <1>2, <1>3
<1>5. Elements(accepted') \subseteq 1 .. Len(results')
  <2> SUFFICES ASSUME NEW c \in Elements(accepted') PROVE c \in 1 .. Len(results')
    OBVIOUS
  <2>1. c \in 1 .. Len(results)
    BY DEF Callers, Caller
  <2> QED
    BY <1>0, <2>1
<1> QED
  BY <1>1, <1>4, <1>5 DEF Callers

\* A flush only ever waits for less.
LEMMA WaitsStep ==
    ASSUME Waits, waiting' = waiting,
           Elements(accepted) \subseteq Elements(accepted'),
           delivered \cup failed \subseteq delivered' \cup failed',
           \A t \in Threads : pc'[t] # "flush" => pc[t] # "flush"
    PROVE  Waits'
BY DEF Waits

LEMMA InvInit == Init => ProducerInv
<1> SUFFICES ASSUME Init PROVE ProducerInv
  OBVIOUS
<1> USE DEF Init
<1>1. Elements(queue) = {} /\ Elements(reports) = {} /\ Elements(accepted) = {}
      /\ Elements(sent) = {} /\ Reported = {}
  BY ElementsOfEmpty DEF Reported
<1>2. TypeOK /\ Len(results) <= MaxCalls
  BY ProducerAssumption DEF TypeOK
<1>3. Callers
  BY <1>1 DEF Callers, Caller, Busy
<1>4. Order /\ Places
  BY <1>1 DEF Order, Places
<1>5. Waits
  BY DEF Waits
<1> QED
  BY <1>2, <1>3, <1>4, <1>5 DEF ProducerInv

-----------------------------------------------------------------------------
(* The steps of produce()                                                  *)

\* A new call, answered at once or begun.
LEMMA BeginStep ==
    ASSUME ProducerInv, NEW t \in Threads, NEW payload \in Payloads, NEW key \in Keys,
           Reject(t, payload, key) \/ Encode(t, payload, key)
    PROVE  ProducerInv'
<1> USE DEF ProducerInv, threadVars, clientVars, histVars
<1>0. results \in Seq(Refusals \cup {"ENQUEUED", "pending"}) /\ Len(results) \in Nat
  BY DEF TypeOK
<1>1. CASE Reject(t, payload, key)
  <2>1. PICK r \in Refusals : results' = Append(results, r)
    BY <1>1 DEF Reject, Encoding, Refusals, Rejections
  <2>2. /\ results' \in Seq(Refusals \cup {"ENQUEUED", "pending"})
        /\ Len(results') = Len(results) + 1 /\ Len(results') <= MaxCalls
        /\ \A c \in 1 .. Len(results) : results'[c] = results[c]
    BY <1>0, <1>1, <2>1, ProducerAssumption DEF Reject
  <2>3. UNCHANGED <<up, pc, call, result, dropped, queue, reports, sent, accepted,
                    delivered, failed, waiting>>
    BY <1>1 DEF Reject
  <2>4. TypeOK'
    BY <2>2, <2>3 DEF TypeOK
  <2>5. Caller(t)'
    <3>1. Caller(t)
      BY DEF Callers
    <3> QED
      BY <3>1, <1>0, <2>2, <2>3 DEF Caller
  <2>6. Callers'
    BY <1>0, <2>2, <2>3, <2>5, CallerStep
  <2>7. Order' /\ Places'
    BY <2>3 DEF Order, Places, Reported
  <2>8. Waits'
    BY <2>3 DEF Waits
  <2> QED
    BY <2>2, <2>4, <2>6, <2>7, <2>8
<1>2. CASE Encode(t, payload, key)
  <2>1. /\ results' = Append(results, "pending") /\ Len(results) < MaxCalls
        /\ call' = [call EXCEPT ![t] = Len(results) + 1]
        /\ pc[t] = "idle" /\ pc' = [pc EXCEPT ![t] = "submit"]
    BY <1>2 DEF Encode, At, Goto
  <2>2. /\ results' \in Seq(Refusals \cup {"ENQUEUED", "pending"})
        /\ Len(results') = Len(results) + 1 /\ Len(results') <= MaxCalls
        /\ \A c \in 1 .. Len(results) : results'[c] = results[c]
        /\ results'[Len(results) + 1] = "pending"
    BY <1>0, <2>1, ProducerAssumption
  <2>3. UNCHANGED <<up, result, dropped, queue, reports, sent, accepted,
                    delivered, failed, waiting>>
    BY <1>2 DEF Encode
  <2>4. TypeOK'
    BY <1>0, <2>1, <2>2, <2>3, ProducerAssumption DEF TypeOK
  <2>5. pc'[t] = "submit" /\ call'[t] = Len(results) + 1
    BY <2>1 DEF TypeOK
  <2>6. Caller(t)'
    <3>1. call'[t] \notin Elements(accepted')
      BY <1>0, <2>3, <2>5 DEF Callers
    <3> QED
      BY <3>1, <1>0, <2>2, <2>5 DEF Caller
  <2>7. \A u \in Threads \ {t} :
           pc'[u] = pc[u] /\ call'[u] = call[u] /\ result'[u] = result[u]
    BY <2>1, <2>3 DEF TypeOK
  <2>8. Callers'
    BY <1>0, <2>2, <2>3, <2>5, <2>6, <2>7, CallerStep
  <2>9. Order' /\ Places'
    BY <2>3 DEF Order, Places, Reported
  <2>10. Waits'
    BY <2>1, <2>3 DEF Waits, TypeOK
  <2> QED
    BY <2>2, <2>4, <2>8, <2>9, <2>10
<1> QED
  BY <1>1, <1>2

\* The answer of librdkafka's produce().
LEMMA SubmitStep ==
    ASSUME ProducerInv, NEW t \in Threads,
           SubmitAccepted(t) \/ SubmitFull(t) \/ SubmitFails(t)
    PROVE  ProducerInv'
<1> USE DEF ProducerInv, threadVars, clientVars, histVars
<1>0. /\ results \in Seq(Refusals \cup {"ENQUEUED", "pending"}) /\ Len(results) \in Nat
      /\ results' = results /\ pc[t] = "submit" /\ call' = call
      /\ UNCHANGED <<up, reports, sent, delivered, failed, waiting>>
  BY DEF TypeOK, SubmitAccepted, SubmitFull, SubmitFails, At
<1>1. /\ call[t] \in 1 .. Len(results) /\ results[call[t]] = "pending"
      /\ call[t] \notin Elements(accepted) /\ call[t] \in Calls
  <2>1. Caller(t)
    BY DEF Callers
  <2> QED
    BY <2>1, <1>0, ProducerAssumption DEF Caller, Busy, Calls
<1>2. CASE SubmitAccepted(t)
  <2>1. /\ queue' = Append(queue, call[t]) /\ accepted' = Append(accepted, call[t])
        /\ Len(queue) + Len(reports) < MaxQueue /\ dropped' = dropped
        /\ result' = [result EXCEPT ![t] = "ENQUEUED"]
        /\ pc' = [pc EXCEPT ![t] = "poll"]
    BY <1>2 DEF SubmitAccepted, HasRoom, Goto
  <2>2. /\ queue' \in Seq(Calls) /\ accepted' \in Seq(Calls)
        /\ Len(queue') + Len(reports') <= MaxQueue
        /\ Elements(accepted') = Elements(accepted) \cup {call[t]}
        /\ Order' /\ Places'
    BY <1>0, <1>1, <2>1, AcceptKeeps
  <2>3. TypeOK'
    BY <1>0, <2>1, <2>2 DEF TypeOK
  <2>4. pc'[t] = "poll" /\ result'[t] = "ENQUEUED"
    BY <2>1 DEF TypeOK
  <2>5. Caller(t)'
    BY <1>0, <1>1, <2>2, <2>4 DEF Caller
  <2>6. \A u \in Threads \ {t} : pc'[u] = pc[u] /\ result'[u] = result[u]
    BY <2>1 DEF TypeOK
  <2>7. Callers'
    BY <1>0, <2>2, <2>5, <2>6, CallerStep DEF Busy
  <2>8. Waits'
    BY <1>0, <2>1, <2>2 DEF Waits, TypeOK
  <2> QED
    BY <1>0, <2>2, <2>3, <2>7, <2>8
<1>3. CASE SubmitFull(t) \/ SubmitFails(t)
  <2>1. UNCHANGED <<queue, accepted>>
    BY <1>3 DEF SubmitFull, SubmitFails
  <2>2. TypeOK'
    <3>1. /\ \/ pc' = [pc EXCEPT ![t] = "full"] \/ pc' = [pc EXCEPT ![t] = "poll"]
          /\ \/ result' = result \/ result' = [result EXCEPT ![t] = "PRODUCER_ERROR"]
          /\ dropped' \in {dropped, dropped + 1}
      BY <1>3 DEF SubmitFull, SubmitFails, Goto
    <3>2. pc' \in [Threads -> {"idle", "submit", "full", "poll", "flush"}]
      BY <3>1 DEF TypeOK
    <3>3. result' \in [Threads -> Failures \cup {"ENQUEUED", "none"}]
      BY <3>1 DEF TypeOK, Failures
    <3>4. dropped' \in Nat
      BY <3>1 DEF TypeOK
    <3> QED
      BY <1>0, <2>1, <3>2, <3>3, <3>4 DEF TypeOK
  <2>3. \/ pc'[t] = "full"
        \/ pc'[t] = "poll" /\ result'[t] = "PRODUCER_ERROR"
    BY <1>3 DEF SubmitFull, SubmitFails, Goto, TypeOK
  <2>4. Caller(t)'
    BY <1>0, <1>1, <2>1, <2>3 DEF Caller, Failures
  <2>5. \A u \in Threads \ {t} : pc'[u] = pc[u] /\ result'[u] = result[u]
    BY <1>3 DEF SubmitFull, SubmitFails, Goto, TypeOK
  <2>6. Callers'
    BY <1>0, <2>1, <2>4, <2>5, CallerStep DEF Busy
  <2>7. Order' /\ Places'
    BY <1>0, <2>1 DEF Order, Places, Reported
  <2>8. Waits'
    BY <1>0, <2>1, <2>3, <2>5 DEF Waits
  <2> QED
    BY <1>0, <2>2, <2>6, <2>7, <2>8
<1> QED
  BY <1>2, <1>3

\* Reports are served, inside produce() or flush().
LEMMA ServeStep ==
    ASSUME ProducerInv, NEW t \in Threads,
           PollFull(t) \/ PollReturns(t) \/ FlushServes(t)
    PROVE  ProducerInv'
<1> USE DEF ProducerInv, threadVars, clientVars, histVars
<1>0. /\ results \in Seq(Refusals \cup {"ENQUEUED", "pending"}) /\ Len(results) \in Nat
      /\ UNCHANGED <<up, call, dropped, queue, sent, accepted, waiting>>
      /\ ServeReports
  BY DEF TypeOK, PollFull, PollReturns, FlushServes
<1>1. /\ reports' \in Seq([call : Calls, ok : BOOLEAN]) /\ Len(reports') = 0
      /\ delivered' \subseteq Calls /\ failed' \subseteq Calls
      /\ Order' /\ Places'
      /\ delivered \cup failed \subseteq delivered' \cup failed'
  BY <1>0, ServeKeeps
<1>2. Caller(t)
  BY DEF Callers
<1>3. Len(queue') + Len(reports') <= MaxQueue
  BY <1>0, <1>1, ProducerAssumption DEF TypeOK
<1>4. CASE PollFull(t)
  <2>1. /\ results' = results /\ pc[t] = "full" /\ pc' = [pc EXCEPT ![t] = "poll"]
        /\ result' = [result EXCEPT ![t] = "BUFFER_FULL"]
    BY <1>4 DEF PollFull, At, Goto
  <2>2. pc'[t] = "poll" /\ result'[t] = "BUFFER_FULL"
    BY <2>1 DEF TypeOK
  <2>3. \A u \in Threads \ {t} : pc'[u] = pc[u] /\ result'[u] = result[u]
    BY <2>1 DEF TypeOK
  <2>4. TypeOK'
    BY <1>0, <1>1, <1>3, <2>1 DEF TypeOK, Failures
  <2>5. Caller(t)'
    BY <1>0, <1>2, <2>1, <2>2 DEF Caller, Busy, Failures
  <2>6. Callers'
    BY <1>0, <2>1, <2>3, <2>5, CallerStep DEF Busy
  <2>7. Waits'
    BY <1>0, <1>1, <2>1, <2>2, <2>3, WaitsStep
  <2> QED
    BY <1>1, <2>1, <2>4, <2>6, <2>7
<1>5. CASE PollReturns(t)
  <2>1. /\ results' = [results EXCEPT ![call[t]] = result[t]] /\ result' = result
        /\ pc[t] = "poll" /\ pc' = [pc EXCEPT ![t] = "idle"]
    BY <1>5 DEF PollReturns, At, Goto
  <2>2. call[t] \in 1 .. Len(results)
    BY <1>2, <2>1 DEF Caller, Busy
  <2>3. /\ results' \in Seq(Refusals \cup {"ENQUEUED", "pending"})
        /\ Len(results') = Len(results)
        /\ \A c \in 1 .. Len(results) : results'[c] = results[c] \/ c = call[t]
    <3>1. result[t] \in Refusals \cup {"ENQUEUED", "pending"}
      BY <1>2, <2>1 DEF Caller, Busy, Refusals
    <3> QED
      BY <3>1, <1>0, <2>1, <2>2
  <2>4. pc'[t] = "idle" /\ \A u \in Threads \ {t} : pc'[u] = pc[u]
    BY <2>1 DEF TypeOK
  <2>5. TypeOK'
    BY <1>0, <1>1, <1>3, <2>1, <2>3 DEF TypeOK
  <2>6. Caller(t)'
    BY <2>4 DEF Caller, Busy
  <2>7. Callers'
    BY <1>0, <2>1, <2>3, <2>4, <2>6, CallerStep DEF Busy
  <2>8. Waits'
    BY <1>0, <1>1, <2>1, <2>4, WaitsStep
  <2> QED
    BY <1>1, <2>3, <2>5, <2>7, <2>8
<1>6. CASE FlushServes(t)
  <2>1. UNCHANGED <<pc, result, results>>
    BY <1>6 DEF FlushServes
  <2>2. TypeOK'
    BY <1>0, <1>1, <1>3, <2>1 DEF TypeOK
  <2>3. Callers'
    BY <1>0, <2>1 DEF Callers, Caller
  <2>4. Waits'
    BY <1>0, <1>1, <2>1, WaitsStep
  <2> QED
    BY <1>1, <2>1, <2>2, <2>3, <2>4
<1> QED
  BY <1>4, <1>5, <1>6

-----------------------------------------------------------------------------
(* The steps of flush(), of librdkafka and of the process                  *)

\* A flush that returns in time has served everything it waits for.
LEMMA FlushStep ==
    ASSUME ProducerInv, NEW t \in Threads,
           Flush(t) \/ FlushReturns(t) \/ FlushTimesOut(t)
    PROVE  ProducerInv'
<1> USE DEF ProducerInv, threadVars, clientVars, histVars
<1>1. /\ UNCHANGED <<up, call, result, dropped, queue, reports, sent, results, accepted,
                      delivered, failed>>
      /\ pc[t] \in {"idle", "flush"}
      /\ \/ pc' = [pc EXCEPT ![t] = "idle"] \/ pc' = [pc EXCEPT ![t] = "flush"]
  BY DEF Flush, FlushReturns, FlushTimesOut, At, Goto
<1>2. /\ pc'[t] \in {"idle", "flush"}
      /\ \A u \in Threads \ {t} : pc'[u] = pc[u]
      /\ pc' \in [Threads -> {"idle", "submit", "full", "poll", "flush"}]
  BY <1>1 DEF TypeOK
<1>3. /\ waiting' \in [Threads -> SUBSET Calls]
      /\ \A u \in Threads \ {t} : waiting'[u] = waiting[u]
      /\ waiting'[t] \subseteq Elements(accepted)
      /\ pc'[t] # "flush" => waiting'[t] \subseteq delivered \cup failed
  <2>1. CASE Flush(t)
    <3>1. Elements(accepted) \subseteq Calls
      BY ElementsAreTyped DEF TypeOK
    <3> QED
      BY <2>1, <3>1 DEF Flush, Goto, TypeOK
  <2>2. CASE FlushReturns(t)
    <3>1. queue = <<>> /\ reports = <<>> /\ waiting' = waiting
      BY <2>2 DEF FlushReturns
    <3>2. Elements(queue) = {} /\ Reported = {}
      BY <3>1, ElementsOfEmpty DEF Reported
    <3>3. Elements(accepted) = delivered \cup failed
      BY <3>2 DEF Places
    <3> QED
      BY <3>1, <3>3 DEF Waits, TypeOK
  <2>3. CASE FlushTimesOut(t)
    BY <2>3 DEF FlushTimesOut, TypeOK
  <2> QED
    BY <2>1, <2>2, <2>3
<1>4. TypeOK'
  BY <1>1, <1>2, <1>3 DEF TypeOK
<1>5. Callers'
  <2>1. Caller(t)'
    BY <1>2 DEF Caller, Busy
  <2>2. results \in Seq(Refusals \cup {"ENQUEUED", "pending"}) /\ Len(results) \in Nat
    BY DEF TypeOK
  <2> QED
    BY <1>1, <1>2, <2>1, <2>2, CallerStep DEF Busy
<1>6. Order' /\ Places'
  BY <1>1 DEF Order, Places, Reported
<1>7. Waits'
  BY <1>1, <1>2, <1>3 DEF Waits
<1> QED
  BY <1>1, <1>4, <1>5, <1>6, <1>7

LEMMA ClientStep ==
    ASSUME ProducerInv, Transmit \/ Acknowledged \/ GivenUp \/ Exit
    PROVE  ProducerInv'
<1> USE DEF ProducerInv, threadVars, clientVars, histVars
<1>1. UNCHANGED <<pc, call, result, dropped, results, accepted, delivered, failed, waiting>>
  BY DEF Transmit, Acknowledged, GivenUp, Exit
<1>2. Callers' /\ Waits' /\ Len(results') <= MaxCalls
  BY <1>1 DEF Callers, Caller, Waits
<1>3. TypeOK' /\ Order' /\ Places'
  <2>1. CASE Transmit
    <3>1. sent' \in Seq(Calls) /\ Order' /\ Places'
      BY <2>1, TransmitKeeps
    <3> QED
      BY <2>1, <3>1 DEF Transmit, TypeOK
  <2>2. CASE Acknowledged
    <3>1. /\ queue # <<>> /\ Head(queue) \in Elements(sent) /\ Outcome(TRUE)
          /\ UNCHANGED <<up, sent>>
      BY <2>2 DEF Acknowledged
    <3>2. /\ reports' \in Seq([call : Calls, ok : BOOLEAN])
          /\ queue' \in Seq(Calls) /\ Len(queue') + Len(reports') <= MaxQueue
          /\ Order' /\ Places'
      BY <1>1, <3>1, OutcomeKeeps
    <3> QED
      BY <1>1, <3>1, <3>2 DEF TypeOK
  <2>3. CASE GivenUp
    <3>1. queue # <<>> /\ Outcome(FALSE) /\ UNCHANGED <<up, sent>>
      BY <2>3 DEF GivenUp
    <3>2. /\ reports' \in Seq([call : Calls, ok : BOOLEAN])
          /\ queue' \in Seq(Calls) /\ Len(queue') + Len(reports') <= MaxQueue
          /\ Order' /\ Places'
      BY <1>1, <3>1, OutcomeKeeps
    <3> QED
      BY <1>1, <3>1, <3>2 DEF TypeOK
  <2>4. CASE Exit
    BY <1>1, <2>4 DEF Exit, TypeOK, Order, Places, Reported
  <2> QED
    BY <2>1, <2>2, <2>3, <2>4
<1> QED
  BY <1>2, <1>3

LEMMA InvNext == ProducerInv /\ [Next]_vars => ProducerInv'
<1> SUFFICES ASSUME ProducerInv, [Next]_vars PROVE ProducerInv'
  OBVIOUS
<1>1. CASE \E t \in Threads : Step(t)
  BY <1>1, SubmitStep, ServeStep DEF Step
<1>2. CASE \E t \in Threads, payload \in Payloads, key \in Keys :
             Reject(t, payload, key) \/ Encode(t, payload, key)
  BY <1>2, BeginStep
<1>3. CASE \E t \in Threads :
             Flush(t) \/ FlushServes(t) \/ FlushReturns(t) \/ FlushTimesOut(t)
  BY <1>3, FlushStep, ServeStep
<1>4. CASE Transmit \/ Acknowledged \/ GivenUp \/ Exit
  BY <1>4, ClientStep
<1>5. CASE UNCHANGED vars
  BY <1>5 DEF vars, threadVars, clientVars, histVars, ProducerInv, TypeOK, Callers,
              Caller, Order, Places, Reported, Waits
<1> QED
  BY <1>1, <1>2, <1>3, <1>4, <1>5 DEF Next

\* Whatever the threads, librdkafka and the broker do, a message is in one place,
\* the queue is in the order of acceptance, and each thread has its own call.
THEOREM InvariantHolds == Spec => []ProducerInv
BY InvInit, InvNext, PTL DEF Spec

-----------------------------------------------------------------------------
(* What follows from the invariant                                         *)

THEOREM TypeCorrect == Spec => []TypeOK
<1>1. ProducerInv => TypeOK
  BY DEF ProducerInv
<1> QED
  BY <1>1, InvariantHolds, PTL

\* flush() leaves nothing behind that was accepted before it (producer.py:78-81):
\* when it returns, librdkafka holds no message and no report.
THEOREM FlushesWait == Spec => []FlushWaits
<1>1. ProducerInv => FlushWaits
  BY DEF ProducerInv, Waits, FlushWaits
<1> QED
  BY <1>1, InvariantHolds, PTL

\* No message is lost between produce() and _delivery_report(), and none has two
\* outcomes (producer.py:62, 101-108).
THEOREM MessagesHaveOnePlace == Spec => []MessageHasOnePlace
<1>1. ASSUME ProducerInv PROVE MessageHasOnePlace
  <2> DEFINE places == <<Elements(queue), Reported, delivered, failed>>
             in(c) == {k \in 1 .. 4 : c \in places[k]}
  <2>1. ASSUME NEW c \in Elements(accepted) PROVE Cardinality(in(c)) = 1
    <3>1. c \in Elements(queue) \cup Reported \cup delivered \cup failed
      BY <1>1 DEF ProducerInv, Places
    <3>2. \E k \in 1 .. 4 : in(c) = {k}
      <4>1. 1 .. 4 = {1, 2, 3, 4}
        OBVIOUS
      <4>2. CASE c \in Elements(queue)
        <5>1. c \notin Reported /\ c \notin delivered /\ c \notin failed
          BY <1>1, <4>2 DEF ProducerInv, Places
        <5>2. in(c) = {1}
          BY <4>1, <4>2, <5>1
        <5> QED
          BY <5>2, <4>1
      <4>3. CASE c \in Reported
        <5>1. c \notin Elements(queue) /\ c \notin delivered /\ c \notin failed
          BY <1>1, <4>3 DEF ProducerInv, Places
        <5>2. in(c) = {2}
          BY <4>1, <4>3, <5>1
        <5> QED
          BY <5>2, <4>1
      <4>4. CASE c \in delivered
        <5>1. c \notin Elements(queue) /\ c \notin Reported /\ c \notin failed
          BY <1>1, <4>4 DEF ProducerInv, Places
        <5>2. in(c) = {3}
          BY <4>1, <4>4, <5>1
        <5> QED
          BY <5>2, <4>1
      <4>5. CASE c \in failed
        <5>1. c \notin Elements(queue) /\ c \notin Reported /\ c \notin delivered
          BY <1>1, <4>5 DEF ProducerInv, Places
        <5>2. in(c) = {4}
          BY <4>1, <4>5, <5>1
        <5> QED
          BY <5>2, <4>1
      <4> QED
        BY <3>1, <4>2, <4>3, <4>4, <4>5
    <3> HIDE DEF in
    <3> QED
      BY <3>2, FS_Singleton
  <2>2. delivered \subseteq Elements(sent)
    BY <1>1 DEF ProducerInv, Places
  <2> QED
    BY <2>1, <2>2 DEF MessageHasOnePlace, Reported
<1> QED
  BY <1>1, InvariantHolds, PTL

\* A thread's step is one of the contract or does not concern it.
LEMMA ContractStep ==
    ASSUME ProducerInv, [Next]_vars
    PROVE  [Contract!Next]_Contract!vars
<1> USE DEF threadVars, clientVars, histVars
<1>0. /\ results \in Seq(Refusals \cup {"ENQUEUED", "pending"}) /\ Len(results) \in Nat
      /\ accepted \in Seq(Calls) /\ DOMAIN accepted = 1 .. Len(accepted)
  BY DEF ProducerInv, TypeOK
<1>1. \A c : Contract!In(c, accepted) <=> c \in Elements(accepted)
  BY <1>0 DEF Contract!In, Elements
<1>2. ASSUME NEW t \in Threads, pc[t] \in Busy
      PROVE  call[t] \in 1 .. Len(results) /\ results[call[t]] = "pending" /\ Caller(t)
  BY <1>2 DEF ProducerInv, Callers, Caller
<1>3. ASSUME NEW t \in Threads, SubmitAccepted(t) PROVE Contract!Accept(call[t])
  <2>1. /\ pc[t] = "submit" /\ accepted' = Append(accepted, call[t])
        /\ UNCHANGED <<results, sent>>
    BY <1>3 DEF SubmitAccepted, At
  <2>2. results[call[t]] = "pending" /\ call[t] \notin Elements(accepted)
    BY <1>2, <2>1 DEF Busy, Caller
  <2> QED
    BY <1>1, <2>1, <2>2 DEF Contract!Accept
<1>4. ASSUME NEW t \in Threads, PollReturns(t) PROVE Contract!Answer(call[t])
  <2>1. /\ pc[t] = "poll" /\ results' = [results EXCEPT ![call[t]] = result[t]]
        /\ UNCHANGED <<accepted, sent>>
    BY <1>4 DEF PollReturns, At
  <2>2. /\ results[call[t]] = "pending"
        /\ IF call[t] \in Elements(accepted)
           THEN result[t] = "ENQUEUED" ELSE result[t] \in Failures
    BY <1>2, <2>1 DEF Busy, Caller
  <2> QED
    BY <1>1, <2>1, <2>2 DEF Contract!Answer
<1>5. CASE \E t \in Threads : Step(t)
  <2> PICK t \in Threads : Step(t)
    BY <1>5
  <2>1. CASE SubmitAccepted(t)
    BY <2>1, <1>2, <1>3 DEF SubmitAccepted, At, Busy, Contract!Next
  <2>2. CASE PollReturns(t)
    BY <2>2, <1>2, <1>4 DEF PollReturns, At, Busy, Contract!Next
  <2>3. CASE SubmitFull(t) \/ SubmitFails(t) \/ PollFull(t)
    BY <2>3 DEF SubmitFull, SubmitFails, PollFull, Contract!vars
  <2> QED
    BY <2>1, <2>2, <2>3 DEF Step
<1>6. CASE \E t \in Threads, payload \in Payloads, key \in Keys :
             Reject(t, payload, key) \/ Encode(t, payload, key)
  <2>1. /\ \E r \in Rejections \cup {"pending"} : results' = Append(results, r)
        /\ UNCHANGED <<accepted, sent>>
    BY <1>6 DEF Reject, Encode, Encoding, Rejections
  <2> QED
    BY <2>1 DEF Contract!Begin, Contract!Next
<1>7. CASE Transmit
  <2>1. PICK k \in 1 .. Len(accepted) :
           /\ \A j \in 1 .. Len(sent) : \E l \in 1 .. k - 1 : accepted[l] = sent[j]
           /\ sent' = Append(sent, accepted[k])
    BY <1>7, TransmitKeeps DEF ProducerInv
  <2>2. Contract!Transmit(k)
    BY <1>7, <2>1 DEF Transmit, Contract!Transmit
  <2> QED
    BY <2>2 DEF Contract!Next
<1>8. CASE \/ \E t \in Threads :
                Flush(t) \/ FlushServes(t) \/ FlushReturns(t) \/ FlushTimesOut(t)
           \/ Acknowledged \/ GivenUp \/ Exit \/ UNCHANGED vars
  BY <1>8 DEF Flush, FlushServes, FlushReturns, FlushTimesOut, Acknowledged, GivenUp,
              Exit, vars, Contract!vars
<1> QED
  BY <1>5, <1>6, <1>7, <1>8 DEF Next

\* Every call is answered once and truthfully, and the topic gets accepted
\* messages only, each at most once and in their order (producer.py:45-49, 58-76).
THEOREM Implements == Spec => ImplementsProduceContract
<1>1. Init => Contract!Init
  BY DEF Init, Contract!Init
<1>2. ProducerInv /\ [Next]_vars => [Contract!Next]_Contract!vars
  BY ContractStep
<1> QED
  BY <1>1, <1>2, InvariantHolds, PTL DEF Spec, ImplementsProduceContract, Contract!Spec

-----------------------------------------------------------------------------
(* What callers and readers of the topic get from the contract             *)

ContractInv == Contract!AnswersAreTrue /\ Contract!SentOnceInOrder

\* What the steps of the contract need to know of the sequences.
LEMMA ContractFacts ==
    ASSUME ProducerInv
    PROVE  /\ results \in Seq(Refusals \cup {"ENQUEUED", "pending"})
           /\ accepted \in Seq(Calls) /\ sent \in Seq(Calls)
           /\ DOMAIN results = 1 .. Len(results) /\ Len(results) \in Nat
           /\ DOMAIN accepted = 1 .. Len(accepted) /\ Len(accepted) \in Nat
           /\ DOMAIN sent = 1 .. Len(sent) /\ Len(sent) \in Nat
           /\ \A i \in DOMAIN accepted : accepted[i] \in DOMAIN results
           /\ \A c : Contract!In(c, sent) => Contract!In(c, accepted)
<1>1. /\ results \in Seq(Refusals \cup {"ENQUEUED", "pending"})
      /\ accepted \in Seq(Calls) /\ sent \in Seq(Calls)
  BY DEF ProducerInv, TypeOK
<1>2. /\ \A c : Contract!In(c, sent) <=> c \in Elements(sent)
      /\ \A c : Contract!In(c, accepted) <=> c \in Elements(accepted)
  BY <1>1 DEF Contract!In, Elements
<1>3. Elements(accepted) \subseteq 1 .. Len(results) /\ Elements(sent) \subseteq Elements(accepted)
  BY DEF ProducerInv, Callers, Order
<1>4. \A i \in DOMAIN accepted : accepted[i] \in 1 .. Len(results)
  BY <1>3 DEF Elements
<1>5. \A c : Contract!In(c, sent) => Contract!In(c, accepted)
  BY <1>2, <1>3
<1>6. /\ DOMAIN results = 1 .. Len(results) /\ Len(results) \in Nat
      /\ DOMAIN accepted = 1 .. Len(accepted) /\ Len(accepted) \in Nat
      /\ DOMAIN sent = 1 .. Len(sent) /\ Len(sent) \in Nat
  BY <1>1
<1> QED
  BY <1>1, <1>4, <1>5, <1>6

LEMMA BeginKeeps ==
    ASSUME ProducerInv, ContractInv, Contract!Begin
    PROVE  ContractInv'
<1> USE ContractFacts
<1>1. PICK r \in Rejections \cup {"pending"} : results' = Append(results, r)
  BY DEF Contract!Begin
<1>2. accepted' = accepted /\ sent' = sent
  BY DEF Contract!Begin
<1>3. /\ DOMAIN results' = 1 .. Len(results) + 1
      /\ \A c \in DOMAIN results : results'[c] = results[c]
      /\ results'[Len(results) + 1] = r
  BY <1>1
<1>4. r # "ENQUEUED"
  BY DEF Refusals, Rejections, Failures
<1>5. ~Contract!In(Len(results) + 1, accepted)
  BY DEF Contract!In
<1>6. ASSUME NEW c \in DOMAIN results'
      PROVE  /\ results'[c] = "ENQUEUED" => Contract!In(c, accepted)
             /\ results'[c] \in Rejections \cup Failures => ~Contract!In(c, accepted) /\ ~Contract!In(c, sent)
  <2>1. CASE c \in DOMAIN results
    BY <1>3, <2>1 DEF ContractInv, Contract!AnswersAreTrue
  <2>2. CASE c = Len(results) + 1
    BY <1>3, <1>4, <1>5, <2>2
  <2> QED
    BY <1>3, <2>1, <2>2
<1>7. Contract!AnswersAreTrue'
  BY <1>2, <1>6 DEF Contract!AnswersAreTrue, Contract!In
<1>8. Contract!SentOnceInOrder'
  BY <1>2 DEF ContractInv, Contract!SentOnceInOrder
<1> QED
  BY <1>7, <1>8 DEF ContractInv

LEMMA AcceptKeepsContract ==
    ASSUME ProducerInv, ContractInv, NEW c \in 1 .. Len(results), Contract!Accept(c)
    PROVE  ContractInv'
<1> USE ContractFacts
<1>1. /\ results[c] = "pending" /\ ~Contract!In(c, accepted)
      /\ accepted' = Append(accepted, c) /\ results' = results /\ sent' = sent
  BY DEF Contract!Accept
<1>2. /\ DOMAIN accepted' = 1 .. Len(accepted) + 1
      /\ \A i \in DOMAIN accepted : accepted'[i] = accepted[i]
      /\ accepted'[Len(accepted) + 1] = c
  BY <1>1
<1>3. Len(accepted') = Len(accepted) + 1
  BY <1>1
<1>4. \A d : Contract!In(d, accepted) => Contract!In(d, accepted')
  BY <1>2, <1>3 DEF Contract!In
<1>5. \A d : d # c /\ Contract!In(d, accepted') => Contract!In(d, accepted)
  BY <1>2, <1>3 DEF Contract!In
<1>6. "pending" \notin Rejections \cup Failures
  BY DEF Refusals, Rejections, Failures
<1>7. Contract!AnswersAreTrue'
  <2>1. ASSUME NEW d \in DOMAIN results
        PROVE  /\ results[d] = "ENQUEUED" => Contract!In(d, accepted')
               /\ results[d] \in Rejections \cup Failures => ~Contract!In(d, accepted') /\ ~Contract!In(d, sent)
    BY <1>1, <1>4, <1>5, <1>6 DEF ContractInv, Contract!AnswersAreTrue
  <2>2. \A d : Contract!In(d, accepted)' <=> Contract!In(d, accepted')
    BY DEF Contract!In
  <2>3. \A d : Contract!In(d, sent)' <=> Contract!In(d, sent)
    BY <1>1 DEF Contract!In
  <2> QED
    BY <1>1, <2>1, <2>2, <2>3 DEF Contract!AnswersAreTrue
<1>8. \A i, j \in DOMAIN accepted' : accepted'[i] = accepted'[j] => i = j
  <2>1. \A i \in DOMAIN accepted : accepted[i] # c
    BY <1>1 DEF Contract!In
  <2>2. \A i, j \in DOMAIN accepted : accepted[i] = accepted[j] => i = j
    BY DEF ContractInv, Contract!SentOnceInOrder
  <2>3. \A i \in DOMAIN accepted' : i \in DOMAIN accepted \/ i = Len(accepted) + 1
    BY <1>2
  <2> QED
    <3> SUFFICES ASSUME NEW i \in DOMAIN accepted', NEW j \in DOMAIN accepted',
                        accepted'[i] = accepted'[j]
                 PROVE  i = j
      OBVIOUS
    <3>1. CASE i \in DOMAIN accepted /\ j \in DOMAIN accepted
      BY <3>1, <1>2, <2>2
    <3>2. CASE i = Len(accepted) + 1 \/ j = Len(accepted) + 1
      BY <3>2, <1>2, <2>1, <2>3
    <3> QED
      BY <2>3, <3>1, <3>2
<1>9. PICK at \in [DOMAIN sent -> DOMAIN accepted] :
         /\ \A j \in DOMAIN sent : sent[j] = accepted[at[j]]
         /\ \A i, j \in DOMAIN sent : i < j => at[i] < at[j]
  BY DEF ContractInv, Contract!SentOnceInOrder
<1>10. /\ at \in [DOMAIN sent' -> DOMAIN accepted']
       /\ \A j \in DOMAIN sent' : sent'[j] = accepted'[at[j]]
       /\ \A i, j \in DOMAIN sent' : i < j => at[i] < at[j]
  BY <1>1, <1>2, <1>9
<1> QED
  BY <1>7, <1>8, <1>10 DEF ContractInv, Contract!SentOnceInOrder

LEMMA AnswerKeeps ==
    ASSUME ProducerInv, ContractInv, NEW c \in 1 .. Len(results), Contract!Answer(c)
    PROVE  ContractInv'
<1> USE ContractFacts
<1>1. PICK r \in IF Contract!In(c, accepted) THEN {"ENQUEUED"} ELSE Failures :
         results' = [results EXCEPT ![c] = r]
  BY DEF Contract!Answer
<1>2. accepted' = accepted /\ sent' = sent
  BY DEF Contract!Answer
<1>3. "ENQUEUED" \notin Rejections \cup Failures
  BY DEF Refusals, Rejections, Failures
<1>4. ASSUME NEW d \in DOMAIN results'
      PROVE  /\ results'[d] = "ENQUEUED" => Contract!In(d, accepted)
             /\ results'[d] \in Rejections \cup Failures => ~Contract!In(d, accepted) /\ ~Contract!In(d, sent)
  BY <1>1, <1>3 DEF ContractInv, Contract!AnswersAreTrue
<1>5. Contract!AnswersAreTrue'
  BY <1>2, <1>4 DEF Contract!AnswersAreTrue, Contract!In
<1>6. Contract!SentOnceInOrder'
  BY <1>2 DEF ContractInv, Contract!SentOnceInOrder
<1> QED
  BY <1>5, <1>6 DEF ContractInv

LEMMA TransmitKeepsContract ==
    ASSUME ProducerInv, ContractInv, NEW k \in 1 .. Len(accepted), Contract!Transmit(k)
    PROVE  ContractInv'
<1> USE ContractFacts
<1>1. /\ \A j \in 1 .. Len(sent) : \E l \in 1 .. k - 1 : accepted[l] = sent[j]
      /\ sent' = Append(sent, accepted[k]) /\ results' = results /\ accepted' = accepted
  BY DEF Contract!Transmit
<1>2. /\ DOMAIN sent' = 1 .. Len(sent) + 1
      /\ \A j \in DOMAIN sent : sent'[j] = sent[j]
      /\ sent'[Len(sent) + 1] = accepted[k]
      /\ Len(sent') = Len(sent) + 1
  BY <1>1
<1>3. Contract!AnswersAreTrue'
  <2>1. ASSUME NEW d, Contract!In(d, sent') PROVE Contract!In(d, accepted)
    <3>1. PICK j \in 1 .. Len(sent) + 1 : sent'[j] = d
      BY <1>2, <2>1 DEF Contract!In
    <3>2. CASE j = Len(sent) + 1
      BY <1>2, <3>1, <3>2 DEF Contract!In
    <3>3. CASE j \in 1 .. Len(sent)
      BY <1>2, <3>1, <3>3 DEF Contract!In
    <3>4. Len(sent) \in Nat => j = Len(sent) + 1 \/ j \in 1 .. Len(sent)
      BY <3>1
    <3> QED
      BY <3>2, <3>3, <3>4
  <2>2. /\ \A d : Contract!In(d, sent)' <=> Contract!In(d, sent')
        /\ \A d : Contract!In(d, accepted)' <=> Contract!In(d, accepted)
    BY <1>1 DEF Contract!In
  <2> QED
    BY <1>1, <2>1, <2>2 DEF ContractInv, Contract!AnswersAreTrue
<1>4. \A i, j \in DOMAIN accepted : accepted[i] = accepted[j] => i = j
  BY DEF ContractInv, Contract!SentOnceInOrder
<1>5. PICK at \in [DOMAIN sent -> DOMAIN accepted] :
         /\ \A j \in DOMAIN sent : sent[j] = accepted[at[j]]
         /\ \A i, j \in DOMAIN sent : i < j => at[i] < at[j]
  BY DEF ContractInv, Contract!SentOnceInOrder
<1>6. ASSUME NEW j \in DOMAIN sent PROVE at[j] < k
  <2>1. PICK l \in 1 .. k - 1 : accepted[l] = sent[j]
    BY <1>1
  <2>2. at[j] \in DOMAIN accepted /\ l \in DOMAIN accepted
    BY <1>5, <2>1
  <2>3. accepted[at[j]] = accepted[l]
    BY <1>5, <2>1
  <2>4. at[j] = l
    BY <1>4, <2>2, <2>3
  <2> QED
    BY <2>1, <2>4
<1> DEFINE next == [j \in 1 .. Len(sent) + 1 |-> IF j = Len(sent) + 1 THEN k ELSE at[j]]
<1>7. /\ next \in [DOMAIN sent' -> DOMAIN accepted']
      /\ \A j \in DOMAIN sent' : sent'[j] = accepted'[next[j]]
      /\ \A i, j \in DOMAIN sent' : i < j => next[i] < next[j]
  <2>1. \A j \in DOMAIN sent' : j \in DOMAIN sent \/ j = Len(sent) + 1
    BY <1>2
  <2>2. ASSUME NEW j \in DOMAIN sent PROVE next[j] = at[j] /\ at[j] \in DOMAIN accepted
    BY <1>5
  <2>3. next[Len(sent) + 1] = k
    OBVIOUS
  <2>4. next \in [DOMAIN sent' -> DOMAIN accepted']
    BY <1>1, <1>2, <1>5
  <2> HIDE DEF next
  <2>5. ASSUME NEW j \in DOMAIN sent' PROVE sent'[j] = accepted'[next[j]]
    BY <1>1, <1>2, <1>5, <2>1, <2>2, <2>3
  <2>6. ASSUME NEW i \in DOMAIN sent', NEW j \in DOMAIN sent', i < j
        PROVE  next[i] < next[j]
    <3>1. i \in DOMAIN sent
      BY <1>2, <2>6
    <3> QED
      BY <1>5, <1>6, <2>1, <2>2, <2>3, <2>6, <3>1
  <2> QED
    BY <2>4, <2>5, <2>6
<1> HIDE DEF next
<1>8. Contract!SentOnceInOrder'
  BY <1>1, <1>4, <1>7 DEF Contract!SentOnceInOrder
<1> QED
  BY <1>3, <1>8 DEF ContractInv

LEMMA ContractInvHolds == Spec => []ContractInv
<1>1. Init => ContractInv
  <2> SUFFICES ASSUME Init PROVE ContractInv
    OBVIOUS
  <2>1. results = <<>> /\ accepted = <<>> /\ sent = <<>>
    BY DEF Init
  <2>2. <<>> \in [DOMAIN <<>> -> DOMAIN <<>>] /\ DOMAIN <<>> = {}
    OBVIOUS
  <2> QED
    BY <2>1, <2>2 DEF ContractInv, Contract!AnswersAreTrue, Contract!SentOnceInOrder
<1>2. ASSUME ProducerInv, ContractInv, [Contract!Next]_Contract!vars
      PROVE  ContractInv'
  <2>1. CASE UNCHANGED Contract!vars
    <3>1. results' = results /\ accepted' = accepted /\ sent' = sent
      BY <2>1 DEF Contract!vars
    <3>2. Contract!AnswersAreTrue'
      BY <1>2, <3>1 DEF ContractInv, Contract!AnswersAreTrue, Contract!In
    <3>3. Contract!SentOnceInOrder'
      BY <1>2, <3>1 DEF ContractInv, Contract!SentOnceInOrder
    <3> QED
      BY <3>2, <3>3 DEF ContractInv
  <2> QED
    BY <1>2, <2>1, BeginKeeps, AcceptKeepsContract, AnswerKeeps, TransmitKeepsContract
       DEF Contract!Next
<1>3. ProducerInv /\ ContractInv /\ [Next]_vars => ContractInv'
  BY <1>2, ContractStep
<1> QED
  BY <1>1, <1>3, InvariantHolds, PTL DEF Spec

\* A caller can rely on the answer: ENQUEUED is said of an accepted message only,
\* and what was refused never reaches the topic (producer.py:45-49, 58-72).
THEOREM AnswersAreTruthful == Spec => []Contract!AnswersAreTrue
<1>1. ContractInv => Contract!AnswersAreTrue
  BY DEF ContractInv
<1> QED
  BY <1>1, ContractInvHolds, PTL

\* The topic gets accepted messages, each at most once and in the order they were
\* accepted, however the threads interleave (producer.py:58-62).
THEOREM SentOnceAndInOrder == Spec => []Contract!SentOnceInOrder
<1>1. ContractInv => Contract!SentOnceInOrder
  BY DEF ContractInv
<1> QED
  BY <1>1, ContractInvHolds, PTL

\* An answer is given once and stays (producer.py:76).
THEOREM AnswersStay == Spec => Contract!AnswersAreFinal
<1> DEFINE Final == \A c \in DOMAIN results :
                       /\ c \in DOMAIN results'
                       /\ results[c] # "pending" => results'[c] = results[c]
<1>1. ASSUME ProducerInv, [Contract!Next]_Contract!vars PROVE Final
  <2> USE ContractFacts
  <2>1. CASE Contract!Begin
    BY <1>1, <2>1 DEF Contract!Begin
  <2>2. ASSUME NEW c \in 1 .. Len(results), Contract!Answer(c) PROVE Final
    BY <1>1, <2>2 DEF Contract!Answer
  <2>3. CASE results' = results
    BY <2>3
  <2> QED
    BY <1>1, <2>1, <2>2, <2>3 DEF Contract!Next, Contract!vars, Contract!Accept,
       Contract!Transmit
<1>2. ProducerInv /\ [Next]_vars => [Final]_Contract!vars
  BY <1>1, ContractStep
<1> QED
  BY <1>2, InvariantHolds, PTL DEF Spec, Contract!AnswersAreFinal

-----------------------------------------------------------------------------
(* The counter of dropped messages                                         *)

Full == {c \in DOMAIN results : results[c] = "BUFFER_FULL"}

AboutToBeFull ==
    {t \in Threads : \/ pc[t] = "full"
                     \/ pc[t] = "poll" /\ result[t] = "BUFFER_FULL"}

LEMMA FiniteCounts ==
    ASSUME ProducerInv
    PROVE  IsFiniteSet(Full) /\ IsFiniteSet(AboutToBeFull)
<1>1. DOMAIN results = 1 .. Len(results) /\ Len(results) \in Nat
  BY DEF ProducerInv, TypeOK
<1>2. IsFiniteSet(1 .. Len(results))
  BY <1>1, FS_Interval
<1>3. Full \subseteq 1 .. Len(results) /\ AboutToBeFull \subseteq Threads
  BY <1>1 DEF Full, AboutToBeFull
<1> QED
  BY <1>2, <1>3, FS_Subset, ProducerAssumption

\* A call that found the queue full is counted once, when it is refused; on its
\* return it moves from one set to the other.
LEMMA CountStep ==
    ASSUME ProducerInv, DroppedIsBufferFull, [Next]_vars
    PROVE  DroppedIsBufferFull'
<1> USE DEF threadVars, clientVars, histVars
<1>0. /\ results \in Seq(Refusals \cup {"ENQUEUED", "pending"}) /\ Len(results) \in Nat
      /\ DOMAIN results = 1 .. Len(results)
  BY DEF ProducerInv, TypeOK
<1>a. IsFiniteSet(Full) /\ IsFiniteSet(AboutToBeFull)
  BY FiniteCounts
<1>b. /\ Cardinality(Full) \in Nat /\ Cardinality(AboutToBeFull) \in Nat
      /\ dropped = Cardinality(Full) + Cardinality(AboutToBeFull)
  BY <1>a, FS_CardinalityType DEF DroppedIsBufferFull, Full, AboutToBeFull
<1>c. SUFFICES dropped' = Cardinality(Full') + Cardinality(AboutToBeFull')
  BY DEF DroppedIsBufferFull, Full, AboutToBeFull
<1>d. pc \in [Threads -> {"idle", "submit", "full", "poll", "flush"}]
      /\ result \in [Threads -> Failures \cup {"ENQUEUED", "none"}]
  BY DEF ProducerInv, TypeOK
<1>1. CASE \E t \in Threads : SubmitFull(t)
  <2> PICK t \in Threads : SubmitFull(t)
    BY <1>1
  <2>1. /\ pc[t] = "submit" /\ pc' = [pc EXCEPT ![t] = "full"]
        /\ dropped' = dropped + 1 /\ UNCHANGED <<result, results>>
    BY DEF SubmitFull, At, Goto
  <2>2. t \notin AboutToBeFull /\ AboutToBeFull' = AboutToBeFull \cup {t}
    BY <1>d, <2>1 DEF AboutToBeFull
  <2>3. Full' = Full
    BY <2>1 DEF Full
  <2>4. Cardinality(AboutToBeFull') = Cardinality(AboutToBeFull) + 1
    BY <1>a, <2>2, FS_AddElement
  <2> QED
    BY <1>b, <2>1, <2>3, <2>4
<1>2. CASE \E t \in Threads : PollReturns(t)
  <2> PICK t \in Threads : PollReturns(t)
    BY <1>2
  <2>1. /\ pc[t] = "poll" /\ pc' = [pc EXCEPT ![t] = "idle"]
        /\ results' = [results EXCEPT ![call[t]] = result[t]]
        /\ UNCHANGED <<result, dropped>>
    BY DEF PollReturns, At, Goto
  <2>2. call[t] \in 1 .. Len(results) /\ results[call[t]] = "pending"
    BY <2>1 DEF ProducerInv, Callers, Caller, Busy
  <2>3. DOMAIN results' = 1 .. Len(results)
    BY <1>0, <2>1
  <2>4. CASE result[t] = "BUFFER_FULL"
    <3>1. t \in AboutToBeFull /\ AboutToBeFull' = AboutToBeFull \ {t}
      BY <1>d, <2>1, <2>4 DEF AboutToBeFull
    <3>2. call[t] \notin Full /\ Full' = Full \cup {call[t]}
      BY <1>0, <2>1, <2>2, <2>3, <2>4 DEF Full
    <3>3. Cardinality(AboutToBeFull') = Cardinality(AboutToBeFull) - 1
      BY <1>a, <3>1, FS_RemoveElement
    <3>4. Cardinality(Full') = Cardinality(Full) + 1
      BY <1>a, <3>2, FS_AddElement
    <3> QED
      BY <1>b, <2>1, <3>3, <3>4
  <2>5. CASE result[t] # "BUFFER_FULL"
    <3>1. AboutToBeFull' = AboutToBeFull
      BY <1>d, <2>1, <2>5 DEF AboutToBeFull
    <3>2. Full' = Full
      BY <1>0, <2>1, <2>2, <2>3, <2>5 DEF Full
    <3> QED
      BY <1>b, <2>1, <3>1, <3>2
  <2> QED
    BY <2>4, <2>5
<1>3. CASE \E t \in Threads : SubmitAccepted(t) \/ SubmitFails(t) \/ PollFull(t)
  <2> PICK t \in Threads : SubmitAccepted(t) \/ SubmitFails(t) \/ PollFull(t)
    BY <1>3
  <2>1. UNCHANGED <<results, dropped>>
    BY DEF SubmitAccepted, SubmitFails, PollFull
  <2>2. AboutToBeFull' = AboutToBeFull
    <3>1. pc' = [pc EXCEPT ![t] = "poll"]
      BY DEF SubmitAccepted, SubmitFails, PollFull, Goto
    <3>2. CASE PollFull(t)
      BY <1>d, <3>1, <3>2 DEF PollFull, At, AboutToBeFull
    <3>3. CASE SubmitAccepted(t)
      BY <1>d, <3>1, <3>3 DEF SubmitAccepted, At, AboutToBeFull
    <3>4. CASE SubmitFails(t)
      BY <1>d, <3>1, <3>4 DEF SubmitFails, At, AboutToBeFull
    <3> QED
      BY <3>2, <3>3, <3>4
  <2>3. Full' = Full
    BY <2>1 DEF Full
  <2> QED
    BY <1>b, <2>1, <2>2, <2>3
<1>4. CASE \E t \in Threads, payload \in Payloads, key \in Keys :
             Reject(t, payload, key) \/ Encode(t, payload, key)
  <2> PICK t \in Threads, payload \in Payloads, key \in Keys :
             Reject(t, payload, key) \/ Encode(t, payload, key)
    BY <1>4
  <2>1. /\ \E r \in {"SERIALIZATION_FAILED", "raised", "pending"} :
              results' = Append(results, r)
        /\ UNCHANGED <<result, dropped>>
    BY DEF Reject, Encode, Encoding
  <2>2. PICK r \in {"SERIALIZATION_FAILED", "raised", "pending"} :
              results' = Append(results, r)
    BY <2>1
  <2>3. /\ DOMAIN results' = 1 .. Len(results) + 1 /\ results'[Len(results) + 1] = r
        /\ \A c \in 1 .. Len(results) : results'[c] = results[c]
    BY <1>0, <2>2 DEF Refusals
  <2>4. Full' = Full
    BY <1>0, <2>3 DEF Full
  <2>5. AboutToBeFull' = AboutToBeFull
    <3>1. \/ pc' = pc
          \/ pc[t] = "idle" /\ pc' = [pc EXCEPT ![t] = "submit"]
      BY DEF Reject, Encode, At, Goto
    <3> QED
      BY <1>d, <2>1, <3>1 DEF AboutToBeFull
  <2> QED
    BY <1>b, <2>1, <2>4, <2>5
<1>5. CASE \E t \in Threads :
             Flush(t) \/ FlushServes(t) \/ FlushReturns(t) \/ FlushTimesOut(t)
  <2> PICK t \in Threads :
             Flush(t) \/ FlushServes(t) \/ FlushReturns(t) \/ FlushTimesOut(t)
    BY <1>5
  <2>1. /\ UNCHANGED <<result, results, dropped>>
        /\ \/ pc' = pc
           \/ pc[t] = "idle" /\ pc' = [pc EXCEPT ![t] = "flush"]
           \/ pc[t] = "flush" /\ pc' = [pc EXCEPT ![t] = "idle"]
    BY DEF Flush, FlushServes, FlushReturns, FlushTimesOut, At, Goto
  <2>2. AboutToBeFull' = AboutToBeFull
    BY <1>d, <2>1 DEF AboutToBeFull
  <2> QED
    BY <1>b, <2>1, <2>2 DEF Full
<1>6. CASE Transmit \/ Acknowledged \/ GivenUp \/ Exit \/ UNCHANGED vars
  <2>1. UNCHANGED <<pc, result, results, dropped>>
    BY <1>6 DEF Transmit, Acknowledged, GivenUp, Exit, vars
  <2> QED
    BY <1>b, <2>1 DEF Full, AboutToBeFull
<1> QED
  BY <1>1, <1>2, <1>3, <1>4, <1>5, <1>6 DEF Next, Step

\* The log line of a full buffer counts exactly the calls answered, or about to be
\* answered, BUFFER_FULL (producer.py:66-69), in any interleaving of callers.
THEOREM DropsAreCounted == Spec => []DroppedIsBufferFull
<1>1. Init => DroppedIsBufferFull
  <2> SUFFICES ASSUME Init PROVE DroppedIsBufferFull
    OBVIOUS
  <2>1. Full = {} /\ AboutToBeFull = {} /\ dropped = 0
    BY DEF Init, Full, AboutToBeFull
  <2> QED
    BY <2>1, FS_EmptySet DEF DroppedIsBufferFull, Full, AboutToBeFull
<1>2. ProducerInv /\ DroppedIsBufferFull /\ [Next]_vars => DroppedIsBufferFull'
  BY CountStep
<1> QED
  BY <1>1, <1>2, InvariantHolds, PTL DEF Spec

=============================================================================
