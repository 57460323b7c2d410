------------------------ MODULE DeliveryContractProofs ------------------------
(***************************************************************************)
(* What follows from the contract alone, whoever implements it.            *)
(***************************************************************************)
EXTENDS DeliveryContract, TLAPS

IInv == TypeOK /\ CommittedSettled

LEMMA NextInv ==
    ASSUME IInv, [Next]_vars
    PROVE  IInv' /\ \A p \in Partitions : committed[p] <= committed'[p]
<1> USE DEF IInv, TypeOK, CommittedSettled, Offsets
<1>1. CASE UNCHANGED vars
  BY <1>1 DEF vars
<1>2. CASE Settle
  <2>1. Existing \subseteq Offsets
    BY DEF Existing
  <2> QED
    BY <1>2, <2>1 DEF Settle
<1>3. ASSUME NEW p \in Partitions, Publish(p)
      PROVE IInv' /\ \A q \in Partitions : committed[q] <= committed'[q]
  BY <1>3 DEF Publish
<1>4. ASSUME NEW p \in Partitions, Commit(p)
      PROVE IInv' /\ \A q \in Partitions : committed[q] <= committed'[q]
  <2>1. PICK o \in 1 .. Len(log[p]) :
           /\ committed[p] < o
           /\ \A q \in committed[p] .. o - 1 : <<p, q>> \in settled
           /\ committed' = [committed EXCEPT ![p] = o]
    BY <1>4 DEF Commit
  <2>2. log' = log /\ settled' = settled
    BY <1>4 DEF Commit
  <2>3. committed[p] \in Nat /\ o \in Nat
    BY <2>1
  <2>4. committed' \in [Partitions -> Nat]
    BY <2>1, <2>3
  <2>5. \A q \in Partitions : committed[q] <= committed'[q]
    BY <2>1, <2>3
  <2>6. ASSUME NEW q \in Partitions, NEW i \in 0 .. committed'[q] - 1
        PROVE  <<q, i>> \in settled
    <3>1. CASE q = p /\ ~(i < committed[p])
      BY <3>1, <2>1, <2>3
    <3>2. CASE q # p \/ i < committed[p]
      BY <3>2, <2>1, <2>3, <2>4
    <3> QED
      BY <3>1, <3>2
  <2> QED
    BY <2>2, <2>4, <2>5, <2>6
<1> QED
  BY <1>1, <1>2, <1>3, <1>4 DEF Next

LEMMA InitInv == Init => IInv
BY DEF Init, IInv, TypeOK, CommittedSettled

\* Whatever lies below a committed offset has its outcome.
THEOREM ContractSettles == Spec => []CommittedSettled
<1>1. IInv /\ [Next]_vars => IInv'
  BY NextInv
<1>2. IInv => CommittedSettled
  BY DEF IInv
<1> QED
  BY <1>1, <1>2, InitInv, PTL DEF Spec

\* Committed offsets never go back.
THEOREM ContractAdvances == Spec => CommitsAdvance
<1>1. IInv /\ [Next]_vars => IInv'
  BY NextInv
<1>2. IInv /\ [Next]_vars
         => [\A p \in Partitions : committed[p] <= committed'[p]]_vars
  BY NextInv
<1> QED
  BY <1>1, <1>2, InitInv, PTL DEF Spec, CommitsAdvance

=============================================================================
