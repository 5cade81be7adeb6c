------------------------ MODULE ConcurrentArrayProofs ------------------------
(***************************************************************************)
(* Proofs about ConcurrentArray for every buffer size, every number of     *)
(* producers, consumers and products, and any number of spurious wake-ups. *)
(***************************************************************************)
EXTENDS ConcurrentArray, FiniteSetTheorems, SequenceTheorems, TLAPS

Pcs == {"start", "load", "cas", "lock", "body", "wait", "unlock", "print", "exit"}

\* The successor of an index of a cyclic range, without the modulo operator.
LEMMA Successor ==
    ASSUME NEW n \in Nat \ {0}, NEW i \in 0 .. n - 1
    PROVE  (i + 1) % n = IF i + 1 = n THEN 0 ELSE i + 1
  OBVIOUS

\* Consumers and producers partition the threads.
LEMMA ThreadKinds ==
    /\ Consumers \subseteq Threads /\ Producers \subseteq Threads
    /\ \A th \in Threads : th \in Producers <=> th \notin Consumers
    /\ Threads \subseteq Nat /\ NULL \notin Threads
    /\ NULL \notin Products /\ 0 \in Slots /\ 0 \in Threads
  BY SizeAssumption, ThreadAssumption, NullAssumption
  DEF Consumers, Producers, Threads, ThreadNum, Products, Slots

\* main's loop index runs through the threads and wraps to 0 after the last.
LEMMA NextThread ==
    ASSUME NEW i \in Threads
    PROVE  /\ (i + 1) % ThreadNum = IF i + 1 = ThreadNum THEN 0 ELSE i + 1
           /\ (i + 1) % ThreadNum \in Threads
           /\ i \in Nat
  <1>1. ThreadNum \in Nat \ {0} /\ i \in 0 .. ThreadNum - 1
    BY ThreadAssumption DEF ThreadNum, Threads
  <1> QED
    BY <1>1, Successor DEF Threads

\* What pthread_cond_signal and the fall through to the unlock do to the
\* control points: th is at its unlock, some waiter may want the mutex again,
\* every other thread stays where it is.
LEMMA SignalEffect ==
    ASSUME pc \in [Threads -> Pcs], NEW th \in Threads, pc[th] = "body",
           NEW others \in SUBSET Threads, SignalOne(th, others)
    PROVE  /\ pc' \in [Threads -> Pcs]
           /\ pc'[th] = "unlock"
           /\ \A x \in Threads \ {th} :
                 \/ pc'[x] = pc[x]
                 \/ x \in others /\ pc[x] = "wait" /\ pc'[x] = "lock"
  <1> DEFINE waiters == {w \in others : pc[w] = "wait"}
  <1>1. CASE waiters = {}
    BY <1>1 DEF SignalOne, Pcs
  <1>2. CASE waiters # {}
    <2>1. PICK w \in waiters : pc' = [pc EXCEPT ![th] = "unlock", ![w] = "lock"]
      BY <1>2 DEF SignalOne
    <2>2. w \in Threads /\ w # th /\ pc[w] = "wait" /\ w \in others
      OBVIOUS
    <2> QED
      BY <2>1, <2>2 DEF Pcs
  <1> QED
    BY <1>1, <1>2

\* The empty ring, with no thread created, satisfies the invariant.
LEMMA InitInv == Init => IInv
  BY SizeAssumption, ThreadAssumption, ProductAssumption, NullAssumption, ThreadKinds
  DEF Init, IInv, TypeOK, RingInv, Occupied, MutexInv, HandInv, TicketInv,
      StartInv, Slots, Threads, ThreadNum

\* Every step of a thread and of main keeps the invariant.
LEMMA NextInv == IInv /\ [Next]_vars => IInv'
  <1> SUFFICES ASSUME IInv, [Next]_vars
               PROVE  IInv'
    OBVIOUS
  <1> USE SizeAssumption, ThreadAssumption, ProductAssumption, NullAssumption,
          ThreadKinds
  <1> USE DEF IInv, TypeOK, RingInv, Occupied, MutexInv, HandInv, TicketInv,
              StartInv, arrayVars, mainVars
  <1>1. ASSUME NEW p \in Producers, ProduceLoad(p)
        PROVE  IInv'
    BY <1>1 DEF ProduceLoad
  <1>2. ASSUME NEW p \in Producers, ProduceCas(p)
        PROVE  IInv'
    <2> USE <1>2 DEF ProduceCas
    <2>1. cnt_cache[p] \in Products /\ cnt_cache[p] + 1 \in 0 .. ProductNum
      BY DEF Products
    <2>2. TypeOK'
      BY <2>1 DEF CompareAndSwap
    <2>3. RingInv' /\ MutexInv' /\ TicketInv' /\ StartInv'
      OBVIOUS
    <2>4. HandInv'
      BY <2>1
    <2> QED
      BY <2>2, <2>3, <2>4
  <1>3. ASSUME NEW c \in Consumers, ConsumeLoad(c)
        PROVE  IInv'
    BY <1>3 DEF ConsumeLoad
  <1>4. ASSUME NEW c \in Consumers, ConsumeCas(c)
        PROVE  IInv'
    BY <1>4 DEF ConsumeCas, CompareAndSwap
  <1>5. ASSUME NEW c \in Consumers, ConsumePrint(c)
        PROVE  IInv'
    BY <1>5 DEF ConsumePrint
  <1>6. ASSUME NEW th \in Threads, Lock(th)
        PROVE  IInv'
    BY <1>6 DEF Lock
  <1>7. ASSUME NEW p \in Producers, AppendWait(p)
        PROVE  IInv'
    BY <1>7 DEF AppendWait, CondWait
  <1>8. ASSUME NEW c \in Consumers, GetWait(c)
        PROVE  IInv'
    BY <1>8 DEF GetWait, CondWait
  <1>9. ASSUME NEW th \in Threads, Unlock(th)
        PROVE  IInv'
    BY <1>9 DEF Unlock
  <1>10. ASSUME NEW th \in Threads, SpuriousWakeup(th)
        PROVE  IInv'
    BY <1>10 DEF SpuriousWakeup
  <1>11. ASSUME NEW p \in Producers, AppendPut(p)
         PROVE  IInv'
    <2> USE <1>11 DEF AppendPut
    <2>1. pindex' = IF pindex + 1 = Size THEN 0 ELSE pindex + 1
      BY Successor DEF Advance, Slots
    <2>2. p \in Threads /\ Consumers \in SUBSET Threads /\ p \notin Consumers
      OBVIOUS
    <2>3. /\ pc' \in [Threads -> Pcs] /\ pc'[p] = "unlock"
          /\ \A x \in Threads \ {p} :
                \/ pc'[x] = pc[x]
                \/ x \in Consumers /\ pc[x] = "wait" /\ pc'[x] = "lock"
      BY <2>2, SignalEffect DEF Pcs
    <2>4. buff[pindex] = NULL /\ t[p] # NULL /\ t[p] \in Products
      BY <2>2 DEF is_full, Slots
    <2>5. TypeOK'
      <3>1. buff' \in [Slots -> Products \cup {NULL}] /\ t' \in [Threads -> Products \cup {NULL}]
        BY <2>2, <2>4
      <3>2. pindex' \in Slots
        BY <2>1 DEF Slots
      <3> QED
        BY <2>3, <3>1, <3>2 DEF Pcs
    <2>6. RingInv'
      BY <2>1, <2>4 DEF Slots
    <2>7. MutexInv' /\ HandInv' /\ TicketInv' /\ StartInv'
      BY <2>2, <2>3, <2>5
    <2> QED
      BY <2>5, <2>6, <2>7
  <1>12. ASSUME NEW c \in Consumers, GetTake(c)
         PROVE  IInv'
    <2> USE <1>12 DEF GetTake
    <2>1. cindex' = IF cindex + 1 = Size THEN 0 ELSE cindex + 1
      BY Successor DEF Advance, Slots
    <2>2. c \in Threads /\ Producers \in SUBSET Threads /\ c \notin Producers
      OBVIOUS
    <2>3. /\ pc' \in [Threads -> Pcs] /\ pc'[c] = "unlock"
          /\ \A x \in Threads \ {c} :
                \/ pc'[x] = pc[x]
                \/ x \in Producers /\ pc[x] = "wait" /\ pc'[x] = "lock"
      BY <2>2, SignalEffect DEF Pcs
    <2>4. buff[cindex] # NULL /\ buff[cindex] \in Products
      BY DEF is_empty, Slots
    <2>5. TypeOK'
      <3>1. buff' \in [Slots -> Products \cup {NULL}] /\ t' \in [Threads -> Products \cup {NULL}]
        BY <2>2, <2>4 DEF Emptied
      <3>2. cindex' \in Slots
        BY <2>1 DEF Slots
      <3> QED
        BY <2>3, <3>1, <3>2 DEF Pcs
    <2>6. RingInv'
      BY <2>1, <2>4 DEF Emptied, is_empty, Slots
    <2>7. MutexInv' /\ HandInv' /\ TicketInv' /\ StartInv'
      BY <2>2, <2>3, <2>4, <2>5
    <2> QED
      BY <2>5, <2>6, <2>7
  <1>13. CASE MainCreate
    <2>1. mi' = IF mi + 1 = ThreadNum THEN 0 ELSE mi + 1
      BY <1>13, NextThread DEF MainCreate
    <2>2. mi' \in Threads /\ (mpc' = "create" => mi' = mi + 1)
      BY <1>13, <2>1, NextThread DEF MainCreate
    <2>3. TypeOK' /\ RingInv' /\ MutexInv' /\ HandInv' /\ TicketInv'
      BY <1>13, <2>2 DEF MainCreate
    <2>4. StartInv'
      BY <1>13, <2>2, NextThread DEF MainCreate
    <2> QED
      BY <2>3, <2>4
  <1>14. CASE MainCreateFail
    BY <1>14 DEF MainCreateFail
  <1>15. CASE MainJoin
    BY <1>15, NextThread DEF MainJoin
  <1>16. CASE MainReturn
    BY <1>16 DEF MainReturn
  <1>17. CASE UNCHANGED vars
    BY <1>17 DEF vars
  <1> QED
    BY <1>1, <1>2, <1>3, <1>4, <1>5, <1>6, <1>7, <1>8, <1>9, <1>10, <1>11,
       <1>12, <1>13, <1>14, <1>15, <1>16, <1>17
    DEF Next, ThreadStep, MainStep, ProducerStep, ConsumerStep

\* The ring, the mutex and the hands are as IInv says in every state.
THEOREM Invariance == Spec => []IInv
  BY InitInv, NextInv, PTL DEF Spec

\* All variables of concurrent_array.cpp keep their type.
THEOREM TypeCorrect == Spec => []TypeOK
  <1>1. IInv => TypeOK
    BY DEF IInv
  <1> QED
    BY <1>1, Invariance, PTL

\* The tests of slot 0 in is_full and is_empty are exact for every ring size.
THEOREM FullEmptyCorrect == Spec => []FullEmptyExact
  <1>1. IInv => FullEmptyExact
    <2> SUFFICES ASSUME IInv
                 PROVE  FullEmptyExact
      OBVIOUS
    <2> USE SizeAssumption DEF IInv, TypeOK, RingInv, Occupied, is_full, is_empty, Slots
    <2>1. CASE pindex = cindex
      BY <2>1 DEF FullEmptyExact
    <2>2. CASE pindex # cindex
      <3>1. buff[pindex] = NULL /\ buff[cindex] # NULL
        BY <2>2
      <3> QED
        BY <2>2, <3>1 DEF FullEmptyExact
    <2> QED
      BY <2>1, <2>2
  <1> QED
    BY <1>1, Invariance, PTL

\* The asserts in append never fire.
THEOREM AppendAssertsHold == Spec => []AppendAsserts
  <1>1. IInv => AppendAsserts
    BY SizeAssumption
    DEF IInv, TypeOK, RingInv, Occupied, HandInv, AppendAsserts, is_full, Slots
  <1> QED
    BY <1>1, Invariance, PTL

\* No step duplicates or loses a product.
LEMMA ConservedStep == IInv /\ Conserved /\ [Next]_vars => Conserved'
  <1> SUFFICES ASSUME IInv, Conserved, [Next]_vars
               PROVE  Conserved'
    OBVIOUS
  <1> USE ThreadKinds
  <1> USE DEF IInv, TypeOK, HandInv, Conserved, NoDuplicate, NoLoss, arrayVars, mainVars
  <1>1. CASE UNCHANGED <<t, buff, printed, gproduce_cnt>>
    BY <1>1 DEF Holders, SlotsOf
  <1>2. ASSUME NEW p \in Producers, ProduceCas(p)
        PROVE  Conserved'
    <2> DEFINE new == cnt_cache[p]
    <2>1. CASE gproduce_cnt # new
      BY <1>1, <1>2, <2>1 DEF ProduceCas, CompareAndSwap
    <2>2. CASE gproduce_cnt = new
      <3>0. new \in Products /\ \A v \in Products : v < new + 1 <=> v < new \/ v = new
        <4>1. new \in 0 .. ProductNum /\ new < ProductNum
          BY <1>2 DEF ProduceCas, TicketInv
        <4> HIDE DEF IInv, Conserved, new
        <4> QED
          BY <4>1, ProductAssumption DEF Products
      <3>1. /\ p \in Threads /\ new \in Products /\ t[p] = NULL
            /\ gproduce_cnt' = new + 1 /\ t' = [t EXCEPT ![p] = new]
            /\ UNCHANGED <<buff, printed>>
        BY <1>2, <2>2, <3>0 DEF ProduceCas, CompareAndSwap
      <3>2. \A v \in Products : Holders(v)' = IF v = new THEN Holders(v) \cup {p} ELSE Holders(v)
        BY <3>1 DEF Holders
      <3>3. \A v \in Products : SlotsOf(v)' = SlotsOf(v)
        BY <3>1 DEF SlotsOf
      <3>4. Holders(new) = {} /\ SlotsOf(new) = {} /\ printed[new] = 0
        BY <2>2, <3>0, <3>1
      <3> QED
        BY <2>2, <3>0, <3>1, <3>2, <3>3, <3>4
    <2> QED
      BY <2>1, <2>2
  <1>3. ASSUME NEW p \in Producers, AppendPut(p)
        PROVE  Conserved'
    <2>1. /\ p \in Threads /\ t[p] \in Products /\ buff[pindex] = NULL
          /\ buff' = [buff EXCEPT ![pindex] = t[p]]
          /\ t' = [t EXCEPT ![p] = NULL]
          /\ UNCHANGED <<printed, gproduce_cnt>>
      BY <1>3, SizeAssumption DEF AppendPut, is_full, RingInv, Occupied, Slots
    <2>2. \A v \in Products : Holders(v)' = Holders(v) \ {p}
      BY <2>1 DEF Holders
    <2>3. \A v \in Products :
             SlotsOf(v)' = IF v = t[p] THEN SlotsOf(v) \cup {pindex} ELSE SlotsOf(v)
      BY <2>1 DEF SlotsOf
    <2>4. \A v \in Products : p \in Holders(v) <=> v = t[p]
      BY <2>1 DEF Holders
    <2> QED
      BY <2>1, <2>2, <2>3, <2>4
  <1>4. ASSUME NEW c \in Consumers, GetTake(c)
        PROVE  Conserved'
    <2>1. /\ c \in Threads /\ t[c] = NULL /\ buff[cindex] \in Products
          /\ buff' = [buff EXCEPT ![cindex] = NULL]
          /\ t' = [t EXCEPT ![c] = buff[cindex]]
          /\ UNCHANGED <<printed, gproduce_cnt>>
      BY <1>4, SizeAssumption DEF GetTake, is_empty, Emptied, RingInv, Occupied, Slots
    <2>2. \A v \in Products :
             Holders(v)' = IF v = buff[cindex] THEN Holders(v) \cup {c} ELSE Holders(v)
      BY <2>1 DEF Holders
    <2>3. \A v \in Products : SlotsOf(v)' = SlotsOf(v) \ {cindex}
      BY <2>1 DEF SlotsOf
    <2>4. \A v \in Products : cindex \in SlotsOf(v) <=> v = buff[cindex]
      BY <2>1 DEF SlotsOf
    <2> QED
      BY <2>1, <2>2, <2>3, <2>4
  <1>5. ASSUME NEW c \in Consumers, ConsumePrint(c)
        PROVE  Conserved'
    <2>1. /\ c \in Threads /\ t[c] \in Products
          /\ printed' = [printed EXCEPT ![t[c]] = @ + 1]
          /\ t' = [t EXCEPT ![c] = NULL]
          /\ UNCHANGED <<buff, gproduce_cnt>>
      BY <1>5 DEF ConsumePrint
    <2>2. \A v \in Products : Holders(v)' = Holders(v) \ {c}
      BY <2>1 DEF Holders
    <2>3. \A v \in Products : SlotsOf(v)' = SlotsOf(v)
      BY <2>1 DEF SlotsOf
    <2>4. \A v \in Products : c \in Holders(v) <=> v = t[c]
      BY <2>1 DEF Holders
    <2> QED
      BY <2>1, <2>2, <2>3, <2>4
  <1>6. CASE UNCHANGED vars
    BY <1>1, <1>6 DEF vars
  <1> QED
    BY <1>1, <1>2, <1>3, <1>4, <1>5, <1>6
    DEF Next, ThreadStep, MainStep, ProducerStep, ConsumerStep, ProduceLoad,
        ConsumeLoad, ConsumeCas, Lock, AppendWait, GetWait, CondWait, Unlock,
        SpuriousWakeup, MainCreate, MainCreateFail, MainJoin, MainReturn

\* No product exists before the first ticket is drawn.
LEMMA ConservedInit == Init => Conserved
  BY ThreadKinds, ProductAssumption
  DEF Init, Conserved, NoDuplicate, NoLoss, Holders, SlotsOf, Products

\* No product is ever in two places, and every product whose ticket was drawn is
\* in a hand, in the ring or printed.
THEOREM ConservedCorrect == Spec => []Conserved
  BY ConservedInit, ConservedStep, Invariance, PTL DEF Spec

------------------------------------------------------------------------------
\* The counting argument behind main's final assert.

\* append makes the ring one product longer.
LEMMA CountPut ==
    ASSUME IInv, NEW p \in Producers, AppendPut(p)
    PROVE  Count' = Count + 1 /\ Count \in Nat
  <1> USE SizeAssumption, ThreadKinds
  <1>1. pindex' = IF pindex + 1 = Size THEN 0 ELSE pindex + 1
    BY Successor DEF AppendPut, Advance, IInv, TypeOK, Slots
  <1>2. t[p] # NULL /\ buff' = [buff EXCEPT ![pindex] = t[p]] /\ cindex' = cindex
    BY DEF AppendPut, IInv, HandInv
  <1> QED
    BY <1>1, <1>2
    DEF AppendPut, Count, is_full, IInv, TypeOK, RingInv, Occupied, Slots

\* get makes the ring one product shorter.
LEMMA CountTake ==
    ASSUME IInv, NEW c \in Consumers, GetTake(c)
    PROVE  Count' = Count - 1 /\ Count \in Nat
  <1> USE SizeAssumption, ThreadKinds
  <1>1. cindex' = IF cindex + 1 = Size THEN 0 ELSE cindex + 1
    BY Successor DEF GetTake, Advance, IInv, TypeOK, Slots
  <1>2. buff' = [buff EXCEPT ![cindex] = NULL] /\ pindex' = pindex
    BY DEF GetTake, Emptied
  <1> QED
    BY <1>1, <1>2
    DEF GetTake, Count, is_empty, IInv, TypeOK, RingInv, Occupied, Slots

\* The threads in append or get are finitely many, so they can be counted.
LEMMA BusyFinite ==
    ASSUME NEW kind \in SUBSET Threads
    PROVE  IsFiniteSet(Busy(kind)) /\ Cardinality(Busy(kind)) \in Nat
  <1>1. IsFiniteSet(Threads)
    BY FS_Interval, ThreadAssumption DEF Threads, ThreadNum
  <1>2. IsFiniteSet(Busy(kind))
    BY <1>1, FS_Subset DEF Busy
  <1> QED
    BY <1>2, FS_CardinalityType

\* Drawing a ticket and cashing it in keep the balance of tickets and products.
LEMMA LedgerStep == IInv /\ Ledger /\ [Next]_vars => Ledger'
  <1> SUFFICES ASSUME IInv, Ledger, [Next]_vars
               PROVE  Ledger'
    OBVIOUS
  <1> DEFINE BP == Busy(Producers)
             BC == Busy(Consumers)
  <1> USE ThreadKinds
  <1>a. /\ IsFiniteSet(BP) /\ Cardinality(BP) \in Nat
        /\ IsFiniteSet(BC) /\ Cardinality(BC) \in Nat
    BY BusyFinite
  <1>b. pc \in [Threads -> Pcs] /\ gproduce_cnt \in Nat /\ gconsume_cnt \in Nat /\ Count \in Nat
    BY SizeAssumption, ProductAssumption DEF IInv, TypeOK, Pcs, Count, Slots
  <1>1. CASE BP' = BP /\ BC' = BC /\ UNCHANGED <<gproduce_cnt, gconsume_cnt, buff, pindex, cindex>>
    BY <1>1 DEF Ledger, Count
  <1>2. ASSUME NEW p \in Producers, ProduceCas(p)
        PROVE  Ledger'
    <2>1. CASE gproduce_cnt # cnt_cache[p]
      BY <1>b, <1>1, <1>2, <2>1 DEF ProduceCas, CompareAndSwap, Busy, arrayVars
    <2>2. CASE gproduce_cnt = cnt_cache[p]
      <3>1. /\ BP' = BP \cup {p} /\ p \notin BP /\ BC' = BC
            /\ gproduce_cnt' = gproduce_cnt + 1
            /\ UNCHANGED <<gconsume_cnt, buff, pindex, cindex>>
        BY <1>b, <1>2, <2>2 DEF ProduceCas, CompareAndSwap, Busy, arrayVars
      <3>2. Cardinality(BP') = Cardinality(BP) + 1
        BY <1>a, <3>1, FS_AddElement
      <3> QED
        BY <1>a, <1>b, <3>1, <3>2 DEF Ledger, Count
    <2> QED
      BY <2>1, <2>2
  <1>3. ASSUME NEW c \in Consumers, ConsumeCas(c)
        PROVE  Ledger'
    <2>1. CASE gconsume_cnt # cnt_cache[c]
      BY <1>b, <1>1, <1>3, <2>1 DEF ConsumeCas, CompareAndSwap, Busy, arrayVars
    <2>2. CASE gconsume_cnt = cnt_cache[c]
      <3>1. /\ BC' = BC \cup {c} /\ c \notin BC /\ BP' = BP
            /\ gconsume_cnt' = gconsume_cnt + 1
            /\ UNCHANGED <<gproduce_cnt, buff, pindex, cindex>>
        BY <1>b, <1>3, <2>2 DEF ConsumeCas, CompareAndSwap, Busy, arrayVars
      <3>2. Cardinality(BC') = Cardinality(BC) + 1
        BY <1>a, <3>1, FS_AddElement
      <3> QED
        BY <1>a, <1>b, <3>1, <3>2 DEF Ledger, Count
    <2> QED
      BY <2>1, <2>2
  <1>4. ASSUME NEW p \in Producers, AppendPut(p)
        PROVE  Ledger'
    <2>1. SignalOne(p, Consumers) /\ pc[p] = "body"
      BY <1>4 DEF AppendPut
    <2>2. BP' = BP \ {p} /\ p \in BP /\ BC' = BC
      <3>1. p \in Threads /\ Consumers \in SUBSET Threads /\ p \notin Consumers
        OBVIOUS
      <3>2. /\ pc' \in [Threads -> Pcs] /\ pc'[p] = "unlock"
            /\ \A x \in Threads \ {p} :
                  \/ pc'[x] = pc[x]
                  \/ x \in Consumers /\ pc[x] = "wait" /\ pc'[x] = "lock"
        BY <1>b, <2>1, <3>1, SignalEffect
      <3> QED
        BY <2>1, <3>1, <3>2 DEF Busy
    <2>3. Cardinality(BP') = Cardinality(BP) - 1
      BY <1>a, <2>2, FS_RemoveElement
    <2>4. Count' = Count + 1 /\ UNCHANGED <<gproduce_cnt, gconsume_cnt>>
      BY <1>4, CountPut DEF AppendPut
    <2> QED
      BY <1>a, <1>b, <2>2, <2>3, <2>4 DEF Ledger
  <1>5. ASSUME NEW c \in Consumers, GetTake(c)
        PROVE  Ledger'
    <2>1. SignalOne(c, Producers) /\ pc[c] = "body"
      BY <1>5 DEF GetTake
    <2>2. BC' = BC \ {c} /\ c \in BC /\ BP' = BP
      <3>1. c \in Threads /\ Producers \in SUBSET Threads /\ c \notin Producers
        OBVIOUS
      <3>2. /\ pc' \in [Threads -> Pcs] /\ pc'[c] = "unlock"
            /\ \A x \in Threads \ {c} :
                  \/ pc'[x] = pc[x]
                  \/ x \in Producers /\ pc[x] = "wait" /\ pc'[x] = "lock"
        BY <1>b, <2>1, <3>1, SignalEffect
      <3> QED
        BY <2>1, <3>1, <3>2 DEF Busy
    <2>3. Cardinality(BC') = Cardinality(BC) - 1
      BY <1>a, <2>2, FS_RemoveElement
    <2>4. Count' = Count - 1 /\ UNCHANGED <<gproduce_cnt, gconsume_cnt>>
      BY <1>5, CountTake DEF GetTake
    <2> QED
      BY <1>a, <1>b, <2>2, <2>3, <2>4 DEF Ledger
  <1>6. ASSUME NEW th \in Threads, Lock(th) \/ Unlock(th) \/ SpuriousWakeup(th)
        PROVE  Ledger'
    BY <1>b, <1>1, <1>6 DEF Lock, Unlock, SpuriousWakeup, Busy, arrayVars
  <1>7. ASSUME NEW p \in Producers, ProduceLoad(p) \/ AppendWait(p)
        PROVE  Ledger'
    BY <1>b, <1>1, <1>7 DEF ProduceLoad, AppendWait, CondWait, Busy, arrayVars
  <1>8. ASSUME NEW c \in Consumers, ConsumeLoad(c) \/ ConsumePrint(c) \/ GetWait(c)
        PROVE  Ledger'
    BY <1>b, <1>1, <1>8 DEF ConsumeLoad, ConsumePrint, GetWait, CondWait, Busy, arrayVars
  <1>9. CASE MainCreate
    <2>1. mi \in Threads /\ pc[mi] = "start"
      BY <1>9 DEF MainCreate, IInv, TypeOK, StartInv, Threads
    <2> QED
      BY <1>b, <1>1, <1>9, <2>1 DEF MainCreate, Busy, arrayVars
  <1>10. CASE MainCreateFail \/ MainJoin \/ MainReturn \/ UNCHANGED vars
    BY <1>1, <1>10 DEF MainCreateFail, MainJoin, MainReturn, Busy, arrayVars, vars
  <1> QED
    BY <1>2, <1>3, <1>4, <1>5, <1>6, <1>7, <1>8, <1>9, <1>10
    DEF Next, ThreadStep, MainStep, ProducerStep, ConsumerStep

\* A thread ends only after the last ticket, and main joins only ended threads.
LEMMA EndStep == IInv /\ EndInv /\ [Next]_vars => EndInv'
  <1> SUFFICES ASSUME IInv, EndInv, [Next]_vars
               PROVE  EndInv'
    OBVIOUS
  <1> USE ThreadKinds DEF IInv, TypeOK, EndInv, arrayVars, mainVars
  <1>1. CASE UNCHANGED mainVars /\ UNCHANGED <<gproduce_cnt, gconsume_cnt>>
             /\ \A th \in Threads : pc'[th] = "exit" <=> pc[th] = "exit"
    BY <1>1
  <1>2. ASSUME NEW p \in Producers, ProduceLoad(p)
        PROVE  EndInv'
    BY <1>2, ProductAssumption DEF ProduceLoad
  <1>3. ASSUME NEW p \in Producers, ProduceCas(p)
        PROVE  EndInv'
    BY <1>3, ProductAssumption DEF ProduceCas, CompareAndSwap, TicketInv
  <1>4. ASSUME NEW c \in Consumers, ConsumeLoad(c)
        PROVE  EndInv'
    BY <1>4, ProductAssumption DEF ConsumeLoad
  <1>5. ASSUME NEW c \in Consumers, ConsumeCas(c)
        PROVE  EndInv'
    BY <1>5, ProductAssumption DEF ConsumeCas, CompareAndSwap, TicketInv
  <1>6. ASSUME NEW p \in Producers, AppendPut(p)
        PROVE  EndInv'
    <2>1. \A th \in Threads : pc'[th] = "exit" <=> pc[th] = "exit"
      BY <1>6, SignalEffect DEF AppendPut, Pcs
    <2> QED
      BY <1>1, <1>6, <2>1 DEF AppendPut
  <1>7. ASSUME NEW c \in Consumers, GetTake(c)
        PROVE  EndInv'
    <2>1. \A th \in Threads : pc'[th] = "exit" <=> pc[th] = "exit"
      BY <1>7, SignalEffect DEF GetTake, Pcs
    <2> QED
      BY <1>1, <1>7, <2>1 DEF GetTake
  <1>8. ASSUME NEW th \in Threads,
               Lock(th) \/ AppendWait(th) \/ GetWait(th) \/ Unlock(th) \/ SpuriousWakeup(th)
        PROVE  EndInv'
    BY <1>1, <1>8 DEF Lock, AppendWait, GetWait, CondWait, Unlock, SpuriousWakeup
  <1>9. ASSUME NEW c \in Consumers, ConsumePrint(c)
        PROVE  EndInv'
    BY <1>1, <1>9 DEF ConsumePrint
  <1>10. CASE MainCreate
    <2>1. pc[mi] = "start" /\ mi' = (IF mi + 1 = ThreadNum THEN 0 ELSE mi + 1)
      BY <1>10, NextThread DEF MainCreate, StartInv
    <2> QED
      BY <1>10, <2>1, ThreadAssumption DEF MainCreate, Threads, ThreadNum
  <1>11. CASE MainJoin
    <2>1. mi' = IF mi + 1 = ThreadNum THEN 0 ELSE mi + 1
      BY <1>11, NextThread DEF MainJoin
    <2>2. \A th \in Threads : th < mi + 1 => pc[th] = "exit"
      BY <1>11, NextThread DEF MainJoin, Joinable
    <2>3. mi + 1 = ThreadNum => \A th \in Threads : th < mi + 1
      BY ThreadAssumption DEF Threads, ThreadNum
    <2> QED
      BY <1>11, <2>1, <2>2, <2>3 DEF MainJoin
  <1>12. CASE MainCreateFail \/ MainReturn \/ UNCHANGED vars
    BY <1>12 DEF MainCreateFail, MainReturn, vars
  <1> QED
    BY <1>2, <1>3, <1>4, <1>5, <1>6, <1>7, <1>8, <1>9, <1>10, <1>11, <1>12
    DEF Next, ThreadStep, MainStep, ProducerStep, ConsumerStep

\* With no ticket drawn and no thread ended both facts hold.
LEMMA LedgerInit == Init => Ledger /\ EndInv
  <1> SUFFICES ASSUME Init
               PROVE  Ledger /\ EndInv
    OBVIOUS
  <1>1. Busy(Producers) = {} /\ Busy(Consumers) = {}
    BY ThreadKinds DEF Init, Busy
  <1>2. Count = 0
    BY ThreadKinds DEF Init, Count
  <1>3. Ledger
    BY <1>1, <1>2, FS_EmptySet DEF Init, Ledger
  <1>4. EndInv
    BY ThreadKinds DEF Init, EndInv
  <1> QED
    BY <1>3, <1>4

\* main's assert(gca->is_empty()) holds and every product was printed once.
THEOREM FinalAssertHolds == Spec => []FinalAssert
  <1>1. IInv /\ Conserved /\ Ledger /\ EndInv => FinalAssert
    <2> SUFFICES ASSUME IInv, Conserved, Ledger, EndInv, mpc = "assert"
                 PROVE  is_empty /\ \A v \in Products : printed[v] = 1
      BY DEF FinalAssert
    <2>1. \A th \in Threads : pc[th] = "exit"
      BY DEF EndInv
    <2>2. gproduce_cnt = ProductNum /\ gconsume_cnt = ProductNum
      <3>1. 0 \in Consumers /\ ConsumeNum \in Producers
        BY ThreadAssumption DEF Consumers, Producers, Threads, ThreadNum
      <3> QED
        BY <2>1, <3>1, ThreadKinds DEF EndInv
    <2>3. Busy(Producers) = {} /\ Busy(Consumers) = {}
      BY <2>1, ThreadKinds DEF Busy
    <2>4. Count = 0
      BY <2>2, <2>3, FS_EmptySet, ProductAssumption, SizeAssumption
      DEF Ledger, Count, IInv, TypeOK, Slots
    <2>5. is_empty
      BY <2>4, SizeAssumption DEF Count, is_empty, IInv, TypeOK, Slots
    <2>6. \A v \in Products : Holders(v) = {} /\ SlotsOf(v) = {}
      BY <2>1, <2>5, ThreadKinds, NullAssumption
      DEF IInv, TypeOK, HandInv, RingInv, Occupied, is_empty, Holders, SlotsOf
    <2>7. \A v \in Products : v < gproduce_cnt /\ printed[v] \in Nat
      BY <2>2, ProductAssumption DEF IInv, TypeOK, Products
    <2> QED
      BY <2>5, <2>6, <2>7 DEF Conserved, NoDuplicate, NoLoss
  <1>2. Spec => [](Conserved /\ Ledger /\ EndInv)
    BY ConservedInit, ConservedStep, LedgerInit, LedgerStep, EndStep, Invariance,
       PTL DEF Spec
  <1> QED
    BY <1>1, <1>2, Invariance, PTL

\* No assert of concurrent_array.cpp fails, for any ring and any number of threads.
THEOREM AssertsHold == Spec => []Asserts
  BY AppendAssertsHold, FinalAssertHolds, PTL DEF Asserts

------------------------------------------------------------------------------
\* The ring implements the bounded FIFO queue.

\* The slots read from cindex on are slots of the ring, each one once, and they
\* are set; pindex is the slot behind the last of them.
LEMMA SlotAtEffect ==
    ASSUME IInv
    PROVE  /\ Count \in 0 .. Size /\ Count \in Nat
           /\ \A k \in 0 .. Count - 1 : SlotAt(k) \in Slots /\ buff[SlotAt(k)] \in Products
           /\ \A k \in 1 .. Count - 1 : SlotAt(k) # cindex
           /\ Count < Size =>
                 SlotAt(Count) = pindex /\ \A k \in 0 .. Count - 1 : SlotAt(k) # pindex
  <1> USE SizeAssumption DEF IInv, TypeOK, Slots
  <1>1. Count \in 0 .. Size /\ Count \in Nat
    BY DEF Count
  <1>2. ASSUME NEW k \in 0 .. Count - 1
        PROVE  SlotAt(k) \in Slots /\ buff[SlotAt(k)] \in Products
    <2>1. SlotAt(k) \in Slots /\ Occupied(SlotAt(k))
      BY DEF Count, SlotAt, Occupied
    <2> QED
      BY <2>1 DEF RingInv
  <1>3. ASSUME NEW k \in 1 .. Count - 1
        PROVE  SlotAt(k) # cindex
    BY <1>1 DEF SlotAt
  <1>4. ASSUME Count < Size
        PROVE  SlotAt(Count) = pindex /\ \A k \in 0 .. Count - 1 : SlotAt(k) # pindex
    BY <1>4 DEF Count, SlotAt
  <1> QED
    BY <1>1, <1>2, <1>3, <1>4

\* A function on 1 .. n is a sequence of length n.
LEMMA FunctionIsSeq ==
    ASSUME NEW S, NEW n \in Nat, NEW f \in [1 .. n -> S]
    PROVE  f \in Seq(S) /\ Len(f) = n
  <1>1. f \in Seq(S)
    BY SeqDef
  <1> QED
    BY <1>1, LenProperties

ContentsIsSeq ==
    /\ Contents \in Seq(Products) /\ Len(Contents) = Count
    /\ \A k \in 1 .. Count : Contents[k] = buff[SlotAt(k - 1)]

\* The ring, read from cindex on, is a sequence of products.
LEMMA ContentsType == IInv => ContentsIsSeq
  <1> SUFFICES ASSUME IInv PROVE ContentsIsSeq
    OBVIOUS
  <1>1. Count \in Nat
    BY SlotAtEffect
  <1>2. \A k \in 1 .. Count : buff[SlotAt(k - 1)] \in Products
    <2>1. \A k \in 1 .. Count : k - 1 \in 0 .. Count - 1
      BY <1>1
    <2> QED
      BY <2>1, SlotAtEffect
  <1>3. Contents \in [1 .. Count -> Products]
    BY <1>2 DEF Contents
  <1> QED
    BY <1>1, <1>3, FunctionIsSeq DEF Contents, ContentsIsSeq

\* append puts its product behind the others.
LEMMA ContentsPut ==
    ASSUME IInv, IInv', NEW p \in Producers, AppendPut(p)
    PROVE  Contents' = Append(Contents, t[p]) /\ Len(Contents) < Size /\ t[p] # NULL
  <1>1. /\ t[p] # NULL /\ t[p] \in Products /\ ~is_full
        /\ buff' = [buff EXCEPT ![pindex] = t[p]] /\ cindex' = cindex
    BY ThreadKinds DEF AppendPut, IInv, HandInv, TypeOK
  <1>2. Count' = Count + 1 /\ Count \in Nat
    BY CountPut
  <1>3. Count < Size
    BY <1>1, SizeAssumption DEF Count, is_full, IInv, TypeOK, Slots
  <1>4. \A k : SlotAt(k)' = SlotAt(k)
    BY <1>1 DEF SlotAt
  <1>5. /\ Contents' \in Seq(Products) /\ Len(Contents') = Count + 1
        /\ \A k \in 1 .. Count + 1 : Contents'[k] = buff'[SlotAt(k - 1)]
    <2>1. ContentsIsSeq'
      BY ContentsType, PTL
    <2> QED
      BY <1>2, <1>4, <2>1 DEF ContentsIsSeq
  <1>6. \A k \in 1 .. Count : Contents'[k] = Contents[k]
    <2> SUFFICES ASSUME NEW k \in 1 .. Count PROVE Contents'[k] = Contents[k]
      OBVIOUS
    <2>1. k - 1 \in 0 .. Count - 1 /\ k \in 1 .. Count + 1
      BY <1>2
    <2>2. SlotAt(k - 1) \in Slots /\ SlotAt(k - 1) # pindex
      BY <1>3, <2>1, SlotAtEffect
    <2> QED
      BY <1>1, <1>5, <2>1, <2>2, ContentsType DEF IInv, TypeOK, ContentsIsSeq
  <1>7. Contents'[Count + 1] = t[p]
    <2>1. Count + 1 \in 1 .. Count + 1 /\ (Count + 1) - 1 = Count
      BY <1>2
    <2>2. SlotAt(Count) = pindex
      BY <1>3, SlotAtEffect
    <2> QED
      BY <1>1, <1>5, <2>1, <2>2 DEF IInv, TypeOK
  <1>8. /\ Append(Contents, t[p]) \in Seq(Products) /\ Len(Append(Contents, t[p])) = Count + 1
        /\ \A k \in 1 .. Count : Append(Contents, t[p])[k] = Contents[k]
        /\ Append(Contents, t[p])[Count + 1] = t[p]
    BY <1>1, <1>2, ContentsType, AppendProperties DEF ContentsIsSeq
  <1>9. \A k \in 1 .. Count + 1 : k \in 1 .. Count \/ k = Count + 1
    BY <1>2
  <1>10. Contents' = Append(Contents, t[p])
    BY <1>5, <1>6, <1>7, <1>8, <1>9, SeqEqual
  <1> QED
    BY <1>1, <1>3, <1>10, ContentsType DEF ContentsIsSeq

\* get takes the product at the head.
LEMMA ContentsTake ==
    ASSUME IInv, IInv', NEW c \in Consumers, GetTake(c)
    PROVE  /\ Contents # <<>> /\ Contents' = Tail(Contents)
           /\ t' = [t EXCEPT ![c] = Head(Contents)] /\ t[c] = NULL
  <1>1. /\ t[c] = NULL /\ ~is_empty /\ t' = [t EXCEPT ![c] = buff[cindex]]
        /\ buff' = [buff EXCEPT ![cindex] = NULL]
        /\ cindex' = IF cindex + 1 = Size THEN 0 ELSE cindex + 1
    BY ThreadKinds, Successor, SizeAssumption
    DEF GetTake, Emptied, Advance, IInv, HandInv, TypeOK, Slots
  <1>2. Count' = Count - 1 /\ Count \in Nat
    BY CountTake
  <1>3. Count > 0
    BY <1>1, <1>2, SizeAssumption DEF Count, is_empty, IInv, TypeOK, Slots
  <1>4. cindex \in 0 .. Size - 1 /\ Size \in Nat /\ Count \in 0 .. Size
    BY SizeAssumption, SlotAtEffect DEF IInv, TypeOK, Slots
  <1>5. \A k \in 1 .. Count - 1 : SlotAt(k - 1)' = SlotAt(k)
    BY <1>1, <1>4 DEF SlotAt
  <1>6. /\ Contents' \in Seq(Products) /\ Len(Contents') = Count - 1
        /\ \A k \in 1 .. Count - 1 : Contents'[k] = buff'[SlotAt(k - 1)']
    <2>1. ContentsIsSeq'
      BY ContentsType, PTL
    <2> QED
      BY <1>2, <2>1 DEF ContentsIsSeq
  <1>7. Contents # <<>> /\ Head(Contents) = buff[cindex]
    <2>1. SlotAt(0) = cindex /\ 1 \in 1 .. Count /\ 1 - 1 = 0
      BY <1>2, <1>3, <1>4 DEF SlotAt
    <2>2. Contents[1] = buff[cindex]
      BY <2>1, ContentsType DEF ContentsIsSeq
    <2>3. Contents # <<>>
      BY <1>3, ContentsType DEF ContentsIsSeq
    <2> QED
      BY <2>2, <2>3
  <1>8. /\ Tail(Contents) \in Seq(Products) /\ Len(Tail(Contents)) = Count - 1
        /\ \A k \in 1 .. Count - 1 : Tail(Contents)[k] = Contents[k + 1]
    BY <1>7, ContentsType, HeadTailProperties DEF ContentsIsSeq
  <1>9. \A k \in 1 .. Count - 1 : Contents'[k] = Tail(Contents)[k]
    <2> SUFFICES ASSUME NEW k \in 1 .. Count - 1 PROVE Contents'[k] = Tail(Contents)[k]
      OBVIOUS
    <2>1. k \in 0 .. Count - 1 /\ k + 1 \in 1 .. Count /\ (k + 1) - 1 = k
      BY <1>2
    <2>2. SlotAt(k) \in Slots /\ SlotAt(k) # cindex
      BY <2>1, SlotAtEffect
    <2>3. Contents'[k] = buff'[SlotAt(k)] /\ buff'[SlotAt(k)] = buff[SlotAt(k)]
      BY <1>1, <1>5, <1>6, <2>2 DEF IInv, TypeOK
    <2>4. Contents[k + 1] = buff[SlotAt(k)]
      BY <2>1, ContentsType DEF ContentsIsSeq
    <2> QED
      BY <1>8, <2>3, <2>4
  <1>10. Contents' = Tail(Contents)
    BY <1>6, <1>8, <1>9, SeqEqual
  <1> QED
    BY <1>1, <1>7, <1>10

\* The ring is empty at the start.
LEMMA FifoInit == Init => Fifo!Init
  <1> SUFFICES ASSUME Init PROVE Fifo!Init
    OBVIOUS
  <1>1. Count = 0 /\ IInv
    BY ThreadKinds, InitInv DEF Init, Count
  <1>2. Contents = <<>>
    BY <1>1, ContentsType, EmptySeq DEF ContentsIsSeq
  <1>3. Producers \cup Consumers = Threads
    BY ThreadKinds
  <1> QED
    BY <1>2, <1>3 DEF Init, Fifo!Init

\* A step of the program is a step of the queue or leaves the queue and the
\* hands alone: a drawn product is picked up, append puts, get takes, delete
\* lets go.
LEMMA FifoStep == IInv /\ [Next]_vars => [Fifo!Next]_(Fifo!fifoVars)
  <1> SUFFICES ASSUME IInv, [Next]_vars
               PROVE  Fifo!Next \/ UNCHANGED Fifo!fifoVars
    OBVIOUS
  <1>0. IInv'
    BY NextInv
  <1>1. CASE UNCHANGED <<buff, pindex, cindex, t>>
    BY <1>1 DEF Fifo!fifoVars, Contents, Count, SlotAt
  <1>2. ASSUME NEW p \in Producers, ProduceCas(p)
        PROVE  Fifo!Next \/ UNCHANGED Fifo!fifoVars
    <2>1. CASE gproduce_cnt # cnt_cache[p]
      BY <1>1, <1>2, <2>1 DEF ProduceCas, CompareAndSwap, arrayVars
    <2>2. CASE gproduce_cnt = cnt_cache[p]
      <3>1. cnt_cache[p] \in Products
        BY <1>2, ThreadKinds, ProductAssumption DEF ProduceCas, IInv, TypeOK, TicketInv, Products
      <3>2. t[p] = NULL /\ t' = [t EXCEPT ![p] = cnt_cache[p]] /\ UNCHANGED <<buff, pindex, cindex>>
        BY <1>2, <2>2 DEF ProduceCas, CompareAndSwap, arrayVars, IInv, HandInv
      <3>3. Contents' = Contents
        BY <3>2 DEF Contents, Count, SlotAt
      <3>4. Fifo!PickUp(p)
        BY <3>1, <3>2, <3>3 DEF Fifo!PickUp
      <3> QED
        BY <3>4 DEF Fifo!Next
    <2> QED
      BY <2>1, <2>2
  <1>3. ASSUME NEW p \in Producers, AppendPut(p)
        PROVE  Fifo!Next
    <2>1. Fifo!Put(p)
      BY <1>0, <1>3, ContentsPut DEF Fifo!Put, AppendPut
    <2> QED
      BY <2>1 DEF Fifo!Next
  <1>4. ASSUME NEW c \in Consumers, GetTake(c)
        PROVE  Fifo!Next
    <2>1. Fifo!Take(c)
      BY <1>0, <1>4, ContentsTake DEF Fifo!Take
    <2> QED
      BY <2>1 DEF Fifo!Next
  <1>5. ASSUME NEW c \in Consumers, ConsumePrint(c)
        PROVE  Fifo!Next
    <2>1. t[c] # NULL /\ t' = [t EXCEPT ![c] = NULL] /\ UNCHANGED <<buff, pindex, cindex>>
      BY <1>5 DEF ConsumePrint, arrayVars, IInv, HandInv
    <2>2. Contents' = Contents
      BY <2>1 DEF Contents, Count, SlotAt
    <2>3. Fifo!LetGo(c)
      BY <2>1, <2>2 DEF Fifo!LetGo
    <2> QED
      BY <2>3 DEF Fifo!Next
  <1>6. CASE UNCHANGED vars
    BY <1>1, <1>6 DEF vars
  <1> QED
    BY <1>1, <1>2, <1>3, <1>4, <1>5, <1>6
    DEF Next, ThreadStep, MainStep, ProducerStep, ConsumerStep, ProduceLoad,
        ConsumeLoad, ConsumeCas, Lock, AppendWait, GetWait, CondWait, Unlock,
        SpuriousWakeup, MainCreate, MainCreateFail, MainJoin, MainReturn, arrayVars

\* The class is a bounded FIFO queue for every ring size and any number of
\* threads: get returns the products in the order append stored them, and
\* nothing else ever changes the queue.
THEOREM FifoImplemented == Spec => ImplementsFifo
  BY FifoInit, FifoStep, Invariance, PTL DEF Spec, ImplementsFifo, Fifo!Spec
==============================================================================
