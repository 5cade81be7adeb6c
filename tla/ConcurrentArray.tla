--------------------------- MODULE ConcurrentArray ---------------------------
(***************************************************************************)
(* pthread/concurrent_array.cpp: a ring of Size pointers guarded by one    *)
(* mutex and two condition variables, filled by ProduceNum threads and     *)
(* drained by ConsumeNum threads that claim tickets 0 .. ProductNum-1 with *)
(* compare-and-swap, and the main function that creates and joins them.    *)
(*                                                                         *)
(* An int* made by `new int(n)' is represented by n: the tickets are       *)
(* distinct, so every product is one heap object.  pc[th] is where thread  *)
(* th stands:                                                              *)
(*   start   not created yet         load    at the while condition        *)
(*   cas     before the CAS          lock    wants the mutex (also after a *)
(*   body    holds it, at the inner          wake-up inside cond_wait)     *)
(*           while of append/get     wait    blocked in cond_wait          *)
(*   unlock  before mutex_unlock     print   printf and delete             *)
(*   exit    pthread_exit called                                           *)
(***************************************************************************)
EXTENDS Integers, Sequences, FiniteSets

CONSTANTS
    Size,          \* gbuff_size
    ProduceNum,    \* gproduce_num
    ConsumeNum,    \* gconsume_num
    ProductNum,    \* gproduct_num
    MaxSpurious,   \* bound: spurious returns of pthread_cond_wait explored
    NULL

\* Size = 0 divides by zero in append, and without a producer or a consumer
\* the other side blocks for good: the usage text asks for all of them.
ASSUME SizeAssumption == Size \in Nat \ {0}
ASSUME ThreadAssumption == ProduceNum \in Nat \ {0} /\ ConsumeNum \in Nat \ {0}
ASSUME ProductAssumption == ProductNum \in Nat /\ MaxSpurious \in Nat
ASSUME NullAssumption == NULL \notin Int

VARIABLES
    buff, pindex, cindex, mutex,          \* concurrent_array
    gproduce_cnt, gconsume_cnt,           \* globals
    pc, cnt_cache, t,                     \* locals of the threads
    printed,                              \* how often a product was printed
    mpc, mi,                              \* main: phase and loop index
    spurious                              \* spurious wake-ups so far

arrayVars == <<buff, pindex, cindex>>
mainVars  == <<mpc, mi>>
vars == <<buff, pindex, cindex, mutex, gproduce_cnt, gconsume_cnt, pc,
          cnt_cache, t, printed, mpc, mi, spurious>>

ThreadNum == ProduceNum + ConsumeNum
Threads   == 0 .. ThreadNum - 1
Consumers == {th \in Threads : th < ConsumeNum}
Producers == {th \in Threads : th >= ConsumeNum}
Slots     == 0 .. Size - 1
Products  == 0 .. ProductNum - 1

Init ==
    /\ buff = [s \in Slots |-> NULL] /\ pindex = 0 /\ cindex = 0
    /\ mutex = NULL
    /\ gproduce_cnt = 0 /\ gconsume_cnt = 0
    /\ pc = [th \in Threads |-> "start"]
    /\ cnt_cache = [th \in Threads |-> 0]
    /\ t = [th \in Threads |-> NULL]
    /\ printed = [v \in Products |-> 0]
    /\ mpc = "create" /\ mi = 0
    /\ spurious = 0

------------------------------------------------------------------------------
\* The class concurrent_array

\* Mutant: append never waits for room.
is_full_AlwaysRoom == FALSE

is_full  == pindex = cindex /\ buff[0] # NULL
is_empty == pindex = cindex /\ buff[0] = NULL

Advance(i) == (i + 1) % Size

\* Mutant: get leaves its slot set.
Emptied_Kept(b, i) == b

Emptied(b, i) == [b EXCEPT ![i] = NULL]

\* pthread_mutex_lock, on entry of append/get and on return from cond_wait.
Lock(th) ==
    /\ pc[th] = "lock" /\ mutex = NULL
    /\ mutex' = th
    /\ pc' = [pc EXCEPT ![th] = "body"]
    /\ UNCHANGED <<arrayVars, gproduce_cnt, gconsume_cnt, cnt_cache, t,
                   printed, mainVars, spurious>>

\* pthread_cond_wait releases the mutex and blocks in one step.
CondWait(th) ==
    /\ mutex' = NULL
    /\ pc' = [pc EXCEPT ![th] = "wait"]
    /\ UNCHANGED <<arrayVars, gproduce_cnt, gconsume_cnt, cnt_cache, t,
                   printed, mainVars, spurious>>

\* Mutant: the other side is not signalled.
SignalOne_Omitted(th, others) == pc' = [pc EXCEPT ![th] = "unlock"]

\* th runs on to its unlock; pthread_cond_signal wakes one of the waiters,
\* which one is the scheduler's choice, and is lost when there is none.
SignalOne(th, others) ==
    LET waiters == {w \in others : pc[w] = "wait"} IN
    IF waiters = {}
    THEN pc' = [pc EXCEPT ![th] = "unlock"]
    ELSE \E w \in waiters :
            pc' = [pc EXCEPT ![th] = "unlock", ![w] = "lock"]

AppendWait(p) == pc[p] = "body" /\ is_full /\ CondWait(p)

AppendPut(p) ==
    /\ pc[p] = "body" /\ ~is_full
    /\ buff' = [buff EXCEPT ![pindex] = t[p]]
    /\ t' = [t EXCEPT ![p] = NULL]
    /\ pindex' = Advance(pindex)
    /\ SignalOne(p, Consumers)
    /\ UNCHANGED <<cindex, mutex, gproduce_cnt, gconsume_cnt, cnt_cache,
                   printed, mainVars, spurious>>

GetWait(c) == pc[c] = "body" /\ is_empty /\ CondWait(c)

GetTake(c) ==
    /\ pc[c] = "body" /\ ~is_empty
    /\ t' = [t EXCEPT ![c] = buff[cindex]]
    /\ buff' = Emptied(buff, cindex)
    /\ cindex' = Advance(cindex)
    /\ SignalOne(c, Producers)
    /\ UNCHANGED <<pindex, mutex, gproduce_cnt, gconsume_cnt, cnt_cache,
                   printed, mainVars, spurious>>

Unlock(th) ==
    /\ pc[th] = "unlock"
    /\ mutex' = NULL
    /\ pc' = [pc EXCEPT ![th] = IF th \in Producers THEN "load" ELSE "print"]
    /\ UNCHANGED <<arrayVars, gproduce_cnt, gconsume_cnt, cnt_cache, t,
                   printed, mainVars, spurious>>

\* POSIX lets pthread_cond_wait return without a signal.
SpuriousWakeup(th) ==
    /\ pc[th] = "wait" /\ spurious < MaxSpurious
    /\ pc' = [pc EXCEPT ![th] = "lock"]
    /\ spurious' = spurious + 1
    /\ UNCHANGED <<arrayVars, mutex, gproduce_cnt, gconsume_cnt, cnt_cache, t,
                   printed, mainVars>>

------------------------------------------------------------------------------
\* produce_thread and consume_thread

\* Mutant: the counter is stored whatever it holds by now.
CompareAndSwap_Blind(current, expected) == TRUE

\* __sync_bool_compare_and_swap succeeds when the counter is still the value read.
CompareAndSwap(current, expected) == current = expected

ProduceLoad(p) ==
    /\ pc[p] = "load"
    /\ cnt_cache' = [cnt_cache EXCEPT ![p] = gproduce_cnt]
    /\ pc' = [pc EXCEPT ![p] = IF gproduce_cnt < ProductNum THEN "cas" ELSE "exit"]
    /\ UNCHANGED <<arrayVars, mutex, gproduce_cnt, gconsume_cnt, t, printed,
                   mainVars, spurious>>

ProduceCas(p) ==
    /\ pc[p] = "cas"
    /\ IF CompareAndSwap(gproduce_cnt, cnt_cache[p])
       THEN /\ gproduce_cnt' = cnt_cache[p] + 1
            /\ t' = [t EXCEPT ![p] = cnt_cache[p]]
            /\ pc' = [pc EXCEPT ![p] = "lock"]
       ELSE /\ pc' = [pc EXCEPT ![p] = "load"]
            /\ UNCHANGED <<gproduce_cnt, t>>
    /\ UNCHANGED <<arrayVars, mutex, gconsume_cnt, cnt_cache, printed,
                   mainVars, spurious>>

ConsumeLoad(c) ==
    /\ pc[c] = "load"
    /\ cnt_cache' = [cnt_cache EXCEPT ![c] = gconsume_cnt]
    /\ pc' = [pc EXCEPT ![c] = IF gconsume_cnt < ProductNum THEN "cas" ELSE "exit"]
    /\ UNCHANGED <<arrayVars, mutex, gproduce_cnt, gconsume_cnt, t, printed,
                   mainVars, spurious>>

ConsumeCas(c) ==
    /\ pc[c] = "cas"
    /\ IF CompareAndSwap(gconsume_cnt, cnt_cache[c])
       THEN /\ gconsume_cnt' = cnt_cache[c] + 1
            /\ pc' = [pc EXCEPT ![c] = "lock"]
       ELSE /\ pc' = [pc EXCEPT ![c] = "load"]
            /\ UNCHANGED gconsume_cnt
    /\ UNCHANGED <<arrayVars, mutex, gproduce_cnt, cnt_cache, t, printed,
                   mainVars, spurious>>

ConsumePrint(c) ==
    /\ pc[c] = "print"
    /\ printed' = [printed EXCEPT ![t[c]] = @ + 1]
    /\ t' = [t EXCEPT ![c] = NULL]
    /\ pc' = [pc EXCEPT ![c] = "load"]
    /\ UNCHANGED <<arrayVars, mutex, gproduce_cnt, gconsume_cnt, cnt_cache,
                   mainVars, spurious>>

------------------------------------------------------------------------------
\* main: create every thread (the consumers first), join every thread in the
\* same order, assert(gca->is_empty()), return.

MainCreate ==
    /\ mpc = "create"
    /\ pc' = [pc EXCEPT ![mi] = "load"]
    /\ mi' = (mi + 1) % ThreadNum
    /\ mpc' = IF mi + 1 = ThreadNum THEN "join" ELSE "create"
    /\ UNCHANGED <<arrayVars, mutex, gproduce_cnt, gconsume_cnt, cnt_cache, t,
                   printed, spurious>>

\* pthread_create fails: print_error exits the whole process.
MainCreateFail ==
    /\ mpc = "create"
    /\ mpc' = "failed"
    /\ UNCHANGED <<arrayVars, mutex, gproduce_cnt, gconsume_cnt, pc, cnt_cache,
                   t, printed, mi, spurious>>

\* Mutant: pthread_join does not wait for the thread to end.
Joinable_Running(th) == pc[th] # "start"

Joinable(th) == pc[th] = "exit"

MainJoin ==
    /\ mpc = "join" /\ Joinable(mi)
    /\ mi' = (mi + 1) % ThreadNum
    /\ mpc' = IF mi + 1 = ThreadNum THEN "assert" ELSE "join"
    /\ UNCHANGED <<arrayVars, mutex, gproduce_cnt, gconsume_cnt, pc, cnt_cache,
                   t, printed, spurious>>

MainReturn ==
    /\ mpc = "assert"
    /\ mpc' = "done"
    /\ UNCHANGED <<arrayVars, mutex, gproduce_cnt, gconsume_cnt, pc, cnt_cache,
                   t, printed, mi, spurious>>

------------------------------------------------------------------------------
ProducerStep(p) ==
    \/ ProduceLoad(p) \/ ProduceCas(p)
    \/ Lock(p) \/ AppendWait(p) \/ AppendPut(p) \/ Unlock(p)

ConsumerStep(c) ==
    \/ ConsumeLoad(c) \/ ConsumeCas(c) \/ ConsumePrint(c)
    \/ Lock(c) \/ GetWait(c) \/ GetTake(c) \/ Unlock(c)

MainStep == MainCreate \/ MainJoin \/ MainReturn

\* After exit(1) no thread of the process runs any more.
ThreadStep ==
    /\ mpc # "failed"
    /\ \/ \E p \in Producers : ProducerStep(p)
       \/ \E c \in Consumers : ConsumerStep(c)
       \/ \E th \in Threads : SpuriousWakeup(th)

Next == ThreadStep \/ MainStep \/ MainCreateFail

Spec == Init /\ [][Next]_vars

\* The kernel runs every runnable thread again and again.  No fairness is
\* asked of the mutex beyond that, none of spurious wake-ups or failures.
Fairness ==
    /\ \A p \in Producers : WF_vars(mpc # "failed" /\ ProducerStep(p))
    /\ \A c \in Consumers : WF_vars(mpc # "failed" /\ ConsumerStep(c))
    /\ WF_vars(MainStep)

FairSpec == Spec /\ Fairness

------------------------------------------------------------------------------
TypeOK ==
    /\ buff \in [Slots -> Products \cup {NULL}]
    /\ pindex \in Slots /\ cindex \in Slots
    /\ mutex \in Threads \cup {NULL}
    /\ gproduce_cnt \in 0 .. ProductNum /\ gconsume_cnt \in 0 .. ProductNum
    /\ pc \in [Threads -> {"start", "load", "cas", "lock", "body", "wait",
                           "unlock", "print", "exit"}]
    /\ cnt_cache \in [Threads -> 0 .. ProductNum]
    /\ t \in [Threads -> Products \cup {NULL}]
    /\ printed \in [Products -> Nat]
    /\ mpc \in {"create", "join", "assert", "done", "failed"}
    /\ mi \in Threads
    /\ spurious \in 0 .. MaxSpurious

\* append's `assert(buff[pos]==NULL)' and `assert(t!=NULL)' hold whenever a
\* producer gets past `while(is_full())': no unconsumed product is overwritten.
AppendAsserts ==
    \A p \in Producers :
        pc[p] = "body" /\ ~is_full => buff[pindex] = NULL /\ t[p] # NULL

\* is_full and is_empty look at slot 0 only; they nevertheless tell exactly
\* whether all slots are occupied or all are free, wherever the indices are.
FullEmptyExact ==
    /\ is_full <=> \A s \in Slots : buff[s] # NULL
    /\ is_empty <=> \A s \in Slots : buff[s] = NULL

\* A product is in at most one place: one producer's or consumer's pointer,
\* one slot, or printed (and deleted) once.  Two places are a double delete.
Holders(v) == {th \in Threads : t[th] = v}
SlotsOf(v) == {s \in Slots : buff[s] = v}
NoDuplicate ==
    \A v \in Products :
        /\ \A x, y \in Holders(v) : x = y
        /\ \A x, y \in SlotsOf(v) : x = y
        /\ Holders(v) = {} \/ SlotsOf(v) = {}
        /\ Holders(v) # {} \/ SlotsOf(v) # {} => printed[v] = 0
        /\ printed[v] <= 1

\* A product whose ticket was drawn is never lost, and none exists before.
NoLoss ==
    \A v \in Products :
        v < gproduce_cnt <=> Holders(v) # {} \/ SlotsOf(v) # {} \/ printed[v] > 0

\* From its ticket to its printing every product is in exactly one place.
Conserved == NoDuplicate /\ NoLoss

\* main's `assert(gca->is_empty())' holds when main reaches it, and by then
\* every product 0 .. ProductNum-1 was printed, as concurrent_array.md expects.
FinalAssert ==
    mpc = "assert" => is_empty /\ \A v \in Products : printed[v] = 1

\* Every run in which pthread_create works returns from main: no wake-up is
\* lost between the two condition variables and nobody waits for good.
Termination == <>(mpc \in {"done", "failed"})

\* No assert of the program fails.
Asserts == AppendAsserts /\ FinalAssert

------------------------------------------------------------------------------
\* The ledger that makes main's assert hold.

Count ==
    IF pindex = cindex
    THEN IF buff[0] = NULL THEN 0 ELSE Size
    ELSE IF pindex > cindex THEN pindex - cindex ELSE pindex - cindex + Size

Busy(kind) == {th \in kind : pc[th] \in {"lock", "body", "wait"}}

\* Tickets drawn by producers and not in their hands any more, less tickets
\* drawn by consumers and already cashed in a get, is what the ring holds.
Ledger ==
    gproduce_cnt - Cardinality(Busy(Producers))
        = Count + gconsume_cnt - Cardinality(Busy(Consumers))

\* A thread ends only when all its tickets are drawn; main gets past a join
\* only when that thread has ended.
EndInv ==
    /\ \A p \in Producers : pc[p] = "exit" => gproduce_cnt = ProductNum
    /\ \A c \in Consumers : pc[c] = "exit" => gconsume_cnt = ProductNum
    /\ mpc = "join" => \A th \in Threads : th < mi => pc[th] = "exit"
    /\ mpc \in {"assert", "done"} => \A th \in Threads : pc[th] = "exit"

------------------------------------------------------------------------------
\* The inductive invariant the proofs rest on.

Occupied(s) ==
    IF pindex = cindex THEN buff[0] # NULL
    ELSE IF cindex < pindex THEN cindex <= s /\ s < pindex
    ELSE cindex <= s \/ s < pindex

\* The slots from cindex up to pindex, around the end, and no others are set.
RingInv == \A s \in Slots : buff[s] # NULL <=> Occupied(s)

\* Exactly the thread between lock and unlock holds the mutex.
MutexInv == \A th \in Threads : pc[th] \in {"body", "unlock"} <=> mutex = th

\* Who holds a product: a producer from its CAS to its append, a consumer
\* from its get to its delete.
HandInv ==
    /\ \A p \in Producers :
          /\ pc[p] # "print"
          /\ t[p] # NULL <=> pc[p] \in {"lock", "body", "wait"}
    /\ \A c \in Consumers : t[c] # NULL <=> pc[c] \in {"unlock", "print"}

TicketInv == \A th \in Threads : pc[th] = "cas" => cnt_cache[th] < ProductNum

StartInv ==
    mpc = "create" => \A th \in Threads : mi <= th => pc[th] = "start"

\* append and get work on a ring whose occupied slots run from cindex to
\* pindex, one thread at a time, each product in the hand its code says.
IInv ==
    /\ TypeOK /\ RingInv /\ MutexInv /\ HandInv /\ TicketInv /\ StartInv

------------------------------------------------------------------------------
\* The ring, read from cindex on, is the bounded FIFO queue of BoundedFifo.

SlotAt(k) == IF cindex + k < Size THEN cindex + k ELSE cindex + k - Size

Contents == [k \in 1 .. Count |-> buff[SlotAt(k - 1)]]

Fifo == INSTANCE BoundedFifo WITH Capacity <- Size, queue <- Contents, hand <- t

\* Every step of the program is a step of the bounded FIFO queue, or none:
\* get returns the products in the order append stored them.
ImplementsFifo == Fifo!Spec
==============================================================================
