------------------------------ MODULE Counters ------------------------------
(***************************************************************************)
(* The four programs of atomic/ that take the global gnum down to 0.       *)
(* Their main functions are the same, word for word; work_thread differs:  *)
(*   test_gcc_atomic   compare-and-swap in a loop                          *)
(*   atomic_basic      that loop in val_check_change_work_if_atomic, called*)
(*                     with offset -1 until its result fails the check too *)
(*   use_lock          test and decrement under a mutex                    *)
(*   no_protect        gnum-- with no protection                           *)
(* program is the one that runs.  pc[i] is where worker i stands: none     *)
(* before it is created, begin when it starts, done when it has returned.  *)
(* local[i] is its now_val, its num_cache, or the register of gnum--.      *)
(***************************************************************************)
EXTENDS Integers

CONSTANTS
    ThreadNum,    \* thread_num
    N,            \* gnum, as given on the command line
    IntMod,       \* 2^32, the number of values of an int; small in instances
    NoThread      \* owner of a free mutex

ASSUME ThreadNumAssumption == ThreadNum \in Nat
ASSUME NAssumption == N \in Int
ASSUME IntModAssumption == IntMod \in Nat \ {0} /\ IntMod % 2 = 0
ASSUME NoThreadAssumption == NoThread \notin Int

VARIABLES
    program,
    gnum, gmutex,     \* globals
    pc, local,        \* the workers
    worked,           \* how often work_func was called for a value
    mpc, mi           \* main: phase and loop index

mainVars == <<mpc, mi>>
countVars == <<program, gnum, gmutex, pc, local, worked, mpc, mi>>

Workers == 0 .. ThreadNum - 1
Work    == 1 .. N

CountInit ==
    /\ program \in {"test_gcc_atomic", "atomic_basic", "use_lock", "no_protect"}
    /\ gnum = N
    /\ gmutex = NoThread
    /\ pc = [i \in Workers |-> "none"]
    /\ local = [i \in Workers |-> 0]
    /\ worked = [v \in Work |-> 0]
    /\ mpc = "create" /\ mi = 0

Goto(i, place) == pc' = [pc EXCEPT ![i] = place]

------------------------------------------------------------------------------
\* test_gcc_atomic and atomic_basic

\* Mutant: zero passes the check.
is_check_ok_Zero(val) == val >= 0

is_check_ok(val) == val > 0

CasLoad(i) ==
    /\ pc[i] = "begin"
    /\ local' = [local EXCEPT ![i] = gnum]
    /\ Goto(i, IF is_check_ok(gnum) THEN "cas"
               ELSE IF program = "atomic_basic" THEN "return" ELSE "done")
    /\ UNCHANGED <<gnum, gmutex, worked>>

\* Mutant: the counter is stored whatever it holds by now.
Swaps_Blind(i) == TRUE

\* Mutant: the comparison is the wrong way round.
Swaps_Unequal(i) == gnum # local[i]

Swaps(i) == gnum = local[i]

Cas(i) ==
    /\ pc[i] = "cas" /\ Swaps(i)
    /\ gnum' = local[i] - 1
    /\ Goto(i, "work")
    /\ UNCHANGED <<gmutex, local, worked>>

CasFail(i) ==
    /\ pc[i] = "cas" /\ ~Swaps(i)
    /\ Goto(i, "begin")
    /\ UNCHANGED <<gnum, gmutex, local, worked>>

work_func(i) ==
    /\ pc[i] = "work"
    /\ worked' = [worked EXCEPT ![local[i]] = @ + 1]
    /\ Goto(i, "begin")
    /\ UNCHANGED <<gnum, gmutex, local>>

\* The loop of atomic_basic's work_thread looks at the returned value.
Return(i) ==
    /\ pc[i] = "return"
    /\ Goto(i, IF is_check_ok(local[i]) THEN "begin" ELSE "done")
    /\ UNCHANGED <<gnum, gmutex, local, worked>>

UsesCas == program \in {"test_gcc_atomic", "atomic_basic"}

CasWorker(i) ==
    UsesCas /\ (CasLoad(i) \/ Cas(i) \/ CasFail(i) \/ work_func(i) \/ Return(i))

------------------------------------------------------------------------------
\* test_gcc_atomic_use_lock

\* gnum is a long long and num_cache an int: the low bits, as two's complement.
ToInt(n) ==
    LET low == n % IntMod
    IN  IF low < IntMod \div 2 THEN low ELSE low - IntMod

\* The first read of gnum is not under the mutex.
First(i) ==
    /\ pc[i] = "begin"
    /\ local' = [local EXCEPT ![i] = ToInt(gnum)]
    /\ Goto(i, "test")
    /\ UNCHANGED <<gnum, gmutex, worked>>

Test(i) ==
    /\ pc[i] = "test"
    /\ Goto(i, IF local[i] # 0 THEN "lock" ELSE "done")
    /\ UNCHANGED <<gnum, gmutex, local, worked>>

Free == gmutex = NoThread

Lock(i) ==
    /\ pc[i] = "lock" /\ Free
    /\ gmutex' = i
    /\ Goto(i, "if")
    /\ UNCHANGED <<gnum, local, worked>>

\* The test, the decrement and the copy are separate accesses to gnum.
If(i) ==
    /\ pc[i] = "if"
    /\ Goto(i, IF gnum > 0 THEN "dec" ELSE "copy")
    /\ UNCHANGED <<gnum, gmutex, local, worked>>

Dec(i) ==
    /\ pc[i] = "dec"
    /\ gnum' = gnum - 1
    /\ Goto(i, "copy")
    /\ UNCHANGED <<gmutex, local, worked>>

Copy(i) ==
    /\ pc[i] = "copy"
    /\ local' = [local EXCEPT ![i] = ToInt(gnum)]
    /\ Goto(i, "unlock")
    /\ UNCHANGED <<gnum, gmutex, worked>>

Unlock(i) ==
    /\ pc[i] = "unlock"
    /\ gmutex' = NoThread
    /\ Goto(i, "test")
    /\ UNCHANGED <<gnum, local, worked>>

LockWorker(i) ==
    /\ program = "use_lock"
    /\ First(i) \/ Test(i) \/ Lock(i) \/ If(i) \/ Dec(i) \/ Copy(i) \/ Unlock(i)

------------------------------------------------------------------------------
\* test_gcc_atomic_no_protect.  The build (-g, no optimisation) reads gnum for
\* the loop condition, reads it again for gnum-- and writes the difference
\* back; each access is one aligned 64-bit move.

Check(i) ==
    /\ pc[i] = "begin"
    /\ Goto(i, IF gnum > 0 THEN "load" ELSE "done")
    /\ UNCHANGED <<gnum, gmutex, local, worked>>

LoadNum(i) ==
    /\ pc[i] = "load"
    /\ local' = [local EXCEPT ![i] = gnum]
    /\ Goto(i, "store")
    /\ UNCHANGED <<gnum, gmutex, worked>>

StoreNum(i) ==
    /\ pc[i] = "store"
    /\ gnum' = local[i] - 1
    /\ Goto(i, "begin")
    /\ UNCHANGED <<gmutex, local, worked>>

RacyWorker(i) == program = "no_protect" /\ (Check(i) \/ LoadNum(i) \/ StoreNum(i))

------------------------------------------------------------------------------
\* main: create thread_num workers, join them in order, print gnum.

\* pthread_create reports a failure as a positive number, which `<0' does not
\* catch: main goes on either way.
CreateWorker ==
    /\ mpc = "create" /\ mi < ThreadNum
    /\ Goto(mi, "begin") \/ UNCHANGED pc
    /\ mi' = mi + 1
    /\ UNCHANGED mpc

MainCreated ==
    /\ mpc = "create" /\ mi = ThreadNum
    /\ mpc' = "join" /\ mi' = 0
    /\ UNCHANGED pc

\* Mutant: main does not wait for the worker.
Joinable_Running(i) == TRUE

\* pthread_join returns when the worker has; for a worker that was never
\* created it uses an invalid handle and returns an error, which is ignored, or
\* crashes.
Joinable(i) == pc[i] \in {"done", "none"}

JoinWorker ==
    /\ mpc = "join" /\ mi < ThreadNum
    /\ Joinable(mi)
    /\ mi' = mi + 1
    /\ UNCHANGED <<pc, mpc>>

MainCrash ==
    /\ mpc = "join" /\ mi < ThreadNum
    /\ pc[mi] = "none"
    /\ mpc' = "crash"
    /\ UNCHANGED <<pc, mi>>

MainPrint ==
    /\ mpc = "join" /\ mi = ThreadNum
    /\ mpc' = "print"
    /\ UNCHANGED <<pc, mi>>

MainThread ==
    /\ CreateWorker \/ MainCreated \/ JoinWorker \/ MainCrash \/ MainPrint
    /\ UNCHANGED <<program, gnum, gmutex, local, worked>>

\* The workers stop when main leaves: a crash, or the return after the print.
Worker(i) ==
    /\ mpc \notin {"crash", "print"}
    /\ CasWorker(i) \/ LockWorker(i) \/ RacyWorker(i)
    /\ UNCHANGED <<program, mainVars>>

CountNext == MainThread \/ \E i \in Workers : Worker(i)

CountSpec == CountInit /\ [][CountNext]_countVars

\* Every thread that can run is eventually scheduled.  Neither the mutex nor
\* compare-and-swap need be fair: a worker that is overtaken is overtaken only
\* as often as gnum goes down.
CountFairSpec == CountSpec /\ WF_countVars(MainThread) /\ \A i \in Workers : WF_countVars(Worker(i))

------------------------------------------------------------------------------
Started == \E i \in Workers : pc[i] # "none"

CasPlaces  == {"none", "begin", "cas", "work", "return", "done"}
LockPlaces == {"none", "begin", "test", "lock", "if", "dec", "copy", "unlock", "done"}
RacyPlaces == {"none", "begin", "load", "store", "done"}

CountTypeOK ==
    /\ program \in {"test_gcc_atomic", "atomic_basic", "use_lock", "no_protect"}
    /\ gnum \in Int
    /\ gmutex \in Workers \cup {NoThread}
    /\ pc \in [Workers -> IF UsesCas THEN CasPlaces
                          ELSE IF program = "use_lock" THEN LockPlaces ELSE RacyPlaces]
    /\ local \in [Workers -> Int]
    /\ worked \in [Work -> Nat]
    /\ mpc \in {"create", "join", "print", "crash"}
    /\ mi \in 0 .. ThreadNum

\* main creates a worker once, and is past its join only when it has returned.
Joined ==
    /\ mpc = "create" => \A i \in Workers : i >= mi => pc[i] = "none"
    /\ mpc = "join" => \A i \in Workers : i < mi => pc[i] \in {"none", "done"}
    /\ mpc = "print" => \A i \in Workers : pc[i] \in {"none", "done"}

\* The counter never leaves the way from N down to 0, except that unprotected
\* decrements may take it below.
InRange ==
    /\ gnum <= N
    /\ program # "no_protect" =>
          (N >= 0 => gnum >= 0) /\ (N < 0 => gnum = N)
    /\ program = "no_protect" =>
          \A i \in Workers : pc[i] = "store" => local[i] <= N

\* Values claimed by a worker that has not done their work yet.
Claimed(i, v) == pc[i] = "work" /\ local[i] = v

\* Every value above gnum was claimed by exactly one worker, which does its
\* work once; no value at or below gnum was claimed.
WorkOnce ==
    UsesCas => \A v \in Work :
        /\ v > gnum =>
             \/ worked[v] = 1 /\ \A i \in Workers : ~Claimed(i, v)
             \/ worked[v] = 0 /\ \E i \in Workers :
                                    /\ Claimed(i, v)
                                    /\ \A j \in Workers : Claimed(j, v) => i = j
        /\ v <= gnum => worked[v] = 0 /\ \A i \in Workers : ~Claimed(i, v)

\* A worker's value is at least gnum between its load and its work.
NotAhead ==
    UsesCas => \A i \in Workers :
        /\ pc[i] \in {"cas", "work"} => gnum <= local[i] /\ local[i] \in Work
        /\ pc[i] = "return" => local[i] <= 0

\* The worker in the critical section owns the mutex, and between its test of
\* gnum and its decrement no other worker changes gnum.
Exclusive ==
    program = "use_lock" => \A i \in Workers :
        /\ pc[i] \in {"if", "dec", "copy", "unlock"} => gmutex = i
        /\ pc[i] = "dec" => gnum > 0

\* What a program takes for the end of the count.
Finished == IF program = "use_lock" THEN ToInt(gnum) = 0 ELSE gnum <= 0

\* Whether worker i is still to look at gnum, or saw that there is more to do.
Looks(i) ==
    IF program = "use_lock"
    THEN \/ pc[i] \in {"begin", "lock", "if", "dec", "copy"}
         \/ pc[i] \in {"test", "unlock"} /\ local[i] # 0
    ELSE pc[i] \notin {"none", "return", "done"}

\* An unfinished count is never left behind by the workers.
NotAbandoned == Started /\ ~Finished => \E i \in Workers : Looks(i)

\* The inductive invariant: the mutual exclusion, claims and ranges that make
\* FinalValue hold.
IInv == /\ CountTypeOK /\ Joined /\ InRange /\ WorkOnce /\ NotAhead /\ Exclusive
        /\ NotAbandoned

\* What main prints after joining at least one worker.  Compare-and-swap: 0, and
\* the work of every value was done once.  Mutex: a multiple of the number of
\* ints, so 0 when N fits into an int.  No protection: 0 or less.
FinalValue ==
    mpc = "print" /\ Started /\ N >= 0 =>
        IF UsesCas THEN gnum = 0 /\ \A v \in Work : worked[v] = 1
        ELSE IF program = "use_lock"
             THEN gnum % IntMod = 0 /\ 0 <= gnum /\ gnum <= N
             ELSE gnum <= 0

\* Under compare-and-swap and under the mutex gnum goes down by ones to 0.
Counter == INSTANCE Countdown
           WITH num <- IF program = "no_protect" THEN N ELSE gnum
CountsDown == Counter!Spec

\* Every run of the four programs ends when N is not negative, although failed
\* swaps repeat and a late unprotected store may undo any number of decrements.
CountEnds == <>(mpc \in {"print", "crash"})
==============================================================================
