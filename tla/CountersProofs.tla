--------------------------- MODULE CountersProofs ---------------------------
(***************************************************************************)
(* The counter programs of atomic/ print what they should, for every       *)
(* number of workers, every start value and every width of int.  IInv is   *)
(* proved inductive one program at a time: what the other programs' parts  *)
(* of it say is vacuous while program does not change.                     *)
(* The second half is about another module, EchoClients: the clients read  *)
(* every echo, and csc_echo_epoll, whose threads count in gmsgno without   *)
(* protection, leaves out no number.                                       *)
(***************************************************************************)
EXTENDS Counters, EchoClients, TLAPS, WellFoundedInduction, NaturalsInduction

\* The arithmetic facts about the constants and the variables that most steps use.
LEMMA Types ==
    ASSUME CountTypeOK
    PROVE  /\ N \in Int /\ gnum \in Int /\ ThreadNum \in Nat /\ mi \in Int
           /\ \A w \in Workers : w \in Int /\ local[w] \in Int
           /\ \A v \in Work : v \in Int
  BY NAssumption, ThreadNumAssumption DEF CountTypeOK, Workers, Work

\* Cutting a long long to an int gives an integer, 0 only for a multiple of IntMod.
LEMMA ToIntZero ==
    ASSUME NEW n \in Int
    PROVE  ToInt(n) \in Int /\ (ToInt(n) = 0 => n % IntMod = 0)
  <1>1. IntMod \in Nat /\ IntMod > 0
    BY IntModAssumption
  <1>2. n % IntMod \in Int /\ 0 <= n % IntMod /\ n % IntMod < IntMod
    BY <1>1
  <1> QED
    BY <1>1, <1>2 DEF ToInt

\* The invariant holds before main has created a worker.
LEMMA InitInv == CountInit => IInv
  <1> SUFFICES ASSUME CountInit PROVE IInv
    OBVIOUS
  <1> USE DEF CountInit
  <1>1. CountTypeOK
    <2>1. 0 \in 0 .. ThreadNum
      BY ThreadNumAssumption
    <2> QED
      BY <2>1, NAssumption DEF CountTypeOK, UsesCas, CasPlaces, LockPlaces, RacyPlaces
  <1>2. Joined /\ Exclusive /\ NotAbandoned
    BY DEF Joined, Exclusive, NotAbandoned, Started
  <1>3. NotAhead /\ InRange
    BY NAssumption DEF NotAhead, InRange
  <1>4. WorkOnce
    BY NAssumption DEF WorkOnce, Claimed, Work
  <1> QED
    BY <1>1, <1>2, <1>3, <1>4 DEF IInv

\* main only creates workers, waits for them and counts.
LEMMA MainInv == IInv /\ MainThread => IInv'
  <1> SUFFICES ASSUME IInv, MainThread PROVE IInv'
    OBVIOUS
  <1>1. /\ program' = program /\ gnum' = gnum /\ gmutex' = gmutex
        /\ local' = local /\ worked' = worked
    BY DEF MainThread
  <1>2. ThreadNum \in Nat /\ mi \in Int /\ \A w \in Workers : w \in Int
    BY Types DEF IInv
  <1>3. CASE CreateWorker
    <2>1. /\ pc' = [pc EXCEPT ![mi] = "begin"] \/ pc' = pc
          /\ mpc = "create" /\ mpc' = mpc /\ mi' = mi + 1 /\ mi < ThreadNum
      BY <1>3 DEF CreateWorker, Goto
    <2>2. mi \in Workers /\ pc[mi] = "none"
      BY <2>1, <1>2 DEF IInv, CountTypeOK, Workers, Joined
    <2>3. \A w \in Workers : pc'[w] = pc[w]
                             \/ (w = mi /\ pc'[w] = "begin" /\ pc[w] = "none")
      BY <2>1, <2>2 DEF IInv, CountTypeOK
    <2>4. CountTypeOK'
      BY <1>1, <2>1, <2>2, <1>2 DEF IInv, CountTypeOK, UsesCas, CasPlaces, LockPlaces,
         RacyPlaces
    <2>5. Joined'
      BY <1>2, <2>1, <2>3 DEF IInv, Joined
    <2>6. NotAhead' /\ InRange' /\ Exclusive'
      BY <1>1, <2>3 DEF IInv, NotAhead, InRange, Exclusive, UsesCas
    <2>7. \A w \in Workers, v \in Work : Claimed(w, v)' <=> Claimed(w, v)
      BY <1>1, <2>3 DEF Claimed
    <2>8. WorkOnce'
      BY <1>1, <2>7 DEF IInv, WorkOnce, UsesCas
    <2>9. NotAbandoned'
      <3>1. Finished' <=> Finished
        BY <1>1 DEF Finished, ToInt
      <3>2. \A w \in Workers : pc'[w] = "begin" => Looks(w)'
        BY DEF Looks
      <3>3. \A w \in Workers : pc'[w] = pc[w] => (Looks(w)' <=> Looks(w))
        BY <1>1 DEF Looks
      <3>4. CASE \E w \in Workers : pc'[w] # pc[w]
        BY <3>4, <2>3, <3>2 DEF NotAbandoned
      <3>5. CASE \A w \in Workers : pc'[w] = pc[w]
        BY <3>5, <3>1, <3>3 DEF IInv, NotAbandoned, Started
      <3> QED
        BY <3>4, <3>5
    <2> QED
      BY <2>4, <2>5, <2>6, <2>8, <2>9 DEF IInv
  <1>4. CASE MainCreated \/ JoinWorker \/ MainCrash \/ MainPrint
    <2>1. pc' = pc
      BY <1>4 DEF MainCreated, JoinWorker, MainCrash, MainPrint
    <2>2. CountTypeOK'
      BY <1>1, <1>2, <1>4, <2>1 DEF MainCreated, JoinWorker, MainCrash, MainPrint,
         IInv, CountTypeOK, UsesCas
    <2>3. Joined'
      BY <1>2, <1>4, <2>1 DEF MainCreated, JoinWorker, MainCrash, MainPrint, IInv,
         Joined, Joinable, Workers
    <2>4. NotAhead' /\ WorkOnce' /\ InRange' /\ Exclusive'
      BY <1>1, <2>1 DEF IInv, NotAhead, WorkOnce, Claimed, InRange, Exclusive, UsesCas
    <2>5. NotAbandoned'
      BY <1>1, <2>1 DEF IInv, NotAbandoned, Started, Finished, ToInt, Looks
    <2> QED
      BY <2>2, <2>3, <2>4, <2>5 DEF IInv
  <1> QED
    BY <1>3, <1>4 DEF MainThread

\* A worker's step moves that worker alone, from a place where main waits for it.
LEMMA JoinedStep ==
    ASSUME CountTypeOK, Joined, NEW t \in Workers, NEW place, Goto(t, place),
           pc[t] \notin {"none", "done"}, UNCHANGED mainVars
    PROVE  /\ \A w \in Workers : w # t => pc'[w] = pc[w]
           /\ pc'[t] = place /\ Joined' /\ mpc' = mpc /\ mi' = mi /\ Started
  <1>1. \A w \in Workers : w # t => pc'[w] = pc[w]
    BY DEF CountTypeOK, Goto
  <1>2. pc'[t] = place
    BY DEF CountTypeOK, Goto
  <1> QED
    BY <1>1, <1>2 DEF Joined, Started, mainVars

\* The compare-and-swap workers keep the invariant.
LEMMA CasInv ==
    ASSUME IInv, NEW t \in Workers, Worker(t), CasWorker(t)
    PROVE  IInv'
  <1>1. /\ UsesCas /\ UsesCas' /\ program' = program /\ gmutex' = gmutex
        /\ UNCHANGED mainVars /\ program \notin {"use_lock", "no_protect"}
        /\ program' \notin {"use_lock", "no_protect"}
    BY DEF Worker, CasWorker, UsesCas, CasLoad, Cas, CasFail, work_func, Return
  <1>2. /\ N \in Int /\ gnum \in Int /\ \A w \in Workers : local[w] \in Int
        /\ \A v \in Work : v \in Int
    BY Types DEF IInv
  <1>3. /\ pc \in [Workers -> CasPlaces] /\ local \in [Workers -> Int]
        /\ worked \in [Work -> Nat]
    BY <1>1 DEF IInv, CountTypeOK
  <1>4. Exclusive'
    BY <1>1 DEF Exclusive
  <1>5. ASSUME NEW place \in {"begin", "cas", "work", "return", "done"}, Goto(t, place),
               pc[t] \in {"begin", "cas", "work", "return"},
               gnum' \in Int, local' \in [Workers -> Int], worked' \in [Work -> Nat],
               \/ place \notin {"return", "done"}
               \/ gnum' <= 0
               \/ pc[t] = "return" /\ gnum' = gnum
        PROVE  /\ CountTypeOK' /\ Joined' /\ NotAbandoned'
               /\ \A w \in Workers : w # t => pc'[w] = pc[w]
               /\ pc'[t] = place
    <2>1. /\ \A w \in Workers : w # t => pc'[w] = pc[w]
          /\ pc'[t] = place /\ Joined' /\ mpc' = mpc /\ mi' = mi /\ Started
      BY <1>1, <1>5, JoinedStep DEF IInv
    <2>2. pc' \in [Workers -> CasPlaces]
      BY <1>3, <1>5 DEF Goto, CasPlaces
    <2>3. CountTypeOK'
      BY <1>1, <1>5, <2>1, <2>2 DEF IInv, CountTypeOK
    <2>4. NotAbandoned'
      <3>1. Finished' <=> gnum' <= 0
        BY <1>1 DEF Finished
      <3>2. Finished <=> gnum <= 0
        BY <1>1 DEF Finished
      <3>3. \A w \in Workers : Looks(w)' <=> pc'[w] \notin {"none", "return", "done"}
        BY <1>1 DEF Looks
      <3>4. \A w \in Workers : Looks(w) <=> pc[w] \notin {"none", "return", "done"}
        BY <1>1 DEF Looks
      <3>5. CASE place \in {"begin", "cas", "work"}
        BY <2>1, <3>3, <3>5 DEF NotAbandoned
      <3>6. CASE gnum' <= 0
        BY <3>1, <3>6 DEF NotAbandoned
      <3>7. CASE pc[t] = "return" /\ gnum' = gnum
        <4>1. Started /\ ~Finished => \E w \in Workers : Looks(w)
          BY DEF IInv, NotAbandoned
        <4>2. \A w \in Workers : Looks(w) => Looks(w)'
          BY <2>1, <3>3, <3>4, <3>7
        <4> QED
          BY <4>1, <4>2, <2>1, <3>1, <3>2, <3>7 DEF NotAbandoned
      <3> QED
        BY <1>5, <3>5, <3>6, <3>7
    <2> QED
      BY <2>1, <2>3, <2>4
  <1>6. CASE CasLoad(t)
    <2>1. /\ pc[t] = "begin" /\ gnum' = gnum /\ worked' = worked
          /\ local' = [local EXCEPT ![t] = gnum]
      BY <1>6 DEF CasLoad
    <2>2. PICK place \in {"cas", "return", "done"} :
             /\ Goto(t, place)
             /\ place = "cas" <=> gnum > 0
      BY <1>6, <1>2 DEF CasLoad, is_check_ok
    <2>3. /\ CountTypeOK' /\ Joined' /\ NotAbandoned' /\ pc'[t] = place
          /\ \A w \in Workers : w # t => pc'[w] = pc[w]
      BY <1>2, <1>3, <1>5, <2>1, <2>2
    <2>4. \A w \in Workers : w # t => local'[w] = local[w]
      BY <1>3, <2>1
    <2>5. local'[t] = gnum
      BY <1>3, <2>1
    <2>6. NotAhead'
      BY <1>1, <1>2, <2>1, <2>2, <2>3, <2>4, <2>5 DEF IInv, NotAhead, InRange, Work
    <2>7. \A w \in Workers, v \in Work : Claimed(w, v)' <=> Claimed(w, v)
      BY <2>1, <2>2, <2>3, <2>4 DEF Claimed
    <2>8. WorkOnce'
      BY <1>1, <2>1, <2>7 DEF IInv, WorkOnce
    <2>9. InRange'
      BY <1>1, <2>1 DEF IInv, InRange
    <2> QED
      BY <1>4, <2>3, <2>6, <2>8, <2>9 DEF IInv
  <1>7. CASE Cas(t)
    <2>1. /\ pc[t] = "cas" /\ gnum = local[t] /\ gnum' = gnum - 1
          /\ Goto(t, "work") /\ local' = local /\ worked' = worked
      BY <1>7 DEF Cas, Swaps
    <2>2. gnum \in Work /\ 1 <= gnum /\ gnum <= N
      BY <1>1, <1>2, <2>1 DEF IInv, NotAhead, Work
    <2>3. /\ CountTypeOK' /\ Joined' /\ NotAbandoned' /\ pc'[t] = "work"
          /\ \A w \in Workers : w # t => pc'[w] = pc[w]
      BY <1>2, <1>3, <1>5, <2>1
    <2>4. NotAhead'
      BY <1>1, <1>2, <2>1, <2>2, <2>3 DEF IInv, NotAhead
    <2>5. \A w \in Workers, v \in Work :
              Claimed(w, v)' <=> Claimed(w, v) \/ (w = t /\ v = gnum)
      BY <2>1, <2>3 DEF Claimed
    <2>6. WorkOnce'
      <3> SUFFICES ASSUME NEW v \in Work
                   PROVE  WorkOnce!2!(v)'
        BY DEF WorkOnce
      <3>1. WorkOnce!2!(v)
        BY <1>1 DEF IInv, WorkOnce
      <3>2. CASE v = gnum
        <4>1. worked[v] = 0 /\ \A w \in Workers : ~Claimed(w, v)
          BY <3>1, <3>2, <1>2
        <4> QED
          BY <3>2, <4>1, <2>1, <2>5, <1>2
      <3>3. CASE v # gnum
        <4>1. \A w \in Workers : Claimed(w, v)' <=> Claimed(w, v)
          BY <3>3, <2>5
        <4>2. (v > gnum' <=> v > gnum) /\ (v <= gnum' <=> v <= gnum)
          BY <3>3, <2>1, <1>2
        <4> QED
          BY <4>1, <4>2, <2>1, <3>1
      <3> QED
        BY <3>2, <3>3
    <2>7. InRange'
      BY <1>1, <1>2, <2>1, <2>2 DEF IInv, InRange
    <2> QED
      BY <1>4, <2>3, <2>4, <2>6, <2>7 DEF IInv
  <1>8. CASE CasFail(t) \/ Return(t)
    <2>1. /\ gnum' = gnum /\ local' = local /\ worked' = worked
          /\ pc[t] \in {"cas", "return"}
      BY <1>8 DEF CasFail, Return
    <2>2. PICK place \in {"begin", "done"} :
             Goto(t, place) /\ (place = "done" => pc[t] = "return")
      BY <1>8 DEF CasFail, Return
    <2>3. /\ CountTypeOK' /\ Joined' /\ NotAbandoned' /\ pc'[t] = place
          /\ \A w \in Workers : w # t => pc'[w] = pc[w]
      BY <1>2, <1>3, <1>5, <2>1, <2>2
    <2>4. NotAhead' /\ InRange'
      BY <1>1, <2>1, <2>3 DEF IInv, NotAhead, InRange
    <2>5. \A w \in Workers, v \in Work : Claimed(w, v)' <=> Claimed(w, v)
      BY <2>1, <2>2, <2>3 DEF Claimed
    <2>6. WorkOnce'
      BY <1>1, <2>1, <2>5 DEF IInv, WorkOnce
    <2> QED
      BY <1>4, <2>3, <2>4, <2>6 DEF IInv
  <1>9. CASE work_func(t)
    <2>1. /\ pc[t] = "work" /\ gnum' = gnum /\ local' = local /\ Goto(t, "begin")
          /\ worked' = [worked EXCEPT ![local[t]] = @ + 1]
      BY <1>9 DEF work_func
    <2>2. local[t] \in Work /\ Claimed(t, local[t])
      BY <1>1, <2>1 DEF IInv, NotAhead, Claimed
    <2>3. worked' \in [Work -> Nat]
      BY <1>3, <2>1, <2>2
    <2>4. /\ CountTypeOK' /\ Joined' /\ NotAbandoned' /\ pc'[t] = "begin"
          /\ \A w \in Workers : w # t => pc'[w] = pc[w]
      BY <1>2, <1>3, <1>5, <2>1, <2>3
    <2>5. NotAhead' /\ InRange'
      BY <1>1, <2>1, <2>4 DEF IInv, NotAhead, InRange
    <2>6. \A w \in Workers, v \in Work :
              Claimed(w, v)' <=> Claimed(w, v) /\ w # t
      BY <2>1, <2>4 DEF Claimed
    <2>7. WorkOnce'
      <3> SUFFICES ASSUME NEW v \in Work
                   PROVE  WorkOnce!2!(v)'
        BY DEF WorkOnce
      <3>1. WorkOnce!2!(v)
        BY <1>1 DEF IInv, WorkOnce
      <3>2. CASE v = local[t]
        <4>1. v > gnum
          BY <3>1, <3>2, <2>2, <1>2
        <4>2. worked[v] = 0 /\ \A j \in Workers : Claimed(j, v) => j = t
          BY <3>1, <3>2, <4>1, <2>2
        <4>3. worked'[v] = 1
          BY <3>2, <4>2, <2>1, <2>2, <1>3
        <4> QED
          BY <4>1, <4>2, <4>3, <2>1, <2>6, <1>2
      <3>3. CASE v # local[t]
        <4>1. \A w \in Workers : Claimed(w, v)' <=> Claimed(w, v)
          BY <3>3, <2>1, <2>6 DEF Claimed
        <4>2. worked'[v] = worked[v]
          BY <3>3, <2>1, <2>2, <1>3
        <4> QED
          BY <4>1, <4>2, <2>1, <3>1
      <3> QED
        BY <3>2, <3>3
    <2> QED
      BY <1>4, <2>4, <2>5, <2>7 DEF IInv
  <1> QED
    BY <1>6, <1>7, <1>8, <1>9 DEF CasWorker

\* The workers under the mutex keep the invariant.
LEMMA LockInv ==
    ASSUME IInv, NEW t \in Workers, Worker(t), LockWorker(t)
    PROVE  IInv'
  <1>1. /\ program = "use_lock" /\ program' = program /\ worked' = worked
        /\ UNCHANGED mainVars /\ ~UsesCas /\ ~UsesCas'
    BY DEF Worker, LockWorker, UsesCas, First, Test, Lock, If, Dec, Copy, Unlock
  <1>2. /\ N \in Int /\ gnum \in Int /\ \A w \in Workers : local[w] \in Int
    BY Types DEF IInv
  <1>3. /\ pc \in [Workers -> LockPlaces] /\ local \in [Workers -> Int]
        /\ t # NoThread
    BY <1>1, NoThreadAssumption, Types DEF IInv, CountTypeOK
  <1>4. NotAhead' /\ WorkOnce'
    BY <1>1 DEF NotAhead, WorkOnce
  <1>5. PICK place \in LockPlaces \ {"none", "begin"} :
           Goto(t, place) /\ pc[t] \notin {"none", "done"}
    BY DEF LockWorker, LockPlaces, First, Test, Lock, If, Dec, Copy, Unlock
  <1>6. /\ \A w \in Workers : w # t => pc'[w] = pc[w]
        /\ pc'[t] = place /\ Joined' /\ mpc' = mpc /\ mi' = mi /\ Started
    BY <1>1, <1>5, JoinedStep DEF IInv
  <1>7. /\ gnum' = gnum \/ (pc[t] = "dec" /\ gnum' = gnum - 1 /\ place = "copy")
        /\ gmutex' = gmutex \/ (pc[t] = "lock" /\ gmutex = NoThread /\ gmutex' = t /\ place = "if")
                            \/ (pc[t] = "unlock" /\ gmutex' = NoThread /\ place = "test")
        /\ local' = local \/ (local' = [local EXCEPT ![t] = ToInt(gnum)] /\ gnum' = gnum
                              /\ place \in {"test", "unlock"})
    BY <1>3, <1>6 DEF LockWorker, First, Test, Lock, If, Dec, Copy, Unlock, Free, Goto
  <1>8. CountTypeOK'
    <2>1. pc' \in [Workers -> LockPlaces]
      BY <1>3, <1>5 DEF Goto
    <2>2. local' \in [Workers -> Int]
      BY <1>2, <1>3, <1>7, ToIntZero
    <2>3. gnum' \in Int /\ gmutex' \in Workers \cup {NoThread}
      BY <1>2, <1>7 DEF IInv, CountTypeOK
    <2> QED
      BY <1>1, <1>6, <2>1, <2>2, <2>3 DEF IInv, CountTypeOK
  <1>9. Exclusive'
    <2>1. place = "dec" => pc[t] = "if" /\ gnum > 0
      BY <1>3, <1>6, <1>2 DEF LockWorker, First, Test, Lock, If, Dec, Copy, Unlock, Goto
    <2>2. place \in {"if", "dec", "copy", "unlock"} =>
             \/ pc[t] \in {"if", "dec", "copy"}
             \/ pc[t] = "lock" /\ gmutex' = t
      BY <1>3, <1>6 DEF LockWorker, First, Test, Lock, If, Dec, Copy, Unlock, Goto
    <2>3. \A w \in Workers : pc[w] \in {"if", "dec", "copy", "unlock"} => gmutex = w
      BY <1>1 DEF IInv, Exclusive
    <2>4. \A w \in Workers : pc[w] = "dec" => gnum > 0
      BY <1>1 DEF IInv, Exclusive
    <2>5. ASSUME NEW w \in Workers, w # t, pc'[w] \in {"if", "dec", "copy", "unlock"}
          PROVE  gmutex' = w /\ gnum' = gnum
      <3>1. gmutex = w /\ w # NoThread
        BY <1>6, <2>3, <2>5, NoThreadAssumption, Types DEF IInv
      <3>2. pc[t] \notin {"if", "dec", "copy", "unlock"}
        BY <2>3, <2>5, <3>1
      <3> QED
        BY <1>7, <3>1, <3>2
    <2>6. pc'[t] \in {"if", "dec", "copy", "unlock"} => gmutex' = t
      BY <1>6, <1>7, <2>2, <2>3
    <2>7. pc'[t] = "dec" => gnum' > 0
      BY <1>6, <1>7, <2>1
    <2>8. \A w \in Workers : pc'[w] \in {"if", "dec", "copy", "unlock"} => gmutex' = w
      BY <2>5, <2>6
    <2>9. \A w \in Workers : pc'[w] = "dec" => gnum' > 0
      BY <1>6, <2>4, <2>5, <2>7
    <2> QED
      BY <2>8, <2>9 DEF Exclusive
  <1>10. InRange'
    <2>1. pc[t] = "dec" => gnum > 0
      BY <1>1 DEF IInv, Exclusive
    <2> QED
      BY <1>1, <1>2, <1>7, <2>1 DEF IInv, InRange
  <1>11. NotAbandoned'
    <2>1. Finished' <=> ToInt(gnum)' = 0
      BY <1>1 DEF Finished
    <2>2. Finished <=> ToInt(gnum) = 0
      BY <1>1 DEF Finished
    <2>3. \A w \in Workers :
             Looks(w)' <=> \/ pc'[w] \in {"begin", "lock", "if", "dec", "copy"}
                           \/ pc'[w] \in {"test", "unlock"} /\ local'[w] # 0
      BY <1>1 DEF Looks
    <2>4. \A w \in Workers :
             Looks(w) <=> \/ pc[w] \in {"begin", "lock", "if", "dec", "copy"}
                          \/ pc[w] \in {"test", "unlock"} /\ local[w] # 0
      BY <1>1 DEF Looks
    <2>5. CASE place \in {"lock", "if", "dec", "copy"}
      BY <1>6, <2>3, <2>5 DEF NotAbandoned
    <2>6. CASE local' = [local EXCEPT ![t] = ToInt(gnum)] /\ gnum' = gnum
               /\ place \in {"test", "unlock"}
      <3>1. local'[t] = ToInt(gnum) /\ ToInt(gnum)' = ToInt(gnum)
        BY <1>3, <2>6 DEF ToInt
      <3> QED
        BY <1>6, <2>1, <2>3, <2>6, <3>1 DEF NotAbandoned
    <2>7. CASE /\ place \in {"test", "unlock", "done"} /\ local' = local /\ gnum' = gnum
               /\ place = "done" => pc[t] = "test" /\ local[t] = 0
               /\ place # "done" => pc[t] = "unlock"
      <3>1. \A w \in Workers : Looks(w) => Looks(w)'
        BY <1>6, <2>3, <2>4, <2>7
      <3>2. ToInt(gnum)' = ToInt(gnum)
        BY <2>7 DEF ToInt
      <3> QED
        BY <1>6, <2>1, <2>2, <3>1, <3>2 DEF IInv, NotAbandoned
    <2> QED
      BY <1>3, <1>6, <2>5, <2>6, <2>7
         DEF LockWorker, First, Test, Lock, If, Dec, Copy, Unlock, Goto
  <1> QED
    BY <1>4, <1>6, <1>8, <1>9, <1>10, <1>11 DEF IInv

\* The unprotected workers keep the invariant.
LEMMA RacyInv ==
    ASSUME IInv, NEW t \in Workers, Worker(t), RacyWorker(t)
    PROVE  IInv'
  <1>1. /\ program = "no_protect" /\ program' = program /\ worked' = worked
        /\ UNCHANGED mainVars /\ gmutex' = gmutex /\ ~UsesCas /\ ~UsesCas'
    BY DEF Worker, RacyWorker, UsesCas, Check, LoadNum, StoreNum
  <1>2. /\ N \in Int /\ gnum \in Int /\ \A w \in Workers : local[w] \in Int
    BY Types DEF IInv
  <1>3. /\ pc \in [Workers -> RacyPlaces] /\ local \in [Workers -> Int]
    BY <1>1 DEF IInv, CountTypeOK
  <1>4. NotAhead' /\ WorkOnce' /\ Exclusive'
    BY <1>1 DEF NotAhead, WorkOnce, Exclusive
  <1>5. PICK place \in RacyPlaces \ {"none"} :
           /\ Goto(t, place) /\ pc[t] \notin {"none", "done"}
           /\ \/ place = "done" /\ gnum <= 0 /\ gnum' = gnum /\ local' = local
              \/ place = "load" /\ gnum' = gnum /\ local' = local
              \/ place = "store" /\ gnum' = gnum /\ local' = [local EXCEPT ![t] = gnum]
              \/ /\ place = "begin" /\ pc[t] = "store"
                 /\ gnum' = local[t] - 1 /\ local' = local
    BY <1>2 DEF RacyWorker, RacyPlaces, Check, LoadNum, StoreNum
  <1>6. /\ \A w \in Workers : w # t => pc'[w] = pc[w]
        /\ pc'[t] = place /\ Joined' /\ mpc' = mpc /\ mi' = mi /\ Started
    BY <1>1, <1>5, JoinedStep DEF IInv
  <1>7. CountTypeOK'
    <2>1. pc' \in [Workers -> RacyPlaces]
      BY <1>3, <1>5 DEF Goto
    <2>2. local' \in [Workers -> Int] /\ gnum' \in Int
      BY <1>2, <1>3, <1>5
    <2> QED
      BY <1>1, <1>6, <2>1, <2>2 DEF IInv, CountTypeOK
  <1>8. InRange'
    <2>1. gnum <= N /\ \A w \in Workers : pc[w] = "store" => local[w] <= N
      BY <1>1 DEF IInv, InRange
    <2>2. gnum' <= N
      BY <1>2, <1>5, <2>1
    <2>3. \A w \in Workers : w # t => local'[w] = local[w]
      BY <1>3, <1>5
    <2>4. pc'[t] = "store" => local'[t] <= N
      BY <1>3, <1>5, <1>6, <2>1
    <2>5. \A w \in Workers : pc'[w] = "store" => local'[w] <= N
      BY <1>6, <2>1, <2>3, <2>4
    <2> QED
      BY <1>1, <2>2, <2>5 DEF InRange
  <1>9. NotAbandoned'
    <2>1. Finished' <=> gnum' <= 0
      BY <1>1 DEF Finished
    <2>2. \A w \in Workers : Looks(w)' <=> pc'[w] \notin {"none", "return", "done"}
      BY <1>1 DEF Looks
    <2> QED
      BY <1>5, <1>6, <2>1, <2>2 DEF NotAbandoned, RacyPlaces
  <1> QED
    BY <1>4, <1>6, <1>7, <1>8, <1>9 DEF IInv

\* Whatever the program: its workers exclude each other where they must, claim
\* each value once, and none of them leaves an unfinished count behind.
THEOREM Invariance == CountSpec => []IInv
  <1>1. IInv /\ UNCHANGED countVars => IInv'
    BY DEF IInv, CountTypeOK, Joined, InRange, NotAhead, WorkOnce, Claimed, Exclusive,
           NotAbandoned, Started, Finished, ToInt, Looks, UsesCas, countVars
  <1>2. IInv /\ CountNext => IInv'
    BY MainInv, CasInv, LockInv, RacyInv DEF CountNext, Worker
  <1> QED
    BY <1>1, <1>2, InitInv, PTL DEF CountSpec

\* Compare-and-swap: each value is claimed by one worker and worked on once.
THEOREM WorkOnceCorrect == CountSpec => []WorkOnce
  <1>1. IInv => WorkOnce
    BY DEF IInv
  <1> QED
    BY <1>1, Invariance, PTL

\* What each of the programs prints after the joins.
THEOREM FinalValueCorrect == CountSpec => []FinalValue
  <1>1. IInv => FinalValue
    <2> SUFFICES ASSUME IInv, mpc = "print", Started, N >= 0
                 PROVE  FinalValue!2
      BY DEF FinalValue
    <2>1. \A w \in Workers : pc[w] \in {"none", "done"}
      BY DEF IInv, Joined
    <2>2. Finished
      BY <2>1 DEF IInv, NotAbandoned, Looks
    <2>3. gnum \in Int
      BY Types DEF IInv
    <2>4. CASE UsesCas
      <3>1. program \notin {"use_lock", "no_protect"}
        BY <2>4 DEF UsesCas
      <3>2. gnum = 0
        BY <2>2, <2>3, <3>1 DEF Finished, IInv, InRange
      <3>3. \A j \in Workers, v \in Work : ~Claimed(j, v)
        BY <2>1 DEF Claimed
      <3>4. \A v \in Work : v > gnum
        BY <3>2, NAssumption DEF Work
      <3>5. \A v \in Work : worked[v] = 1
        BY <2>4, <3>3, <3>4 DEF IInv, WorkOnce
      <3> QED
        BY <2>4, <3>2, <3>5
    <2>5. CASE program = "use_lock"
      <3>1. ~UsesCas
        BY <2>5 DEF UsesCas
      <3>2. gnum % IntMod = 0
        BY <2>2, <2>3, <2>5, ToIntZero DEF Finished
      <3>3. 0 <= gnum /\ gnum <= N
        BY <2>3, <2>5, NAssumption DEF IInv, InRange
      <3> QED
        BY <2>5, <3>1, <3>2, <3>3
    <2>6. CASE ~UsesCas /\ program # "use_lock"
      BY <2>2, <2>6 DEF Finished
    <2> QED
      BY <2>4, <2>5, <2>6
  <1> QED
    BY <1>1, Invariance, PTL

\* gnum goes down by ones to 0, whatever the interleaving of the workers, under
\* compare-and-swap and under the mutex.
THEOREM CountsDownCorrect == CountSpec => CountsDown
  <1>1. CountInit => Counter!Init
    BY DEF CountInit, Counter!Init
  <1>2. IInv /\ [CountNext]_countVars =>
           [Counter!Take]_(IF program = "no_protect" THEN N ELSE gnum)
    <2> SUFFICES ASSUME IInv, [CountNext]_countVars,
                        (IF program = "no_protect" THEN N ELSE gnum)'
                           # (IF program = "no_protect" THEN N ELSE gnum)
                 PROVE  Counter!Take
      OBVIOUS
    <2>1. program' = program
      BY DEF CountNext, countVars, MainThread, Worker
    <2>2. program # "no_protect" /\ gnum' # gnum
      BY <2>1
    <2>3. PICK t \in Workers : CasWorker(t) \/ LockWorker(t)
      BY <2>2 DEF CountNext, countVars, MainThread, Worker, RacyWorker
    <2>4. gnum > 0 /\ gnum' = gnum - 1
      <3>1. CASE CasWorker(t)
        <4>1. Cas(t) /\ UsesCas
          BY <2>2, <3>1 DEF CasWorker, CasLoad, CasFail, work_func, Return
        <4> QED
          BY <4>1, NAssumption DEF Cas, Swaps, IInv, NotAhead, Work
      <3>2. CASE LockWorker(t)
        <4>1. Dec(t) /\ program = "use_lock"
          BY <2>2, <3>2 DEF LockWorker, First, Test, Lock, If, Copy, Unlock
        <4> QED
          BY <4>1 DEF Dec, IInv, Exclusive
      <3> QED
        BY <2>3, <3>1, <3>2
    <2> QED
      BY <2>1, <2>2, <2>4 DEF Counter!Take
  <1> QED
    BY <1>1, <1>2, Invariance, PTL DEF CountSpec, CountsDown, Counter!Spec

------------------------------------------------------------------------------
(***************************************************************************)
(* The clients of the TCP echo servers: the second half is about module    *)
(* EchoClients (vars, Init, Next and Spec are its own, those of Counters   *)
(* are countVars, CountInit, ...).  ClientInv and ReachedInv are inductive *)
(* together, for all four programs.                                        *)
(***************************************************************************)
\* What the lemmas use of the constants: the options have a bound, whatever it is.
ClientConstants ==
    /\ Options # {} /\ \E n \in Nat : Options \subseteq (1 .. n) \X (1 .. n)
    /\ MsgLen \in Nat \ {0} /\ MaxTyped \in Nat

LEMMA ConstantsHold == ClientConstants
<1>1. INT_MAX \in Nat
    BY DEF INT_MAX
<1> QED
    BY <1>1, OptionsAssumption, LenAssumption, BoundAssumption DEF ClientConstants

ConnNums == 1 .. Max({o[2] : o \in Options})

Places == {"wait", "stdin", "svr", "fgets", "write", "read", "new", "connect", "top", "store",
           "done", "failed"}

ConnType ==
    [st : {"none", "refused", "open", "closed"}, id : Nat, up : Nat, down : Nat,
     fin : BOOLEAN, srv : {"up", "ended", "died"}, rst : {"no", "pending", "seen"},
     sent : Nat, got : Nat]

\* The types of the variables.
ClientTypeOK ==
    /\ client \in Relays \cup {"csc_echo", "csc_echo_epoll"}
    /\ opthread_num \in Threads /\ opconn_num \in ConnNums
    /\ ended \in {"no", "ok", "error", "over", "killed"}
    /\ conn \in [Conns -> ConnType]
    /\ stdin \in [left : Nat, typed : 0 .. MaxTyped, eof : BOOLEAN] /\ stdin.left <= stdin.typed
    /\ at \in [Threads -> Places]
    /\ rset \subseteq {"stdin", "svr"} /\ len \in 0 .. MaxTyped /\ cnt \in 0 .. MaxTyped
    /\ created \in 0 .. opthread_num
    /\ i \in [Threads -> 1 .. opconn_num] /\ msgno \in [Threads -> Nat]
    /\ gcnt \in Nat /\ gmsgno \in Nat /\ gfinish \in BOOLEAN /\ used \subseteq Nat

\* Where main of the first three programs may be.
PlaceInv ==
    /\ client \in Relays => at[1] \in {"wait", "stdin", "svr", "write"}
    /\ client = "csc_echo" => at[1] \in {"fgets", "write", "read"}
    /\ client = "csc_echo_epoll" => at[1] # "fgets"

\* No byte is lost before a reset, which only a server that exits causes; a server
\* that ends after end of file has echoed everything.
WireOne(w) ==
    /\ w.up + w.down + w.got <= w.sent
    /\ w.rst = "no" => w.up + w.down + w.got = w.sent
    /\ w.rst # "no" => w.srv = "died"
    /\ w.srv = "ended" => w.fin /\ w.up = 0
    /\ w.st = "closed" /\ w.srv = "ended" => w.got = w.sent
WireInv == \A c \in Conns : WireOne(conn[c])

\* A thread closes a connection only after the server did.
ClosedInv ==
    client = "csc_echo_epoll" => \A c \in Conns : conn[c].st = "closed" => conn[c].srv # "up"

\* When a connection was shut down its thread has nothing in hand.
FinInv ==
    \A c \in Conns : conn[c].fin =>
        client = "csc_echo_epoll" /\ gfinish /\ at[c[1]] \notin {"store", "write"}

\* csc_echo: what has not come back is what read still waits for.
LineInv ==
    /\ client = "csc_echo" =>
         /\ at[1] \in {"fgets", "write"} => conn[c0].got = conn[c0].sent
         /\ at[1] = "read" => cnt <= len /\ conn[c0].sent - conn[c0].got = len - cnt
    /\ ended # "over"

\* The numbers of the connections.
IdInv ==
    /\ client = "csc_echo_epoll" => \A c \in Conns : conn[c].st # "none" => conn[c].id < gcnt
    /\ client # "csc_echo_epoll" => \A c \in Conns : conn[c].st # "none" <=> c = c0
    /\ \A c, d \in Conns :
          conn[c].st # "none" /\ conn[d].st # "none" /\ conn[c].id = conn[d].id => c = d

\* The numbers of the messages.
UsedInv ==
    /\ \A n \in used : 0 .. n \subseteq used
    /\ 0 .. gmsgno - 1 \subseteq used
    /\ \A t \in Threads : at[t] = "store" => msgno[t] \in used

\* csc_echo_epoll: a thread that is past its connects has all its connections.
ReachedOne(t) ==
    /\ t > created => at[t] = "new" /\ i[t] = 1
    /\ at[t] = "connect" => \A n \in 1 .. i[t] - 1 : conn[<<t, n>>].st # "none"
    /\ at[t] \in {"top", "store", "write", "read"} =>
          \A n \in 1 .. opconn_num : conn[<<t, n>>].st # "none"
ReachedInv == client = "csc_echo_epoll" => \A t \in Threads : ReachedOne(t)

ClientInv ==
    ClientTypeOK /\ PlaceInv /\ WireInv /\ ClosedInv /\ FinInv /\ LineInv /\ IdInv /\ UsedInv

\* A set of naturals has a least element.
LEMMA LeastOf ==
    ASSUME NEW S \in SUBSET Nat, S # {}
    PROVE  Min(S) \in S /\ \A g \in S : Min(S) <= g
<1>1. PICK f \in S : \A g \in S : <<g, f>> \notin OpToRel(<, Nat)
    BY NatLessThanWellFounded, WFMin
<1>2. \A g \in S : ~(g < f)
    BY <1>1 DEF OpToRel
<1>3. \A g \in S : f <= g
    BY <1>2
<1> QED
    BY <1>3 DEF Min

\* A bounded set of naturals has a greatest element.
LEMMA GreatestOf ==
    ASSUME NEW n \in Nat, NEW S \in SUBSET (1 .. n), S # {}
    PROVE  Max(S) \in S /\ \A g \in S : g <= Max(S)
<1> DEFINE D == {d \in Nat : n - d \in S}
<1>1. PICK x \in S : TRUE
    OBVIOUS
<1>2. n - x \in Nat /\ n - (n - x) = x
    BY <1>1
<1>3. D \in SUBSET Nat /\ D # {}
    BY <1>2
<1> HIDE DEF D
<1>4. Min(D) \in D /\ \A d \in D : Min(D) <= d
    BY <1>3, LeastOf
<1>5. Min(D) \in Nat /\ n - Min(D) \in S
    BY <1>4 DEF D
<1>6. ASSUME NEW g \in S PROVE g <= n - Min(D)
    <2>1. n - g \in Nat /\ n - (n - g) = g
        BY <1>6
    <2>2. n - g \in D
        BY <2>1 DEF D
    <2> QED
        BY <1>4, <1>5, <2>1, <2>2
<1>7. \E m \in S : \A g \in S : m >= g
    BY <1>5, <1>6
<1>8. Max(S) \in S /\ \A g \in S : Max(S) >= g
    BY <1>7 DEF Max
<1> QED
    BY <1>8

\* There are threads and connections enough for each pair of options.
LEMMA Enough ==
    ASSUME ClientConstants
    PROVE  /\ \A o \in Options : o[1] \in Threads /\ o[2] \in ConnNums
           /\ 1 \in Threads /\ 1 \in ConnNums /\ c0 \in Conns
           /\ Conns = Threads \X ConnNums
           /\ Threads \subseteq Nat \ {0} /\ ConnNums \subseteq Nat \ {0}
           /\ \A m \in Threads : 1 .. m \subseteq Threads
           /\ \A m \in ConnNums : 1 .. m \subseteq ConnNums
<1>1. PICK n \in Nat : Options \subseteq (1 .. n) \X (1 .. n)
    BY DEF ClientConstants
<1> DEFINE A == {o[1] : o \in Options}
           B == {o[2] : o \in Options}
<1>2. A \in SUBSET (1 .. n) /\ B \in SUBSET (1 .. n) /\ A # {} /\ B # {}
    BY <1>1 DEF ClientConstants
<1>3. \A o \in Options : o[1] \in A /\ o[2] \in B
    OBVIOUS
<1> HIDE DEF A, B
<1>4. Max(A) \in Nat /\ Max(A) >= 1 /\ \A g \in A : g \in 1 .. Max(A)
    <2>1. Max(A) \in A /\ \A g \in A : g <= Max(A)
        BY <1>2, GreatestOf
    <2>2. \A g \in A : g \in Nat /\ g >= 1
        BY <1>2
    <2> QED
        BY <2>1, <2>2
<1>5. Max(B) \in Nat /\ Max(B) >= 1 /\ \A g \in B : g \in 1 .. Max(B)
    <2>1. Max(B) \in B /\ \A g \in B : g <= Max(B)
        BY <1>2, GreatestOf
    <2>2. \A g \in B : g \in Nat /\ g >= 1
        BY <1>2
    <2> QED
        BY <2>1, <2>2
<1>6. Threads = 1 .. Max(A) /\ ConnNums = 1 .. Max(B)
    BY DEF Threads, ConnNums, A, B
<1>7. Conns = Threads \X ConnNums
    BY DEF Conns, ConnNums
<1> QED
    BY <1>3, <1>4, <1>5, <1>6, <1>7 DEF c0

\* The invariant holds when main starts.
LEMMA ClientInit ==
    ASSUME ClientConstants, Init
    PROVE  ClientInv
<1> USE Enough DEF Init
<1>1. opthread_num \in Threads /\ opconn_num \in ConnNums
    OBVIOUS
<1>2. PICK st \in {"none", "open", "refused"} :
         /\ conn = [c \in Conns |-> NewConn(0, IF c = c0 THEN st ELSE "none")]
         /\ client = "csc_echo_epoll" <=> st = "none"
    OBVIOUS
<1>3. /\ conn \in [Conns -> ConnType]
      /\ \A c \in Conns : /\ conn[c].up = 0 /\ conn[c].down = 0 /\ conn[c].got = 0
                          /\ conn[c].sent = 0 /\ conn[c].fin = FALSE /\ conn[c].srv = "up"
                          /\ conn[c].rst = "no" /\ conn[c].st \in {"none", st} /\ conn[c].id = 0
                          /\ c # c0 => conn[c].st = "none"
                          /\ c = c0 => conn[c].st = st
    BY <1>2 DEF NewConn, ConnType
<1>4. ClientTypeOK
    <2>1. 0 \in 0 .. MaxTyped /\ 0 \in 0 .. opthread_num /\ 1 \in 1 .. opconn_num
        BY <1>1 DEF ClientConstants
    <2>2. at \in [Threads -> Places]
        BY DEF Places
    <2>3. /\ stdin \in [left : Nat, typed : 0 .. MaxTyped, eof : BOOLEAN]
          /\ stdin.left <= stdin.typed
        BY <2>1
    <2>4. i \in [Threads -> 1 .. opconn_num] /\ msgno \in [Threads -> Nat]
        BY <2>1
    <2> QED
        BY <1>1, <1>3, <2>1, <2>2, <2>3, <2>4 DEF ClientTypeOK
<1>5. PlaceInv
    BY DEF PlaceInv, Relays
<1>6. WireInv /\ FinInv
    BY <1>3 DEF WireInv, WireOne, FinInv
<1>7. ClosedInv /\ IdInv
    BY <1>2, <1>3 DEF ClosedInv, IdInv
<1>8. LineInv
    BY <1>3 DEF LineInv
<1>9. UsedInv
    BY DEF UsedInv, Relays
<1> QED
    BY <1>4, <1>5, <1>6, <1>7, <1>8, <1>9 DEF ClientInv

\* A connection keeps its fields when a byte moves.
LEMMA ReadEffect ==
    ASSUME conn \in [Conns -> ConnType], NEW c \in Conns, NEW re \in Int,
           re > 0 => re <= conn[c].down, re < 0 => conn[c].rst = "pending",
           conn' = AfterRead(c, re), WireOne(conn[c])
    PROVE  /\ conn' \in [Conns -> ConnType] /\ \A d \in Conns : d # c => conn'[d] = conn[d]
           /\ WireOne(conn'[c])
           /\ conn'[c].st = conn[c].st /\ conn'[c].id = conn[c].id /\ conn'[c].fin = conn[c].fin
           /\ conn'[c].srv = conn[c].srv /\ conn'[c].sent = conn[c].sent
           /\ conn'[c].got = conn[c].got + (IF re > 0 THEN re ELSE 0)
<1> DEFINE w == conn[c]
           v == [w EXCEPT !.down = IF re > 0 THEN @ - re ELSE @,
                          !.got = IF re > 0 THEN @ + re ELSE @,
                          !.rst = IF re < 0 THEN "seen" ELSE @]
<1>1. conn' = [conn EXCEPT ![c] = v]
    BY DEF AfterRead
<1>2. w \in ConnType
    OBVIOUS
<1>3. /\ v.st = w.st /\ v.id = w.id /\ v.fin = w.fin /\ v.srv = w.srv /\ v.sent = w.sent
      /\ v.up = w.up /\ v.down = (IF re > 0 THEN w.down - re ELSE w.down)
      /\ v.got = (IF re > 0 THEN w.got + re ELSE w.got)
      /\ v.rst = (IF re < 0 THEN "seen" ELSE w.rst)
    BY <1>2 DEF ConnType
<1>4. v \in ConnType
    <2>1. /\ (IF re > 0 THEN w.down - re ELSE w.down) \in Nat
          /\ (IF re > 0 THEN w.got + re ELSE w.got) \in Nat
          /\ (IF re < 0 THEN "seen" ELSE w.rst) \in {"no", "pending", "seen"}
        BY <1>2 DEF ConnType
    <2> HIDE DEF w
    <2> QED
        BY <1>2, <2>1 DEF ConnType
<1>5. conn'[c] = v /\ conn' \in [Conns -> ConnType] /\ \A d \in Conns : d # c => conn'[d] = conn[d]
    BY <1>1, <1>4
<1>6. /\ w.up \in Nat /\ w.down \in Nat /\ w.got \in Nat /\ w.sent \in Nat
      /\ w.rst \in {"no", "pending", "seen"}
    BY <1>2 DEF ConnType
<1> HIDE DEF w, v
<1>7. WireOne(v)
    <2>1. WireOne(w)
        BY DEF w
    <2> QED
        BY <1>3, <1>6, <2>1 DEF WireOne, w
<1>8. conn[c] = w
    BY DEF w
<1> QED
    BY <1>3, <1>5, <1>6, <1>7, <1>8

\* The client writes, before any reset and not after a shutdown.
LEMMA WriteEffect ==
    ASSUME conn \in [Conns -> ConnType], NEW c \in Conns, NEW n \in Nat,
           conn' = AfterWrite(c, n), WireOne(conn[c]), conn[c].rst = "no", ~conn[c].fin
    PROVE  /\ conn' \in [Conns -> ConnType] /\ \A d \in Conns : d # c => conn'[d] = conn[d]
           /\ WireOne(conn'[c])
           /\ conn'[c].st = conn[c].st /\ conn'[c].id = conn[c].id /\ conn'[c].fin = conn[c].fin
           /\ conn'[c].srv = conn[c].srv /\ conn'[c].sent = conn[c].sent + n
           /\ conn'[c].got = conn[c].got
<1> DEFINE w == conn[c]
           v == [w EXCEPT !.up = @ + n, !.sent = @ + n]
<1>1. conn' = [conn EXCEPT ![c] = v]
    BY DEF AfterWrite
<1>2. w \in ConnType
    OBVIOUS
<1>3. /\ v.st = w.st /\ v.id = w.id /\ v.fin = w.fin /\ v.srv = w.srv /\ v.sent = w.sent + n
      /\ v.up = w.up + n /\ v.down = w.down /\ v.got = w.got /\ v.rst = w.rst
    BY <1>2 DEF ConnType
<1>4. v \in ConnType
    <2>1. w.up + n \in Nat /\ w.sent + n \in Nat
        BY <1>2 DEF ConnType
    <2> HIDE DEF w
    <2> QED
        BY <1>2, <2>1 DEF ConnType
<1>5. conn'[c] = v /\ conn' \in [Conns -> ConnType] /\ \A d \in Conns : d # c => conn'[d] = conn[d]
    BY <1>1, <1>4
<1>6. w.up \in Nat /\ w.down \in Nat /\ w.got \in Nat /\ w.sent \in Nat
    BY <1>2 DEF ConnType
<1> HIDE DEF w, v
<1>7. WireOne(v)
    <2>1. WireOne(w) /\ w.rst = "no" /\ ~w.fin
        BY DEF w
    <2> QED
        BY <1>3, <1>6, <2>1 DEF WireOne
<1>8. conn[c] = w
    BY DEF w
<1> QED
    BY <1>3, <1>5, <1>7, <1>8

\* What read returns is on the connection.
LEMMA ReadBounds ==
    ASSUME conn \in [Conns -> ConnType], NEW c \in Conns, NEW re \in ReadResults(c)
    PROVE  /\ re \in Int /\ (re > 0 => re <= conn[c].down)
           /\ re < 0 => conn[c].rst = "pending"
           /\ re = 0 => conn[c].down = 0 /\ (conn[c].srv # "up" \/ conn[c].rst # "no")
<1>1. conn[c].down \in Nat
    BY DEF ConnType
<1> QED
    BY <1>1 DEF ReadResults, Readable

\* A step that moves one connection on or closes it, and shuts or opens none.
LEMMA ConnKeeps ==
    ASSUME ClientInv, NEW c \in Conns, \A d \in Conns : d # c => conn'[d] = conn[d],
           WireOne(conn'[c]), conn'[c].id = conn[c].id, conn'[c].fin = conn[c].fin,
           \/ conn'[c].st = conn[c].st
           \/ /\ conn'[c].st = "closed" /\ conn[c].st # "none"
              /\ client = "csc_echo_epoll" => conn'[c].srv # "up",
           conn[c].srv # "up" => conn'[c].srv # "up",
           UNCHANGED <<client, gcnt>>, gfinish => gfinish',
           \A t \in Threads : at'[t] \in {"store", "write"} =>
              at[t] \in {"store", "write"} \/ ~gfinish \/ client # "csc_echo_epoll"
    PROVE  WireInv' /\ ClosedInv' /\ FinInv' /\ IdInv'
<1>1. \A d \in Conns : /\ conn'[d].id = conn[d].id /\ conn'[d].fin = conn[d].fin
                       /\ conn'[d].st = "none" <=> conn[d].st = "none"
                       /\ conn[d].srv # "up" => conn'[d].srv # "up"
                       /\ client = "csc_echo_epoll" /\ conn'[d].st = "closed" =>
                             conn[d].st = "closed" \/ conn'[d].srv # "up"
    OBVIOUS
<1>2. WireInv'
    BY DEF ClientInv, WireInv, WireOne
<1>3. ClosedInv'
    BY <1>1 DEF ClientInv, ClosedInv
<1>4. FinInv'
    <2>1. \A d \in Conns : d[1] \in Threads
        BY DEF Conns
    <2> QED
        BY <1>1, <2>1 DEF ClientInv, FinInv
<1>5. IdInv'
    BY <1>1 DEF ClientInv, IdInv
<1> QED
    BY <1>2, <1>3, <1>4, <1>5

\* A step that leaves the connections alone.
LEMMA PlainKeeps ==
    ASSUME ClientConstants, ClientInv, UNCHANGED <<client, gcnt, conn>>, gfinish => gfinish',
           \A t \in Threads : at'[t] \in {"store", "write"} =>
              at[t] \in {"store", "write"} \/ ~gfinish \/ client # "csc_echo_epoll"
    PROVE  WireInv' /\ ClosedInv' /\ FinInv' /\ IdInv'
<1>1. c0 \in Conns /\ WireOne(conn[c0])
    BY Enough DEF ClientInv, WireInv
<1>2. WireOne(conn'[c0])
    BY <1>1
<1> QED
    BY <1>1, <1>2, ConnKeeps

\* The server's steps on a connection, its exit included.
LEMMA ServerEffect ==
    ASSUME conn \in [Conns -> ConnType], NEW c \in Conns, WireOne(conn[c]),
           conn[c].st = "closed" /\ conn[c].srv = "up" => ~conn[c].fin,
           Echo(c) \/ ServerEnd(c) \/ ResetArrives(c) \/ ServerExit(c)
    PROVE  /\ conn' \in [Conns -> ConnType] /\ \A d \in Conns : d # c => conn'[d] = conn[d]
           /\ WireOne(conn'[c])
           /\ conn'[c].st = conn[c].st /\ conn'[c].id = conn[c].id /\ conn'[c].fin = conn[c].fin
           /\ conn[c].srv # "up" => conn'[c].srv # "up"
           /\ conn'[c].sent = conn[c].sent /\ conn'[c].got = conn[c].got
<1> DEFINE w == conn[c]
<1>1. w \in ConnType
    OBVIOUS
<1>2. /\ w.up \in Nat /\ w.down \in Nat /\ w.got \in Nat /\ w.sent \in Nat /\ w.fin \in BOOLEAN
      /\ w.srv \in {"up", "ended", "died"} /\ w.rst \in {"no", "pending", "seen"}
    BY <1>1 DEF ConnType
<1>3. CASE Echo(c)
    <2>1. PICK k \in 1 .. w.up : conn' = [conn EXCEPT ![c] = [w EXCEPT !.up = @ - k, !.down = @ + k]]
        BY <1>3 DEF Echo
    <2> DEFINE v == [w EXCEPT !.up = @ - k, !.down = @ + k]
    <2>0. w.srv = "up"
        BY <1>3 DEF Echo
    <2> HIDE DEF w
    <2>2. k \in Nat /\ k <= w.up /\ w.up - k \in Nat /\ w.down + k \in Nat
        BY <1>2, <2>1
    <2>3. v \in ConnType /\ v.up = w.up - k /\ v.down = w.down + k /\ v.got = w.got
          /\ v.sent = w.sent /\ v.st = w.st /\ v.id = w.id /\ v.fin = w.fin /\ v.srv = w.srv
          /\ v.rst = w.rst
        BY <1>1, <2>2 DEF ConnType
    <2>4. conn'[c] = v /\ conn' \in [Conns -> ConnType] /\ \A d \in Conns : d # c => conn'[d] = conn[d]
        BY <2>1, <2>3
    <2> HIDE DEF v
    <2>5. WireOne(w) /\ conn[c] = w
        BY DEF w
    <2>6. WireOne(v)
        BY <1>2, <2>0, <2>2, <2>3, <2>5 DEF WireOne
    <2> QED
        BY <2>3, <2>4, <2>5, <2>6
<1>4. CASE ServerEnd(c) \/ ServerExit(c)
    <2>1. PICK how \in {"ended", "died"} :
             /\ conn' = [conn EXCEPT ![c] = [w EXCEPT !.srv = how]]
             /\ how = "ended" => w.fin /\ w.up = 0
             /\ w.srv = "up"
        BY <1>4 DEF ServerEnd, ServerExit
    <2> DEFINE v == [w EXCEPT !.srv = how]
    <2>2. w.st = "closed" => how = "died"
        BY <2>1
    <2> HIDE DEF w
    <2>3. v \in ConnType /\ v.up = w.up /\ v.down = w.down /\ v.got = w.got
          /\ v.sent = w.sent /\ v.st = w.st /\ v.id = w.id /\ v.fin = w.fin /\ v.srv = how
          /\ v.rst = w.rst
        BY <1>1 DEF ConnType
    <2>4. conn'[c] = v /\ conn' \in [Conns -> ConnType] /\ \A d \in Conns : d # c => conn'[d] = conn[d]
        BY <2>1, <2>3
    <2> HIDE DEF v
    <2>5. WireOne(w) /\ conn[c] = w
        BY DEF w
    <2>6. WireOne(v)
        BY <1>2, <2>1, <2>2, <2>3, <2>5 DEF WireOne
    <2> QED
        BY <2>3, <2>4, <2>5, <2>6
<1>5. CASE ResetArrives(c)
    <2>1. /\ conn' = [conn EXCEPT ![c] = [w EXCEPT !.up = 0, !.rst = "pending"]]
          /\ w.srv # "up" /\ w.up > 0
        BY <1>5 DEF ResetArrives
    <2> DEFINE v == [w EXCEPT !.up = 0, !.rst = "pending"]
    <2> HIDE DEF w
    <2>3. v \in ConnType /\ v.up = 0 /\ v.down = w.down /\ v.got = w.got
          /\ v.sent = w.sent /\ v.st = w.st /\ v.id = w.id /\ v.fin = w.fin /\ v.srv = w.srv
          /\ v.rst = "pending"
        BY <1>1 DEF ConnType
    <2>4. conn'[c] = v /\ conn' \in [Conns -> ConnType] /\ \A d \in Conns : d # c => conn'[d] = conn[d]
        BY <2>1, <2>3
    <2> HIDE DEF v
    <2>5. WireOne(w) /\ conn[c] = w
        BY DEF w
    <2>6. WireOne(v)
        BY <1>2, <2>1, <2>3, <2>5 DEF WireOne
    <2> QED
        BY <2>3, <2>4, <2>5, <2>6
<1> QED
    BY <1>3, <1>4, <1>5

\* A step of the server, of the user, or the signal.
LEMMA OutsideKeeps ==
    ASSUME ClientConstants, ClientInv,
           Signal \/ Environment \/ \E c \in Conns : ServerStep(c)
    PROVE  ClientInv'
<1> USE DEF relayVars, threadVars
<1>1. ASSUME NEW c \in Conns,
             Echo(c) \/ ServerEnd(c) \/ ResetArrives(c) \/ ServerExit(c),
             UNCHANGED <<client, opthread_num, opconn_num, ended, at, stdin, rset, stdineof, len, cnt,
                         created, i, msgno, gcnt, gmsgno, gfinish, used, msgs>>
      PROVE  ClientInv'
    <2>1. conn \in [Conns -> ConnType] /\ WireOne(conn[c])
        BY DEF ClientInv, ClientTypeOK, WireInv
    <2>2. conn[c].st = "closed" /\ conn[c].srv = "up" => ~conn[c].fin
        BY DEF ClientInv, ClosedInv, FinInv
    <2>3. /\ conn' \in [Conns -> ConnType] /\ \A d \in Conns : d # c => conn'[d] = conn[d]
          /\ WireOne(conn'[c])
          /\ conn'[c].st = conn[c].st /\ conn'[c].id = conn[c].id /\ conn'[c].fin = conn[c].fin
          /\ conn[c].srv # "up" => conn'[c].srv # "up"
          /\ conn'[c].sent = conn[c].sent /\ conn'[c].got = conn[c].got
        BY <1>1, <2>1, <2>2, ServerEffect
    <2>4. WireInv' /\ ClosedInv' /\ FinInv' /\ IdInv'
        BY <1>1, <2>3, ConnKeeps
    <2>5. ClientTypeOK'
        BY <1>1, <2>3 DEF ClientInv, ClientTypeOK
    <2>6. LineInv'
        <3>1. conn'[c0].sent = conn[c0].sent /\ conn'[c0].got = conn[c0].got
            BY <2>3, Enough
        <3> QED
            BY <1>1, <3>1 DEF ClientInv, LineInv
    <2>7. PlaceInv' /\ UsedInv'
        BY <1>1 DEF ClientInv, PlaceInv, UsedInv
    <2> QED
        BY <2>4, <2>5, <2>6, <2>7 DEF ClientInv
<1>2. CASE \E c \in Conns : ServerStep(c)
    BY <1>1, <1>2 DEF ServerStep
<1>3. CASE Environment
    <2>1. CASE \E c \in Conns : ServerExit(c) /\ UNCHANGED stdin
        BY <1>1, <1>3, <2>1 DEF Environment
    <2>2. CASE /\ UNCHANGED conn
               /\ \/ /\ stdin.typed < MaxTyped
                     /\ stdin' = [stdin EXCEPT !.left = @ + 1, !.typed = @ + 1]
                  \/ stdin' = [stdin EXCEPT !.eof = TRUE]
        <3>1. UNCHANGED <<client, opthread_num, opconn_num, ended, at, rset, stdineof, len, cnt,
                         created, i, msgno, gcnt, gmsgno, gfinish, used, msgs>>
            BY <1>3 DEF Environment
        <3>2. stdin' \in [left : Nat, typed : 0 .. MaxTyped, eof : BOOLEAN] /\ stdin'.left <= stdin'.typed
            <4>1. /\ stdin \in [left : Nat, typed : 0 .. MaxTyped, eof : BOOLEAN]
                  /\ stdin.left <= stdin.typed /\ MaxTyped \in Nat
                BY DEF ClientInv, ClientTypeOK, ClientConstants
            <4>2. CASE stdin' = [stdin EXCEPT !.eof = TRUE]
                BY <4>1, <4>2
            <4>3. CASE stdin.typed < MaxTyped /\ stdin' = [stdin EXCEPT !.left = @ + 1, !.typed = @ + 1]
                <5>1. stdin.left + 1 \in Nat /\ stdin.typed + 1 \in 0 .. MaxTyped
                    BY <4>1, <4>3
                <5>2. stdin'.left = stdin.left + 1 /\ stdin'.typed = stdin.typed + 1
                    BY <4>1, <4>3
                <5>3. stdin' \in [left : Nat, typed : 0 .. MaxTyped, eof : BOOLEAN]
                    BY <4>1, <4>3, <5>1
                <5>4. stdin.left \in Int /\ stdin.typed \in Int
                    BY <4>1
                <5> QED
                    BY <4>1, <5>2, <5>3, <5>4
            <4> QED
                BY <2>2, <4>2, <4>3
        <3>3. ClientTypeOK'
            BY <2>2, <3>1, <3>2 DEF ClientInv, ClientTypeOK
        <3>4. WireInv' /\ ClosedInv' /\ FinInv' /\ IdInv'
            BY <2>2, <3>1, PlainKeeps
        <3> QED
            BY <2>2, <3>1, <3>3, <3>4 DEF ClientInv, PlaceInv, LineInv, UsedInv
    <2> QED
        BY <1>3, <2>1, <2>2 DEF Environment
<1>4. CASE Signal
    <2>1. /\ UNCHANGED <<client, opthread_num, opconn_num, ended, conn, at, stdin, rset, stdineof, len,
                         cnt, created, i, msgno, gcnt, gmsgno, used, msgs>>
          /\ gfinish' = TRUE
        BY <1>4 DEF Signal, sigfunc
    <2>2. ClientTypeOK'
        BY <2>1 DEF ClientInv, ClientTypeOK
    <2>3. WireInv' /\ ClosedInv' /\ FinInv' /\ IdInv'
        BY <2>1, PlainKeeps
    <2> QED
        BY <2>1, <2>2, <2>3 DEF ClientInv, PlaceInv, LineInv, UsedInv
<1> QED
    BY <1>2, <1>3, <1>4

\* What every step of the first three programs leaves alone.
LEMMA MainMoves ==
    ASSUME ClientConstants, ClientInv, client # "csc_echo_epoll", NEW place \in Places \ {"store"},
           at' = at \/ at' = [at EXCEPT ![1] = place],
           UNCHANGED <<client, opthread_num, opconn_num, threadVars>>,
           conn' \in [Conns -> ConnType], ended' \in {"no", "ok", "error", "killed"},
           stdin' \in [left : Nat, typed : 0 .. MaxTyped, eof : BOOLEAN], stdin'.left <= stdin'.typed,
           rset' \subseteq {"stdin", "svr"}, len' \in 0 .. MaxTyped, cnt' \in 0 .. MaxTyped,
           \A d \in Conns : d # c0 => conn'[d] = conn[d],
           WireOne(conn'[c0]), conn'[c0].id = conn[c0].id, conn'[c0].fin = conn[c0].fin,
           \/ conn'[c0].st = conn[c0].st
           \/ conn'[c0].st = "closed" /\ conn[c0].st # "none",
           conn[c0].srv # "up" => conn'[c0].srv # "up"
    PROVE  /\ ClientTypeOK' /\ WireInv' /\ ClosedInv' /\ FinInv' /\ IdInv' /\ UsedInv'
           /\ at'[1] = IF at' = at THEN at[1] ELSE place
<1> USE DEF threadVars
<1>1. at \in [Threads -> Places] /\ 1 \in Threads /\ c0 \in Conns
    BY Enough DEF ClientInv, ClientTypeOK
<1>2. /\ at' \in [Threads -> Places]
      /\ at'[1] = IF at' = at THEN at[1] ELSE place
      /\ \A t \in Threads : at'[t] = "store" => at[t] = "store"
    BY <1>1
<1>3. ClientTypeOK'
    BY <1>2 DEF ClientInv, ClientTypeOK
<1>4. WireInv' /\ ClosedInv' /\ FinInv' /\ IdInv'
    BY <1>1, ConnKeeps
<1>5. UsedInv'
    BY <1>2 DEF ClientInv, UsedInv
<1> QED
    BY <1>2, <1>3, <1>4, <1>5

\* csc_echo_select and csc_echo_poll.
LEMMA RelayKeeps ==
    ASSUME ClientConstants, ClientInv, RelayStep, UNCHANGED <<client, opthread_num, opconn_num>>,
           ended = "no"
    PROVE  ClientInv'
<1> USE DEF relayVars, threadVars, Exit
<1>0. /\ client \in Relays /\ client # "csc_echo_epoll" /\ client # "csc_echo"
      /\ c0 \in Conns /\ 1 \in Threads
      /\ at[1] \in {"wait", "stdin", "svr", "write"}
    BY Enough DEF RelayStep, Relays, ClientInv, PlaceInv
<1>1. /\ conn \in [Conns -> ConnType] /\ WireOne(conn[c0]) /\ ~conn[c0].fin
      /\ stdin \in [left : Nat, typed : 0 .. MaxTyped, eof : BOOLEAN] /\ stdin.left <= stdin.typed
      /\ rset \subseteq {"stdin", "svr"} /\ len \in 0 .. MaxTyped /\ cnt \in 0 .. MaxTyped
      /\ MaxTyped \in Nat
    BY <1>0 DEF ClientInv, ClientTypeOK, WireInv, FinInv, ClientConstants
<1> DEFINE Kept == /\ ClientTypeOK' /\ WireInv' /\ ClosedInv' /\ FinInv' /\ IdInv' /\ UsedInv'
                   /\ at'[1] \in {"wait", "stdin", "svr", "write"} /\ ended' # "over"
<1>2. SUFFICES Kept
    BY <1>0 DEF ClientInv, PlaceInv, LineInv, Relays
<1> USE DEF Places
<1>3. CASE Wait
    <2>1. rset' \subseteq {"stdin", "svr"}
        BY <1>1, <1>3 DEF Wait, Ready
    <2>2. /\ UNCHANGED <<conn, stdin, len, cnt, threadVars>> /\ ended' \in {"no", "error"}
          /\ at' = at \/ at' = [at EXCEPT ![1] = "stdin"]
        BY <1>3 DEF Wait
    <2> QED
        BY <1>0, <1>1, <2>1, <2>2, MainMoves
<1>4. CASE StdinData
    <2>1. PICK re \in 1 .. stdin.left : len' = re /\ stdin' = [stdin EXCEPT !.left = @ - re]
        BY <1>4 DEF StdinData
    <2>2. stdin.left \in Nat /\ stdin.typed \in 0 .. MaxTyped /\ re \in Nat /\ stdin.left - re \in Nat
          /\ re <= stdin.left
        BY <1>1, <2>1
    <2>3. /\ stdin' \in [left : Nat, typed : 0 .. MaxTyped, eof : BOOLEAN]
          /\ stdin'.left = stdin.left - re /\ stdin'.typed = stdin.typed
        BY <1>1, <2>1, <2>2
    <2>4. stdin'.left <= stdin'.typed /\ len' \in 0 .. MaxTyped
        BY <1>1, <2>1, <2>2, <2>3
    <2>5. /\ UNCHANGED <<conn, ended, rset, cnt, threadVars>>
          /\ at' = [at EXCEPT ![1] = "write"]
        BY <1>4 DEF StdinData
    <2> QED
        BY <1>0, <1>1, <2>3, <2>4, <2>5, MainMoves
<1>5. CASE StdinEnd
    <2>1. /\ UNCHANGED <<stdin, ended, rset, len, cnt, threadVars>>
          /\ at' = [at EXCEPT ![1] = "svr"]
          /\ conn' = conn \/ conn' = [conn EXCEPT ![c0].st = "closed"]
        BY <1>5 DEF StdinEnd
    <2>2. CASE conn' = conn
        BY <1>0, <1>1, <2>1, <2>2, MainMoves
    <2>3. CASE conn' = [conn EXCEPT ![c0].st = "closed"]
        <3>1. conn[c0] \in ConnType
            BY <1>0, <1>1
        <3>2. /\ conn' \in [Conns -> ConnType] /\ \A d \in Conns : d # c0 => conn'[d] = conn[d]
              /\ conn'[c0] = [conn[c0] EXCEPT !.st = "closed"]
            BY <1>0, <1>1, <2>3, <3>1 DEF ConnType
        <3>3. /\ WireOne(conn'[c0]) /\ conn'[c0].id = conn[c0].id
              /\ conn'[c0].fin = conn[c0].fin /\ conn'[c0].srv = conn[c0].srv
              /\ conn'[c0].st = "closed"
            BY <1>1, <3>1, <3>2 DEF WireOne, ConnType
        <3>4. conn[c0].st # "none"
            BY <1>0 DEF ClientInv, IdInv
        <3> QED
            BY <1>0, <1>1, <2>1, <3>2, <3>3, <3>4, MainMoves
    <2> QED
        BY <2>1, <2>2, <2>3
<1>6. CASE StdinSkip
    <2>1. /\ UNCHANGED <<conn, stdin, ended, rset, len, cnt, threadVars>>
          /\ at' = [at EXCEPT ![1] = "svr"]
        BY <1>6 DEF StdinSkip
    <2> QED
        BY <1>0, <1>1, <2>1, MainMoves
<1>7. CASE RelayWrite
    <2>1. CASE Killed(c0)
        BY <1>0, <1>1, <2>1, MainMoves DEF Killed
    <2>2. CASE conn[c0].rst = "pending" /\ conn' = AfterRead(c0, -1)
        <3>1. /\ UNCHANGED <<stdin, rset, len, cnt, threadVars>> /\ ended' \in {"no", "error", "killed"}
              /\ at' = at \/ at' = [at EXCEPT ![1] = "svr"]
            BY <1>7 DEF RelayWrite, Killed
        <3> QED
            BY <1>0, <1>1, <2>2, <3>1, ReadEffect, MainMoves
    <2>3. CASE conn[c0].rst = "no" /\ conn' = AfterWrite(c0, len)
        <3>1. /\ UNCHANGED <<stdin, rset, len, cnt, threadVars>> /\ ended' \in {"no", "error", "killed"}
              /\ at' = at \/ at' = [at EXCEPT ![1] = "svr"]
            BY <1>7 DEF RelayWrite, Killed
        <3> QED
            BY <1>0, <1>1, <2>3, <3>1, WriteEffect, MainMoves
    <2> QED
        BY <1>7, <2>1, <2>2, <2>3 DEF RelayWrite
<1>8. CASE SvrRead
    <2>1. /\ UNCHANGED <<stdin, rset, len, cnt, threadVars>> /\ ended' \in {"no", "ok", "error"}
          /\ at' = [at EXCEPT ![1] = "wait"]
          /\ conn' = conn \/ \E re \in ReadResults(c0) : conn' = AfterRead(c0, re)
        BY <1>8 DEF SvrRead
    <2>2. CASE conn' = conn
        BY <1>0, <1>1, <2>1, <2>2, MainMoves
    <2>3. CASE \E re \in ReadResults(c0) : conn' = AfterRead(c0, re)
        <3>1. PICK re \in ReadResults(c0) : conn' = AfterRead(c0, re)
            BY <2>3
        <3>2. re \in Int /\ (re > 0 => re <= conn[c0].down) /\ (re < 0 => conn[c0].rst = "pending")
            BY <1>0, <1>1, ReadBounds
        <3>3. /\ conn' \in [Conns -> ConnType] /\ \A d \in Conns : d # c0 => conn'[d] = conn[d]
              /\ WireOne(conn'[c0]) /\ conn'[c0].st = conn[c0].st
              /\ conn'[c0].id = conn[c0].id /\ conn'[c0].fin = conn[c0].fin
              /\ conn'[c0].srv = conn[c0].srv
            BY <1>0, <1>1, <3>1, <3>2, ReadEffect
        <3> QED
            BY <1>0, <1>1, <2>1, <3>3, MainMoves
    <2> QED
        BY <2>1, <2>2, <2>3
<1> QED
    BY <1>3, <1>4, <1>5, <1>6, <1>7, <1>8 DEF RelayStep

\* csc_echo.
LEMMA LineKeeps ==
    ASSUME ClientConstants, ClientInv, LineStep, UNCHANGED <<client, opthread_num, opconn_num>>,
           ended = "no"
    PROVE  ClientInv'
<1> USE DEF relayVars, threadVars, Exit
<1>0. /\ client = "csc_echo" /\ client # "csc_echo_epoll" /\ client \notin Relays
      /\ c0 \in Conns /\ 1 \in Threads
      /\ at[1] \in {"fgets", "write", "read"}
    BY Enough DEF LineStep, Relays, ClientInv, PlaceInv
<1>1. /\ conn \in [Conns -> ConnType] /\ WireOne(conn[c0]) /\ ~conn[c0].fin
      /\ stdin \in [left : Nat, typed : 0 .. MaxTyped, eof : BOOLEAN] /\ stdin.left <= stdin.typed
      /\ rset \subseteq {"stdin", "svr"} /\ len \in 0 .. MaxTyped /\ cnt \in 0 .. MaxTyped
      /\ MaxTyped \in Nat /\ at \in [Threads -> Places]
    BY <1>0 DEF ClientInv, ClientTypeOK, WireInv, FinInv, ClientConstants
<1>2. /\ conn[c0].up \in Nat /\ conn[c0].down \in Nat /\ conn[c0].got \in Nat
      /\ conn[c0].sent \in Nat /\ len \in Nat /\ cnt \in Nat
    BY <1>0, <1>1 DEF ConnType
<1> DEFINE Kept == /\ ClientTypeOK' /\ WireInv' /\ ClosedInv' /\ FinInv' /\ IdInv' /\ UsedInv'
                   /\ at'[1] \in {"fgets", "write", "read"}
<1>3. SUFFICES Kept /\ LineInv'
    BY <1>0 DEF ClientInv, PlaceInv, Relays
<1> USE DEF Places
<1>4. CASE Fgets
    <2>0. UNCHANGED <<conn, rset, cnt, threadVars>> /\ at[1] = "fgets"
        BY <1>4 DEF Fgets
    <2>1. CASE \E n \in 1 .. stdin.left :
                  /\ len' = n /\ stdin' = [stdin EXCEPT !.left = @ - n]
                  /\ at' = [at EXCEPT ![1] = "write"] /\ UNCHANGED ended
        <3>1. PICK n \in 1 .. stdin.left :
                  /\ len' = n /\ stdin' = [stdin EXCEPT !.left = @ - n]
                  /\ at' = [at EXCEPT ![1] = "write"] /\ UNCHANGED ended
            BY <2>1
        <3>2. /\ stdin.left \in Nat /\ stdin.typed \in 0 .. MaxTyped /\ n \in Nat
              /\ stdin.left - n \in Nat /\ n <= stdin.left
            BY <1>1, <3>1
        <3>3. /\ stdin' \in [left : Nat, typed : 0 .. MaxTyped, eof : BOOLEAN]
              /\ stdin'.left = stdin.left - n /\ stdin'.typed = stdin.typed
            BY <1>1, <3>1, <3>2
        <3>4. stdin'.left <= stdin'.typed /\ len' \in 0 .. MaxTyped
            BY <1>1, <3>1, <3>2, <3>3
        <3>5. at'[1] = "write"
            BY <1>0, <1>1, <3>1
        <3>6. Kept
            BY <1>0, <1>1, <2>0, <3>1, <3>3, <3>4, <3>5, MainMoves
        <3>7. LineInv'
            BY <1>0, <2>0, <3>1, <3>5 DEF ClientInv, LineInv
        <3> QED
            BY <3>6, <3>7
    <2>2. CASE ended' = "error" /\ UNCHANGED <<len, stdin, at>>
        <3>1. Kept
            BY <1>0, <1>1, <2>0, <2>2, MainMoves
        <3>2. LineInv'
            BY <1>0, <2>0, <2>2 DEF ClientInv, LineInv
        <3> QED
            BY <3>1, <3>2
    <2> QED
        BY <1>4, <2>1, <2>2 DEF Fgets
<1>5. CASE LineWrite
    <2>0. at[1] = "write" /\ conn[c0].got = conn[c0].sent
        BY <1>0, <1>5 DEF LineWrite, ClientInv, LineInv
    <2>1. CASE UNCHANGED <<conn, at, relayVars, threadVars>> /\ ended' \in {"killed", "error"}
        <3>1. Kept
            BY <1>0, <1>1, <2>0, <2>1, MainMoves
        <3>2. LineInv'
            BY <1>0, <2>0, <2>1 DEF ClientInv, LineInv
        <3> QED
            BY <3>1, <3>2
    <2>2. CASE /\ conn[c0].rst = "no" /\ conn' = AfterWrite(c0, len) /\ cnt' = 0
               /\ at' = [at EXCEPT ![1] = "read"]
               /\ UNCHANGED <<ended, stdin, rset, stdineof, len, threadVars>>
        <3>1. UNCHANGED <<ended, stdin, rset, len, threadVars>> /\ at' = [at EXCEPT ![1] = "read"]
            BY <2>2
        <3>2. /\ conn' \in [Conns -> ConnType] /\ \A d \in Conns : d # c0 => conn'[d] = conn[d]
              /\ WireOne(conn'[c0]) /\ conn'[c0].st = conn[c0].st
              /\ conn'[c0].id = conn[c0].id /\ conn'[c0].fin = conn[c0].fin
              /\ conn'[c0].srv = conn[c0].srv /\ conn'[c0].sent = conn[c0].sent + len
              /\ conn'[c0].got = conn[c0].got
            BY <1>0, <1>1, <1>2, <2>2, WriteEffect
        <3>3. at'[1] = "read" /\ cnt' \in 0 .. MaxTyped
            BY <1>0, <1>1, <2>2, <3>1
        <3>4. Kept
            BY <1>0, <1>1, <3>1, <3>2, <3>3, MainMoves
        <3>5. LineInv'
            BY <1>0, <1>2, <2>0, <2>2, <3>1, <3>2, <3>3 DEF LineInv
        <3> QED
            BY <3>4, <3>5
    <2> QED
        BY <1>5, <2>1, <2>2 DEF LineWrite, Killed
<1>6. CASE LineRead
    <2>0. /\ at[1] = "read" /\ cnt <= len /\ conn[c0].sent - conn[c0].got = len - cnt
          /\ UNCHANGED <<stdin, rset, len, threadVars>>
        BY <1>0, <1>6 DEF LineRead, ClientInv, LineInv
    <2>1. PICK re \in ReadResults(c0) :
             /\ conn' = AfterRead(c0, re)
             /\ cnt' = (IF re < 0 THEN cnt ELSE cnt + re)
             /\ ended' = (IF re < 0 THEN "error" ELSE IF cnt' > len THEN "over" ELSE ended)
             /\ at' = (IF cnt' = len THEN [at EXCEPT ![1] = "fgets"] ELSE at)
        BY <1>6 DEF LineRead
    <2>2. re \in Int /\ (re > 0 => re <= conn[c0].down) /\ (re < 0 => conn[c0].rst = "pending")
        BY <1>0, <1>1, ReadBounds
    <2>3. /\ conn' \in [Conns -> ConnType] /\ \A d \in Conns : d # c0 => conn'[d] = conn[d]
          /\ WireOne(conn'[c0]) /\ conn'[c0].st = conn[c0].st
          /\ conn'[c0].id = conn[c0].id /\ conn'[c0].fin = conn[c0].fin
          /\ conn'[c0].srv = conn[c0].srv /\ conn'[c0].sent = conn[c0].sent
          /\ conn'[c0].got = conn[c0].got + (IF re > 0 THEN re ELSE 0)
        BY <1>0, <1>1, <2>1, <2>2, ReadEffect
    <2>4. cnt' \in Nat /\ cnt' <= len /\ cnt' = cnt + (IF re > 0 THEN re ELSE 0)
        BY <1>1, <1>2, <2>0, <2>1, <2>2 DEF WireOne
    <2>5. cnt' \in 0 .. MaxTyped /\ ended' \in {"no", "error"}
        BY <1>1, <1>2, <2>1, <2>4
    <2>6. /\ at' = at \/ at' = [at EXCEPT ![1] = "fgets"]
          /\ at'[1] \in {"fgets", "read"} /\ (at'[1] = "fgets" => cnt' = len)
        BY <1>0, <1>1, <2>0, <2>1
    <2>7. Kept
        BY <1>0, <1>1, <2>0, <2>3, <2>5, <2>6, MainMoves
    <2>8. LineInv'
        <3>1. conn'[c0].sent - conn'[c0].got = len - cnt'
            <4>1. CASE re > 0
                BY <1>2, <2>0, <2>2, <2>3, <2>4, <4>1
            <4>2. CASE ~(re > 0)
                BY <1>2, <2>0, <2>3, <2>4, <4>2
            <4> QED
                BY <4>1, <4>2
        <3>2. conn'[c0].sent \in Nat /\ conn'[c0].got \in Nat
            BY <1>0, <2>3 DEF ConnType
        <3>3. at'[1] = "fgets" => conn'[c0].got = conn'[c0].sent
            BY <1>2, <2>6, <3>1, <3>2
        <3> QED
            BY <1>0, <2>0, <2>4, <2>5, <2>6, <3>1, <3>3 DEF LineInv
    <2> QED
        BY <2>7, <2>8
<1> QED
    BY <1>4, <1>5, <1>6 DEF LineStep

\* A step of thread t that does not touch the numbers of messages.
LEMMA ThreadMoves ==
    ASSUME ClientConstants, ClientInv, client = "csc_echo_epoll", NEW t \in Threads,
           NEW place \in Places \ {"store", "write", "fgets"}, at' = at \/ at' = [at EXCEPT ![t] = place],
           i' \in [Threads -> 1 .. opconn_num],
           UNCHANGED <<client, opthread_num, opconn_num, relayVars, msgno, gcnt, gmsgno, gfinish,
                       used, msgs>>,
           created' \in 0 .. opthread_num, ended' \in {"no", "ok", "error", "killed"},
           conn' \in [Conns -> ConnType], NEW c \in Conns,
           \A d \in Conns : d # c => conn'[d] = conn[d],
           WireOne(conn'[c]), conn'[c].id = conn[c].id, conn'[c].fin = conn[c].fin,
           \/ conn'[c].st = conn[c].st
           \/ conn'[c].st = "closed" /\ conn[c].st # "none" /\ conn'[c].srv # "up",
           conn[c].srv # "up" => conn'[c].srv # "up"
    PROVE  ClientInv'
<1> USE DEF relayVars
<1>1. at \in [Threads -> Places] /\ 1 \in Threads
    BY Enough DEF ClientInv, ClientTypeOK
<1>2. /\ at' \in [Threads -> Places]
      /\ \A u \in Threads : at'[u] \in {"store", "write", "fgets"} => at'[u] = at[u]
    BY <1>1
<1>3. ClientTypeOK'
    BY <1>2 DEF ClientInv, ClientTypeOK
<1>4. WireInv' /\ ClosedInv' /\ FinInv' /\ IdInv'
    BY <1>2, ConnKeeps
<1>5. UsedInv'
    BY <1>2 DEF ClientInv, UsedInv
<1>6. PlaceInv'
    BY <1>1, <1>2 DEF ClientInv, PlaceInv, Relays
<1>7. LineInv'
    BY DEF ClientInv, LineInv
<1> QED
    BY <1>3, <1>4, <1>5, <1>6, <1>7 DEF ClientInv

\* Where a thread's connection is.
LEMMA FdInConns ==
    ASSUME ClientConstants, ClientInv, NEW t \in Threads
    PROVE  Fd(t) \in Conns /\ Fd(t)[1] = t /\ i[t] \in 1 .. opconn_num
<1>1. i[t] \in 1 .. opconn_num /\ opconn_num \in ConnNums
    BY DEF ClientInv, ClientTypeOK
<1>2. i[t] \in ConnNums
    BY <1>1, Enough
<1> QED
    BY <1>1, <1>2, Enough DEF Fd

\* The connection that follows is one of the thread's.
LEMMA FollowingRange ==
    ASSUME NEW S \in SUBSET Nat, S # {}, NEW n
    PROVE  Following(n, S) \in S
<1>1. CASE \E k \in S : k > n
    <2>1. {k \in S : k > n} \in SUBSET Nat /\ {k \in S : k > n} # {}
        BY <1>1
    <2>2. Min({k \in S : k > n}) \in {k \in S : k > n}
        BY <2>1, LeastOf
    <2> QED
        BY <1>1, <2>2 DEF Following
<1>2. CASE ~\E k \in S : k > n
    BY <1>2, LeastOf DEF Following
<1> QED
    BY <1>1, <1>2

\* A thread connects: the connection gets a number nobody has.
LEMMA ThreadConnectKeeps ==
    ASSUME ClientConstants, ClientInv, client = "csc_echo_epoll", NEW t \in Threads,
           ThreadConnect(t), UNCHANGED <<client, opthread_num, opconn_num>>, ended = "no"
    PROVE  ClientInv'
<1> USE DEF relayVars
<1>1. /\ at \in [Threads -> Places] /\ i \in [Threads -> 1 .. opconn_num] /\ 1 \in Threads
      /\ conn \in [Conns -> ConnType] /\ gcnt \in Nat /\ opconn_num \in Nat /\ opconn_num >= 1
      /\ Fd(t) \in Conns /\ Fd(t)[1] = t /\ c0 \in Conns /\ WireOne(conn[c0])
      /\ created \in 0 .. opthread_num
    BY Enough, FdInConns DEF ClientInv, ClientTypeOK, WireInv
<1>2. /\ UNCHANGED <<ended, stdin, rset, stdineof, len, cnt, created, msgno, gmsgno, gfinish, used,
                     msgs>>
      /\ at[t] = "connect"
    BY DEF ThreadConnect
<1>3. CASE at' = [at EXCEPT ![t] = "failed"] /\ UNCHANGED <<conn, gcnt, i>>
    <2>1. WireOne(conn'[c0])
        BY <1>1, <1>3
    <2> QED
        BY <1>1, <1>2, <1>3, <2>1, ThreadMoves DEF Places
<1>4. CASE /\ conn' = [conn EXCEPT ![Fd(t)] = NewConn(gcnt, "open")]
           /\ gcnt' = gcnt + 1
           /\ i' = [i EXCEPT ![t] = IF @ = opconn_num THEN 1 ELSE @ + 1]
           /\ at' = [at EXCEPT ![t] = IF i[t] = opconn_num THEN "top" ELSE @]
    <2>1. /\ at' \in [Threads -> Places] /\ i' \in [Threads -> 1 .. opconn_num] /\ gcnt' \in Nat
          /\ \A u \in Threads : at'[u] = at[u] \/ at'[u] = "top"
        BY <1>1, <1>4 DEF Places
    <2> DEFINE v == NewConn(gcnt, "open")
    <2>2. /\ v \in ConnType /\ WireOne(v) /\ v.st = "open" /\ v.id = gcnt /\ ~v.fin
        BY <1>1 DEF NewConn, ConnType, WireOne
    <2>3. /\ conn' \in [Conns -> ConnType] /\ conn'[Fd(t)] = v
          /\ \A d \in Conns : d # Fd(t) => conn'[d] = conn[d]
        BY <1>1, <1>4, <2>2
    <2> HIDE DEF v
    <2>4. ClientTypeOK'
        BY <1>2, <2>1, <2>3 DEF ClientInv, ClientTypeOK
    <2>5. WireInv'
        BY <2>2, <2>3 DEF ClientInv, WireInv, WireOne
    <2>6. ClosedInv'
        BY <2>2, <2>3 DEF ClientInv, ClosedInv
    <2>7. FinInv'
        <3>1. \A d \in Conns : d[1] \in Threads
            BY DEF Conns
        <3> QED
            BY <1>2, <2>1, <2>2, <2>3, <3>1 DEF ClientInv, FinInv
    <2>8. IdInv'
        <3>1. \A d \in Conns : conn[d].id \in Nat /\ (conn[d].st # "none" => conn[d].id < gcnt)
            BY <1>1 DEF ConnType, ClientInv, IdInv
        <3>2. \A d \in Conns : conn'[d].st # "none" => conn'[d].id < gcnt'
            BY <1>1, <1>4, <2>2, <2>3, <3>1
        <3>3. \A d \in Conns : d # Fd(t) /\ conn'[d].st # "none" => conn'[d].id # gcnt
            BY <1>1, <2>3, <3>1
        <3>4. \A d, e \in Conns :
                 conn'[d].st # "none" /\ conn'[e].st # "none" /\ conn'[d].id = conn'[e].id => d = e
            BY <2>2, <2>3, <3>3 DEF ClientInv, IdInv
        <3> QED
            BY <3>2, <3>4 DEF IdInv
    <2>9. UsedInv' /\ PlaceInv' /\ LineInv'
        BY <1>1, <1>2, <2>1 DEF ClientInv, UsedInv, PlaceInv, LineInv, Relays
    <2> QED
        BY <2>4, <2>5, <2>6, <2>7, <2>8, <2>9 DEF ClientInv
<1> QED
    BY <1>3, <1>4 DEF ThreadConnect

\* gmsgno++, in its two steps: a number is used only after all smaller ones.
LEMMA CountKeeps ==
    ASSUME ClientConstants, ClientInv, client = "csc_echo_epoll", NEW t \in Threads,
           Load(t) \/ Store(t), UNCHANGED <<client, opthread_num, opconn_num>>
    PROVE  ClientInv'
<1> USE DEF relayVars
<1>1. /\ at \in [Threads -> Places] /\ 1 \in Threads /\ msgno \in [Threads -> Nat]
      /\ gmsgno \in Nat /\ used \subseteq Nat
    BY Enough DEF ClientInv, ClientTypeOK
<1>2. UNCHANGED <<ended, conn, stdin, rset, stdineof, len, cnt, created, i, gcnt, gfinish>>
    BY DEF Load, Store
<1>3. CASE Load(t)
    <2>1. /\ at[t] = "top" /\ ~gfinish /\ msgno' = [msgno EXCEPT ![t] = gmsgno]
          /\ used' = used \cup {gmsgno} /\ at' = [at EXCEPT ![t] = "store"] /\ gmsgno' = gmsgno
        BY <1>3 DEF Load
    <2>2. /\ at' \in [Threads -> Places] /\ msgno' \in [Threads -> Nat] /\ used' \subseteq Nat
          /\ \A u \in Threads : at'[u] = IF u = t THEN "store" ELSE at[u]
          /\ \A u \in Threads : msgno'[u] = IF u = t THEN gmsgno ELSE msgno[u]
        BY <1>1, <2>1 DEF Places
    <2>3. ClientTypeOK'
        BY <1>2, <2>1, <2>2 DEF ClientInv, ClientTypeOK
    <2>4. WireInv' /\ ClosedInv' /\ FinInv' /\ IdInv'
        BY <1>2, <2>1, PlainKeeps
    <2>5. UsedInv'
        <3>1. 0 .. gmsgno \subseteq used'
            BY <1>1, <2>1 DEF ClientInv, UsedInv
        <3>2. \A n \in used' : 0 .. n \subseteq used'
            BY <2>1, <3>1 DEF ClientInv, UsedInv
        <3> QED
            BY <2>1, <2>2, <3>2 DEF ClientInv, UsedInv
    <2>6. PlaceInv' /\ LineInv'
        BY <1>1, <1>2, <2>2 DEF ClientInv, PlaceInv, LineInv, Relays
    <2> QED
        BY <2>3, <2>4, <2>5, <2>6 DEF ClientInv
<1>4. CASE Store(t)
    <2>1. /\ at[t] = "store" /\ at' = [at EXCEPT ![t] = "write"] /\ gmsgno' = msgno[t] + 1
          /\ UNCHANGED <<msgno, used>>
        BY <1>4 DEF Store, Stored
    <2>2. /\ at' \in [Threads -> Places] /\ gmsgno' \in Nat
          /\ \A u \in Threads : at'[u] = IF u = t THEN "write" ELSE at[u]
        BY <1>1, <2>1 DEF Places
    <2>3. ClientTypeOK'
        BY <1>2, <2>1, <2>2 DEF ClientInv, ClientTypeOK
    <2>4. WireInv' /\ ClosedInv' /\ FinInv' /\ IdInv'
        BY <1>2, <2>1, <2>2, PlainKeeps
    <2>5. UsedInv'
        <3>1. msgno[t] \in Nat /\ 0 .. msgno[t] \subseteq used
            BY <1>1, <2>1 DEF ClientInv, UsedInv
        <3>2. 0 .. gmsgno' - 1 \subseteq used'
            BY <2>1, <3>1
        <3> QED
            BY <2>1, <2>2, <3>2 DEF ClientInv, UsedInv
    <2>6. PlaceInv' /\ LineInv'
        BY <1>1, <1>2, <2>2 DEF ClientInv, PlaceInv, LineInv, Relays
    <2> QED
        BY <2>3, <2>4, <2>5, <2>6 DEF ClientInv
<1> QED
    BY <1>3, <1>4

\* full_write, shutdown and read_write of a thread.
LEMMA ThreadIoKeeps ==
    ASSUME ClientConstants, ClientInv, ReachedInv, client = "csc_echo_epoll", NEW t \in Threads,
           ThreadWrite(t) \/ Shutdown(t) \/ ThreadRead(t),
           UNCHANGED <<client, opthread_num, opconn_num>>, ended = "no"
    PROVE  ClientInv'
<1> USE DEF relayVars, threadVars, Exit
<1> DEFINE c == Fd(t)
<1>1. /\ at \in [Threads -> Places] /\ i \in [Threads -> 1 .. opconn_num] /\ 1 \in Threads
      /\ conn \in [Conns -> ConnType] /\ c \in Conns /\ c[1] = t /\ WireOne(conn[c])
      /\ created \in 0 .. opthread_num /\ MsgLen \in Nat /\ conn[c] \in ConnType
      /\ opconn_num \in Nat /\ i[t] \in 1 .. opconn_num
    BY Enough, FdInConns DEF ClientInv, ClientTypeOK, WireInv, ClientConstants
<1> HIDE DEF c
<1>2. CASE ThreadWrite(t)
    <2>0. at[t] = "write" /\ ~conn[c].fin
        BY <1>1, <1>2 DEF ThreadWrite, ClientInv, FinInv
    <2>1. CASE Killed(c)
        <3>1. UNCHANGED <<conn, at, relayVars, threadVars>> /\ ended' = "killed"
            BY <2>1 DEF Killed
        <3>2. WireOne(conn'[c])
            BY <1>1, <3>1
        <3> QED
            BY <1>1, <3>1, <3>2, ThreadMoves DEF Places
    <2>2. CASE /\ conn[c].rst # "seen"
               /\ conn' = IF conn[c].rst = "pending" THEN AfterRead(c, -1)
                                                     ELSE AfterWrite(c, MsgLen)
               /\ at' = [at EXCEPT ![t] = "read"]
               /\ UNCHANGED <<ended, relayVars, threadVars>>
        <3>1. conn[c].rst \in {"no", "pending"}
            BY <1>1, <2>2 DEF ConnType
        <3>2. /\ conn' \in [Conns -> ConnType] /\ \A d \in Conns : d # c => conn'[d] = conn[d]
              /\ WireOne(conn'[c])
              /\ conn'[c].st = conn[c].st /\ conn'[c].id = conn[c].id /\ conn'[c].fin = conn[c].fin
              /\ conn'[c].srv = conn[c].srv
            <4>1. CASE conn[c].rst = "pending"
                BY <1>1, <2>2, <4>1, ReadEffect
            <4>2. CASE conn[c].rst = "no"
                BY <1>1, <2>0, <2>2, <4>2, WriteEffect
            <4> QED
                BY <3>1, <4>1, <4>2
        <3> QED
            BY <1>1, <2>2, <3>2, ThreadMoves DEF Places
    <2> QED
        BY <1>2, <2>1, <2>2 DEF ThreadWrite, c
<1>3. CASE Shutdown(t)
    <2>0. at[t] = "top" /\ gfinish /\ UNCHANGED <<relayVars, threadVars>>
        BY <1>3 DEF Shutdown
    <2>1. CASE ended' = "error" /\ UNCHANGED <<conn, at>>
        <3>1. WireOne(conn'[c])
            BY <1>1, <2>1
        <3> QED
            BY <1>1, <2>0, <2>1, <3>1, ThreadMoves DEF Places
    <2>2. CASE conn[c].rst = "no" /\ conn' = Shut(c) /\ at' = [at EXCEPT ![t] = "read"] /\ UNCHANGED ended
        <3> DEFINE v == [conn[c] EXCEPT !.fin = TRUE]
        <3>1. conn' = [conn EXCEPT ![c] = v]
            BY <2>2 DEF Shut
        <3>2. v \in ConnType
            BY <1>1 DEF ConnType
        <3>3. WireOne(v) /\ v.st = conn[c].st /\ v.id = conn[c].id /\ v.srv = conn[c].srv
            BY <1>1 DEF WireOne, ConnType
        <3>4. /\ conn' \in [Conns -> ConnType] /\ conn'[c] = v
              /\ \A d \in Conns : d # c => conn'[d] = conn[d]
            BY <1>1, <3>1, <3>2
        <3>5. /\ at' \in [Threads -> Places]
              /\ \A u \in Threads : at'[u] = IF u = t THEN "read" ELSE at[u]
            BY <1>1, <2>2 DEF Places
        <3> HIDE DEF v
        <3>6. ClientTypeOK'
            BY <2>0, <2>2, <3>4, <3>5 DEF ClientInv, ClientTypeOK
        <3>7. WireInv'
            BY <3>3, <3>4 DEF ClientInv, WireInv, WireOne
        <3>8. ClosedInv' /\ IdInv'
            <4>1. \A d \in Conns : /\ conn'[d].st = conn[d].st /\ conn'[d].id = conn[d].id
                                   /\ conn'[d].srv = conn[d].srv
                BY <3>3, <3>4
            <4> QED
                BY <2>0, <4>1 DEF ClientInv, ClosedInv, IdInv
        <3>9. FinInv'
            <4>1. \A d \in Conns : d[1] \in Threads
                BY DEF Conns
            <4> QED
                BY <1>1, <2>0, <3>4, <3>5, <4>1 DEF ClientInv, FinInv
        <3>10. UsedInv' /\ PlaceInv' /\ LineInv'
            BY <1>1, <2>0, <2>2, <3>5 DEF ClientInv, UsedInv, PlaceInv, LineInv, Relays
        <3> QED
            BY <3>6, <3>7, <3>8, <3>9, <3>10 DEF ClientInv
    <2> QED
        BY <1>3, <2>1, <2>2 DEF Shutdown, c
<1>4. CASE ThreadRead(t)
    <2>0. /\ at[t] = "read"
          /\ UNCHANGED <<ended, relayVars, created, msgno, gcnt, gmsgno, gfinish, used, msgs>>
        BY <1>4 DEF ThreadRead
    <2>1. PICK re \in ReadResults(c) :
             LET open == OwnConns(t) \ (IF re = 0 THEN {i[t]} ELSE {}) IN
             /\ conn' = IF re = 0 THEN [conn EXCEPT ![c].st = "closed"] ELSE AfterRead(c, re)
             /\ at' = [at EXCEPT ![t] = IF open = {} THEN "done" ELSE "top"]
             /\ i' = [i EXCEPT ![t] = IF open = {} THEN @ ELSE Following(@, open)]
        BY <1>4 DEF ThreadRead, c
    <2> DEFINE S == OwnConns(t) \ (IF re = 0 THEN {i[t]} ELSE {})
    <2>2. S \in SUBSET (1 .. opconn_num) /\ S \in SUBSET Nat
        BY DEF OwnConns
    <2>3. i' = [i EXCEPT ![t] = IF S = {} THEN @ ELSE Following(@, S)]
        BY <2>1
    <2>4. PICK place \in {"done", "top"} : at' = [at EXCEPT ![t] = place]
        BY <2>1
    <2> HIDE DEF S
    <2>5. i' \in [Threads -> 1 .. opconn_num]
        <3>1. S # {} => Following(i[t], S) \in S
            BY <2>2, FollowingRange
        <3> QED
            BY <1>1, <2>2, <2>3, <3>1
    <2>6. /\ re \in Int /\ (re > 0 => re <= conn[c].down) /\ (re < 0 => conn[c].rst = "pending")
          /\ re = 0 => conn[c].down = 0 /\ (conn[c].srv # "up" \/ conn[c].rst # "no")
        BY <1>1, ReadBounds
    <2>7. CASE re # 0
        <3>1. conn' = AfterRead(c, re)
            BY <2>1, <2>7
        <3> QED
            BY <1>1, <2>0, <2>4, <2>5, <2>6, <3>1, ReadEffect, ThreadMoves DEF Places
    <2>8. CASE re = 0 /\ conn[c].st # "none"
        <3> DEFINE v == [conn[c] EXCEPT !.st = "closed"]
        <3>1. conn' = [conn EXCEPT ![c] = v]
            BY <2>1, <2>8
        <3>2. v \in ConnType
            BY <1>1 DEF ConnType
        <3>3. /\ v.id = conn[c].id /\ v.srv = conn[c].srv /\ v.fin = conn[c].fin /\ v.st = "closed"
              /\ v.up = conn[c].up /\ v.down = conn[c].down /\ v.got = conn[c].got
              /\ v.sent = conn[c].sent /\ v.rst = conn[c].rst
            BY <1>1 DEF ConnType
        <3>4. conn[c].up \in Nat /\ conn[c].down \in Nat /\ conn[c].got \in Nat /\ conn[c].sent \in Nat
            BY <1>1 DEF ConnType
        <3>5. /\ conn' \in [Conns -> ConnType] /\ conn'[c] = v
              /\ \A d \in Conns : d # c => conn'[d] = conn[d]
            BY <1>1, <3>1, <3>2
        <3> HIDE DEF v
        <3>6. WireOne(v) /\ v.srv # "up"
            BY <1>1, <2>6, <2>8, <3>3, <3>4 DEF WireOne
        <3> QED
            BY <1>1, <2>0, <2>4, <2>5, <2>8, <3>3, <3>5, <3>6, ThreadMoves DEF Places
    <2>9. conn[c].st # "none"
        BY <1>1, <2>0 DEF ReachedInv, ReachedOne, c, Fd
    <2> QED
        BY <2>7, <2>8, <2>9
<1> QED
    BY <1>2, <1>3, <1>4

\* main of csc_echo_epoll.
LEMMA ThreadMainKeeps ==
    ASSUME ClientConstants, ClientInv, client = "csc_echo_epoll", MainStep,
           UNCHANGED <<client, opthread_num, opconn_num>>, ended = "no"
    PROVE  ClientInv'
<1> USE DEF relayVars, threadVars, Exit
<1>1. /\ created \in 0 .. opthread_num /\ opthread_num \in Threads /\ 1 \in Threads
      /\ conn \in [Conns -> ConnType] /\ c0 \in Conns /\ WireOne(conn[c0])
      /\ i \in [Threads -> 1 .. opconn_num] /\ opthread_num \in Nat
    BY Enough DEF ClientInv, ClientTypeOK, WireInv
<1>2. conn' = conn /\ WireOne(conn'[c0])
    BY <1>1 DEF MainStep, MainCreate, MainJoin
<1>3. CASE MainCreate
    <2>1. created + 1 \in 1 .. opthread_num
        BY <1>1, <1>3 DEF MainCreate
    <2>2. created + 1 \in Threads
        BY <1>1, <2>1, Enough
    <2>3. /\ UNCHANGED <<conn, relayVars, i, msgno, gcnt, gmsgno, gfinish, used, msgs>>
          /\ created' \in 0 .. opthread_num /\ ended' \in {"no", "error"}
          /\ at' = at \/ at' = [at EXCEPT ![created + 1] = "connect"]
        BY <1>1, <1>3, <2>1 DEF MainCreate
    <2> QED
        BY <1>1, <1>2, <2>2, <2>3, ThreadMoves DEF Places
<1>4. CASE MainJoin
    BY <1>1, <1>2, <1>4, ThreadMoves DEF MainJoin, Places
<1> QED
    BY <1>3, <1>4 DEF MainStep

\* A connection that was made is not unmade.
LEMMA MadeKeeps ==
    ASSUME ClientConstants, ClientInv, [Next]_vars, client = "csc_echo_epoll"
    PROVE  \A d \in Conns : conn[d].st # "none" => conn'[d].st # "none"
<1> USE DEF relayVars, threadVars
<1>1. conn \in [Conns -> ConnType]
    BY DEF ClientInv, ClientTypeOK
<1>2. \/ conn' = conn
      \/ \E c \in Conns : \/ conn' = [conn EXCEPT ![c] = NewConn(gcnt, "open")]
                          \/ \E re \in Int : conn' = AfterRead(c, re)
                          \/ conn' = AfterWrite(c, MsgLen)
                          \/ conn' = Shut(c)
                          \/ conn' = [conn EXCEPT ![c].st = "closed"]
                          \/ Echo(c) \/ ServerEnd(c) \/ ResetArrives(c) \/ ServerExit(c)
    <2>1. CASE ClientStep
        BY <2>1 DEF ClientStep, RelayStep, LineStep, Relays, MainStep, MainCreate, MainJoin
    <2>2. CASE Signal
        BY <2>2 DEF Signal, sigfunc
    <2>3. CASE Environment
        BY <2>3 DEF Environment
    <2>4. ASSUME NEW t \in Threads, EpollThread(t)
          PROVE  \/ conn' = conn
                 \/ \E c \in Conns : \/ conn' = [conn EXCEPT ![c] = NewConn(gcnt, "open")]
                                     \/ \E re \in Int : conn' = AfterRead(c, re)
                                     \/ conn' = AfterWrite(c, MsgLen)
                                     \/ conn' = Shut(c)
                                     \/ conn' = [conn EXCEPT ![c].st = "closed"]
        <3>1. Fd(t) \in Conns
            BY FdInConns
        <3>2. \A re \in ReadResults(Fd(t)) : re \in Int
            BY <1>1, <3>1, ReadBounds
        <3>3. -1 \in Int
            OBVIOUS
        <3> QED
            BY <2>4, <3>1, <3>2, <3>3 DEF EpollThread, ThreadStep, ThreadConnect, Load,
               Store, ThreadWrite, Killed, Shutdown, ThreadRead
    <2>5. CASE \E c \in Conns : ServerStep(c)
        BY <2>5 DEF ServerStep
    <2>6. CASE UNCHANGED vars
        BY <2>6 DEF vars
    <2> QED
        BY <2>1, <2>2, <2>3, <2>4, <2>5, <2>6 DEF Next
<1>3. CASE conn' = conn
    BY <1>3
<1>4. ASSUME NEW c \in Conns,
             \/ conn' = [conn EXCEPT ![c] = NewConn(gcnt, "open")]
             \/ \E re \in Int : conn' = AfterRead(c, re)
             \/ conn' = AfterWrite(c, MsgLen)
             \/ conn' = Shut(c)
             \/ conn' = [conn EXCEPT ![c].st = "closed"]
             \/ Echo(c) \/ ServerEnd(c) \/ ResetArrives(c) \/ ServerExit(c)
      PROVE  \A d \in Conns : conn[d].st # "none" => conn'[d].st # "none"
    <2>0. conn[c] \in ConnType
        BY <1>1
    <2> USE <1>1, <2>0 DEF ConnType
    <2>1. CASE conn' = [conn EXCEPT ![c] = NewConn(gcnt, "open")] \/ conn' = [conn EXCEPT ![c].st = "closed"]
        BY <2>1 DEF NewConn
    <2>2. CASE \E re \in Int : conn' = AfterRead(c, re)
        BY <2>2 DEF AfterRead
    <2>3. CASE conn' = AfterWrite(c, MsgLen) \/ conn' = Shut(c)
        BY <2>3 DEF AfterWrite, Shut
    <2>4. CASE Echo(c)
        BY <2>4 DEF Echo
    <2>5. CASE ServerEnd(c) \/ ResetArrives(c) \/ ServerExit(c)
        BY <2>5 DEF ServerEnd, ResetArrives, ServerExit
    <2> QED
        BY <1>4, <2>1, <2>2, <2>3, <2>4, <2>5
<1> QED
    BY <1>2, <1>3, <1>4

\* Threads come past their connects only with all connections made.
LEMMA ReachedKeeps ==
    ASSUME ClientConstants, ClientInv, ReachedInv, [Next]_vars
    PROVE  ReachedInv'
<1> USE DEF relayVars, threadVars
<1>1. SUFFICES ASSUME client = "csc_echo_epoll", client' = client PROVE ReachedInv'
    <2>1. client' = client
        BY DEF Next, vars, ClientStep, Signal, Environment, EpollThread, ServerStep
    <2> QED
        BY <1>1, <2>1 DEF ReachedInv
<1>2. /\ at \in [Threads -> Places] /\ i \in [Threads -> 1 .. opconn_num]
      /\ opthread_num \in Threads /\ created \in 0 .. opthread_num /\ opconn_num \in ConnNums
      /\ conn \in [Conns -> ConnType]
      /\ Threads \subseteq Nat \ {0} /\ opconn_num \in Nat /\ opconn_num >= 1
      /\ Conns = Threads \X ConnNums /\ 1 .. opconn_num \subseteq ConnNums
    BY Enough DEF ClientInv, ClientTypeOK
<1>3. \A t \in Threads : \A n \in 1 .. opconn_num :
         <<t, n>> \in Conns /\ (conn[<<t, n>>].st # "none" => conn'[<<t, n>>].st # "none")
    BY <1>1, <1>2, MadeKeeps
<1>4. \A t \in Threads : t \in Nat /\ i[t] \in Nat /\ i[t] >= 1 /\ i[t] <= opconn_num
                           /\ 1 .. i[t] - 1 \subseteq 1 .. opconn_num
    BY <1>2
<1>5. SUFFICES ASSUME NEW t \in Threads PROVE ReachedOne(t)'
    BY <1>1 DEF ReachedInv
<1>6. ReachedOne(t)
    BY <1>1 DEF ReachedInv
<1>7. ASSUME created <= created', UNCHANGED opconn_num, created' \in Nat,
             \/ UNCHANGED <<at, i>>
             \/ at'[t] = at[t] /\ i'[t] = i[t]
      PROVE  ReachedOne(t)'
    <2>1. created \in Nat
        BY <1>2
    <2> QED
        BY <1>3, <1>4, <1>6, <1>7, <2>1 DEF ReachedOne
<1>8. CASE ClientStep
    <2>1. MainStep /\ UNCHANGED <<opthread_num, opconn_num>>
        BY <1>1, <1>8 DEF ClientStep, RelayStep, LineStep, Relays
    <2>2. created \in Nat /\ opthread_num \in Nat
        BY <1>2
    <2>3. CASE UNCHANGED <<created, at, i>>
        BY <1>7, <2>1, <2>2, <2>3
    <2>4. CASE /\ created < opthread_num /\ created' = created + 1
               /\ at' = [at EXCEPT ![created + 1] = "connect"]
               /\ UNCHANGED <<conn, i>>
        <3>1. at'[t] = IF t = created + 1 THEN "connect" ELSE at[t]
            BY <1>2, <2>4
        <3>2. CASE t = created + 1
            <4>1. i[t] = 1
                BY <1>6, <2>2, <3>2 DEF ReachedOne
            <4> QED
                BY <2>1, <2>2, <2>4, <3>1, <3>2, <4>1 DEF ReachedOne
        <3>3. CASE t # created + 1
            BY <1>7, <2>1, <2>2, <2>4, <3>1, <3>3
        <3> QED
            BY <3>2, <3>3
    <2> QED
        BY <2>1, <2>3, <2>4 DEF MainStep, MainCreate, MainJoin
<1>9. CASE Signal \/ Environment \/ (\E c \in Conns : ServerStep(c)) \/ UNCHANGED vars
    <2>1. UNCHANGED <<created, at, i, opconn_num>>
        BY <1>9 DEF Signal, sigfunc, Environment, ServerStep, vars
    <2>2. created \in Nat
        BY <1>2
    <2> QED
        BY <1>7, <2>1, <2>2
<1>10. ASSUME NEW u \in Threads, EpollThread(u)
       PROVE  ReachedOne(t)'
    <2>1. /\ UNCHANGED <<created, opconn_num>> /\ created \in Nat
          /\ \A p \in Threads : p # u => at'[p] = at[p] /\ i'[p] = i[p]
        <3>1. ThreadStep(u) /\ UNCHANGED opconn_num
            BY <1>10 DEF EpollThread
        <3>2. at' = at \/ \E place : at' = [at EXCEPT ![u] = place]
            BY <3>1 DEF ThreadStep, ThreadConnect, Load, Store, ThreadWrite, Killed,
               Shutdown, ThreadRead
        <3>3. i' = i \/ \E n : i' = [i EXCEPT ![u] = n]
            BY <3>1 DEF ThreadStep, ThreadConnect, Load, Store, ThreadWrite, Killed,
               Shutdown, ThreadRead
        <3>4. UNCHANGED created
            BY <3>1 DEF ThreadStep, ThreadConnect, Load, Store, ThreadWrite, Killed,
               Shutdown, ThreadRead
        <3> QED
            BY <1>2, <3>1, <3>2, <3>3, <3>4
    <2>2. CASE t # u
        BY <1>7, <2>1, <2>2
    <2>3. CASE t = u /\ ThreadConnect(t)
        <3>1. CASE at' = [at EXCEPT ![t] = "failed"]
            <4>1. at'[t] = "failed" /\ at[t] = "connect"
                BY <1>2, <2>3, <3>1 DEF ThreadConnect
            <4> QED
                BY <1>6, <2>1, <4>1 DEF ReachedOne
        <3>2. CASE /\ conn' = [conn EXCEPT ![Fd(t)] = NewConn(gcnt, "open")]
                   /\ i' = [i EXCEPT ![t] = IF @ = opconn_num THEN 1 ELSE @ + 1]
                   /\ at' = [at EXCEPT ![t] = IF i[t] = opconn_num THEN "top" ELSE @]
            <4>1. /\ at[t] = "connect"
                  /\ i'[t] = (IF i[t] = opconn_num THEN 1 ELSE i[t] + 1)
                  /\ at'[t] = (IF i[t] = opconn_num THEN "top" ELSE "connect")
                BY <1>2, <2>3, <3>2 DEF ThreadConnect
            <4>2. conn'[<<t, i[t]>>].st = "open"
                BY <1>2, <1>3, <1>4, <3>2 DEF NewConn, Fd
            <4>3. \A n \in 1 .. i[t] : conn'[<<t, n>>].st # "none"
                <5>1. \A n \in 1 .. i[t] : n \in 1 .. opconn_num /\ (n \in 1 .. i[t] - 1 \/ n = i[t])
                    BY <1>2, <1>4
                <5> QED
                    BY <1>3, <1>6, <4>1, <4>2, <5>1 DEF ReachedOne
            <4>4. ~(t > created)
                BY <1>6, <4>1 DEF ReachedOne
            <4> QED
                BY <1>4, <2>1, <4>1, <4>3, <4>4 DEF ReachedOne
        <3> QED
            BY <2>3, <3>1, <3>2 DEF ThreadConnect
    <2>4. CASE t = u /\ ~ThreadConnect(t)
        <3>1. /\ at[t] \in {"top", "store", "write", "read"}
              /\ at'[t] \in {"top", "store", "write", "read", "done"}
            BY <1>2, <1>10, <2>4 DEF EpollThread, ThreadStep, Load, Store, ThreadWrite,
               Killed, Shutdown, ThreadRead
        <3> QED
            BY <1>3, <1>6, <2>1, <3>1 DEF ReachedOne
    <2> QED
        BY <2>2, <2>3, <2>4
<1> QED
    BY <1>8, <1>9, <1>10 DEF Next

\* Every step keeps the invariant.
LEMMA ClientStepKeeps ==
    ASSUME ClientConstants, ClientInv, ReachedInv, [Next]_vars
    PROVE  ClientInv'
<1>1. CASE ClientStep
    BY <1>1, RelayKeeps, LineKeeps, ThreadMainKeeps DEF ClientStep
<1>2. CASE Signal \/ Environment \/ \E c \in Conns : ServerStep(c)
    BY <1>2, OutsideKeeps
<1>3. ASSUME NEW t \in Threads, EpollThread(t) PROVE ClientInv'
    BY <1>3, ThreadConnectKeeps, CountKeeps, ThreadIoKeeps DEF EpollThread, ThreadStep
<1>4. CASE UNCHANGED vars
    BY <1>4 DEF vars, relayVars, threadVars, ClientInv, ClientTypeOK, PlaceInv, WireInv, WireOne,
       ClosedInv, FinInv, LineInv, IdInv, UsedInv
<1> QED
    BY <1>1, <1>2, <1>3, <1>4 DEF Next

\* csc_echo_epoll: nothing was sent on a connection whose thread did not come past
\* its connects, and a thread that is done has closed all its own.
SettledOne(t) ==
    /\ \A n \in ConnNums : conn[<<t, n>>].st # "refused"
    /\ at[t] \in {"new", "connect", "failed"} => \A n \in ConnNums : conn[<<t, n>>].sent = 0
    /\ \A n \in ConnNums : n > opconn_num => conn[<<t, n>>].sent = 0
    /\ at[t] = "done" => \A n \in 1 .. opconn_num : conn[<<t, n>>].st # "open"
SettledInv == client = "csc_echo_epoll" => \A t \in Threads : SettledOne(t)

\* Of the others only csc_echo_select closes its connection, at end of file on
\* stdin; and what is true of an open connection once the process has ended.
DropInv ==
    /\ client # "csc_echo_epoll" =>
          \A c \in Conns : conn[c].st = "closed" => client = "csc_echo_select" /\ stdineof
    /\ ended # "no" =>
          \A c \in Conns : conn[c].st = "open" /\ conn[c].got # conn[c].sent =>
              conn[c].srv = "died" \/ (client = "csc_echo_epoll" /\ EndsEarly)

\* Steps outside the client's process keep the states of the connections.
LEMMA OutsideState ==
    ASSUME ClientConstants, ClientInv,
           Signal \/ Environment \/ (\E c \in Conns : ServerStep(c)) \/ UNCHANGED vars
    PROVE  \A d \in Conns : conn'[d].st = conn[d].st /\ conn'[d].sent = conn[d].sent
<1>1. conn \in [Conns -> ConnType] /\ 0 \in Int
    BY DEF ClientInv, ClientTypeOK
<1>2. CASE conn' = conn
    BY <1>2
<1>3. ASSUME NEW c \in Conns, Echo(c) \/ ServerEnd(c) \/ ResetArrives(c) \/ ServerExit(c)
      PROVE  \A d \in Conns : conn'[d].st = conn[d].st /\ conn'[d].sent = conn[d].sent
    <2>1. conn[c] \in ConnType
        BY <1>1
    <2> USE <1>1, <2>1 DEF ConnType
    <2>2. CASE Echo(c)
        BY <2>2 DEF Echo
    <2>3. CASE ServerEnd(c) \/ ResetArrives(c) \/ ServerExit(c)
        BY <2>3 DEF ServerEnd, ResetArrives, ServerExit
    <2> QED
        BY <1>3, <2>2, <2>3
<1> QED
    BY <1>2, <1>3 DEF Signal, sigfunc, Environment, ServerStep, vars

\* Threads that end leave nothing behind.
LEMMA SettledKeeps ==
    ASSUME ClientConstants, ClientInv, ReachedInv, SettledInv, [Next]_vars
    PROVE  SettledInv'
<1> USE DEF relayVars, threadVars
<1>1. SUFFICES ASSUME client = "csc_echo_epoll" PROVE SettledInv'
    <2>1. client' = client
        BY DEF Next, vars, ClientStep, Signal, Environment, EpollThread, ServerStep
    <2> QED
        BY <1>1, <2>1 DEF SettledInv
<1>2. /\ at \in [Threads -> Places] /\ i \in [Threads -> 1 .. opconn_num]
      /\ opthread_num \in Threads /\ created \in 0 .. opthread_num /\ opconn_num \in ConnNums
      /\ conn \in [Conns -> ConnType] /\ Threads \subseteq Nat \ {0}
      /\ Conns = Threads \X ConnNums /\ 1 .. opconn_num \subseteq ConnNums
      /\ ConnNums \subseteq Nat \ {0}
    BY Enough DEF ClientInv, ClientTypeOK
<1>3. \A t \in Threads, n \in ConnNums : <<t, n>> \in Conns
    BY <1>2
<1>4. UNCHANGED opconn_num
    BY DEF Next, vars, ClientStep, Signal, Environment, EpollThread, ServerStep
<1>5. SUFFICES ASSUME NEW t \in Threads PROVE SettledOne(t)'
    BY <1>1 DEF SettledInv
<1>6. SettledOne(t)
    BY <1>1 DEF SettledInv
<1>7. ASSUME at'[t] \in {at[t], "top", "store", "write", "read"}
                \/ (at[t] = "new" /\ at'[t] = "connect")
                \/ (at[t] = "connect" /\ at'[t] = "failed"),
             \A n \in ConnNums : /\ conn'[<<t, n>>].st = conn[<<t, n>>].st
                                 /\ conn'[<<t, n>>].sent = conn[<<t, n>>].sent
      PROVE  SettledOne(t)'
    BY <1>2, <1>4, <1>6, <1>7 DEF SettledOne
<1>8. CASE ClientStep
    <2>1. MainStep /\ conn' = conn
        BY <1>1, <1>8 DEF ClientStep, RelayStep, LineStep, Relays, MainStep, MainCreate, MainJoin
    <2>2. CASE at' = at
        BY <1>7, <2>1, <2>2
    <2>3. CASE created < opthread_num /\ at' = [at EXCEPT ![created + 1] = "connect"]
        <3>1. at'[t] = IF t = created + 1 THEN "connect" ELSE at[t]
            BY <1>2, <2>3
        <3>2. t = created + 1 => t > created
            BY <1>2
        <3>3. t = created + 1 => at[t] = "new"
            BY <1>1, <3>2 DEF ReachedInv, ReachedOne
        <3> QED
            BY <1>7, <2>1, <3>1, <3>3
    <2> QED
        BY <2>1, <2>2, <2>3 DEF MainStep, MainCreate, MainJoin
<1>9. CASE Signal \/ Environment \/ (\E c \in Conns : ServerStep(c)) \/ UNCHANGED vars
    <2>1. at' = at
        BY <1>9 DEF Signal, sigfunc, Environment, ServerStep, vars
    <2> QED
        BY <1>3, <1>7, <1>9, <2>1, OutsideState
<1>10. ASSUME NEW u \in Threads, EpollThread(u)
       PROVE  SettledOne(t)'
    <2>1. ThreadStep(u)
        BY <1>10 DEF EpollThread
    <2>2. Fd(u) \in Conns /\ Fd(u) = <<u, i[u]>>
        BY <1>1, FdInConns DEF Fd
    <2>3. CASE t # u
        <3>1. at'[t] = at[t]
            BY <1>2, <2>1, <2>3 DEF ThreadStep, ThreadConnect, Load, Store, ThreadWrite, Killed,
               Shutdown, ThreadRead
        <3>2. conn' = conn \/ \E w : conn' = [conn EXCEPT ![Fd(u)] = w]
            BY <2>1 DEF ThreadStep, ThreadConnect, Load, Store, ThreadWrite, Killed,
               Shutdown, ThreadRead, AfterRead, AfterWrite, Shut
        <3>3. \A n \in ConnNums : conn'[<<t, n>>] = conn[<<t, n>>]
            BY <1>2, <1>3, <2>2, <2>3, <3>2
        <3> QED
            BY <1>7, <3>1, <3>3
    <2>4. CASE t = u /\ ThreadConnect(t)
        <3>1. CASE at' = [at EXCEPT ![t] = "failed"] /\ conn' = conn
            BY <1>2, <1>7, <2>4, <3>1 DEF ThreadConnect
        <3>2. CASE /\ conn' = [conn EXCEPT ![Fd(t)] = NewConn(gcnt, "open")]
                   /\ at' = [at EXCEPT ![t] = IF i[t] = opconn_num THEN "top" ELSE @]
            <4>1. at[t] = "connect" /\ at'[t] \in {"connect", "top"}
                BY <1>2, <2>4, <3>2 DEF ThreadConnect
            <4>2. \A n \in ConnNums : conn'[<<t, n>>] \in {conn[<<t, n>>], NewConn(gcnt, "open")}
                BY <1>2, <1>3, <2>2, <2>4, <3>2
            <4>3. \A n \in ConnNums : conn'[<<t, n>>].sent = 0 /\ conn'[<<t, n>>].st # "refused"
                BY <1>6, <4>1, <4>2 DEF SettledOne, NewConn
            <4> QED
                BY <4>1, <4>3 DEF SettledOne
        <3> QED
            BY <2>4, <3>1, <3>2 DEF ThreadConnect
    <2>5. CASE t = u /\ (Load(t) \/ Store(t))
        BY <1>2, <1>7, <2>5 DEF Load, Store
    <2>6. CASE t = u /\ Shutdown(t)
        <3>1. at'[t] \in {at[t], "read"}
            BY <1>2, <2>6 DEF Shutdown
        <3>2. conn' = conn \/ conn' = Shut(Fd(t))
            BY <2>6 DEF Shutdown
        <3>3. \A n \in ConnNums : conn'[<<t, n>>].st = conn[<<t, n>>].st
                                  /\ conn'[<<t, n>>].sent = conn[<<t, n>>].sent
            <4>1. conn[Fd(t)] \in ConnType
                BY <1>2, <2>2, <2>6
            <4> QED
                BY <1>2, <1>3, <2>2, <2>6, <3>2, <4>1 DEF Shut, ConnType
        <3> QED
            BY <1>7, <3>1, <3>3
    <2>7. CASE t = u /\ ThreadWrite(t)
        <3>1. at[t] = "write" /\ at'[t] \in {"write", "read"}
            BY <1>2, <2>7 DEF ThreadWrite, Killed
        <3>2. /\ conn' = conn \/ conn' = AfterRead(Fd(t), -1) \/ conn' = AfterWrite(Fd(t), MsgLen)
              /\ MsgLen \in Int /\ -1 \in Int
            BY <2>7 DEF ThreadWrite, Killed, ClientConstants
        <3>3. \A n \in ConnNums : /\ conn'[<<t, n>>].st = conn[<<t, n>>].st
                                  /\ n # i[t] => conn'[<<t, n>>].sent = conn[<<t, n>>].sent
            <4>1. conn[Fd(t)] \in ConnType
                BY <1>2, <2>2, <2>7
            <4> QED
                BY <1>2, <1>3, <2>2, <2>7, <3>2, <4>1 DEF AfterRead, AfterWrite, ConnType
        <3>4. i[t] <= opconn_num /\ i[t] \in Nat /\ opconn_num \in Nat
            BY <1>2
        <3>5. \A n \in ConnNums : n > opconn_num => n # i[t]
            BY <1>2, <3>4
        <3> QED
            BY <1>4, <1>6, <3>1, <3>3, <3>5 DEF SettledOne
    <2>8. CASE t = u /\ ThreadRead(t)
        <3>1. PICK re \in ReadResults(Fd(t)) :
                 LET open == OwnConns(t) \ (IF re = 0 THEN {i[t]} ELSE {}) IN
                 /\ conn' = IF re = 0 THEN [conn EXCEPT ![Fd(t)].st = "closed"]
                                      ELSE AfterRead(Fd(t), re)
                 /\ at' = [at EXCEPT ![t] = IF open = {} THEN "done" ELSE "top"]
            BY <2>8 DEF ThreadRead
        <3> DEFINE open == OwnConns(t) \ (IF re = 0 THEN {i[t]} ELSE {})
        <3>2. at'[t] = IF open = {} THEN "done" ELSE "top"
            BY <1>2, <3>1
        <3>3. \A n \in ConnNums :
                 /\ conn'[<<t, n>>].sent = conn[<<t, n>>].sent
                 /\ conn'[<<t, n>>].st = IF re = 0 /\ n = i[t] THEN "closed" ELSE conn[<<t, n>>].st
            <4>1. conn[Fd(t)] \in ConnType
                BY <1>2, <2>2, <2>8
            <4> QED
                BY <1>2, <1>3, <2>2, <2>8, <3>1, <4>1 DEF AfterRead, ConnType
        <3>4. open = {} => \A n \in 1 .. opconn_num : conn'[<<t, n>>].st # "open"
            BY <1>2, <3>3 DEF OwnConns
        <3> HIDE DEF open
        <3> QED
            BY <1>4, <1>6, <3>2, <3>3, <3>4 DEF SettledOne
    <2> QED
        BY <2>1, <2>3, <2>4, <2>5, <2>6, <2>7, <2>8 DEF ThreadStep
<1> QED
    BY <1>8, <1>9, <1>10 DEF Next

\* The relays and csc_echo: they end with every echo read, or with a server that
\* has exited, or with the connection closed or refused.
LEMMA SingleDrop ==
    ASSUME ClientConstants, ClientInv, DropInv, ended = "no", RelayStep \/ LineStep
    PROVE  /\ conn'[c0].st = "closed" =>
                 conn[c0].st = "closed" \/ (client = "csc_echo_select" /\ stdineof')
           /\ stdineof => stdineof'
           /\ ended' # "no" => \/ conn'[c0].st # "open"
                               \/ conn'[c0].srv = "died"
                               \/ conn'[c0].got = conn'[c0].sent
                               \/ ended' = "over"
<1> USE DEF relayVars, threadVars, Exit
<1>1. /\ conn \in [Conns -> ConnType] /\ c0 \in Conns /\ WireOne(conn[c0])
      /\ client # "csc_echo_epoll" /\ at \in [Threads -> Places] /\ 1 \in Threads
    BY Enough DEF ClientInv, ClientTypeOK, WireInv, RelayStep, LineStep, Relays
<1>2. conn[c0].srv # "up" => conn[c0].srv = "died"
    BY <1>1 DEF WireOne, ConnType, FinInv, ClientInv
<1>3. conn[c0].rst # "no" => conn[c0].srv = "died"
    BY <1>1 DEF WireOne
<1>4. \A re \in Int : conn' = AfterRead(c0, re) => conn'[c0].st = conn[c0].st
                                                   /\ conn'[c0].srv = conn[c0].srv
    <2>1. conn[c0] \in ConnType
        BY <1>1
    <2> QED
        BY <1>1, <2>1 DEF AfterRead, ConnType
<1>5. \A re \in ReadResults(c0) : re \in Int /\ (re < 0 => conn[c0].rst = "pending")
                                  /\ (re = 0 => conn[c0].srv = "died")
    BY <1>1, <1>2, <1>3, ReadBounds
<1>6. -1 \in Int
    OBVIOUS
<1>7. CASE Wait
    BY <1>7 DEF Wait
<1>8. CASE StdinData \/ StdinSkip
    BY <1>8 DEF StdinData, StdinSkip
<1>9. CASE StdinEnd
    <2>1. conn' = conn \/ client = "csc_echo_select"
        BY <1>9 DEF StdinEnd, Closes
    <2> QED
        BY <1>9, <2>1 DEF StdinEnd
<1>10. CASE RelayWrite
    <2>1. CASE Killed(c0)
        BY <1>3, <1>10, <2>1 DEF Killed
    <2>2. CASE conn[c0].rst = "pending" /\ conn' = AfterRead(c0, -1) /\ UNCHANGED stdineof
        BY <1>3, <1>4, <1>6, <2>2
    <2>3. CASE conn' = AfterWrite(c0, len) /\ UNCHANGED <<ended, stdineof>>
        <3>1. conn[c0] \in ConnType
            BY <1>1
        <3>2. conn'[c0].st = conn[c0].st
            BY <1>1, <2>3, <3>1 DEF AfterWrite, ConnType
        <3> QED
            BY <2>3, <3>2
    <2> QED
        BY <1>10, <2>1, <2>2, <2>3 DEF RelayWrite
<1>11. CASE SvrRead
    <2>1. CASE conn' = conn /\ (ended' = ended \/ conn[c0].st # "open")
        BY <1>11, <2>1 DEF SvrRead
    <2>2. ASSUME NEW re \in ReadResults(c0), conn' = AfterRead(c0, re),
                 ended' = (IF re = 0 THEN "ok"
                           ELSE IF re < 0 /\ client = "csc_echo_select" THEN "error"
                           ELSE ended)
          PROVE  /\ conn'[c0].st = conn[c0].st
                 /\ ended' # "no" => conn'[c0].srv = "died"
        BY <1>3, <1>4, <1>5, <2>2
    <2> QED
        BY <1>11, <2>1, <2>2 DEF SvrRead
<1>12. CASE LineStep /\ Fgets
    <2>1. ended' # "no" => conn[c0].got = conn[c0].sent
        BY <1>12 DEF Fgets, LineStep, ClientInv, LineInv
    <2> QED
        BY <1>12, <2>1 DEF Fgets
<1>13. CASE LineStep /\ LineWrite
    <2>1. CASE Killed(c0)
        BY <1>3, <2>1 DEF Killed
    <2>2. CASE conn[c0].rst = "pending" /\ UNCHANGED <<conn, relayVars>>
        BY <1>3, <2>2
    <2>3. CASE conn' = AfterWrite(c0, len) /\ UNCHANGED <<ended, stdineof>>
        <3>1. conn[c0] \in ConnType
            BY <1>1
        <3>2. conn'[c0].st = conn[c0].st
            BY <1>1, <2>3, <3>1 DEF AfterWrite, ConnType
        <3> QED
            BY <2>3, <3>2
    <2> QED
        BY <1>13, <2>1, <2>2, <2>3 DEF LineWrite
<1>14. CASE LineStep /\ LineRead
    <2>1. PICK re \in ReadResults(c0) :
             /\ conn' = AfterRead(c0, re)
             /\ ended' = (IF re < 0 THEN "error" ELSE IF cnt' > len THEN "over" ELSE ended)
        BY <1>14 DEF LineRead
    <2>2. stdineof' = stdineof
        BY <1>14 DEF LineRead
    <2> QED
        BY <1>3, <1>4, <1>5, <2>1, <2>2
<1> QED
    BY <1>7, <1>8, <1>9, <1>10, <1>11, <1>12, <1>13, <1>14 DEF RelayStep, LineStep

\* csc_echo_epoll: what its process may end for, and what main's joins leave open.
LEMMA ThreadsDrop ==
    ASSUME ClientConstants, ClientInv, ReachedInv, SettledInv, client = "csc_echo_epoll",
           ended = "no", MainStep \/ \E t \in Threads : ThreadStep(t), UNCHANGED opthread_num
    PROVE  ended' # "no" =>
              \/ EndsEarly'
              \/ \A c \in Conns : conn'[c].st = "open" => conn'[c].got = conn'[c].sent
<1> USE DEF relayVars, threadVars, Exit
<1>1. /\ at \in [Threads -> Places] /\ opthread_num \in Threads /\ created \in 0 .. opthread_num
      /\ conn \in [Conns -> ConnType] /\ Threads \subseteq Nat \ {0}
      /\ Conns = Threads \X ConnNums /\ ConnNums \subseteq Nat \ {0} /\ opconn_num \in ConnNums
      /\ \A c \in Conns : WireOne(conn[c])
    BY Enough DEF ClientInv, ClientTypeOK, WireInv
<1>2. CASE MainCreate
    BY <1>2 DEF MainCreate, EndsEarly, threadVars
<1>3. CASE MainJoin
    <2>1. conn' = conn
        BY <1>3 DEF MainJoin
    <2>2. ASSUME NEW t \in Threads, NEW n \in ConnNums, conn[<<t, n>>].st = "open"
          PROVE  conn[<<t, n>>].got = conn[<<t, n>>].sent
        <3>1. SettledOne(t) /\ ReachedOne(t)
            BY DEF SettledInv, ReachedInv
        <3>2. at[t] \in {"new", "failed", "done"}
            <4>1. CASE t \in 1 .. opthread_num
                BY <1>3, <4>1 DEF MainJoin
            <4>2. CASE t \notin 1 .. opthread_num
                <5>1. t > created
                    BY <1>1, <4>2
                <5> QED
                    BY <3>1, <5>1 DEF ReachedOne
            <4> QED
                BY <4>1, <4>2
        <3>3. n \in 1 .. opconn_num \/ n > opconn_num
            BY <1>1
        <3>4. conn[<<t, n>>].sent = 0
            BY <2>2, <3>1, <3>2, <3>3 DEF SettledOne
        <3>5. conn[<<t, n>>] \in ConnType /\ WireOne(conn[<<t, n>>])
            BY <1>1
        <3> QED
            BY <3>4, <3>5 DEF ConnType, WireOne
    <2> QED
        BY <1>1, <2>1, <2>2
<1>4. ASSUME NEW t \in Threads, ThreadStep(t), ended' # "no"
      PROVE  EndsEarly'
    <2>1. Fd(t) \in Conns /\ Fd(t) = <<t, i[t]>> /\ i[t] \in ConnNums
        BY <1>1, FdInConns DEF Fd
    <2>2. conn' = conn /\ \/ ended' = "killed" /\ at[t] = "write" /\ Killed(Fd(t))
                          \/ /\ ended' = "error"
                             /\ conn[Fd(t)].rst # "no" \/ Gone(Fd(t))
        BY <1>4 DEF ThreadStep, ThreadConnect, Load, Store, ThreadWrite, Killed, Shutdown,
           ThreadRead
    <2>3. conn[Fd(t)].st # "refused"
        BY <2>1 DEF SettledInv, SettledOne
    <2>4. conn[Fd(t)].rst # "no" => conn[Fd(t)].srv = "died"
        BY <1>1, <2>1 DEF WireOne
    <2>5. PICK c \in Conns : \/ ended' \in {"error", "killed"} /\ conn[c].srv = "died"
                             \/ ended' = "error" /\ Gone(c)
        BY <2>1, <2>2, <2>3, <2>4 DEF Killed
    <2>6. Gone(c) => Gone(c)'
        BY <2>2 DEF Gone
    <2> QED
        BY <2>2, <2>5, <2>6 DEF EndsEarly
<1> QED
    BY <1>2, <1>3, <1>4 DEF MainStep

\* What is true of a connection when its client lets go of it stays true: nothing
\* happens any more.
LEMMA DropKeeps ==
    ASSUME ClientConstants, ClientInv, ClientInv', ReachedInv, SettledInv, DropInv, [Next]_vars
    PROVE  DropInv'
<1>1. client' = client
    BY DEF Next, vars, ClientStep, Signal, Environment, EpollThread, ServerStep
<1>2. CASE UNCHANGED vars
    <2>1. \A d \in Conns : Gone(d) => Gone(d)'
        BY <1>2 DEF Gone, vars
    <2>2. EndsEarly => EndsEarly'
        BY <1>2, <2>1 DEF vars, threadVars, EndsEarly
    <2> QED
        BY <1>2, <2>2 DEF vars, relayVars, DropInv
<1>3. CASE ended # "no"
    <2>1. UNCHANGED vars
        BY <1>3 DEF Next, ClientStep, Signal, Environment, EpollThread, ServerStep
    <2> QED
        BY <1>2, <2>1
<1>4. CASE ended = "no" /\ (Signal \/ Environment \/ \E c \in Conns : ServerStep(c))
    <2>1. UNCHANGED <<ended, stdineof>>
        BY <1>4 DEF Signal, sigfunc, Environment, ServerStep, relayVars, threadVars
    <2> QED
        BY <1>1, <1>4, <2>1, OutsideState DEF DropInv
<1>5. CASE ended = "no" /\ client # "csc_echo_epoll" /\ ClientStep
    <2>1. RelayStep \/ LineStep
        BY <1>5 DEF ClientStep
    <2>2. \A d \in Conns : d # c0 => conn'[d].st = "none"
        BY <1>1, <1>5 DEF ClientInv, IdInv
    <2>3. ended' # "over"
        BY DEF ClientInv, LineInv
    <2>4. c0 \in Conns
        BY Enough
    <2> QED
        BY <1>1, <1>5, <2>1, <2>2, <2>3, <2>4, SingleDrop DEF DropInv
<1>6. CASE /\ ended = "no" /\ client = "csc_echo_epoll"
           /\ ClientStep \/ \E t \in Threads : EpollThread(t)
    <2>1. (MainStep \/ \E t \in Threads : ThreadStep(t)) /\ UNCHANGED opthread_num
        BY <1>6 DEF ClientStep, RelayStep, LineStep, Relays, EpollThread
    <2> QED
        BY <1>1, <1>6, <2>1, ThreadsDrop DEF DropInv
<1> QED
    BY <1>2, <1>3, <1>4, <1>5, <1>6 DEF Next, EpollThread, ThreadStep

\* The invariant holds throughout.
THEOREM ClientInvariance == Spec => [](ClientInv /\ ReachedInv)
<1>1. Init => ClientInv /\ ReachedInv
    <2>1. Init => ReachedInv
        BY Enough, ConstantsHold DEF Init, ReachedInv, ReachedOne
    <2> QED
        BY <2>1, ClientInit, ConstantsHold
<1>2. ClientInv /\ ReachedInv /\ [Next]_vars => ClientInv' /\ ReachedInv'
    BY ClientStepKeeps, ReachedKeeps, ConstantsHold
<1> QED
    BY <1>1, <1>2, PTL DEF Spec

\* And so does what is known of connections that are let go of.
THEOREM DropInvariance == Spec => [](SettledInv /\ DropInv)
<1>1. Init => SettledInv /\ DropInv
    <2> SUFFICES ASSUME Init PROVE SettledInv /\ DropInv
        OBVIOUS
    <2>1. \A c \in Conns : /\ conn[c].sent = 0 /\ conn[c].st # "closed"
                           /\ client = "csc_echo_epoll" => conn[c].st = "none"
        BY DEF Init, NewConn
    <2>2. \A t \in Threads, n \in ConnNums : <<t, n>> \in Conns
        BY Enough, ConstantsHold
    <2>3. \A t \in Threads : client = "csc_echo_epoll" => at[t] = "new"
        BY DEF Init
    <2>4. SettledInv
        BY <2>1, <2>2, <2>3 DEF SettledInv, SettledOne
    <2>5. ended = "no"
        BY DEF Init
    <2> QED
        BY <2>1, <2>4, <2>5 DEF DropInv
<1>2. ClientInv /\ ReachedInv /\ ClientInv' /\ SettledInv /\ DropInv /\ [Next]_vars
         => SettledInv' /\ DropInv'
    BY SettledKeeps, DropKeeps, ConstantsHold
<1> QED
    BY <1>1, <1>2, ClientInvariance, PTL DEF Spec

\* No client lets go of a connection with echoes missing, be it by closing it or by
\* ending, unless the connection's server has exited, csc_echo_select has seen end
\* of file on stdin, or csc_echo_epoll ends early: for any number of threads and
\* connections, any lengths, and bytes coming back in any pieces.
THEOREM EchoesAllRead == Spec => []EchoesRead
<1>1. ClientInv /\ DropInv => EchoesRead
    <2> SUFFICES ASSUME ClientInv, DropInv PROVE EchoesRead
        OBVIOUS
    <2>1. \A c \in Conns : conn[c] \in ConnType /\ WireOne(conn[c])
        BY DEF ClientInv, ClientTypeOK, WireInv
    <2>2. \A c \in Conns : {conn[c].up, conn[c].down, conn[c].got} \subseteq 0 .. conn[c].sent
        BY <2>1 DEF ConnType, WireOne
    <2>3. stdin.left \in 0 .. stdin.typed
        BY DEF ClientInv, ClientTypeOK
    <2>4. TypeOK
        BY <2>1, <2>2, <2>3 DEF TypeOK, ConnType, ClientInv, ClientTypeOK
    <2>5. ASSUME NEW c \in Conns, Dropped(c), conn[c].got # conn[c].sent
          PROVE  \/ conn[c].srv = "died"
                 \/ client = "csc_echo_select" /\ stdineof /\ conn[c].st = "closed"
                 \/ client = "csc_echo_epoll" /\ conn[c].st = "open" /\ EndsEarly
        <3>1. CASE conn[c].st = "closed" /\ client = "csc_echo_epoll"
            BY <2>1, <2>5, <3>1 DEF ClientInv, ClosedInv, WireOne, ConnType
        <3>2. CASE conn[c].st = "closed" /\ client # "csc_echo_epoll"
            BY <3>2 DEF DropInv
        <3>3. CASE conn[c].st = "open" /\ ended # "no"
            BY <2>5, <3>3 DEF DropInv
        <3> QED
            BY <2>5, <3>1, <3>2, <3>3 DEF Dropped
    <2>6. at[1] = "fgets" => conn[c0].got = conn[c0].sent
        BY DEF ClientInv, ClientTypeOK, PlaceInv, LineInv
    <2> QED
        BY <2>4, <2>5, <2>6 DEF EchoesRead, ClientInv, LineInv
<1> QED
    BY <1>1, ClientInvariance, DropInvariance, PTL

\* Connections of all threads of csc_echo_epoll have numbers of their own, and
\* although gmsgno++ is not atomic no message number is left out, however many
\* threads meet in it.
THEOREM NumbersInOrder == Spec => []Numbering
<1>1. ClientInv => Numbering
    BY DEF ClientInv, IdInv, UsedInv, Numbering
<1> QED
    BY <1>1, ClientInvariance, PTL
==============================================================================
