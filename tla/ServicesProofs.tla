---------------------------- MODULE ServicesProofs ----------------------------
(***************************************************************************)
(* daemon_init and tcp_listen for every list of addresses and set of       *)
(* inherited descriptors the module starts with, and css with any number   *)
(* of clients and of records.                                              *)
(***************************************************************************)
EXTENDS Services, TLAPS, SequenceTheorems, WellFoundedInduction

Places == {"fork1", "setsid", "fork2", "chdir", "close", "getaddrinfo",
           "socket", "setsockopt", "bind", "listen",
           "accept", "fork", "child", "both", "none", "exit"}
Serving == {"accept", "fork", "both"}

ServiceTypeOK ==
    /\ program \in {"daytimetcpsrv2", "css"}
    /\ pc \in [Procs -> Places]
    /\ fds \subseteq 0 .. MaxFd /\ inherited \subseteq 3 .. MaxFd
    /\ Len(addrs) \in Nat \ {0}
    /\ hold \in [Procs -> Conns \cup {NULL}] /\ left \in [Procs -> Nat]
    /\ backlog \in Seq(Conns)
    /\ cli \in [Conns -> {"idle", "connect", "read", "done", "spin", "exit", "gone"}]
    /\ wrote \in [Conns -> Nat] /\ got \in [Conns -> Nat] /\ rst \in [Conns -> BOOLEAN]

\* What the steps of daemon_init have made of the process.
ProcInv ==
    program = "daytimetcpsrv2" =>
        /\ DOMAIN proc = {"pid", "pgid", "sid"}
        /\ pc[0] = "fork1"  => proc.pid = 1 /\ proc.pgid \in {0, 1}
        /\ pc[0] = "setsid" => proc.pid = 2 /\ proc.pgid \in {0, 1}
        /\ pc[0] = "fork2"  => proc.pid = 2 /\ proc.sid = 2
        /\ pc[0] \notin {"fork1", "setsid", "fork2", "exit"} => proc.pid = 3 /\ proc.sid = 2

Base == Stdio \cup {f \in inherited : f >= MAXDESCRIPTOR}

\* The descriptors at each place: what tcp_listen opens for one address is closed
\* before it goes on to the next.
FdInv ==
    program = "daytimetcpsrv2" =>
        /\ pc[0] \in {"fork1", "setsid", "fork2", "chdir", "close"} => fds = Stdio \cup inherited
        /\ pc[0] \in {"getaddrinfo", "socket"} \/ why = "tcp_listen" => fds = Base
        /\ pc[0] \in {"setsockopt", "bind", "listen"} \cup Serving =>
              srvfd \notin Base /\ srvfd \in 0 .. MaxFd /\ fds = Base \cup {srvfd} /\ re >= 0

\* The addresses before the current one, and only they, were given up.
AddressInv ==
    /\ paddrinfo \in 1 .. Len(addrs) + 1 /\ failed = 1 .. paddrinfo - 1
    /\ re \in Int /\ srvfd \in Int
    /\ pc[0] # "exit" => paddrinfo <= Len(addrs) /\ why = "none"
    /\ why = "tcp_listen" => paddrinfo = Len(addrs) + 1 /\ re < 0
    /\ program = "daytimetcpsrv2" => why \in {"none", "fork", "chdir", "getaddrinfo", "tcp_listen"}
    /\ program = "css" => pc[0] \in Serving \cup {"exit"}

\* Where the processes may be, and what they hold there.
HoldInv ==
    /\ pc[0] \notin {"child", "none"}
    /\ pc[0] \in {"fork", "both"} => hold[0] \in Conns
    /\ pc[0] = "fork" => program = "css"
    /\ \A c \in Conns :
          /\ pc[c] \in {"none", "child", "both", "exit"}
          /\ pc[c] = "child" => hold[c] = c
          /\ pc[c] = "both"  => hold[c] = NULL /\ left[c] > 0
          /\ pc[c] # "none"  => program = "css"

\* Main has the connection at hand.
Handled(c) == pc[0] \in {"fork", "both"} /\ hold[0] = c
Fresh(c) == cli[c] \in {"idle", "connect"} \/ Queued(c)

\* Nothing happened yet to a connection that main has not accepted.
QueueInv ==
    /\ IsInjective(backlog)
    /\ \A c \in Conns :
          /\ cli[c] \in {"idle", "connect"} => ~Queued(c)
          /\ Fresh(c) => ~Handled(c)
          /\ Fresh(c) \/ (Handled(c) /\ pc[0] = "fork") => wrote[c] = 0 /\ pc[c] = "none"

\* Records that are still going to be written to c.
Due(c) == (IF pc[c] = "child" THEN left[c] ELSE 0)
          + (IF pc[0] = "both" /\ hold[0] = c THEN left[0] ELSE 0)

RecordInv ==
    \A c \in Conns :
        /\ got[c] <= wrote[c]
        /\ rst[c] => wrote[c] > 0
        /\ wrote[c] + Due(c) <= ChildWrites + BothWrites
        /\ program = "daytimetcpsrv2" /\ Handled(c) => wrote[c] + left[0] = 1

\* Nobody who could write to c is left.
Abandoned(c) == ~Queued(c) /\ ~Handled(c) /\ pc[c] # "child"

\* Only a client that went away has its connection reset; every other one gets
\* all its records, and is at the end only when nobody can write to it.
ExactOne(c) ==
    /\ rst[c] => cli[c] = "gone"
    /\ /\ cli[c] \in {"read", "done", "spin"} /\ ~Queued(c)
       /\ ~(Handled(c) /\ pc[0] = "fork")
       => wrote[c] + Due(c) = Complete(c)
    /\ cli[c] \in {"done", "spin"} => got[c] = wrote[c] /\ Abandoned(c)
ExactInv == \A c \in Conns : ExactOne(c)

Inv == ServiceTypeOK /\ ProcInv /\ FdInv /\ AddressInv /\ HoldInv /\ QueueInv /\ RecordInv

------------------------------------------------------------------------------
\* Accept takes the first connection, and the others stay.
LEMMA HeadTaken ==
    ASSUME NEW S, NEW q \in Seq(S), q # <<>>, IsInjective(q)
    PROVE  /\ Head(q) \in S /\ Tail(q) \in Seq(S) /\ IsInjective(Tail(q))
           /\ Contains(q, Head(q)) /\ ~Contains(Tail(q), Head(q))
           /\ \A c : Contains(q, c) <=> c = Head(q) \/ Contains(Tail(q), c)
<1>1. /\ Head(q) \in S /\ Tail(q) \in Seq(S) /\ Len(Tail(q)) = Len(q) - 1
      /\ \A i \in 1 .. Len(Tail(q)) : Tail(q)[i] = q[i + 1]
    BY HeadTailProperties
<1>2. Len(q) \in Nat \ {0} /\ Head(q) = q[1] /\ DOMAIN q = 1 .. Len(q) /\ Len(Tail(q)) \in Nat
      /\ DOMAIN Tail(q) = 1 .. Len(Tail(q))
    BY <1>1, EmptySeq, LenProperties
<1>3. \A i \in 1 .. Len(Tail(q)) : i + 1 \in 1 .. Len(q) /\ i + 1 # 1
    BY <1>1, <1>2
<1>4. IsInjective(Tail(q))
    BY <1>1, <1>2, <1>3 DEF IsInjective
<1>5. Contains(q, Head(q)) /\ \A c : Contains(Tail(q), c) => Contains(q, c)
    BY <1>1, <1>2, <1>3 DEF Contains
<1>6. ASSUME NEW c, Contains(q, c), c # Head(q) PROVE Contains(Tail(q), c)
    <2>1. PICK i \in 1 .. Len(q) : q[i] = c
        BY <1>6 DEF Contains
    <2>2. i - 1 \in 1 .. Len(Tail(q)) /\ Tail(q)[i - 1] = c
        <3>1. i - 1 \in 1 .. Len(Tail(q)) /\ (i - 1) + 1 = i
            BY <1>1, <1>2, <1>6, <2>1
        <3> QED
            BY <1>1, <2>1, <3>1
    <2> QED
        BY <2>2 DEF Contains
<1>7. ~Contains(Tail(q), Head(q))
    <2> SUFFICES ASSUME NEW i \in 1 .. Len(Tail(q)), Tail(q)[i] = Head(q) PROVE FALSE
        BY DEF Contains
    <2> QED
        BY <1>1, <1>2, <1>3 DEF IsInjective
<1> QED
    BY <1>1, <1>4, <1>5, <1>6, <1>7

\* connect adds a connection that was not there.
LEMMA Added ==
    ASSUME NEW S, NEW q \in Seq(S), NEW c \in S, IsInjective(q), ~Contains(q, c)
    PROVE  /\ Append(q, c) \in Seq(S) /\ IsInjective(Append(q, c))
           /\ \A d : Contains(Append(q, c), d) <=> Contains(q, d) \/ d = c
<1>1. /\ Append(q, c) \in Seq(S) /\ Len(Append(q, c)) = Len(q) + 1 /\ Len(q) \in Nat
      /\ \A i \in 1 .. Len(q) : Append(q, c)[i] = q[i]
      /\ Append(q, c)[Len(q) + 1] = c
    BY AppendProperties, LenProperties
<1>2. DOMAIN q = 1 .. Len(q) /\ DOMAIN Append(q, c) = 1 .. Len(q) + 1
    BY <1>1, LenProperties
<1>3. \A i \in 1 .. Len(q) : q[i] # c
    BY DEF Contains
<1>4. IsInjective(Append(q, c))
    <2> SUFFICES ASSUME NEW a \in 1 .. Len(q) + 1, NEW b \in 1 .. Len(q) + 1,
                        Append(q, c)[a] = Append(q, c)[b]
                 PROVE  a = b
        BY <1>2 DEF IsInjective
    <2>1. CASE a \in 1 .. Len(q) /\ b \in 1 .. Len(q)
        BY <1>1, <1>2, <2>1 DEF IsInjective
    <2>2. CASE a = Len(q) + 1 \/ b = Len(q) + 1
        BY <1>1, <1>3, <2>2
    <2> QED
        BY <1>1, <2>1, <2>2
<1>5. \A d : Contains(Append(q, c), d) => Contains(q, d) \/ d = c
    <2> SUFFICES ASSUME NEW d, NEW i \in 1 .. Len(q) + 1, Append(q, c)[i] = d
                 PROVE  (\E k \in 1 .. Len(q) : q[k] = d) \/ d = c
        BY <1>1 DEF Contains
    <2>1. i \in 1 .. Len(q) \/ i = Len(q) + 1
        BY <1>1
    <2> QED
        BY <1>1, <2>1
<1>6. \A d : Contains(q, d) \/ d = c => Contains(Append(q, c), d)
    <2>1. Contains(Append(q, c), c)
        BY <1>1 DEF Contains
    <2>2. ASSUME NEW d, NEW i \in 1 .. Len(q), q[i] = d PROVE Contains(Append(q, c), d)
        <3>1. i \in 1 .. Len(Append(q, c)) /\ Append(q, c)[i] = d
            BY <1>1, <2>2
        <3> QED
            BY <3>1 DEF Contains
    <2> QED
        BY <2>1, <2>2 DEF Contains
<1> QED
    BY <1>1, <1>4, <1>5, <1>6

------------------------------------------------------------------------------
\* The invariant holds when main starts.
LEMMA InvInit == Init => Inv
<1> SUFFICES ASSUME Init PROVE Inv
    OBVIOUS
<1>0. 0 \in Procs /\ 0 \notin Conns /\ Conns \subseteq Procs
    BY CountAssumption DEF Procs, Conns
<1>1. Len(addrs) \in Nat \ {0} /\ proc.pid = 1 /\ DOMAIN proc = {"pid", "pgid", "sid"}
      /\ proc.pgid \in {0, 1}
    BY DEF Init
<1>2. backlog \in Seq(Conns) /\ IsInjective(backlog) /\ \A c \in Conns : ~Queued(c)
    BY EmptySeq DEF Init, IsInjective, Queued, Contains
<1>3. /\ \A c \in Conns : pc[c] = "none" /\ pc \in [Procs -> Places]
      /\ program = "css" => pc[0] \in {"accept", "exit"} /\ (why = "bind" <=> pc[0] = "exit")
                            /\ why \in {"none", "bind"}
      /\ program # "css" => program = "daytimetcpsrv2" /\ pc[0] = "fork1" /\ why = "none"
    <2>1. CASE program = "css"
        <3>1. why \in {"none", "bind"}
              /\ pc = [p \in Procs |-> IF p > 0 THEN "none" ELSE IF why = "bind" THEN "exit" ELSE "accept"]
            BY <2>1 DEF Init
        <3> QED
            BY <1>0, <2>1, <3>1 DEF Places, Procs, Conns
    <2>2. CASE program = "daytimetcpsrv2"
        <3>1. why = "none" /\ pc = [p \in Procs |-> IF p = 0 THEN "fork1" ELSE "none"]
            BY <2>2 DEF Init
        <3> QED
            BY <1>0, <2>2, <3>1 DEF Places
    <2> QED
        BY <2>1, <2>2 DEF Init
<1>4. ServiceTypeOK
    BY <1>0, <1>1, <1>2, <1>3, FdAssumption DEF Init, ServiceTypeOK, Stdio
<1>5. ProcInv /\ FdInv
    BY <1>1, <1>3 DEF Init, ProcInv, FdInv, Serving
<1>6. AddressInv /\ HoldInv
    BY <1>0, <1>1, <1>3 DEF Init, AddressInv, HoldInv, Serving
<1>7. QueueInv
    BY <1>2, <1>3 DEF Init, QueueInv, Fresh, Handled
<1>8. RecordInv
    BY <1>3, CountAssumption DEF Init, RecordInv, Handled, Due
<1> QED
    BY <1>4, <1>5, <1>6, <1>7, <1>8 DEF Inv

------------------------------------------------------------------------------
\* The steps of main before it serves.

serveVars == <<constVars, hold, left, backlog, clientVars, wrote, rst>>

\* As long as main does not serve, what is said of connections stays true.
LEMMA StartUpServes ==
    ASSUME Inv, UNCHANGED serveVars, pc[0] \notin Serving \cup {"exit"},
           NEW l \in Places \ {"fork", "child", "both", "none"}, pc' = [pc EXCEPT ![0] = l]
    PROVE  /\ pc' \in [Procs -> Places] /\ pc'[0] = l
           /\ HoldInv' /\ QueueInv' /\ RecordInv'
<1>0. 0 \in Procs /\ 0 \notin Conns /\ Conns \subseteq Procs
    BY CountAssumption DEF Procs, Conns
<1>1. pc' \in [Procs -> Places] /\ pc'[0] = l /\ \A c \in Conns : pc'[c] = pc[c]
    BY <1>0 DEF Inv, ServiceTypeOK
<1>2. UNCHANGED <<program, hold, left, backlog, cli, got, wrote, rst>>
    BY DEF serveVars, constVars, clientVars
<1>3. HoldInv'
    BY <1>1, <1>2 DEF Inv, HoldInv, Places
<1>4. QueueInv'
    BY <1>1, <1>2 DEF Inv, QueueInv, Fresh, Handled, Queued, Serving
<1>5. RecordInv'
    BY <1>1, <1>2 DEF Inv, RecordInv, Handled, Due, Serving
<1> QED
    BY <1>1, <1>3, <1>4, <1>5

\* daemon_init: the forks, setsid and chdir.
LEMMA DaemonStep ==
    ASSUME Inv, daemon_init, UNCHANGED serveVars
    PROVE  Inv'
<1>0. UNCHANGED <<program, inherited, addrs, paddrinfo, failed, re, srvfd, hold, left, backlog, cli, got, wrote, rst>>
    BY DEF daemon_init, serveVars, constVars, clientVars
<1>1. program = "daytimetcpsrv2" /\ pc[0] \notin Serving \cup {"exit"} /\ why = "none"
    BY DEF daemon_init, Inv, ServiceTypeOK, AddressInv, Serving
<1>2. PICK l \in Places \ {"fork", "child", "both", "none"} : pc' = [pc EXCEPT ![0] = l]
    BY DEF daemon_init, fork_and_reserve_child_process, SetSid, ChDir, Exit, Goto, Places
<1>3. /\ pc' \in [Procs -> Places] /\ pc'[0] = l
      /\ HoldInv' /\ QueueInv' /\ RecordInv'
    BY <1>1, <1>2, StartUpServes
<1>4. CASE pc[0] = "fork1" \/ pc[0] = "fork2"
    <2>1. /\ fds' = fds
          /\ \/ proc' = [proc EXCEPT !.pid = @ + 1] /\ why' = why
                /\ pc'[0] = IF pc[0] = "fork1" THEN "setsid" ELSE "chdir"
             \/ proc' = proc /\ why' = "fork" /\ pc'[0] = "exit"
        <3>1. 0 \in Procs /\ pc \in [Procs -> Places]
            BY CountAssumption DEF Inv, ServiceTypeOK, Procs
        <3>2. CASE pc[0] = "fork1"
            BY <3>1, <3>2 DEF daemon_init, fork_and_reserve_child_process, Forked, Exit, Goto
        <3>3. CASE pc[0] = "fork2"
            BY <3>1, <3>3 DEF daemon_init, fork_and_reserve_child_process, Forked, Exit, Goto
        <3> QED
            BY <1>4, <3>2, <3>3
    <2>2. ProcInv'
        BY <1>0, <1>1, <1>4, <2>1 DEF Inv, ProcInv
    <2>3. ServiceTypeOK' /\ FdInv' /\ AddressInv'
        BY <1>0, <1>1, <1>3, <1>4, <2>1 DEF Inv, ServiceTypeOK, FdInv, AddressInv, Serving, Base
    <2> QED
        BY <1>3, <2>2, <2>3 DEF Inv
<1>5. CASE pc[0] = "setsid"
    <2>1. proc.pid = 2 /\ proc.pgid # 2
        BY <1>1, <1>5 DEF Inv, ProcInv
    <2>2. /\ fds' = fds /\ why' = why /\ pc'[0] = "fork2"
          /\ proc' = [proc EXCEPT !.pgid = proc.pid, !.sid = proc.pid]
        BY <1>3, <1>5, <2>1, CountAssumption DEF daemon_init, SetSid, Goto, Inv, ServiceTypeOK, Procs
    <2>3. ProcInv'
        BY <1>0, <1>1, <1>5, <2>1, <2>2 DEF Inv, ProcInv
    <2>4. ServiceTypeOK' /\ FdInv' /\ AddressInv'
        BY <1>0, <1>1, <1>3, <1>5, <2>2 DEF Inv, ServiceTypeOK, FdInv, AddressInv, Serving, Base
    <2> QED
        BY <1>3, <2>3, <2>4 DEF Inv
<1>6. CASE pc[0] = "chdir"
    <2>1. /\ fds' = fds /\ proc' = proc
          /\ (why' = why /\ pc'[0] = "close") \/ (why' = "chdir" /\ pc'[0] = "exit")
        BY <1>3, <1>6, CountAssumption DEF daemon_init, ChDir, Exit, Goto, Inv, ServiceTypeOK, Procs
    <2>2. ProcInv'
        BY <1>0, <1>1, <1>6, <2>1 DEF Inv, ProcInv
    <2>3. ServiceTypeOK' /\ FdInv' /\ AddressInv'
        BY <1>0, <1>1, <1>3, <1>6, <2>1 DEF Inv, ServiceTypeOK, FdInv, AddressInv, Serving, Base
    <2> QED
        BY <1>3, <2>2, <2>3 DEF Inv
<1>7. CASE pc[0] = "close"
    <2>1. fds' = fds \ (3 .. MAXDESCRIPTOR - 1) /\ why' = why /\ proc' = proc /\ pc'[0] = "getaddrinfo"
        BY <1>3, <1>7, CountAssumption DEF daemon_init, Goto, Inv, ServiceTypeOK, Procs
    <2>2. ProcInv'
        BY <1>0, <1>1, <1>7, <2>1 DEF Inv, ProcInv
    <2>3. fds' = Base'
        <3>1. fds = Stdio \cup inherited /\ inherited \subseteq 3 .. MaxFd
            BY <1>1, <1>7 DEF Inv, ServiceTypeOK, FdInv
        <3>2. \A f \in inherited : f \notin 3 .. MAXDESCRIPTOR - 1 <=> f >= MAXDESCRIPTOR
            BY <3>1, FdAssumption
        <3>3. \A f \in Stdio : f \notin 3 .. MAXDESCRIPTOR - 1
            BY FdAssumption DEF Stdio
        <3> QED
            BY <1>0, <2>1, <3>1, <3>2, <3>3, Zenon DEF Base
    <2>4. ServiceTypeOK' /\ FdInv' /\ AddressInv'
        BY <1>0, <1>1, <1>3, <1>7, <2>1, <2>3 DEF Inv, ServiceTypeOK, FdInv, AddressInv, Serving
    <2> QED
        BY <1>3, <2>2, <2>4 DEF Inv
<1> QED
    BY <1>4, <1>5, <1>6, <1>7 DEF daemon_init

\* socket returns the lowest free descriptor: there is one if any is free.
LEMMA SmallestFree ==
    ASSUME NEW S \in SUBSET Nat, S # {}
    PROVE  \E f \in S : \A g \in S : f <= g
<1>1. PICK f \in S : \A g \in S : <<g, f>> \notin OpToRel(<, Nat)
    BY NatLessThanWellFounded, WFMin
<1>2. \A g \in S : ~(g < f)
    BY <1>1 DEF OpToRel
<1> QED
    BY <1>2

\* What daemon_init leaves open are descriptors.
LEMMA BaseFds ==
    ASSUME ServiceTypeOK
    PROVE  Base \subseteq 0 .. MaxFd
<1>1. Stdio \subseteq 0 .. MaxFd
    BY FdAssumption DEF Stdio
<1>2. \A f \in 3 .. MaxFd : f \in 0 .. MaxFd
    BY FdAssumption
<1>3. inherited \subseteq 3 .. MaxFd
    BY DEF ServiceTypeOK
<1> QED
    BY <1>1, <1>2, <1>3 DEF Base

\* One more address was given up and its socket, if there was one, is closed.
LEMMA GivenUp ==
    ASSUME Inv, NextAddress, UNCHANGED <<serveVars, proc, inherited, addrs>>,
           pc[0] \in {"socket", "setsockopt", "bind", "listen"},
           program = "daytimetcpsrv2", fds' = Base, srvfd' \in Int
    PROVE  Inv'
<1>0. 0 \in Procs /\ pc \in [Procs -> Places] /\ UNCHANGED <<program, inherited, addrs, hold, left, backlog, cli, got, wrote, rst>>
    BY CountAssumption DEF Inv, ServiceTypeOK, Procs, serveVars, constVars, clientVars
<1>1. /\ re' = -1 /\ paddrinfo' = paddrinfo + 1 /\ failed' = failed \cup {paddrinfo}
      /\ \/ paddrinfo < Len(addrs) /\ pc' = [pc EXCEPT ![0] = "socket"] /\ why' = why
         \/ ~(paddrinfo < Len(addrs)) /\ pc' = [pc EXCEPT ![0] = "exit"] /\ why' = "tcp_listen"
    BY DEF NextAddress, Exit, Goto
<1>2. PICK l \in {"socket", "exit"} : pc' = [pc EXCEPT ![0] = l]
    BY <1>1
<1>3. /\ pc' \in [Procs -> Places] /\ pc'[0] = l
      /\ HoldInv' /\ QueueInv' /\ RecordInv'
    BY <1>2, StartUpServes DEF Places, Serving
<1>4. paddrinfo \in 1 .. Len(addrs) /\ Len(addrs) \in Nat /\ why = "none" /\ failed = 1 .. paddrinfo - 1
    BY DEF Inv, AddressInv, ServiceTypeOK
<1>5. failed' = 1 .. paddrinfo' - 1
    BY <1>1, <1>4
<1>6. AddressInv'
    BY <1>0, <1>1, <1>3, <1>4, <1>5 DEF Inv, AddressInv
<1>7. Base' = Base /\ Base \subseteq 0 .. MaxFd
    BY <1>0, BaseFds DEF Inv, Base
<1>8. ServiceTypeOK' /\ FdInv'
    BY <1>0, <1>1, <1>3, <1>7 DEF Inv, ServiceTypeOK, FdInv, Serving
<1>9. ProcInv'
    BY <1>0, <1>1, <1>3 DEF Inv, ProcInv
<1> QED
    BY <1>3, <1>6, <1>8, <1>9 DEF Inv

\* tcp_listen: the name, and the calls for one address after another.
LEMMA ListenStep ==
    ASSUME Inv, tcp_listen, UNCHANGED serveVars
    PROVE  Inv'
<1>0. 0 \in Procs /\ pc \in [Procs -> Places] /\ UNCHANGED <<program, hold, left, backlog, cli, got, wrote, rst>>
    BY CountAssumption DEF Inv, ServiceTypeOK, Procs, serveVars, constVars, clientVars
<1>1. /\ pc[0] \in {"getaddrinfo", "socket", "setsockopt", "bind", "listen"}
      /\ program = "daytimetcpsrv2" /\ why = "none"
    BY DEF tcp_listen, getaddrinfo, Socket, Prepare, Inv, ServiceTypeOK, AddressInv, Serving
<1>2. Base \subseteq 0 .. MaxFd
    BY BaseFds DEF Inv
<1>3. CASE getaddrinfo
    <2>1. PICK l \in {"socket", "exit"} : pc' = [pc EXCEPT ![0] = l]
        BY <1>3 DEF getaddrinfo, Goto, Exit
    <2>2. /\ pc' \in [Procs -> Places] /\ pc'[0] = l
          /\ HoldInv' /\ QueueInv' /\ RecordInv'
        BY <1>1, <2>1, StartUpServes DEF Places, Serving
    <2>3. /\ UNCHANGED <<proc, inherited, fds, addrs, paddrinfo, failed, re, srvfd>>
          /\ (pc'[0] = "socket" /\ why' = why) \/ (pc'[0] = "exit" /\ why' = "getaddrinfo")
          /\ pc[0] = "getaddrinfo"
        BY <1>0, <1>3 DEF getaddrinfo, Goto, Exit, initVars
    <2>4. ServiceTypeOK' /\ ProcInv' /\ AddressInv'
        BY <1>0, <1>1, <2>2, <2>3 DEF Inv, ServiceTypeOK, ProcInv, AddressInv, Serving
    <2>5. FdInv'
        BY <1>0, <1>1, <2>2, <2>3 DEF Inv, FdInv, Base, Serving
    <2> QED
        BY <2>2, <2>4, <2>5 DEF Inv
<1>4. CASE Socket /\ NextAddress
    <2>1. pc[0] = "socket" /\ fds = Base
        BY <1>1, <1>4 DEF Socket, Inv, FdInv
    <2>2. CASE fds' = fds /\ srvfd' = srvfd
        BY <1>1, <1>4, <2>1, <2>2, GivenUp DEF Socket, Inv, AddressInv
    <2>3. CASE re' = Lowest(FreeFds) /\ FreeFds # {} /\ pc' = [pc EXCEPT ![0] = "setsockopt"]
        BY <1>0, <1>4, <2>3 DEF NextAddress, Exit, Goto
    <2> QED
        BY <1>4, <2>2, <2>3 DEF Socket, Goto
<1>5. CASE Socket /\ ~NextAddress
    <2>1. /\ FreeFds # {} /\ re' = Lowest(FreeFds) /\ srvfd' = re' /\ fds' = fds \cup {re'}
          /\ pc' = [pc EXCEPT ![0] = "setsockopt"] /\ pc[0] = "socket"
          /\ UNCHANGED <<why, paddrinfo, failed, proc, inherited, addrs>>
        BY <1>5 DEF Socket, Goto
    <2>2. fds = Base
        BY <1>1, <2>1 DEF Inv, FdInv
    <2>3. re' \in 0 .. MaxFd /\ re' \notin Base
        <3>1. FreeFds \subseteq Nat /\ FreeFds = (0 .. MaxFd) \ Base
            BY <2>2, FdAssumption DEF FreeFds
        <3>2. \E f \in FreeFds : \A g \in FreeFds : f <= g
            BY <2>1, <3>1, SmallestFree
        <3> QED
            BY <2>1, <3>1, <3>2 DEF Lowest
    <2>4. /\ pc' \in [Procs -> Places] /\ pc'[0] = "setsockopt"
          /\ HoldInv' /\ QueueInv' /\ RecordInv'
        BY <1>1, <2>1, StartUpServes DEF Places, Serving
    <2>5. ProcInv' /\ AddressInv'
        BY <1>0, <1>1, <2>1, <2>3, <2>4 DEF Inv, ProcInv, AddressInv
    <2>6. Base' = Base
        BY <2>1 DEF Base
    <2>7. ServiceTypeOK'
        <3>1. fds' \subseteq 0 .. MaxFd
            BY <1>2, <2>1, <2>2, <2>3
        <3> QED
            BY <1>0, <2>1, <2>4, <3>1 DEF Inv, ServiceTypeOK
    <2>8. FdInv'
        <3>1. srvfd' \notin Base' /\ srvfd' \in 0 .. MaxFd /\ fds' = Base' \cup {srvfd'} /\ re' >= 0
            BY <2>1, <2>2, <2>3, <2>6
        <3> QED
            BY <1>1, <2>1, <2>4, <3>1 DEF FdInv
    <2> QED
        BY <2>4, <2>5, <2>7, <2>8 DEF Inv
<1>6. ASSUME NEW call \in {"setsockopt", "bind", "listen"},
             NEW next \in {"bind", "listen", "accept"}, Prepare(call, next)
      PROVE  Inv'
    <2>1. /\ UNCHANGED <<proc, inherited, addrs, srvfd>>
          /\ pc[0] \in {"setsockopt", "bind", "listen"}
        BY <1>6 DEF Prepare
    <2>2. fds = Base \cup {srvfd} /\ srvfd \notin Base /\ srvfd \in 0 .. MaxFd
        BY <1>1, <2>1 DEF Inv, FdInv
    <2>3. CASE NextAddress /\ fds' = Closed(fds, srvfd)
        <3>1. fds' = Base
            BY <2>2, <2>3 DEF Closed
        <3> QED
            BY <1>1, <2>1, <2>2, <2>3, <3>1, GivenUp
    <2>4. CASE re' = 0 /\ Goto(0, next) /\ UNCHANGED <<why, fds, paddrinfo, failed>>
        <3>1. /\ pc' \in [Procs -> Places] /\ pc'[0] = next
              /\ HoldInv' /\ QueueInv' /\ RecordInv'
            BY <1>1, <2>4, StartUpServes DEF Places, Serving, Goto
        <3>2. Base' = Base
            BY <2>1 DEF Base
        <3>3. ProcInv' /\ AddressInv'
            BY <1>0, <1>1, <2>1, <2>4, <3>1 DEF Inv, ProcInv, AddressInv
        <3>4. ServiceTypeOK' /\ FdInv'
            BY <1>0, <1>1, <2>1, <2>2, <2>4, <3>1, <3>2 DEF Inv, ServiceTypeOK, FdInv, Serving
        <3> QED
            BY <3>1, <3>3, <3>4 DEF Inv
    <2> QED
        BY <1>6, <2>3, <2>4 DEF Prepare
<1> QED
    BY <1>3, <1>4, <1>5, <1>6 DEF tcp_listen

------------------------------------------------------------------------------
\* The steps of the servers.

\* Process 0 is the server, the others are named after connections.
LEMMA Numbers == 0 \in Procs /\ 0 \notin Conns /\ Conns \subseteq Procs /\ Procs = Conns \cup {0} /\ NULL = 0
BY CountAssumption DEF Procs, Conns, NULL

\* A server that serves leaves alone what the start-up has set up; only css can
\* be ended by a write.
LEMMA ServeKeeps ==
    ASSUME Inv, UNCHANGED <<initVars, program>>,
           \/ UNCHANGED <<pc[0], why>>
           \/ pc[0] \in Serving /\ pc'[0] \in Serving /\ why' = why
           \/ pc[0] \in Serving /\ pc'[0] = "exit" /\ why' = "write" /\ program = "css"
    PROVE  ProcInv' /\ FdInv' /\ AddressInv'
<1> USE DEF initVars
<1>1. ProcInv'
    BY DEF Inv, ProcInv, Serving
<1>2. Base' = Base
    BY DEF Base
<1>3. FdInv'
    BY <1>2 DEF Inv, FdInv, Serving
<1>4. AddressInv'
    BY DEF Inv, AddressInv, Serving
<1> QED
    BY <1>1, <1>3, <1>4

\* accept
LEMMA AcceptStep ==
    ASSUME Inv, NEW p \in Procs, Accept(p), UNCHANGED <<initVars, clientVars, constVars>>
    PROVE  Inv'
<1> DEFINE c == Head(backlog)
<1>0. UNCHANGED <<program, addrs, fds, inherited, cli, got, wrote, rst, why>>
    BY DEF Accept, initVars, clientVars, constVars
<1>1. p = 0 /\ pc[0] = "accept" /\ backlog # <<>>
    BY Numbers DEF Accept, Inv, HoldInv
<1>2. /\ c \in Conns /\ backlog' \in Seq(Conns) /\ IsInjective(backlog')
      /\ Queued(c) /\ ~Contains(backlog', c) /\ \A d : Contains(backlog', d) => Contains(backlog, d)
    BY <1>1, HeadTaken DEF Accept, Inv, ServiceTypeOK, QueueInv, Queued
<1> HIDE DEF c
<1>3. /\ hold' = [hold EXCEPT ![0] = c]
      /\ \/ program = "css" /\ pc' = [pc EXCEPT ![0] = "fork"] /\ left' = left
         \/ program = "daytimetcpsrv2" /\ pc' = [pc EXCEPT ![0] = "both"] /\ left' = [left EXCEPT ![0] = 1]
    BY <1>1 DEF Accept, Goto, c, Inv, ServiceTypeOK
<1>4. ServiceTypeOK'
    <2>1. pc \in [Procs -> Places] /\ hold \in [Procs -> Conns \cup {NULL}] /\ left \in [Procs -> Nat]
        BY DEF Inv, ServiceTypeOK
    <2>2. pc' \in [Procs -> Places]
        BY <1>3, <2>1 DEF Places
    <2>3. hold' \in [Procs -> Conns \cup {NULL}]
        BY <1>2, <1>3, <2>1
    <2>4. left' \in [Procs -> Nat]
        BY <1>3, <2>1
    <2> QED
        BY <1>0, <1>2, <2>2, <2>3, <2>4 DEF Inv, ServiceTypeOK
<1>5. /\ pc'[0] \in {"fork", "both"} /\ hold'[0] = c /\ (pc'[0] = "fork" <=> program = "css")
      /\ (program # "css" => left'[0] = 1)
      /\ \A d \in Conns : pc'[d] = pc[d] /\ hold'[d] = hold[d] /\ left'[d] = left[d]
    BY <1>3, Numbers DEF Inv, ServiceTypeOK
<1>6. ProcInv' /\ FdInv' /\ AddressInv'
    BY <1>0, <1>1, <1>5, ServeKeeps DEF Serving
<1>7. HoldInv'
    BY <1>0, <1>2, <1>5 DEF Inv, HoldInv
<1>8. wrote[c] = 0 /\ pc[c] = "none" /\ Fresh(c) /\ cli[c] \notin {"idle", "connect"}
    BY <1>2 DEF Inv, QueueInv, Fresh
<1>9. QueueInv'
    BY <1>0, <1>1, <1>2, <1>5, <1>8 DEF Inv, QueueInv, Fresh, Handled, Queued
<1>10. RecordInv'
    <2> SUFFICES ASSUME NEW d \in Conns
                 PROVE  /\ wrote[d] + Due(d)' <= ChildWrites + BothWrites
                        /\ program = "daytimetcpsrv2" /\ d = c => wrote[d] + left'[0] = 1
        BY <1>0, <1>1, <1>5 DEF Inv, RecordInv, Handled
    <2>1. CASE d = c
        BY <1>5, <1>8, <2>1, CountAssumption DEF Due
    <2>2. CASE d # c
        <3>1. Due(d)' = Due(d)
            BY <1>1, <1>5, <2>2 DEF Due
        <3> QED
            BY <3>1, <2>2 DEF Inv, RecordInv
    <2> QED
        BY <2>1, <2>2
<1> QED
    BY <1>4, <1>6, <1>7, <1>9, <1>10 DEF Inv

\* fork
LEMMA ForkStep ==
    ASSUME Inv, NEW p \in Procs, Fork(p), UNCHANGED <<initVars, clientVars, constVars>>
    PROVE  Inv'
<1> DEFINE c == hold[0]
<1>0. UNCHANGED <<program, addrs, fds, inherited, cli, got, wrote, rst, why, backlog>>
    BY DEF Fork, initVars, clientVars, constVars
<1>1. p = 0 /\ pc[0] = "fork" /\ c \in Conns /\ program = "css" /\ wrote[c] = 0 /\ pc[c] = "none"
    BY Numbers DEF Fork, Inv, HoldInv, QueueInv, Handled
<1> HIDE DEF c
<1>2. \/ /\ pc' = [pc EXCEPT ![0] = "both", ![c] = "child"]
         /\ left' = [left EXCEPT ![0] = BothWrites, ![c] = ChildWrites]
         /\ hold' = [hold EXCEPT ![c] = c]
      \/ /\ pc' = [pc EXCEPT ![0] = "both"]
         /\ left' = [left EXCEPT ![0] = BothWrites] /\ hold' = hold
    BY <1>1 DEF Fork, Goto, c
<1>3. ServiceTypeOK'
    <2>1. pc \in [Procs -> Places] /\ hold \in [Procs -> Conns \cup {NULL}] /\ left \in [Procs -> Nat]
        BY DEF Inv, ServiceTypeOK
    <2>2. pc' \in [Procs -> Places]
        BY <1>2, <2>1 DEF Places
    <2>3. hold' \in [Procs -> Conns \cup {NULL}]
        BY <1>1, <1>2, <2>1
    <2>4. left' \in [Procs -> Nat]
        BY <1>2, <2>1, CountAssumption
    <2> QED
        BY <1>0, <2>2, <2>3, <2>4 DEF Inv, ServiceTypeOK
<1>4. /\ pc'[0] = "both" /\ hold'[0] = c /\ left'[0] = BothWrites
      /\ \/ pc'[c] = "child" /\ hold'[c] = c /\ left'[c] = ChildWrites
         \/ pc'[c] = "none"
      /\ \A d \in Conns \ {c} : pc'[d] = pc[d] /\ hold'[d] = hold[d] /\ left'[d] = left[d]
    BY <1>1, <1>2, Numbers DEF Inv, ServiceTypeOK, c
<1>5. ProcInv' /\ FdInv' /\ AddressInv'
    BY <1>0, <1>1, <1>4, ServeKeeps DEF Serving
<1>6. HoldInv'
    BY <1>0, <1>1, <1>4 DEF Inv, HoldInv
<1>7. Handled(c) /\ \A d \in Conns : Handled(d)' <=> Handled(d)
    BY <1>1, <1>4 DEF Handled, c
<1>8. QueueInv'
    BY <1>0, <1>1, <1>4, <1>7 DEF Inv, QueueInv, Fresh, Queued
<1>9. RecordInv'
    <2> SUFFICES ASSUME NEW d \in Conns
                 PROVE  wrote[d] + Due(d)' <= ChildWrites + BothWrites
        BY <1>0, <1>1 DEF Inv, RecordInv
    <2>1. CASE d = c
        BY <1>1, <1>4, <2>1, CountAssumption DEF Due
    <2>2. CASE d # c
        <3>1. Due(d)' = Due(d)
            BY <1>1, <1>4, <2>2 DEF Due, c
        <3> QED
            BY <3>1, <2>2 DEF Inv, RecordInv
    <2> QED
        BY <2>1, <2>2
<1> QED
    BY <1>3, <1>5, <1>6, <1>8, <1>9 DEF Inv

\* A process that ends at a write leaves the others as they are.
LEMMA ExitStep ==
    ASSUME Inv, NEW p \in Procs, pc[p] \in {"child", "both"}, program = "css",
           Exit(p, "write"), UNCHANGED <<left, wrote, rst, hold, backlog, initVars, clientVars, constVars>>
    PROVE  Inv'
<1>0. UNCHANGED <<program, addrs, fds, inherited, cli, got>>
    BY DEF initVars, clientVars, constVars
<1>1. /\ pc' = [pc EXCEPT ![p] = "exit"] /\ why' = IF p = 0 THEN "write" ELSE why
      /\ pc \in [Procs -> Places]
    BY DEF Exit, Goto, Inv, ServiceTypeOK
<1>2. pc' \in [Procs -> Places] /\ pc'[p] = "exit" /\ \A q \in Procs \ {p} : pc'[q] = pc[q]
    BY <1>1 DEF Places
<1>3. ServiceTypeOK'
    BY <1>0, <1>2 DEF Inv, ServiceTypeOK
<1>4. ProcInv' /\ FdInv' /\ AddressInv'
    <2>1. CASE p = 0
        BY <1>0, <1>1, <1>2, <2>1, ServeKeeps DEF Serving, Inv, HoldInv
    <2>2. CASE p # 0
        BY <1>0, <1>1, <1>2, <2>2, Numbers, ServeKeeps
    <2> QED
        BY <2>1, <2>2
<1>5. HoldInv'
    BY <1>0, <1>2, Numbers DEF Inv, HoldInv
<1>6. \A c \in Conns : /\ Handled(c)' => Handled(c)
                       /\ pc'[0] = "fork" => pc[0] = "fork"
                       /\ pc'[c] = "none" <=> pc[c] = "none"
    BY <1>2, Numbers DEF Handled
<1>7. QueueInv'
    BY <1>0, <1>6 DEF Inv, QueueInv, Fresh, Queued
<1>8. \A c \in Conns : Due(c)' <= Due(c) /\ Due(c) \in Nat /\ Due(c)' \in Nat
    BY <1>2, Numbers DEF Due, Inv, ServiceTypeOK
<1>9. RecordInv'
    BY <1>0, <1>6, <1>8, CountAssumption DEF Inv, RecordInv, ServiceTypeOK
<1> QED
    BY <1>3, <1>4, <1>5, <1>7, <1>9 DEF Inv

\* A record is written to connection c.
LEMMA WrittenStep ==
    ASSUME Inv, NEW p \in Procs, NEW c \in Conns, hold[p] = c, left[p] > 0,
           (p = 0 /\ pc[p] = "both") \/ (p = c /\ pc[p] = "child"),
           wrote' = [wrote EXCEPT ![c] = @ + 1], rst' = [rst EXCEPT ![c] = (cli[c] = "gone")],
           left' = [left EXCEPT ![p] = @ - 1],
           UNCHANGED <<pc, why, hold, backlog, initVars, clientVars, constVars>>
    PROVE  Inv'
<1>0. UNCHANGED <<program, addrs, fds, inherited, cli, got>>
    BY DEF initVars, clientVars, constVars
<1>1. /\ wrote' \in [Conns -> Nat] /\ wrote'[c] = wrote[c] + 1
      /\ \A d \in Conns \ {c} : wrote'[d] = wrote[d]
    BY DEF Inv, ServiceTypeOK
<1>2. rst' \in [Conns -> BOOLEAN] /\ \A d \in Conns \ {c} : rst'[d] = rst[d]
    BY DEF Inv, ServiceTypeOK
<1>3. /\ left' \in [Procs -> Nat] /\ left'[p] = left[p] - 1
      /\ \A q \in Procs \ {p} : left'[q] = left[q]
    BY DEF Inv, ServiceTypeOK
<1>4. ServiceTypeOK'
    BY <1>0, <1>1, <1>2, <1>3 DEF Inv, ServiceTypeOK
<1>5. ProcInv' /\ FdInv' /\ AddressInv'
    BY <1>0, ServeKeeps
<1>6. HoldInv'
    BY <1>0, <1>3, Numbers DEF Inv, HoldInv
<1>7. ~Fresh(c) /\ ~(Handled(c) /\ pc[0] = "fork")
    BY Numbers DEF Inv, QueueInv, Handled
<1>8. QueueInv'
    BY <1>0, <1>1, <1>7 DEF Inv, QueueInv, Fresh, Handled, Queued
<1>9. RecordInv'
    <2> SUFFICES ASSUME NEW d \in Conns
                 PROVE  /\ got[d] <= wrote'[d]
                        /\ rst'[d] => wrote'[d] > 0
                        /\ wrote'[d] + Due(d)' <= ChildWrites + BothWrites
                        /\ program = "daytimetcpsrv2" /\ Handled(d) => wrote'[d] + left'[0] = 1
        BY <1>0 DEF RecordInv, Handled
    <2>1. got[d] \in Nat /\ wrote[d] \in Nat /\ left[0] \in Nat /\ left[d] \in Nat /\ left[p] \in Nat
        BY Numbers DEF Inv, ServiceTypeOK
    <2>2. /\ got[d] <= wrote[d] /\ (rst[d] => wrote[d] > 0)
          /\ wrote[d] + Due(d) <= ChildWrites + BothWrites
          /\ program = "daytimetcpsrv2" /\ Handled(d) => wrote[d] + left[0] = 1
        BY DEF Inv, RecordInv
    <2>3. CASE d = c
        <3>1. CASE p = 0
            BY <1>1, <1>3, <2>1, <2>2, <2>3, <3>1, Numbers, CountAssumption DEF Due, Handled
        <3>2. CASE p # 0
            <4>1. program = "css"
                BY <3>2, Numbers DEF Inv, HoldInv
            <4> QED
                BY <1>1, <1>3, <2>1, <2>2, <2>3, <3>2, <4>1, Numbers, CountAssumption DEF Due
        <3> QED
            BY <3>1, <3>2
    <2>4. CASE d # c
        <3>1. Due(d)' = Due(d)
            BY <1>3, <2>4, Numbers DEF Due
        <3>2. program = "daytimetcpsrv2" /\ Handled(d) => left'[0] = left[0]
            BY <1>3, <2>4, Numbers DEF Handled
        <3> QED
            BY <1>1, <1>2, <2>2, <2>4, <3>1, <3>2
    <2> QED
        BY <2>3, <2>4
<1> QED
    BY <1>4, <1>5, <1>6, <1>8, <1>9 DEF Inv

\* write
LEMMA WriteStep ==
    ASSUME Inv, NEW p \in Procs, Write(p), UNCHANGED <<initVars, clientVars, constVars>>
    PROVE  Inv'
<1>1. pc[p] \in {"child", "both"} /\ left[p] > 0 /\ hold[p] \in Conns \cup {NULL}
    BY DEF Write, Inv, ServiceTypeOK
<1>2. CASE WriteFails(p)
    <2>1. program = "css"
        <3>1. CASE p = 0
            <4>1. hold[0] \in Conns /\ pc[0] = "both" /\ Handled(hold[0])
                BY <1>1, <3>1 DEF Inv, HoldInv, Handled
            <4>2. rst[hold[0]] /\ wrote[hold[0]] > 0
                BY <1>2, <3>1, <4>1, Numbers DEF WriteFails, Inv, RecordInv
            <4>3. left[0] > 0 /\ left[0] \in Nat /\ wrote[hold[0]] \in Nat
                BY <1>1, <3>1, <4>1, Numbers DEF Inv, ServiceTypeOK
            <4>4. wrote[hold[0]] + left[0] # 1
                BY <4>2, <4>3
            <4> QED
                BY <4>1, <4>4 DEF Inv, ServiceTypeOK, RecordInv
        <3>2. CASE p # 0
            BY <1>1, <3>2, Numbers DEF Inv, HoldInv
        <3> QED
            BY <3>1, <3>2
    <2> QED
        BY <1>1, <1>2, <2>1, ExitStep DEF Write
<1>3. CASE ~WriteFails(p)
    <2>1. hold[p] \in Conns
        BY <1>1, <1>3 DEF WriteFails
    <2>2. (p = 0 /\ pc[p] = "both") \/ (p = hold[p] /\ pc[p] = "child")
        BY <1>1, <2>1, Numbers DEF Inv, HoldInv
    <2> QED
        BY <1>1, <1>3, <2>1, <2>2, WrittenStep DEF Write
<1> QED
    BY <1>2, <1>3

\* close
LEMMA CloseStep ==
    ASSUME Inv, NEW p \in Procs, Close(p), UNCHANGED <<initVars, clientVars, constVars>>
    PROVE  Inv'
<1>0. UNCHANGED <<program, addrs, fds, inherited, cli, got, wrote, rst, backlog, why>>
    BY DEF Close, initVars, clientVars, constVars
<1>1. /\ pc \in [Procs -> Places] /\ hold \in [Procs -> Conns \cup {NULL}] /\ left \in [Procs -> Nat]
      /\ pc[p] \in {"child", "both"} /\ left[p] = 0
    BY DEF Close, Inv, ServiceTypeOK
<1>2. hold' = [hold EXCEPT ![p] = NULL]
    BY DEF Close, AfterClose
<1>3. CASE p # 0
    <2>1. p \in Conns /\ pc[p] = "child"
        BY <1>1, <1>3, Numbers DEF Inv, HoldInv
    <2>2. pc' = [pc EXCEPT ![p] = "both"] /\ left' = [left EXCEPT ![p] = BothWrites]
        BY <2>1 DEF Close, Goto
    <2>3. /\ pc' \in [Procs -> Places] /\ hold' \in [Procs -> Conns \cup {NULL}] /\ left' \in [Procs -> Nat]
          /\ pc'[p] = "both" /\ hold'[p] = NULL /\ left'[p] > 0
          /\ \A q \in Procs \ {p} : pc'[q] = pc[q] /\ hold'[q] = hold[q] /\ left'[q] = left[q]
        BY <1>1, <1>2, <2>2, CountAssumption DEF Places
    <2>4. ServiceTypeOK'
        BY <1>0, <2>3 DEF Inv, ServiceTypeOK
    <2>5. ProcInv' /\ FdInv' /\ AddressInv'
        BY <1>0, <1>3, <2>3, Numbers, ServeKeeps
    <2>6. HoldInv'
        BY <1>0, <1>3, <2>1, <2>3, Numbers DEF Inv, HoldInv
    <2>7. \A c \in Conns : (Handled(c)' <=> Handled(c)) /\ (pc'[c] = "none" <=> pc[c] = "none")
        BY <1>3, <2>1, <2>3, Numbers DEF Handled
    <2>8. QueueInv'
        BY <1>0, <1>3, <2>3, <2>7, Numbers DEF Inv, QueueInv, Fresh, Queued
    <2>9. \A c \in Conns : Due(c)' = Due(c)
        BY <1>1, <1>3, <2>1, <2>3, Numbers DEF Due
    <2>10. RecordInv'
        BY <1>0, <1>3, <2>3, <2>7, <2>9, Numbers DEF Inv, RecordInv
    <2> QED
        BY <2>4, <2>5, <2>6, <2>8, <2>10 DEF Inv
<1>4. CASE p = 0
    <2>1. pc[0] = "both"
        BY <1>1, <1>4 DEF Inv, HoldInv
    <2>2. pc' = [pc EXCEPT ![0] = "accept"] /\ left' = left
        BY <1>4, <2>1 DEF Close, Goto
    <2>3. /\ pc' \in [Procs -> Places] /\ hold' \in [Procs -> Conns \cup {NULL}]
          /\ pc'[0] = "accept"
          /\ \A q \in Procs \ {0} : pc'[q] = pc[q] /\ hold'[q] = hold[q]
        BY <1>1, <1>2, <1>4, <2>2 DEF Places
    <2>4. ServiceTypeOK'
        BY <1>0, <2>2, <2>3 DEF Inv, ServiceTypeOK
    <2>5. ProcInv' /\ FdInv' /\ AddressInv'
        BY <1>0, <2>1, <2>3, ServeKeeps DEF Serving
    <2>6. HoldInv'
        BY <1>0, <2>2, <2>3, Numbers DEF Inv, HoldInv
    <2>7. QueueInv'
        BY <1>0, <2>3, Numbers DEF Inv, QueueInv, Fresh, Queued, Handled
    <2>8. \A c \in Conns : Due(c)' = Due(c)
        BY <1>1, <1>4, <2>1, <2>2, <2>3, Numbers DEF Due
    <2>9. RecordInv'
        BY <1>0, <2>3, <2>8 DEF Inv, RecordInv, Handled
    <2> QED
        BY <2>4, <2>5, <2>6, <2>7, <2>9 DEF Inv
<1> QED
    BY <1>3, <1>4

\* A queue that got one more is not the same queue.
LEMMA AppendGrows == ASSUME NEW S, NEW q \in Seq(S), NEW c \in S PROVE Append(q, c) # q
BY AppendProperties, LenProperties

------------------------------------------------------------------------------
\* The steps of the clients and their users.
LEMMA ClientsStep ==
    ASSUME Inv, NEW c \in Conns, ClientStep(c) \/ UserStep(c)
    PROVE  Inv'
<1>0. /\ UNCHANGED <<program, pc, why, initVars, hold, left, wrote>>
      /\ UNCHANGED <<addrs, fds, inherited>>
    BY DEF ClientStep, UserStep, constVars, initVars
<1>1. ProcInv' /\ FdInv' /\ AddressInv'
    BY <1>0, ServeKeeps
<1>2. HoldInv'
    BY <1>0 DEF Inv, HoldInv
<1>3. Start(c) \/ Connect(c) \/ Read(c) \/ ReadEnd(c) \/ ReadFail(c) \/ Interrupt(c)
    BY DEF ClientStep, UserStep
<1>4. cli \in [Conns -> {"idle", "connect", "read", "done", "spin", "exit", "gone"}]
    BY DEF Inv, ServiceTypeOK
<1>5. CASE Connect(c) /\ backlog' = Append(backlog, c)
    <2>1. cli[c] = "connect" /\ cli' = [cli EXCEPT ![c] = "read"] /\ UNCHANGED <<got, rst>>
        BY <1>5, AppendGrows DEF Connect, Inv, ServiceTypeOK
    <2>2. /\ backlog' \in Seq(Conns) /\ IsInjective(backlog')
          /\ \A d : Contains(backlog', d) => Contains(backlog, d) \/ d = c
        BY <1>5, <2>1, Added DEF Inv, ServiceTypeOK, QueueInv, Queued
    <2>3. ServiceTypeOK'
        BY <1>0, <1>4, <2>1, <2>2 DEF Inv, ServiceTypeOK
    <2>4. QueueInv'
        BY <1>0, <1>4, <2>1, <2>2 DEF Inv, QueueInv, Fresh, Queued, Handled
    <2>5. RecordInv'
        BY <1>0, <2>1 DEF Inv, RecordInv, Handled, Due
    <2> QED
        BY <1>1, <1>2, <2>3, <2>4, <2>5 DEF Inv
<1>6. CASE UNCHANGED backlog
    <2>1. PICK l \in {"connect", "read", "done", "spin", "exit", "gone"} :
             /\ cli' = [cli EXCEPT ![c] = l]
             /\ l = "connect" => cli[c] \in {"idle", "connect"}
        <3>1. CASE Read(c)
            BY <1>4, <3>1 DEF Read
        <3>2. CASE Start(c)
            BY <3>2 DEF Start
        <3>3. CASE Connect(c)
            BY <1>4, <1>6, <3>3, AppendGrows DEF Connect, Inv, ServiceTypeOK
        <3>4. CASE ReadEnd(c) \/ ReadFail(c) \/ Interrupt(c)
            BY <3>4 DEF ReadEnd, ReadFail, Interrupt
        <3> QED
            BY <1>3, <3>1, <3>2, <3>3, <3>4
    <2>2. \A d \in Conns : cli'[d] \in {"idle", "connect"} => cli[d] \in {"idle", "connect"}
        BY <1>4, <2>1
    <2>3. /\ got' \in [Conns -> Nat] /\ rst' \in [Conns -> BOOLEAN]
          /\ \A d \in Conns : got'[d] <= wrote[d] /\ (rst'[d] => wrote[d] > 0)
        <3>1. wrote \in [Conns -> Nat] /\ got \in [Conns -> Nat] /\ rst \in [Conns -> BOOLEAN]
              /\ \A d \in Conns : got[d] <= wrote[d] /\ (rst[d] => wrote[d] > 0)
            BY DEF Inv, ServiceTypeOK, RecordInv
        <3>2. CASE Read(c)
            BY <3>1, <3>2 DEF Read
        <3>3. CASE Interrupt(c)
            BY <3>1, <3>3 DEF Interrupt
        <3>4. CASE Start(c) \/ Connect(c) \/ ReadEnd(c) \/ ReadFail(c)
            BY <3>1, <3>4 DEF Start, Connect, ReadEnd, ReadFail
        <3> QED
            BY <1>3, <3>2, <3>3, <3>4
    <2>4. ServiceTypeOK'
        BY <1>0, <1>4, <1>6, <2>1, <2>3 DEF Inv, ServiceTypeOK
    <2>5. QueueInv'
        BY <1>0, <1>6, <2>2 DEF Inv, QueueInv, Fresh, Queued, Handled
    <2>6. RecordInv'
        BY <1>0, <2>3 DEF Inv, RecordInv, Handled, Due
    <2> QED
        BY <1>1, <1>2, <2>4, <2>5, <2>6 DEF Inv
<1> QED
    BY <1>3, <1>5, <1>6 DEF Start, Connect, Read, ReadEnd, ReadFail, Interrupt

------------------------------------------------------------------------------
\* No step of start-up, servers, clients or users breaks the invariant.
LEMMA InvNext == Inv /\ [Next]_vars => Inv'
<1> SUFFICES ASSUME Inv, [Next]_vars PROVE Inv'
    OBVIOUS
<1>1. CASE StartUp
    BY <1>1, DaemonStep, ListenStep DEF StartUp, serveVars
<1>2. ASSUME NEW p \in Procs, ServerStep(p) PROVE Inv'
    BY <1>2, AcceptStep, ForkStep, WriteStep, CloseStep DEF ServerStep, Serve
<1>3. ASSUME NEW c \in Conns, ClientStep(c) \/ UserStep(c) PROVE Inv'
    BY <1>3, ClientsStep
<1>4. CASE UNCHANGED vars
    <2>1. UNCHANGED <<program, pc, why, proc, inherited, fds, addrs, paddrinfo, failed, re, srvfd,
                      hold, left, backlog, cli, wrote, got, rst>>
        BY <1>4 DEF vars, constVars, initVars, clientVars
    <2>2. ServiceTypeOK' /\ ProcInv' /\ AddressInv' /\ HoldInv'
        BY <2>1 DEF Inv, ServiceTypeOK, ProcInv, AddressInv, HoldInv
    <2>3. FdInv'
        BY <2>1 DEF Inv, FdInv, Base
    <2>4. QueueInv' /\ RecordInv'
        BY <2>1 DEF Inv, QueueInv, RecordInv, Handled, Fresh, Queued, Due
    <2> QED
        BY <2>2, <2>3, <2>4 DEF Inv
<1> QED
    BY <1>1, <1>2, <1>3, <1>4 DEF Next

\* The inductive invariant of the services holds in every state.
THEOREM InvCorrect == Spec => []Inv
BY InvInit, InvNext, PTL DEF Spec

\* daytimetcpsrv2 comes out of daemon_init and tcp_listen as a daemon that
\* listens on the first address that works and leaks no descriptor, however many
\* descriptors it inherits and wherever MAXDESCRIPTOR is.
THEOREM DaemonReadyCorrect == Spec => []DaemonReady
<1>1. Inv => DaemonReady
    <2> SUFFICES ASSUME Inv, program = "daytimetcpsrv2" PROVE DaemonReady
        BY DEF DaemonReady
    <2>1. Ready(0) =>
              /\ proc.sid \notin {0, proc.pid} /\ srvfd \in fds /\ re >= 0
              /\ failed = 1 .. paddrinfo - 1 /\ paddrinfo <= Len(addrs)
              /\ fds = Stdio \cup {srvfd} \cup {f \in inherited : f >= MAXDESCRIPTOR}
        <3> SUFFICES ASSUME Ready(0) PROVE
              /\ proc.sid \notin {0, proc.pid} /\ srvfd \in fds /\ re >= 0
              /\ failed = 1 .. paddrinfo - 1 /\ paddrinfo <= Len(addrs)
              /\ fds = Stdio \cup {srvfd} \cup {f \in inherited : f >= MAXDESCRIPTOR}
            OBVIOUS
        <3>1. pc[0] \in Serving
            BY DEF Ready, Serving, Inv, HoldInv
        <3>2. proc.sid \notin {0, proc.pid}
            BY <3>1 DEF Inv, ProcInv, Serving
        <3>3. fds = Base \cup {srvfd} /\ re >= 0
            BY <3>1 DEF Inv, FdInv
        <3>4. failed = 1 .. paddrinfo - 1 /\ paddrinfo <= Len(addrs)
            BY <3>1 DEF Inv, AddressInv, Serving
        <3> QED
            BY <3>2, <3>3, <3>4 DEF Base
    <2>2. why = "tcp_listen" =>
              /\ failed = 1 .. Len(addrs) /\ re < 0
              /\ fds = Stdio \cup {f \in inherited : f >= MAXDESCRIPTOR}
        BY DEF Inv, ServiceTypeOK, AddressInv, FdInv, Base
    <2>3. why \notin {"setsid", "write"}
        BY DEF Inv, AddressInv
    <2> QED
        BY <2>1, <2>2, <2>3 DEF DaemonReady
<1> QED
    BY <1>1, InvCorrect, PTL

\* With any number of clients and records only the server itself accepts, and
\* no connection gets more than the records of server and child.
THEOREM OneAcceptorCorrect == Spec => []OneAcceptor
<1>1. Inv => OneAcceptor
    <2> SUFFICES ASSUME Inv PROVE OneAcceptor
        OBVIOUS
    <2>1. TypeOK
        BY DEF TypeOK, Inv, ServiceTypeOK, AddressInv, QueueInv, RecordInv, Places
    <2>2. \A p \in Procs \ {0} : pc[p] \notin {"accept", "fork"}
        BY Numbers DEF Inv, HoldInv
    <2>3. ASSUME NEW c \in Conns PROVE wrote[c] <= ChildWrites + BothWrites
        <3>1. Due(c) \in Nat /\ wrote[c] \in Nat /\ wrote[c] + Due(c) <= ChildWrites + BothWrites
            BY Numbers DEF Due, Inv, ServiceTypeOK, RecordInv
        <3> QED
            BY <3>1, CountAssumption
    <2> QED
        BY <2>1, <2>2, <2>3 DEF OneAcceptor
<1> QED
    BY <1>1, InvCorrect, PTL

------------------------------------------------------------------------------
\* The account of every connection is exact, by the steps that can change it.

\* A step that is about other connections.
LEMMA ExactKept ==
    ASSUME NEW c \in Conns, ExactOne(c), UNCHANGED <<program, cli[c], got[c], wrote[c], rst[c]>>,
           Queued(c)' <=> Queued(c), Handled(c)' <=> Handled(c), Due(c)' = Due(c),
           Handled(c) => (pc'[0] = "fork" <=> pc[0] = "fork"),
           pc'[c] = "none" <=> pc[c] = "none", pc'[c] = "child" => pc[c] = "child"
    PROVE  ExactOne(c)'
<1>1. Complete(c)' = Complete(c)
    BY DEF Complete
<1> QED
    BY <1>1 DEF ExactOne, Abandoned

\* Start-up writes to nobody.
LEMMA ExactStartUp ==
    ASSUME Inv, ExactInv, StartUp, NEW c \in Conns
    PROVE  ExactOne(c)'
<1>1. UNCHANGED <<program, cli, got, wrote, rst, hold, left, backlog>>
    BY DEF StartUp, constVars, clientVars
<1>2. pc[0] \notin {"fork", "both"}
    BY DEF StartUp, daemon_init, tcp_listen, getaddrinfo, Socket, Prepare
<1>3. PICK l \in Places \ {"fork", "child", "both", "none"} : pc' = [pc EXCEPT ![0] = l]
    BY DEF StartUp, daemon_init, fork_and_reserve_child_process, SetSid, ChDir, tcp_listen, getaddrinfo,
           Socket, Prepare, NextAddress, Exit, Goto, Places
<1>4. pc'[0] \notin {"fork", "both"} /\ pc'[c] = pc[c]
    BY <1>3, Numbers DEF Inv, ServiceTypeOK
<1>5. Due(c)' = Due(c) /\ ~Handled(c) /\ ~Handled(c)' /\ (Queued(c)' <=> Queued(c))
    BY <1>1, <1>2, <1>4 DEF Due, Handled, Queued
<1> QED
    BY <1>1, <1>4, <1>5, ExactKept DEF ExactInv

\* accept makes the first connection's records due.
LEMMA ExactAccept ==
    ASSUME Inv, ExactInv, NEW p \in Procs, Accept(p), UNCHANGED <<initVars, clientVars, constVars>>,
           NEW c \in Conns
    PROVE  ExactOne(c)'
<1> DEFINE h == Head(backlog)
<1>0. UNCHANGED <<program, cli, got, wrote, rst>>
    BY DEF Accept, clientVars, constVars
<1>1. p = 0 /\ pc[0] = "accept" /\ backlog # <<>>
    BY Numbers DEF Accept, Inv, HoldInv
<1>2. h \in Conns /\ Queued(h) /\ ~Contains(backlog', h) /\ \A d : d # h => (Queued(d)' <=> Queued(d))
    <2>1. backlog \in Seq(Conns) /\ IsInjective(backlog) /\ backlog' = Tail(backlog)
        BY DEF Accept, Inv, ServiceTypeOK, QueueInv
    <2>2. /\ h \in Conns /\ Contains(backlog, h) /\ ~Contains(backlog', h)
          /\ \A d : Contains(backlog, d) <=> d = h \/ Contains(backlog', d)
        BY <1>1, <2>1, HeadTaken
    <2> HIDE DEF h
    <2> QED
        BY <2>2 DEF Queued
<1> HIDE DEF h
<1>3. /\ hold' = [hold EXCEPT ![0] = h]
      /\ \/ program = "css" /\ pc' = [pc EXCEPT ![0] = "fork"] /\ left' = left
         \/ program = "daytimetcpsrv2" /\ pc' = [pc EXCEPT ![0] = "both"] /\ left' = [left EXCEPT ![0] = 1]
    BY <1>1 DEF Accept, Goto, h, Inv, ServiceTypeOK
<1>4. /\ hold'[0] = h /\ pc'[c] = pc[c] /\ left'[c] = left[c]
      /\ (program = "css" /\ pc'[0] = "fork")
         \/ (program = "daytimetcpsrv2" /\ pc'[0] = "both" /\ left'[0] = 1)
    BY <1>3, Numbers DEF Inv, ServiceTypeOK
<1>5. CASE c # h
    <2>1. ~Handled(c) /\ ~Handled(c)' /\ Due(c)' = Due(c)
        BY <1>1, <1>4, <1>5 DEF Handled, Due
    <2> QED
        BY <1>0, <1>2, <1>4, <1>5, <2>1, ExactKept DEF ExactInv
<1>6. CASE c = h
    <2>1. wrote[c] = 0 /\ pc[c] = "none" /\ ExactOne(c)
        BY <1>2, <1>6 DEF Inv, QueueInv, Fresh, ExactInv
    <2>2. Handled(c)' /\ cli[c] \notin {"done", "spin"}
        BY <1>2, <1>4, <1>6, <2>1 DEF Handled, ExactOne, Abandoned
    <2>3. program = "daytimetcpsrv2" => Due(c)' = 1 /\ Complete(c)' = 1
        BY <1>0, <1>4, <1>6, <2>1 DEF Due, Complete
    <2> QED
        BY <1>0, <1>4, <2>1, <2>2, <2>3 DEF ExactOne
<1> QED
    BY <1>5, <1>6

\* fork makes the child's records due, if it succeeds.
LEMMA ExactFork ==
    ASSUME Inv, ExactInv, NEW p \in Procs, Fork(p), UNCHANGED <<initVars, clientVars, constVars>>,
           NEW c \in Conns
    PROVE  ExactOne(c)'
<1> DEFINE h == hold[0]
<1>0. UNCHANGED <<program, cli, got, wrote, rst, backlog>>
    BY DEF Fork, clientVars, constVars
<1>1. p = 0 /\ pc[0] = "fork" /\ h \in Conns /\ program = "css" /\ wrote[h] = 0 /\ pc[h] = "none" /\ Handled(h)
    BY Numbers DEF Fork, Inv, HoldInv, QueueInv, Handled
<1> HIDE DEF h
<1>2. \/ /\ pc' = [pc EXCEPT ![0] = "both", ![h] = "child"]
         /\ left' = [left EXCEPT ![0] = BothWrites, ![h] = ChildWrites]
         /\ hold' = [hold EXCEPT ![h] = h]
      \/ /\ pc' = [pc EXCEPT ![0] = "both"]
         /\ left' = [left EXCEPT ![0] = BothWrites] /\ hold' = hold
    BY <1>1 DEF Fork, Goto, h
<1>3. /\ pc'[0] = "both" /\ hold'[0] = h /\ left'[0] = BothWrites
      /\ \/ pc'[h] = "child" /\ left'[h] = ChildWrites
         \/ pc'[h] = "none"
      /\ c # h => pc'[c] = pc[c] /\ left'[c] = left[c]
    BY <1>1, <1>2, Numbers DEF Inv, ServiceTypeOK, h
<1>4. Queued(c)' <=> Queued(c)
    BY <1>0 DEF Queued
<1>5. CASE c # h
    <2>1. ~Handled(c) /\ ~Handled(c)' /\ Due(c)' = Due(c)
        BY <1>1, <1>3, <1>5 DEF Handled, Due, h
    <2> QED
        BY <1>0, <1>3, <1>4, <1>5, <2>1, ExactKept DEF ExactInv
<1>6. CASE c = h
    <2>1. cli[c] \notin {"done", "spin"} /\ (rst[c] => cli[c] = "gone")
        BY <1>1, <1>6 DEF ExactInv, ExactOne, Abandoned
    <2>2. wrote[c] + Due(c)' = Complete(c)'
        BY <1>0, <1>1, <1>3, <1>6, CountAssumption DEF Due, Complete
    <2> QED
        BY <1>0, <2>1, <2>2 DEF ExactOne
<1> QED
    BY <1>5, <1>6

\* write counts down what is due, or ends the process of a client that is gone.
LEMMA ExactWrite ==
    ASSUME Inv, ExactInv, NEW p \in Procs, Write(p), UNCHANGED <<initVars, clientVars, constVars>>,
           NEW c \in Conns
    PROVE  ExactOne(c)'
<1>0. UNCHANGED <<program, cli, got, hold, backlog>>
    BY DEF Write, clientVars, constVars
<1>1. /\ pc[p] \in {"child", "both"} /\ left[p] > 0 /\ left[p] \in Nat
      /\ hold[p] \in Conns \cup {NULL} /\ wrote[c] \in Nat
      /\ p # 0 => p \in Conns
    BY Numbers DEF Write, Inv, ServiceTypeOK
<1>2. Queued(c)' <=> Queued(c)
    BY <1>0 DEF Queued
<1>3. CASE WriteFails(p)
    <2>1. UNCHANGED <<left, wrote, rst>> /\ pc' = [pc EXCEPT ![p] = "exit"]
        BY <1>3 DEF Write, Exit, Goto
    <2>2. pc'[p] = "exit" /\ \A q \in Procs \ {p} : pc'[q] = pc[q]
        BY <2>1 DEF Inv, ServiceTypeOK
    <2>3. CASE hold[p] = c
        <3>1. rst[c] /\ cli[c] = "gone"
            BY <1>3, <2>3, Numbers DEF WriteFails, ExactInv, ExactOne
        <3> QED
            BY <1>0, <2>1, <3>1 DEF ExactOne
    <2>4. CASE hold[p] # c
        <3>1. pc'[0] = pc[0] \/ (~Handled(c) /\ ~Handled(c)')
            BY <1>0, <1>1, <2>2, <2>4, Numbers DEF Handled
        <3>2. pc'[c] = pc[c] \/ (pc[c] = "both" /\ pc'[c] = "exit")
            BY <1>1, <2>2, <2>4, Numbers DEF Inv, HoldInv
        <3>3. Due(c)' = Due(c) /\ (Handled(c)' <=> Handled(c))
            BY <1>0, <2>1, <2>2, <3>1, <3>2 DEF Due, Handled
        <3> QED
            BY <1>0, <1>2, <2>1, <3>1, <3>2, <3>3, ExactKept DEF ExactInv
    <2> QED
        BY <2>3, <2>4
<1>4. CASE ~WriteFails(p)
    <2>1. /\ hold[p] \in Conns /\ pc' = pc /\ wrote' = [wrote EXCEPT ![hold[p]] = @ + 1]
          /\ rst' = [rst EXCEPT ![hold[p]] = (cli[hold[p]] = "gone")]
          /\ left' = [left EXCEPT ![p] = @ - 1]
        BY <1>1, <1>4 DEF Write, WriteFails
    <2>2. left'[p] = left[p] - 1 /\ \A q \in Procs \ {p} : left'[q] = left[q]
        BY <2>1 DEF Inv, ServiceTypeOK
    <2>3. (p = 0 /\ pc[0] = "both") \/ (p = hold[p] /\ pc[p] = "child")
        BY <1>1, <2>1, Numbers DEF Inv, HoldInv
    <2>4. CASE hold[p] # c
        <3>1. wrote'[c] = wrote[c] /\ rst'[c] = rst[c]
            BY <2>1, <2>4 DEF Inv, ServiceTypeOK
        <3>2. Due(c)' = Due(c) /\ (Handled(c)' <=> Handled(c))
            BY <1>0, <2>1, <2>2, <2>3, <2>4, Numbers DEF Due, Handled
        <3> QED
            BY <1>0, <1>2, <2>1, <3>1, <3>2, ExactKept DEF ExactInv
    <2>5. CASE hold[p] = c
        <3>1. wrote'[c] = wrote[c] + 1 /\ rst'[c] = (cli[c] = "gone")
            BY <2>1, <2>5 DEF Inv, ServiceTypeOK
        <3>2. left[0] \in Nat /\ left[c] \in Nat
            BY Numbers DEF Inv, ServiceTypeOK
        <3>3. wrote'[c] + Due(c)' = wrote[c] + Due(c)
            BY <1>0, <1>1, <2>1, <2>2, <2>3, <2>5, <3>1, <3>2, Numbers DEF Due
        <3>4. cli[c] \notin {"done", "spin"} /\ (Handled(c)' <=> Handled(c)) /\ Complete(c)' = Complete(c)
            BY <1>0, <2>1, <2>3, <2>5 DEF ExactInv, ExactOne, Abandoned, Handled, Complete
        <3> QED
            BY <1>0, <1>2, <2>1, <3>1, <3>3, <3>4 DEF ExactInv, ExactOne
    <2> QED
        BY <2>4, <2>5
<1> QED
    BY <1>3, <1>4

\* close comes when nothing is due any more.
LEMMA ExactClose ==
    ASSUME Inv, ExactInv, NEW p \in Procs, Close(p), UNCHANGED <<initVars, clientVars, constVars>>,
           NEW c \in Conns
    PROVE  ExactOne(c)'
<1>0. UNCHANGED <<program, cli, got, wrote, rst, backlog>> /\ left[p] = 0 /\ pc[p] \in {"child", "both"}
    BY DEF Close, clientVars, constVars
<1>1. Queued(c)' <=> Queued(c)
    BY <1>0 DEF Queued
<1>2. hold'[p] = NULL /\ \A q \in Procs \ {p} : hold'[q] = hold[q]
    BY DEF Close, AfterClose, Inv, ServiceTypeOK
<1>3. CASE p # 0
    <2>1. p \in Conns /\ pc[p] = "child"
        BY <1>0, <1>3, Numbers DEF Inv, HoldInv
    <2>2. /\ pc'[p] = "both" /\ \A q \in Procs \ {p} : pc'[q] = pc[q] /\ left'[q] = left[q]
        BY <2>1 DEF Close, Goto, Inv, ServiceTypeOK
    <2>3. Due(c)' = Due(c) /\ (Handled(c)' <=> Handled(c)) /\ pc'[0] = pc[0]
        BY <1>0, <1>2, <1>3, <2>1, <2>2, Numbers DEF Due, Handled
    <2>4. (pc'[c] = "none" <=> pc[c] = "none") /\ (pc'[c] = "child" => pc[c] = "child")
        BY <2>1, <2>2, Numbers
    <2> QED
        BY <1>0, <1>1, <2>3, <2>4, ExactKept DEF ExactInv
<1>4. CASE p = 0
    <2>1. pc[0] = "both" /\ pc'[0] = "accept" /\ left' = left /\ \A q \in Procs \ {0} : pc'[q] = pc[q]
        BY <1>0, <1>4 DEF Close, Goto, Inv, ServiceTypeOK, HoldInv
    <2>2. Due(c)' = Due(c) /\ ~Handled(c)' /\ pc'[c] = pc[c] /\ pc[0] # "fork"
        BY <1>0, <1>4, <2>1, Numbers DEF Due, Handled
    <2>3. Complete(c)' = Complete(c)
        BY <1>0, <2>2 DEF Complete
    <2> QED
        BY <1>0, <1>1, <2>2, <2>3 DEF ExactInv, ExactOne, Abandoned
<1> QED
    BY <1>3, <1>4

\* A client is at the end only when nobody holds its connection.
LEMMA ExactClients ==
    ASSUME Inv, ExactInv, NEW k \in Conns, ClientStep(k) \/ UserStep(k), NEW c \in Conns
    PROVE  ExactOne(c)'
<1>0. UNCHANGED <<program, pc, hold, left, wrote>>
    BY DEF ClientStep, UserStep, constVars
<1>1. Start(k) \/ Connect(k) \/ Read(k) \/ ReadEnd(k) \/ ReadFail(k) \/ Interrupt(k)
    BY DEF ClientStep, UserStep
<1>2. /\ Due(c)' = Due(c) /\ (Handled(c)' <=> Handled(c)) /\ Complete(c)' = Complete(c)
    BY <1>0 DEF Due, Handled, Complete
<1>3. /\ cli \in [Conns -> {"idle", "connect", "read", "done", "spin", "exit", "gone"}]
      /\ got \in [Conns -> Nat] /\ rst \in [Conns -> BOOLEAN] /\ ExactOne(c)
    BY DEF Inv, ServiceTypeOK, ExactInv
<1>4. CASE c # k
    <2>1. cli'[c] = cli[c] /\ got'[c] = got[c] /\ rst'[c] = rst[c]
        BY <1>1, <1>3, <1>4 DEF Start, Connect, Read, ReadEnd, ReadFail, Interrupt
    <2>2. Queued(c)' <=> Queued(c)
        <3>1. CASE backlog' = backlog
            BY <3>1 DEF Queued
        <3>2. CASE backlog' = Append(backlog, k) /\ cli[k] = "connect"
            BY <1>4, <3>2, Added DEF Queued, Inv, ServiceTypeOK, QueueInv
        <3> QED
            BY <1>1, <3>1, <3>2 DEF Start, Connect, Read, ReadEnd, ReadFail, Interrupt
    <2> QED
        BY <1>0, <1>2, <1>3, <2>1, <2>2, ExactKept
<1>5. CASE c = k
    <2>1. CASE Start(k) \/ ReadFail(k)
        BY <1>3, <1>5, <2>1 DEF Start, ReadFail, ExactOne
    <2>2. CASE Connect(k)
        <3>1. CASE backlog' = Append(backlog, k) /\ cli' = [cli EXCEPT ![k] = "read"]
            <4>1. Queued(c)'
                BY <1>5, <2>2, <3>1, Added DEF Connect, Queued, Inv, ServiceTypeOK, QueueInv
            <4> QED
                BY <1>3, <1>5, <2>2, <3>1, <4>1 DEF Connect, ExactOne
        <3>2. CASE cli'[k] \in {"connect", "exit"}
            BY <1>3, <1>5, <2>2, <3>2 DEF Connect, ExactOne
        <3> QED
            BY <1>3, <2>2, <3>1, <3>2 DEF Connect
    <2>3. CASE Read(k)
        BY <1>0, <1>2, <1>3, <1>5, <2>3 DEF Read, ExactOne, Queued
    <2>4. CASE Interrupt(k)
        BY <1>3, <1>5, <2>4 DEF Interrupt, ExactOne
    <2>5. CASE ReadEnd(k)
        <3>1. cli'[c] \in {"done", "spin"} /\ cli[c] = "read" /\ UNCHANGED <<got, rst, backlog>> /\ wrote[c] = got[c]
            BY <1>3, <1>5, <2>5 DEF ReadEnd
        <3>2. Abandoned(c)
            <4>1. ~Queued(c) /\ ~Holds(0, c) /\ ~Holds(c, c)
                BY <1>5, <2>5, Numbers DEF ReadEnd
            <4> QED
                BY <4>1 DEF Abandoned, Holds, Ready, Handled, Inv, HoldInv
        <3>3. Abandoned(c)' /\ (Queued(c)' <=> Queued(c))
            BY <1>0, <1>2, <3>1, <3>2 DEF Abandoned, Queued
        <3> QED
            BY <1>0, <1>2, <1>3, <3>1, <3>2, <3>3 DEF ExactOne, Abandoned
    <2> QED
        BY <1>1, <2>1, <2>2, <2>3, <2>4, <2>5
<1> QED
    BY <1>4, <1>5

\* A client that comes to the end of its connection has read everything, with any
\* number of clients and of records: the two processes that write to it may close
\* in either order, and only a client that went away stops either of them.
THEOREM EofCompleteCorrect == Spec => []EofComplete
<1>1. Init => ExactInv
    BY Numbers DEF Init, ExactInv, ExactOne
<1>2. Inv /\ ExactInv /\ [Next]_vars => ExactInv'
    <2> SUFFICES ASSUME Inv, ExactInv, [Next]_vars, NEW c \in Conns PROVE ExactOne(c)'
        BY DEF ExactInv
    <2>1. CASE StartUp
        BY <2>1, ExactStartUp
    <2>2. ASSUME NEW p \in Procs, ServerStep(p) PROVE ExactOne(c)'
        BY <2>2, ExactAccept, ExactFork, ExactWrite, ExactClose DEF ServerStep, Serve
    <2>3. ASSUME NEW k \in Conns, ClientStep(k) \/ UserStep(k) PROVE ExactOne(c)'
        BY <2>3, ExactClients
    <2>4. CASE UNCHANGED vars
        <3>1. UNCHANGED <<program, pc, hold, left, backlog, cli, wrote, got, rst>>
            BY <2>4 DEF vars, constVars, clientVars
        <3> QED
            BY <3>1 DEF ExactInv, ExactOne, Abandoned, Handled, Queued, Due, Complete
    <2> QED
        BY <2>1, <2>2, <2>3, <2>4 DEF Next
<1>3. Inv /\ ExactInv => EofComplete
    <2> SUFFICES ASSUME Inv, ExactInv, NEW c \in Conns, cli[c] \in {"done", "spin"}
                 PROVE  got[c] = Complete(c)
        BY DEF EofComplete
    <2>1. Abandoned(c) /\ got[c] = wrote[c] /\ wrote[c] + Due(c) = Complete(c) /\ wrote[c] \in Nat
        BY DEF ExactInv, ExactOne, Abandoned, Inv, ServiceTypeOK
    <2>2. Due(c) = 0
        BY <2>1 DEF Due, Abandoned, Handled
    <2> QED
        BY <2>1, <2>2
<1> QED
    BY <1>1, <1>2, <1>3, InvCorrect, PTL DEF Spec
==============================================================================
