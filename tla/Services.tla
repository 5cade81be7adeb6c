------------------------------ MODULE Services -------------------------------
(***************************************************************************)
(* The servers that write to whoever connects, with their clients:         *)
(*   daytimetcpsrv2   with daytimetcpcli1; it becomes a daemon first       *)
(*                    (daemon_init) and listens with tcp_listen            *)
(*   css              with csc; every connection gets records of the       *)
(*                    server and of a child                                *)
(* program is the server that runs.  Process 0 is the server, process c    *)
(* the child css forks for connection c; after fork both run the same      *)
(* code.  pc[p] is where process p stands:                                 *)
(*   fork1, setsid, fork2, chdir, close   in daemon_init                   *)
(*   getaddrinfo, socket, setsockopt, bind, listen   in tcp_listen         *)
(*   accept, fork, child, both      main's loop: child is the code for the *)
(*                                  child alone, both what follows for     *)
(*                                  either process (the one write of       *)
(*                                  daytimetcpsrv2)                        *)
(*   none, exit                     not yet forked, ended                  *)
(***************************************************************************)
EXTENDS Integers, Sequences, FiniteSets, SequencesExt

CONSTANTS
    ConnNum,        \* bound: clients
    DayConns,       \* bound: clients of daytimetcpsrv2
    ChildWrites,    \* records the child writes (20 in css)
    BothWrites,     \* records written after the fork (10 in css)
    MAXDESCRIPTOR,  \* daemon_init closes the descriptors below it (64)
    MaxFd           \* bound: the highest descriptor in use

ASSUME CountAssumption ==
    /\ ConnNum \in Nat /\ DayConns \in Nat
    /\ ChildWrites \in Nat /\ BothWrites \in Nat \ {0}
ASSUME FdAssumption == MAXDESCRIPTOR \in 4 .. MaxFd /\ MaxFd \in Nat

Conns == 1 .. ConnNum
Procs == 0 .. ConnNum
NULL  == 0          \* of no connection

VARIABLES
    program, pc, why,         \* why: the call for which the server exited
    proc,                     \* ids of the server's process, group and session
    inherited, fds,           \* descriptors at the start, open descriptors
    addrs, paddrinfo, failed, \* tcp_listen: addresses, the current one, those given up
    re, srvfd,
    hold, left,               \* per process: connection open as clifd, records to write
    backlog,
    names, cli, paddr,        \* clients' list of addresses; per client: place, address tried
    wrote, got, rst           \* per connection: records written, read, reset by the client

initVars   == <<proc, inherited, fds, addrs, paddrinfo, failed, re, srvfd>>
clientVars == <<cli, paddr, got>>
constVars  == <<program, names>>
vars == <<constVars, pc, why, initVars, hold, left, backlog, clientVars, wrote, rst>>

Stdio == 0 .. 2

\* css has one address, which its bind may fail for.
Init ==
    /\ program \in {"daytimetcpsrv2", "css"}
    /\ \/ program = "daytimetcpsrv2" /\ why = "none"
          /\ pc = [p \in Procs |-> IF p = 0 THEN "fork1" ELSE "none"]
          /\ addrs \in {<<"ip6", "ip4">>, <<"ip4", "ip6">>, <<"ip4">>}
          /\ names \in {<<"ip4">>, <<"other", "ip4">>, <<"other">>}
          /\ inherited \in SUBSET (3 .. MaxFd)
       \/ program = "css" /\ why \in {"none", "bind"}
          /\ pc = [p \in Procs |-> IF p > 0 THEN "none" ELSE IF why = "bind" THEN "exit" ELSE "accept"]
          /\ addrs = <<"ip4">> /\ names = addrs /\ inherited = {}
    /\ proc \in [pid : {1}, pgid : IF program = "css" THEN {1} ELSE {0, 1}, sid : {0}]
    /\ fds = Stdio \cup inherited
    /\ paddrinfo = 1 /\ failed = {} /\ re = 0 /\ srvfd = -1
    /\ hold = [p \in Procs |-> NULL] /\ left = [p \in Procs |-> 0]
    /\ backlog = <<>> /\ cli = [c \in Conns |-> "idle"] /\ paddr = [c \in Conns |-> 1]
    /\ wrote = [c \in Conns |-> 0] /\ got = [c \in Conns |-> 0] /\ rst = [c \in Conns |-> FALSE]

Goto(p, l) == pc' = [pc EXCEPT ![p] = l]

\* printf_and_exit and print_error
Exit(p, call) ==
    /\ Goto(p, "exit")
    /\ why' = IF p = 0 THEN call ELSE why

------------------------------------------------------------------------------
\* daemon_init

\* The process that goes on after fork_and_reserve_child_process.
Forked(q) == [q EXCEPT !.pid = @ + 1]

fork_and_reserve_child_process(next) ==
    \/ proc' = Forked(proc) /\ Goto(0, next) /\ UNCHANGED why
    \/ Exit(0, "fork") /\ UNCHANGED proc

\* setsid fails for the leader of a process group.
SetSid ==
    IF proc.pgid = proc.pid
    THEN Exit(0, "setsid") /\ UNCHANGED proc
    ELSE /\ proc' = [proc EXCEPT !.pgid = proc.pid, !.sid = proc.pid]
         /\ Goto(0, "fork2") /\ UNCHANGED why

ChDir == (Goto(0, "close") /\ UNCHANGED why) \/ Exit(0, "chdir")

daemon_init ==
    /\ \/ pc[0] = "fork1" /\ fork_and_reserve_child_process("setsid") /\ UNCHANGED fds
       \/ pc[0] = "setsid" /\ SetSid /\ UNCHANGED fds
       \/ pc[0] = "fork2" /\ fork_and_reserve_child_process("chdir") /\ UNCHANGED fds
       \/ pc[0] = "chdir" /\ ChDir /\ UNCHANGED <<proc, fds>>
       \/ /\ pc[0] = "close"
          /\ fds' = fds \ (3 .. MAXDESCRIPTOR - 1)
          /\ Goto(0, "getaddrinfo") /\ UNCHANGED <<why, proc>>
    /\ UNCHANGED <<inherited, addrs, paddrinfo, failed, re, srvfd>>

------------------------------------------------------------------------------
\* tcp_listen

getaddrinfo ==
    /\ pc[0] = "getaddrinfo"
    /\ \/ Goto(0, "socket") /\ UNCHANGED why
       \/ Exit(0, "getaddrinfo")
    /\ UNCHANGED initVars

FreeFds == (0 .. MaxFd) \ fds
Lowest(S) == CHOOSE f \in S : \A g \in S : f <= g

\* Mutant: a socket that cannot be used stays open.
Closed_Not(S, f) == S

Closed(S, f) == S \ {f}

\* A call failed: the next address, or return re to main, which exits.
NextAddress ==
    /\ re' = -1
    /\ failed' = failed \cup {paddrinfo} /\ paddrinfo' = paddrinfo + 1
    /\ IF paddrinfo < Len(addrs) THEN Goto(0, "socket") /\ UNCHANGED why
       ELSE Exit(0, "tcp_listen")

Socket ==
    /\ pc[0] = "socket"
    /\ \/ /\ FreeFds # {}
          /\ re' = Lowest(FreeFds) /\ srvfd' = re' /\ fds' = fds \cup {re'}
          /\ Goto(0, "setsockopt") /\ UNCHANGED <<why, paddrinfo, failed>>
       \/ NextAddress /\ UNCHANGED <<fds, srvfd>>
    /\ UNCHANGED <<proc, inherited, addrs>>

\* setsockopt, bind and listen are called and checked alike.
Prepare(call, next) ==
    /\ pc[0] = call
    /\ \/ re' = 0 /\ Goto(0, next) /\ UNCHANGED <<why, fds, paddrinfo, failed>>
       \/ NextAddress /\ fds' = Closed(fds, srvfd)
    /\ UNCHANGED <<proc, inherited, addrs, srvfd>>

tcp_listen ==
    getaddrinfo \/ Socket \/ Prepare("setsockopt", "bind") \/ Prepare("bind", "listen")
    \/ Prepare("listen", "accept")

------------------------------------------------------------------------------
\* The loops of the servers.  Every process of css has the listening socket.

Ready(p)   == pc[p] \in {"accept", "fork", "child", "both"}
Listening(a) == \E p \in Procs : Ready(p) /\ addrs[paddrinfo] = a
Holds(p, c) == Ready(p) /\ hold[p] = c

Accept(p) ==
    /\ pc[p] = "accept" /\ backlog # <<>>
    /\ hold' = [hold EXCEPT ![p] = Head(backlog)] /\ backlog' = Tail(backlog)
    /\ IF program = "css" THEN Goto(p, "fork") /\ UNCHANGED left
       ELSE Goto(p, "both") /\ left' = [left EXCEPT ![p] = 1]
    /\ UNCHANGED <<why, wrote, rst>>

\* fork may fail, which css does not test for.
Fork(p) ==
    /\ pc[p] = "fork"
    /\ LET c == hold[p] IN
       \/ /\ pc' = [pc EXCEPT ![p] = "both", ![c] = "child"]
          /\ left' = [left EXCEPT ![p] = BothWrites, ![c] = ChildWrites]
          /\ hold' = [hold EXCEPT ![c] = c]
       \/ /\ Goto(p, "both")
          /\ left' = [left EXCEPT ![p] = BothWrites] /\ UNCHANGED hold
    /\ UNCHANGED <<why, backlog, wrote, rst>>

\* write on a descriptor that is closed, or on a connection that was reset,
\* fails or kills.
WriteFails(p) == hold[p] = NULL \/ rst[hold[p]]

\* A client that is gone answers the first write with a reset.
Write(p) ==
    /\ pc[p] \in {"child", "both"} /\ left[p] > 0
    /\ IF WriteFails(p)
       THEN Exit(p, "write") /\ UNCHANGED <<left, wrote, rst>>
       ELSE /\ wrote' = [wrote EXCEPT ![hold[p]] = @ + 1]
            /\ rst' = [rst EXCEPT ![hold[p]] = cli[hold[p]] = "gone"]
            /\ left' = [left EXCEPT ![p] = @ - 1]
            /\ UNCHANGED <<pc, why>>
    /\ UNCHANGED <<hold, backlog>>

\* Mutant: the child does not close its descriptor.
AfterClose_Child(p) == IF pc[p] = "child" THEN hold ELSE [hold EXCEPT ![p] = NULL]

\* Mutant: the descriptor is not closed.
AfterClose_Never(p) == hold

\* Mutant: the connection is shut down, for every process that has it open.
AfterClose_Shutdown(p) == [q \in Procs |-> IF hold[q] = hold[p] THEN NULL ELSE hold[q]]

AfterClose(p) == [hold EXCEPT ![p] = NULL]

\* The child of css goes on to what its parent does.
Close(p) ==
    /\ pc[p] \in {"child", "both"} /\ left[p] = 0
    /\ hold' = AfterClose(p)
    /\ IF pc[p] = "child"
       THEN Goto(p, "both") /\ left' = [left EXCEPT ![p] = BothWrites]
       ELSE Goto(p, "accept") /\ UNCHANGED left
    /\ UNCHANGED <<why, backlog, wrote, rst>>

Serve(p) ==
    /\ Accept(p) \/ Fork(p) \/ Write(p) \/ Close(p)
    /\ UNCHANGED <<initVars, clientVars>>

------------------------------------------------------------------------------
\* The clients

\* Names are resolved, the socket is made.  Clients are numbered as they start.
Start(c) ==
    /\ program = "css" \/ c <= DayConns
    /\ cli[c] = "idle" /\ \A b \in 1 .. c - 1 : cli[b] # "idle"
    /\ \E l \in IF program = "css" THEN {"connect"} ELSE {"connect", "exit"} :
          cli' = [cli EXCEPT ![c] = l]
    /\ UNCHANGED <<backlog, paddr, got, rst>>

Connect(c) ==
    /\ cli[c] = "connect"
    /\ IF Listening(names[paddr[c]])
       THEN /\ cli' = [cli EXCEPT ![c] = "read"] /\ backlog' = Append(backlog, c)
            /\ UNCHANGED paddr
       ELSE /\ paddr' = [paddr EXCEPT ![c] = @ + 1]
            /\ cli' = IF paddr[c] < Len(names) THEN cli ELSE [cli EXCEPT ![c] = "exit"]
            /\ UNCHANGED backlog
    /\ UNCHANGED <<got, rst>>

Queued(c) == Contains(backlog, c)
Read(c) ==
    /\ cli[c] = "read" /\ wrote[c] > got[c]
    /\ got' = [got EXCEPT ![c] = @ + 1]
    /\ UNCHANGED <<cli, backlog, paddr, rst>>

\* daytimetcpcli1 returns, csc reads again, and for ever.
ReadEnd(c) ==
    /\ cli[c] = "read" /\ wrote[c] = got[c]
    /\ ~Queued(c) /\ \A p \in Procs : ~Holds(p, c)
    /\ cli' = [cli EXCEPT ![c] = IF program = "css" THEN "spin" ELSE "done"]
    /\ UNCHANGED <<backlog, paddr, got, rst>>

\* The connection was never accepted and nobody is left who could.
ReadFail(c) ==
    /\ cli[c] = "read" /\ Queued(c) /\ \A p \in Procs : ~Ready(p)
    /\ cli' = [cli EXCEPT ![c] = "exit"]
    /\ UNCHANGED <<backlog, paddr, got, rst>>

\* The user ends the client before it has come to the end; what it has not read
\* resets the connection.
Interrupt(c) ==
    /\ cli[c] = "read"
    /\ cli' = [cli EXCEPT ![c] = "gone"]
    /\ rst' = [rst EXCEPT ![c] = got[c] < wrote[c]]
    /\ UNCHANGED <<backlog, paddr, got>>

ClientStep(c) ==
    /\ Connect(c) \/ Read(c) \/ ReadEnd(c) \/ ReadFail(c)
    /\ UNCHANGED <<constVars, pc, why, initVars, hold, left, wrote>>
UserStep(c) ==
    /\ Start(c) \/ Interrupt(c)
    /\ UNCHANGED <<constVars, pc, why, initVars, hold, left, wrote>>

StartUp == (daemon_init \/ tcp_listen) /\ UNCHANGED <<constVars, hold, left, backlog, clientVars, wrote, rst>>
ServerStep(p) == Serve(p) /\ UNCHANGED constVars

Next ==
    \/ StartUp
    \/ \E p \in Procs : ServerStep(p)
    \/ \E c \in Conns : ClientStep(c) \/ UserStep(c)

Spec == Init /\ [][Next]_vars

\* Every process runs when its call can return; nothing is asked of the users.
FairSpec ==
    /\ Spec
    /\ WF_vars(StartUp)
    /\ \A p \in Procs : WF_vars(ServerStep(p))
    /\ \A c \in Conns : WF_vars(ClientStep(c))

------------------------------------------------------------------------------
TypeOK ==
    /\ pc \in [Procs -> {"fork1", "setsid", "fork2", "chdir", "close", "getaddrinfo",
                         "socket", "setsockopt", "bind", "listen",
                         "accept", "fork", "child", "both", "none", "exit"}]
    /\ fds \subseteq 0 .. MaxFd /\ paddrinfo \in 1 .. Len(addrs) + 1
    /\ hold \in [Procs -> Conns \cup {NULL}]
    /\ cli \in [Conns -> {"idle", "connect", "read", "done", "spin", "exit", "gone"}]
    /\ \A c \in Conns : got[c] <= wrote[c]
    /\ IsInjective(backlog)

\* When daytimetcpsrv2 serves, it runs in a session of its own that it does not
\* lead, so that it can get no controlling terminal back; it listens on the first
\* address for which no call failed, and of all descriptors only that socket,
\* those of stdio and inherited ones from MAXDESCRIPTOR on are open.  It gives up
\* only after a call failed for every address, and leaves no socket then; setsid
\* never fails, and no client ends it: one that goes away has been sent nothing
\* or one write, which does not fail yet.
DaemonReady ==
    program = "daytimetcpsrv2" =>
        /\ Ready(0) =>
              /\ proc.sid \notin {0, proc.pid}
              /\ srvfd \in fds /\ re >= 0
              /\ failed = 1 .. paddrinfo - 1 /\ paddrinfo <= Len(addrs)
              /\ fds = Stdio \cup {srvfd} \cup {f \in inherited : f >= MAXDESCRIPTOR}
        /\ why = "tcp_listen" =>
              /\ failed = 1 .. Len(addrs) /\ re < 0
              /\ fds = Stdio \cup {f \in inherited : f >= MAXDESCRIPTOR}
        /\ why \notin {"setsid", "write"}

\* A child of css never gets to accept, although it leaves the code for the
\* child and goes on in main's loop: its write to the descriptor it has closed
\* ends it.  So no two processes take connections from the backlog, and none
\* gets the records of a third process.
OneAcceptor ==
    /\ TypeOK
    /\ \A p \in Procs \ {0} : pc[p] \notin {"accept", "fork"}
    /\ \A c \in Conns : wrote[c] <= ChildWrites + BothWrites

\* A client that comes to the end of its connection has read all there is for
\* it: the time, or the records of server and child, interleaved in any way and
\* whichever of the two closes first.
Complete(c) ==
    IF program # "css" THEN 1
    ELSE BothWrites + IF pc[c] = "none" THEN 0 ELSE ChildWrites
EofComplete == \A c \in Conns : cli[c] \in {"done", "spin"} => got[c] = Complete(c)

\* No client that is connected waits for ever: it comes to the end, or its
\* connection is reset, even if css is ended by the write to another client
\* while a child still keeps the listening socket open.
Served == \A c \in Conns : cli[c] = "read" ~> cli[c] # "read"
==============================================================================
