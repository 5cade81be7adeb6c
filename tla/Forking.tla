------------------------------- MODULE Forking -------------------------------
(***************************************************************************)
(* The programs that fork and reap their children from a SIGCHLD handler:  *)
(*   css_echo            TCP echo server; every connection is served by    *)
(*                       the child of a child                              *)
(*   sigaction_waitpidS  TCP echo server; every connection is served by a  *)
(*                       child                                             *)
(*   fork_and_waitpid    test_fork_and_waitpid.cpp: children that exit at  *)
(*                       once, waited for in the handler and in main       *)
(* program is the one that runs.  Its main process is 0.  Process c > 0 is *)
(* the child forked for connection c (or in round c of the loop), -c the   *)
(* child of that child.  at[p] is where process p stands:                  *)
(*   none     not forked            son      before the second fork        *)
(*   read     at read in its loop   write    at write                      *)
(*   leaving  at its exit           zombie   exited and not waited for     *)
(*   gone     waited for by its parent or by init                          *)
(* mpc is where main stands: accept, blocked (in accept), eintr (accept is *)
(* about to return EINTR), failed (accept returned -1), fork, close,       *)
(* sleep, waitall, nap, check, return, exit.  The handler runs on top of   *)
(* main, which goes on when it has returned.                               *)
(***************************************************************************)
EXTENDS Integers, Sequences, FiniteSets

CONSTANTS
    ConnNum,    \* bound: connections made, or children forked (4 in the code)
    MaxFds,     \* descriptors main may hold besides its listener
    MaxSend     \* bound: messages a client sends

ASSUME ConnNumAssumption == ConnNum \in Nat
ASSUME MaxFdsAssumption  == MaxFds \in Nat \ {0}
ASSUME MaxSendAssumption == MaxSend \in Nat

VARIABLES
    program,
    mpc, cur,         \* main: place, connection or round in hand
    errno, addrlen,   \* main: errno, and the local given to accept
    handler,          \* whether the SIGCHLD handler is in its loop
    pending,          \* whether SIGCHLD is pending for main
    at, held,         \* the processes, and the connections each has open
    backlog, client,  \* connections not accepted yet; the clients
    sent, echoed      \* messages sent by, and written back to, a client

clientVars == <<backlog, client, sent, echoed>>
mainVars   == <<mpc, cur, errno, addrlen>>
vars == <<program, mpc, cur, errno, addrlen, handler, pending, at, held,
          backlog, client, sent, echoed>>

Conns    == 1 .. ConnNum
Procs    == -ConnNum .. ConnNum
Children == Procs \ {0}
Servers  == {"css_echo", "sigaction_waitpidS"}

\* addrlen is uninitialised in css_echo; accept refuses a negative length.
Init ==
    /\ program \in Servers \cup {"fork_and_waitpid"}
    /\ mpc = IF program \in Servers THEN "accept" ELSE "fork"
    /\ cur = 1 /\ errno = "0"
    /\ addrlen \in IF program = "css_echo" THEN {-1, 16} ELSE {16}
    /\ handler = FALSE /\ pending = FALSE
    /\ at = [p \in Children |-> "none"]
    /\ held = [p \in Procs |-> {}]
    /\ backlog = <<>> /\ client = [c \in Conns |-> "none"]
    /\ sent = [c \in Conns |-> 0] /\ echoed = [c \in Conns |-> 0]

------------------------------------------------------------------------------
\* Processes and signals, as the kernel keeps them

Alive   == mpc \notin {"return", "exit"}
Zombies == {c \in Conns : at[c] = "zombie"}
Running == {c \in Conns : at[c] \notin {"none", "zombie", "gone"}}

\* Mutant: WNOHANG is missing.
waitpid_Blocking == IF Zombies = {} /\ Running = {} THEN {-1} ELSE Zombies

\* What waitpid(-1, &status, WNOHANG) of main may return.
waitpid ==
    IF Zombies # {} THEN Zombies ELSE IF Running # {} THEN {0} ELSE {-1}

\* A child that was waited for is gone; without children errno is set.
Waited(pid) ==
    /\ at' = IF pid > 0 THEN [at EXCEPT ![pid] = "gone"] ELSE at
    /\ errno' = IF pid < 0 THEN "ECHILD" ELSE errno

\* Process p ends: its descriptors are closed, its parent gets SIGCHLD, or
\* init waits for it when the parent has gone.  init takes over its own child.
ChildExit(p) ==
    LET orphan == IF p > 0 THEN ~Alive ELSE at[-p] \in {"zombie", "gone"} IN
    /\ at' = [q \in Children |->
                IF q = p THEN IF orphan THEN "gone" ELSE "zombie"
                ELSE IF q = -p /\ q < 0 /\ at[q] = "zombie" THEN "gone"
                ELSE at[q]]
    /\ held' = [held EXCEPT ![p] = {}]
    /\ pending' = (pending \/ (p > 0 /\ Alive))

\* Main ends: init waits for its zombies.
MainExit ==
    /\ mpc' = "exit"
    /\ at' = [p \in Children |-> IF at[p] = "zombie" THEN "gone" ELSE at[p]]
    /\ held' = [held EXCEPT ![0] = {}]

------------------------------------------------------------------------------
\* sigchld_func, func_waitpid and sigfunc.  The signal may arrive anywhere in
\* main; it stays blocked while the handler runs.  An accept that is blocked
\* returns EINTR in css_echo and is restarted in sigaction_waitpidS.
HandlerEnter ==
    /\ Alive /\ pending /\ ~handler
    /\ handler' = TRUE /\ pending' = FALSE
    /\ mpc' = IF mpc = "blocked" /\ program = "css_echo" THEN "eintr" ELSE mpc
    /\ UNCHANGED <<cur, errno, addrlen, at, held, clientVars>>

\* Mutant: one wait for each signal, as in func_wait.
Again_Once(pid) == FALSE

Again(pid) == pid > 0

\* A signal that arrived in the meantime is delivered when the handler returns,
\* before main goes on.
HandlerWait ==
    /\ Alive /\ handler
    /\ \E pid \in waitpid :
          /\ Waited(pid)
          /\ handler' = (Again(pid) \/ pending)
          /\ pending' = (Again(pid) /\ pending)
    /\ UNCHANGED <<mpc, cur, addrlen, held, clientVars>>

HandlerStep == (HandlerEnter \/ HandlerWait) /\ UNCHANGED program

------------------------------------------------------------------------------
\* main of the two servers

Block ==
    /\ mpc = "accept" /\ backlog = <<>> /\ Cardinality(held[0]) < MaxFds
    /\ mpc' = "blocked"
    /\ UNCHANGED <<cur, errno, addrlen, pending, at, held, clientVars>>

Accept ==
    /\ mpc \in {"accept", "blocked"} /\ backlog # <<>>
    /\ Cardinality(held[0]) < MaxFds /\ addrlen >= 0
    /\ cur' = Head(backlog) /\ backlog' = Tail(backlog)
    /\ held' = [held EXCEPT ![0] = @ \cup {Head(backlog)}]
    /\ mpc' = "fork" /\ addrlen' = 16
    /\ UNCHANGED <<errno, pending, at, client, sent, echoed>>

\* The connection is taken from the backlog, but its address does not fit: the
\* kernel drops it.
AcceptInvalid ==
    /\ mpc \in {"accept", "blocked"} /\ backlog # <<>>
    /\ Cardinality(held[0]) < MaxFds /\ addrlen < 0
    /\ backlog' = Tail(backlog)
    /\ client' = [client EXCEPT ![Head(backlog)] = "reset"]
    /\ mpc' = "failed" /\ errno' = "EINVAL"
    /\ UNCHANGED <<cur, addrlen, pending, at, held, sent, echoed>>

\* No descriptor is left.
AcceptFull ==
    /\ mpc = "accept" /\ Cardinality(held[0]) >= MaxFds
    /\ mpc' = "failed" /\ errno' = "EMFILE"
    /\ UNCHANGED <<cur, addrlen, pending, at, held, clientVars>>

AcceptInterrupted ==
    /\ mpc = "eintr"
    /\ mpc' = "failed" /\ errno' = "EINTR"
    /\ UNCHANGED <<cur, addrlen, pending, at, held, clientVars>>

\* css_echo goes on after EINTR.
AcceptFailed ==
    /\ mpc = "failed"
    /\ IF program = "css_echo" /\ errno = "EINTR"
       THEN mpc' = "accept" /\ UNCHANGED <<at, held>>
       ELSE MainExit
    /\ UNCHANGED <<cur, errno, addrlen, pending, clientVars>>

\* The child starts with a copy of main's descriptors; a failed fork is taken
\* for a child.
ForkServer ==
    /\ program \in Servers /\ mpc = "fork"
    /\ mpc' = IF program = "css_echo" THEN "accept" ELSE "close"
    /\ \/ /\ at' = [at EXCEPT ![cur] = IF program = "css_echo" THEN "son" ELSE "read"]
          /\ held' = [held EXCEPT ![cur] = held[0]]
       \/ UNCHANGED <<at, held>>
    /\ UNCHANGED <<cur, errno, addrlen, pending, clientVars>>

\* Mutant: main keeps the connection it has given to a child.
Closed_Kept(c) == held

Closed(c) == [held EXCEPT ![0] = @ \ {c}]

Close ==
    /\ mpc = "close"
    /\ held' = Closed(cur)
    /\ mpc' = "accept"
    /\ UNCHANGED <<cur, errno, addrlen, pending, at, clientVars>>

------------------------------------------------------------------------------
\* main of test_fork_and_waitpid

ForkRound ==
    /\ program = "fork_and_waitpid" /\ mpc = "fork" /\ cur <= ConnNum
    /\ \/ /\ at' = [at EXCEPT ![cur] = "leaving"]
          /\ cur' = cur + 1
          /\ UNCHANGED <<mpc, held>>
       \/ MainExit /\ UNCHANGED cur
    /\ UNCHANGED <<errno, addrlen, pending, clientVars>>

\* sleep(20) ends after its time or with a signal.
Sleep ==
    /\ program = "fork_and_waitpid"
    /\ \/ mpc = "fork" /\ cur > ConnNum /\ mpc' = "sleep"
       \/ mpc \in {"sleep", "nap"} /\ mpc' = "waitall"
    /\ UNCHANGED <<cur, errno, addrlen, pending, at, held, clientVars>>

\* Mutant: the loop also ends when no child has exited yet.
GoesOn_Exited(pid) == pid > 0

GoesOn(pid) == pid >= 0

wait_all_children ==
    /\ mpc = "waitall"
    /\ \E pid \in waitpid :
          /\ Waited(pid)
          /\ mpc' = IF GoesOn(pid) THEN IF pid = 0 THEN "nap" ELSE mpc
                    ELSE IF pid < 0 THEN "check" ELSE "return"
    /\ UNCHANGED <<cur, addrlen, pending, held, clientVars>>

WaitCheck ==
    /\ mpc = "check"
    /\ IF errno = "ECHILD"
       THEN mpc' = "return" /\ UNCHANGED <<at, held>>
       ELSE MainExit
    /\ UNCHANGED <<cur, errno, addrlen, pending, clientVars>>

MainStep ==
    /\ Alive /\ ~handler
    /\ \/ Block \/ Accept \/ AcceptInvalid \/ AcceptFull \/ AcceptInterrupted
       \/ AcceptFailed \/ ForkServer \/ Close
       \/ ForkRound \/ Sleep \/ wait_all_children \/ WaitCheck
    /\ UNCHANGED <<program, handler>>

------------------------------------------------------------------------------
\* The children of the servers, and those of test_fork_and_waitpid

\* Mutant: a failed fork counts as a child that serves the client.
Leaves_Failed(childpid) == childpid # 0

Leaves(childpid) == childpid > 0

\* The second fork of css_echo: the son leaves the client to the grandson, or
\* serves it when the fork failed.
SonFork(c) ==
    /\ at[c] = "son"
    /\ \E childpid \in {-1, 1} :
          /\ at' = [at EXCEPT ![c] = IF Leaves(childpid) THEN "leaving" ELSE "read",
                            ![-c] = IF childpid > 0 THEN "read" ELSE @]
          /\ held' = [held EXCEPT ![-c] = IF childpid > 0 THEN held[c] ELSE @]
    /\ UNCHANGED <<pending, clientVars>>

\* The handler, inherited by the son, when the grandson is quicker.
SonWait(c) ==
    /\ at[c] = "leaving" /\ at[-c] = "zombie"
    /\ at' = [at EXCEPT ![-c] = "gone"]
    /\ UNCHANGED <<held, pending, clientVars>>

Leave(p) == at[p] = "leaving" /\ ChildExit(p) /\ UNCHANGED clientVars

Conn(p) == IF p > 0 THEN p ELSE -p
Unread(c) == sent[c] - echoed[c]

Read(p) ==
    /\ at[p] = "read" /\ client[Conn(p)] # "reset" /\ Unread(Conn(p)) > 0
    /\ at' = [at EXCEPT ![p] = "write"]
    /\ UNCHANGED <<held, pending, clientVars>>

\* End of file or an error: both servers' processes exit.
ReadEnd(p) ==
    /\ at[p] = "read"
    /\ \/ client[Conn(p)] = "reset"
       \/ client[Conn(p)] = "shut" /\ Unread(Conn(p)) = 0
    /\ ChildExit(p)
    /\ UNCHANGED clientVars

Write(p) ==
    /\ at[p] = "write" /\ client[Conn(p)] # "reset"
    /\ echoed' = [echoed EXCEPT ![Conn(p)] = @ + 1]
    /\ at' = [at EXCEPT ![p] = "read"]
    /\ UNCHANGED <<held, pending, backlog, client, sent>>

\* css_echo exits; sigaction_waitpidS does not look at the result, but SIGPIPE
\* may end it.
WriteFail(p) ==
    /\ at[p] = "write" /\ client[Conn(p)] = "reset"
    /\ \/ ChildExit(p)
       \/ /\ program = "sigaction_waitpidS"
          /\ at' = [at EXCEPT ![p] = "read"]
          /\ UNCHANGED <<held, pending>>
    /\ UNCHANGED clientVars

ChildStep(p) ==
    /\ \/ p > 0 /\ (SonFork(p) \/ SonWait(p) \/ Leave(p))
       \/ Read(p) \/ ReadEnd(p) \/ Write(p) \/ WriteFail(p)
    /\ UNCHANGED <<program, mainVars, handler>>

------------------------------------------------------------------------------
\* The clients: connect (while the server listens), send, half-close or reset.

Connect(c) ==
    /\ program \in Servers /\ client[c] = "none" /\ Alive
    /\ client' = [client EXCEPT ![c] = "open"]
    /\ backlog' = Append(backlog, c)
    /\ UNCHANGED <<sent, echoed>>

Send(c) ==
    /\ client[c] = "open" /\ sent[c] < MaxSend
    /\ sent' = [sent EXCEPT ![c] = @ + 1]
    /\ UNCHANGED <<backlog, client, echoed>>

Finish(c) ==
    /\ client[c] = "open"
    /\ client' = [client EXCEPT ![c] = "shut"]
    /\ UNCHANGED <<backlog, sent, echoed>>

Reset(c) ==
    /\ client[c] \in {"open", "shut"}
    /\ client' = [client EXCEPT ![c] = "reset"]
    /\ UNCHANGED <<backlog, sent, echoed>>

ClientStep ==
    /\ \E c \in Conns : Connect(c) \/ Send(c) \/ Finish(c) \/ Reset(c)
    /\ UNCHANGED <<program, mainVars, handler, pending, at, held>>

------------------------------------------------------------------------------
Next == HandlerStep \/ MainStep \/ ClientStep \/ \E p \in Children : ChildStep(p)

Spec == Init /\ [][Next]_vars

\* Every process that can run does, and a pending signal that is not blocked is
\* delivered.  Nothing is asked of the clients, and no fork need succeed.
Fairness ==
    /\ WF_vars(MainStep) /\ WF_vars(HandlerStep)
    /\ \A p \in Children : WF_vars(ChildStep(p))

FairSpec == Spec /\ Fairness

------------------------------------------------------------------------------
TypeOK ==
    /\ program \in Servers \cup {"fork_and_waitpid"}
    /\ mpc \in {"accept", "blocked", "eintr", "failed", "fork", "close", "sleep",
               "waitall", "nap", "check", "return", "exit"}
    /\ cur \in 1 .. ConnNum + 1
    /\ errno \in {"0", "EINTR", "ECHILD", "EMFILE", "EINVAL"}
    /\ addrlen \in {-1, 16}
    /\ handler \in BOOLEAN /\ pending \in BOOLEAN
    /\ at \in [Children -> {"none", "son", "read", "write", "leaving", "zombie", "gone"}]
    /\ held \in [Procs -> SUBSET Conns]
    /\ backlog \in Seq(Conns)
    /\ client \in [Conns -> {"none", "open", "shut", "reset"}]
    /\ sent \in [Conns -> 0 .. MaxSend] /\ echoed \in [Conns -> 0 .. MaxSend]

\* A process that serves a client has its connection open.  In
\* sigaction_waitpidS it has no other, and main has one only between accept and
\* close: no child keeps a stranger's connection alive.
HeldRight ==
    /\ TypeOK
    /\ \A p \in Children : at[p] \in {"son", "read", "write"} => Conn(p) \in held[p]
    /\ program = "sigaction_waitpidS" =>
          /\ \A p \in Children : held[p] \subseteq {Conn(p)}
          /\ held[0] = IF mpc \in {"fork", "close"} THEN {cur} ELSE {}

\* test_fork_and_waitpid returns from main only when every child was waited
\* for, by the handler or by wait_all_children.
WaitsForAll == mpc = "return" => \A c \in Conns : at[c] = "gone"

\* No zombie stays: signals of children that exit together are merged, the
\* loop in the handler makes up for it.
Reaped == \A p \in Children : at[p] = "zombie" ~> at[p] = "gone"

\* The handler never waits for a child that is still running, which may be for
\* as long as its client likes; so main goes on, and accepts the connections in
\* the backlog or exits.
MainGoesOn ==
    /\ handler ~> ~handler
    /\ \A c \in Conns :
          (\E k \in 1 .. Len(backlog) : backlog[k] = c)
              ~> (mpc = "exit" \/ \A k \in 1 .. Len(backlog) : backlog[k] # c)

\* What a client with a process of its own sends is echoed, unless it resets the
\* connection, whether or not the second fork works and main is still there.  In
\* sigaction_waitpidS, when the client is done, every process that has its
\* connection open closes it.
Open(c) == \E p \in Procs : c \in held[p]
Served ==
    \A c \in Conns :
        /\ (at[c] # "none" /\ Unread(c) > 0) ~> (Unread(c) = 0 \/ client[c] = "reset")
        /\ (program = "sigaction_waitpidS" /\ client[c] \in {"shut", "reset"} /\ Open(c))
              ~> ~Open(c)

\* "when prcess func of SIGCHLD return,EINTR may be generated" (css_echo.cpp:86):
\* an accept that the handler interrupted is called again.
InterruptRetried == mpc = "eintr" ~> mpc = "accept"
==============================================================================
