----------------------------- MODULE EchoClients -----------------------------
(***************************************************************************)
(* The clients of the TCP echo servers:                                    *)
(*   csc_echo_select   relays stdin and one connection with select         *)
(*   csc_echo_poll     the same with poll                                  *)
(*   csc_echo          sends a line, reads until all of it has come back   *)
(*   csc_echo_epoll    threads that send numbered messages on several      *)
(*                     connections until SIGINT sets gfinish               *)
(* client is the one that runs.  The server is any echo server of the      *)
(* repository: it writes back what it reads, closes after the client's     *)
(* end of file, and may exit.  Bytes are counted, not named: a connection  *)
(* keeps their order.  at[t] is where thread t stands; the first three     *)
(* programs are thread 1 on connection <<1, 1>>:                           *)
(*   wait     at select or poll      stdin    about to look at stdin       *)
(*   svr      about to look at svrfd fgets    at fgets                     *)
(*   write    at write               read     at read                      *)
(*   new      thread not created     connect  at socket_connect            *)
(*   top      at the head of the for loop     store    inside gmsgno++     *)
(*   done, failed   pthread_exit(NULL), pthread_exit(1)                    *)
(***************************************************************************)
EXTENDS Integers, FiniteSets, FiniteSetsExt

CONSTANTS
    Options,    \* pairs <<opthread_num, opconn_num>> given to csc_echo_epoll
    MsgLen,     \* bytes of a message of csc_echo_epoll
    MaxTyped,   \* bound: bytes typed at stdin
    MaxMsgs     \* bound: messages csc_echo_epoll sends

\* The options are ints; at least one thread and one connection are asked for.
INT_MAX == 2147483647
ASSUME OptionsAssumption == Options # {} /\ Options \subseteq (1 .. INT_MAX) \X (1 .. INT_MAX)
ASSUME LenAssumption     == MsgLen \in Nat \ {0}
ASSUME BoundAssumption   == MaxTyped \in Nat /\ MaxMsgs \in Nat

VARIABLES
    client, opthread_num, opconn_num,
    ended,                   \* how the process ended: no, ok, error, over, killed
    conn,                    \* the connections, as the kernel keeps them
    stdin,                   \* typed and unread bytes, all bytes typed, end of file
    at,
    rset, stdineof,          \* relays: what was reported; end of file seen
    len, cnt,                \* bytes in hand; of those, come back (csc_echo)
    created,                 \* threads main has created
    i, msgno,                \* thread: connection in turn, its copy of gmsgno
    gcnt, gmsgno, gfinish,   \* globals of csc_echo_epoll
    used, msgs               \* history: numbers used, messages begun

relayVars  == <<stdin, rset, stdineof, len, cnt>>
threadVars == <<created, i, msgno, gcnt, gmsgno, gfinish, used, msgs>>
vars == <<client, opthread_num, opconn_num, ended, conn, at, relayVars, threadVars>>

Relays  == {"csc_echo_select", "csc_echo_poll"}
Threads == 1 .. Max({o[1] : o \in Options})
Conns   == Threads \X (1 .. Max({o[2] : o \in Options}))
c0      == <<1, 1>>

\* up, down: bytes on their way to the server and back; fin: the client's
\* writing half is shut; srv: the server's end is open, closed after end of
\* file, or closed because the server exited; rst: a reset has arrived, and
\* whether a call has reported it.
NewConn(n, st) ==
    [st |-> st, id |-> n, up |-> 0, down |-> 0, fin |-> FALSE, srv |-> "up",
     rst |-> "no", sent |-> 0, got |-> 0]

\* The relays go on when socket_connect has failed.
Init ==
    /\ client \in Relays \cup {"csc_echo", "csc_echo_epoll"}
    /\ IF client = "csc_echo_epoll"
       THEN \E o \in Options : opthread_num = o[1] /\ opconn_num = o[2]
       ELSE opthread_num = 1 /\ opconn_num = 1
    /\ ended = "no"
    /\ \E st \in IF client = "csc_echo_epoll" THEN {"none"}
                 ELSE IF client = "csc_echo" THEN {"open"} ELSE {"open", "refused"} :
          conn = [c \in Conns |-> NewConn(0, IF c = c0 THEN st ELSE "none")]
    /\ at = [t \in Threads |-> IF client = "csc_echo_epoll" THEN "new"
                               ELSE IF client = "csc_echo" THEN "fgets" ELSE "wait"]
    /\ stdin = [left |-> 0, typed |-> 0, eof |-> FALSE]
    /\ rset = {} /\ stdineof = FALSE /\ len = 0 /\ cnt = 0
    /\ created = 0
    /\ i = [t \in Threads |-> 1] /\ msgno = [t \in Threads |-> 0]
    /\ gcnt = 0 /\ gmsgno = 0 /\ gfinish = FALSE
    /\ used = {} /\ msgs = 0

------------------------------------------------------------------------------
\* The calls on a connection

Readable(c) == conn[c].down > 0 \/ conn[c].srv # "up" \/ conn[c].rst # "no"

\* What read may return.  Data comes in pieces of any size and before an error;
\* an error is reported once and end of file follows.  A blocked read has none.
ReadResults(c) ==
    IF conn[c].down > 0 THEN 1 .. conn[c].down
    ELSE IF conn[c].rst = "pending" THEN {-1}
    ELSE IF Readable(c) THEN {0} ELSE {}

AfterRead(c, re) ==
    [conn EXCEPT ![c].down = IF re > 0 THEN @ - re ELSE @,
                 ![c].got  = IF re > 0 THEN @ + re ELSE @,
                 ![c].rst  = IF re < 0 THEN "seen" ELSE @]

AfterWrite(c, n) == [conn EXCEPT ![c].up = @ + n, ![c].sent = @ + n]

\* Mutant: both halves are shut.
Shut_Both(c) == [conn EXCEPT ![c].fin = TRUE, ![c].srv = "ended"]

\* shutdown(fd, SHUT_WR)
Shut(c) == [conn EXCEPT ![c].fin = TRUE]

Exit(how) == ended' = how

\* A write on a reset connection, or on a socket never connected, raises
\* SIGPIPE, which nobody catches; only the first after a reset may return the
\* error instead.
Killed(c) ==
    /\ conn[c].rst # "no" \/ conn[c].st = "refused"
    /\ Exit("killed")
    /\ UNCHANGED <<conn, at, relayVars, threadVars>>

------------------------------------------------------------------------------
\* main of csc_echo_select and csc_echo_poll

\* Mutants: the closing helper in neither client, in both.
Closes_Never(p) == FALSE
Closes_Always(p) == p \in Relays

\* The client uses read_write_shutdown_if_read_eof, which closes both
\* descriptors after end of file, and not read_write.
Closes(p) == p = "csc_echo_select"

AtEof == stdin.left = 0 /\ stdin.eof
Ready == {x \in {"stdin", "svr"} : IF x = "stdin" THEN stdin.left > 0 \/ stdin.eof
                                                  ELSE Readable(c0) \/ conn[c0].st = "refused"}

\* What poll reports as a hang-up only, which the client does not look at: a
\* socket that is not connected, and end of file if stdin is a pipe.
Hangups ==
    IF client = "csc_echo_select" THEN {{}}
    ELSE IF conn[c0].st = "refused" THEN {{"svr"}, {"svr"} \cup IF AtEof THEN {"stdin"} ELSE {}}
    ELSE {{}, IF AtEof THEN {"stdin"} ELSE {}}

\* select fails on a closed descriptor.
Wait ==
    /\ at[1] = "wait"
    /\ IF conn[c0].st = "closed" /\ client = "csc_echo_select"
       THEN Exit("error") /\ UNCHANGED <<at, rset>>
       ELSE /\ Ready # {}
            /\ rset' \in {Ready \ h : h \in Hangups}
            /\ at' = [at EXCEPT ![1] = "stdin"]
            /\ UNCHANGED ended
    /\ UNCHANGED <<conn, stdin, stdineof, len, cnt, threadVars>>

StdinData ==
    /\ at[1] = "stdin" /\ ~stdineof /\ "stdin" \in rset
    /\ \E re \in 1 .. stdin.left :
          len' = re /\ stdin' = [stdin EXCEPT !.left = @ - re]
    /\ at' = [at EXCEPT ![1] = "write"]
    /\ UNCHANGED <<ended, conn, rset, stdineof, cnt, threadVars>>

StdinEnd ==
    /\ at[1] = "stdin" /\ ~stdineof /\ "stdin" \in rset /\ stdin.left = 0
    /\ stdineof' = TRUE
    /\ conn' = IF Closes(client) THEN [conn EXCEPT ![c0].st = "closed"] ELSE conn
    /\ at' = [at EXCEPT ![1] = "svr"]
    /\ UNCHANGED <<ended, stdin, rset, len, cnt, threadVars>>

StdinSkip ==
    /\ at[1] = "stdin" /\ (stdineof \/ "stdin" \notin rset)
    /\ at' = [at EXCEPT ![1] = "svr"]
    /\ UNCHANGED <<ended, conn, relayVars, threadVars>>

\* csc_echo_poll does not look at the result of read_write.
RelayWrite ==
    /\ at[1] = "write"
    /\ \/ Killed(c0)
       \/ /\ conn[c0].rst = "pending"
          /\ conn' = AfterRead(c0, -1)
          /\ IF client = "csc_echo_poll"
             THEN at' = [at EXCEPT ![1] = "svr"] /\ UNCHANGED ended
             ELSE Exit("error") /\ UNCHANGED at
          /\ UNCHANGED <<relayVars, threadVars>>
       \/ /\ conn[c0].rst = "no" /\ conn[c0].st = "open"
          /\ conn' = AfterWrite(c0, len)
          /\ at' = [at EXCEPT ![1] = "svr"]
          /\ UNCHANGED <<ended, relayVars, threadVars>>

SvrRead ==
    /\ at[1] = "svr"
    /\ IF "svr" \notin rset THEN UNCHANGED <<conn, ended>>
       ELSE IF conn[c0].st # "open" THEN Exit("error") /\ UNCHANGED conn
       ELSE \E re \in ReadResults(c0) :
               /\ conn' = AfterRead(c0, re)
               /\ ended' = IF re = 0 THEN "ok"
                           ELSE IF re < 0 /\ client = "csc_echo_select" THEN "error"
                           ELSE ended
    /\ at' = [at EXCEPT ![1] = "wait"]
    /\ UNCHANGED <<relayVars, threadVars>>

RelayStep ==
    /\ client \in Relays
    /\ Wait \/ StdinData \/ StdinEnd \/ StdinSkip \/ RelayWrite \/ SvrRead

------------------------------------------------------------------------------
\* main of csc_echo

Fgets ==
    /\ at[1] = "fgets"
    /\ \/ \E n \in 1 .. stdin.left :
             /\ len' = n /\ stdin' = [stdin EXCEPT !.left = @ - n]
             /\ at' = [at EXCEPT ![1] = "write"]
             /\ UNCHANGED ended
       \/ AtEof /\ Exit("error") /\ UNCHANGED <<len, stdin, at>>
    /\ UNCHANGED <<conn, rset, stdineof, cnt, threadVars>>

LineWrite ==
    /\ at[1] = "write"
    /\ \/ Killed(c0)
       \/ /\ conn[c0].rst = "pending" /\ Exit("error")
          /\ UNCHANGED <<conn, at, relayVars, threadVars>>
       \/ /\ conn[c0].rst = "no"
          /\ conn' = AfterWrite(c0, len)
          /\ cnt' = 0
          /\ at' = [at EXCEPT ![1] = "read"]
          /\ UNCHANGED <<ended, stdin, rset, stdineof, len, threadVars>>

\* Reads until cnt = len; end of file adds 0 and the loop goes on.
LineRead ==
    /\ at[1] = "read"
    /\ \E re \in ReadResults(c0) :
          /\ conn' = AfterRead(c0, re)
          /\ cnt' = IF re < 0 THEN cnt ELSE cnt + re
          /\ ended' = IF re < 0 THEN "error" ELSE IF cnt' > len THEN "over" ELSE ended
          /\ at' = IF cnt' = len THEN [at EXCEPT ![1] = "fgets"] ELSE at
    /\ UNCHANGED <<stdin, rset, stdineof, len, threadVars>>

LineStep == client = "csc_echo" /\ (Fgets \/ LineWrite \/ LineRead)

------------------------------------------------------------------------------
\* thread_func and main of csc_echo_epoll

OwnConns(t) == {n \in 1 .. opconn_num : conn[<<t, n>>].st = "open"}
Fd(t) == <<t, i[t]>>

\* socket_connect, and the number of the connection.
ThreadConnect(t) ==
    /\ at[t] = "connect"
    /\ \/ /\ conn' = [conn EXCEPT ![Fd(t)] = NewConn(gcnt, "open")]
          /\ gcnt' = gcnt + 1
          /\ i' = [i EXCEPT ![t] = IF @ = opconn_num THEN 1 ELSE @ + 1]
          /\ at' = [at EXCEPT ![t] = IF i[t] = opconn_num THEN "top" ELSE @]
       \/ at' = [at EXCEPT ![t] = "failed"] /\ UNCHANGED <<conn, gcnt, i>>
    /\ UNCHANGED <<ended, relayVars, created, msgno, gmsgno, gfinish, used, msgs>>

\* gmsgno++ reads the global and writes it back in two steps.
Load(t) ==
    /\ at[t] = "top" /\ ~gfinish /\ msgs < MaxMsgs
    /\ msgno' = [msgno EXCEPT ![t] = gmsgno]
    /\ used' = used \cup {gmsgno} /\ msgs' = msgs + 1
    /\ at' = [at EXCEPT ![t] = "store"]
    /\ UNCHANGED <<ended, conn, relayVars, created, i, gcnt, gmsgno, gfinish>>

\* Mutant: the increment itself is atomic, the number was read before it.
Stored_Late(t) == gmsgno + 1

Stored(t) == msgno[t] + 1

Store(t) ==
    /\ at[t] = "store"
    /\ gmsgno' = Stored(t)
    /\ at' = [at EXCEPT ![t] = "write"]
    /\ UNCHANGED <<ended, conn, relayVars, created, i, msgno, gcnt, gfinish, used, msgs>>

\* full_write returns 1 when it fails and the test is for a negative result.
ThreadWrite(t) ==
    /\ at[t] = "write"
    /\ \/ Killed(Fd(t))
       \/ /\ conn[Fd(t)].rst # "seen"
          /\ conn' = IF conn[Fd(t)].rst = "pending" THEN AfterRead(Fd(t), -1)
                                                    ELSE AfterWrite(Fd(t), MsgLen)
          /\ at' = [at EXCEPT ![t] = "read"]
          /\ UNCHANGED <<ended, relayVars, threadVars>>

\* With gfinish set, every round shuts the connection down, again if need be; on
\* a connection both sides have shut that fails, or not yet.
Gone(c) == conn[c].fin /\ conn[c].srv # "up"

Shutdown(t) ==
    /\ at[t] = "top" /\ gfinish
    /\ \/ /\ conn[Fd(t)].rst = "no"
          /\ conn' = Shut(Fd(t))
          /\ at' = [at EXCEPT ![t] = "read"]
          /\ UNCHANGED ended
       \/ /\ conn[Fd(t)].rst # "no" \/ Gone(Fd(t))
          /\ Exit("error")
          /\ UNCHANGED <<conn, at>>
    /\ UNCHANGED <<relayVars, threadVars>>

\* read_write to stdout.  End of file closes the connection, an error is only
\* printed; the loop goes on with the next connection that is open.
Following(n, open) ==
    IF \E k \in open : k > n THEN Min({k \in open : k > n}) ELSE Min(open)

ThreadRead(t) ==
    /\ at[t] = "read"
    /\ \E re \in ReadResults(Fd(t)) :
          LET open == OwnConns(t) \ (IF re = 0 THEN {i[t]} ELSE {}) IN
          /\ conn' = IF re = 0 THEN [conn EXCEPT ![Fd(t)].st = "closed"]
                               ELSE AfterRead(Fd(t), re)
          /\ at' = [at EXCEPT ![t] = IF open = {} THEN "done" ELSE "top"]
          /\ i' = [i EXCEPT ![t] = IF open = {} THEN @ ELSE Following(@, open)]
    /\ UNCHANGED <<ended, relayVars, created, msgno, gcnt, gmsgno, gfinish, used, msgs>>

\* main creates the threads, joins them all and returns.
MainCreate ==
    /\ created < opthread_num
    /\ \/ /\ created' = created + 1
          /\ at' = [at EXCEPT ![created + 1] = "connect"]
          /\ UNCHANGED ended
       \/ Exit("error") /\ UNCHANGED <<created, at>>
    /\ UNCHANGED <<conn, relayVars, i, msgno, gcnt, gmsgno, gfinish, used, msgs>>

MainJoin ==
    /\ created = opthread_num
    /\ \A t \in 1 .. opthread_num : at[t] \in {"done", "failed"}
    /\ Exit("ok")
    /\ UNCHANGED <<conn, at, relayVars, threadVars>>

MainStep == MainCreate \/ MainJoin

ThreadStep(t) ==
    /\ client = "csc_echo_epoll"
    /\ ThreadConnect(t) \/ Load(t) \/ Store(t) \/ ThreadWrite(t) \/ Shutdown(t) \/ ThreadRead(t)

\* sigfunc, for SIGINT: delivered anywhere, and read and accept are restarted.
sigfunc ==
    /\ client = "csc_echo_epoll" /\ ~gfinish
    /\ gfinish' = TRUE
    /\ UNCHANGED <<ended, conn, at, relayVars, created, i, msgno, gcnt, gmsgno, used, msgs>>

ClientStep ==
    /\ ended = "no"
    /\ \/ RelayStep \/ LineStep
       \/ client = "csc_echo_epoll" /\ MainStep
    /\ UNCHANGED <<client, opthread_num, opconn_num>>

EpollThread(t) ==
    ended = "no" /\ ThreadStep(t) /\ UNCHANGED <<client, opthread_num, opconn_num>>

------------------------------------------------------------------------------
\* The server and the user

Echo(c) ==
    /\ conn[c].srv = "up" /\ conn[c].up > 0
    /\ \E k \in 1 .. conn[c].up :
          conn' = [conn EXCEPT ![c].up = @ - k, ![c].down = @ + k]

ServerEnd(c) ==
    /\ conn[c].srv = "up" /\ conn[c].fin /\ conn[c].up = 0
    /\ conn' = [conn EXCEPT ![c].srv = "ended"]

ServerExit(c) ==
    /\ conn[c].st = "open" /\ conn[c].srv = "up"
    /\ conn' = [conn EXCEPT ![c].srv = "died"]

\* Data that reaches a socket nobody has open any more is answered by a reset.
ResetArrives(c) ==
    /\ conn[c].srv # "up" /\ conn[c].up > 0
    /\ conn' = [conn EXCEPT ![c].up = 0, ![c].rst = "pending"]

ServerStep(c) ==
    /\ ended = "no"
    /\ Echo(c) \/ ServerEnd(c) \/ ResetArrives(c)
    /\ UNCHANGED <<client, opthread_num, opconn_num, ended, at, relayVars, threadVars>>

Environment ==
    /\ ended = "no"
    /\ \/ \E c \in Conns : ServerExit(c) /\ UNCHANGED stdin
       \/ /\ client # "csc_echo_epoll" /\ ~stdin.eof
          /\ \/ /\ stdin.typed < MaxTyped
                /\ stdin' = [stdin EXCEPT !.left = @ + 1, !.typed = @ + 1]
             \/ stdin' = [stdin EXCEPT !.eof = TRUE]
          /\ UNCHANGED conn
    /\ UNCHANGED <<client, opthread_num, opconn_num, ended, at, rset, stdineof, len, cnt,
                   threadVars>>

Signal == ended = "no" /\ sigfunc /\ UNCHANGED <<client, opthread_num, opconn_num>>

Next ==
    \/ ClientStep \/ Signal \/ Environment
    \/ \E t \in Threads : EpollThread(t)
    \/ \E c \in Conns : ServerStep(c)

Spec == Init /\ [][Next]_vars

\* The client's process and threads run whenever they can, and so does the
\* server while it lives.  Nothing is asked of the user or of the signal.
FairSpec ==
    /\ Spec
    /\ WF_vars(ClientStep)
    /\ \A t \in Threads : WF_vars(EpollThread(t))
    /\ \A c \in Conns : WF_vars(ServerStep(c))

------------------------------------------------------------------------------
TypeOK ==
    /\ ended \in {"no", "ok", "error", "over", "killed"}
    /\ \A c \in Conns :
          /\ conn[c].st \in {"none", "refused", "open", "closed"}
          /\ conn[c].srv \in {"up", "ended", "died"}
          /\ conn[c].rst \in {"no", "pending", "seen"}
          /\ {conn[c].up, conn[c].down, conn[c].got} \subseteq 0 .. conn[c].sent
    /\ rset \subseteq {"stdin", "svr"} /\ len \in 0 .. MaxTyped /\ cnt \in 0 .. MaxTyped
    /\ stdin.left \in 0 .. stdin.typed
    /\ created \in 0 .. opthread_num

\* The client lets go of a connection: it closes it, or its process ends.
Dropped(c) == conn[c].st = "closed" \/ (conn[c].st = "open" /\ ended # "no")

\* csc_echo_epoll ends as a whole, whatever its other threads wait for: a thread
\* could not be created, a thread met a connection whose server has exited, or
\* shut one down again that both sides had shut.
EndsEarly ==
    \/ ended = "error" /\ created < opthread_num
    \/ ended \in {"error", "killed"} /\ \E d \in Conns : conn[d].srv = "died"
    \/ ended = "error" /\ \E d \in Conns : Gone(d)

\* Echoes are still missing on a connection the client lets go of only if its
\* server has exited, if csc_echo_select found end of file on stdin, which
\* closes the connection too, or if csc_echo_epoll ends early; a thread of its
\* own accord closes one only when all it sent has come back, although other
\* threads, the signal and partial reads come in between.  csc_echo has its
\* whole line, and never more, before it asks for the next one.
EchoesRead ==
    /\ TypeOK
    /\ \A c \in Conns : Dropped(c) /\ conn[c].got # conn[c].sent =>
          \/ conn[c].srv = "died"
          \/ client = "csc_echo_select" /\ stdineof /\ conn[c].st = "closed"
          \/ client = "csc_echo_epoll" /\ conn[c].st = "open" /\ EndsEarly
    /\ at[1] = "fgets" => conn[c0].got = conn[c0].sent
    /\ ended # "over"

\* Connections of all threads have numbers of their own.  Message numbers are
\* used twice when threads meet in gmsgno++, but none is left out.
Numbering ==
    /\ \A c, d \in Conns : /\ conn[c].st # "none" /\ conn[d].st # "none"
                           /\ conn[c].id = conn[d].id
                           => c = d
    /\ \A n \in used : 0 .. n \subseteq used

\* Each client comes to its end: csc_echo_select after end of file on either
\* side, csc_echo_poll when the server has gone, csc_echo after end of file on
\* stdin unless the server has gone, csc_echo_epoll after SIGINT, wherever its
\* threads are then.
MustEnd ==
    CASE client = "csc_echo_select" -> stdin.eof \/ conn[c0].srv # "up" \/ conn[c0].st = "refused"
      [] client = "csc_echo_poll"   -> conn[c0].srv # "up"
      [] client = "csc_echo"        -> stdin.eof
      [] client = "csc_echo_epoll"  -> gfinish
Ends == MustEnd ~> (ended # "no" \/ (client = "csc_echo" /\ conn[c0].srv # "up"))

\* What csc_echo_poll and csc_echo have sent is printed, after end of file on
\* stdin too, unless the server exits.
Printed ==
    \A n \in 1 .. MaxTyped :
        (client \in {"csc_echo_poll", "csc_echo"} /\ conn[c0].sent >= n)
            ~> (conn[c0].got >= n \/ conn[c0].srv # "up")
==============================================================================
