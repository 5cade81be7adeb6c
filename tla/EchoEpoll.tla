------------------------------ MODULE EchoEpoll ------------------------------
(***************************************************************************)
(* io/css_echo_epoll.cpp with the helpers of io/socketio.cpp it calls      *)
(* (accept_epoll_ctl, deal_epoll_event, data_echo,                         *)
(* read_write_shutdown_if_read_eof, read_write, epoll_add) and full_write  *)
(* of lib/lhf.cpp.  pc:                                                    *)
(*   wait    at epoll_wait         batch   at events[i]                    *)
(*   write   in full_write         exit    print_error ended the process   *)
(* Descriptors are registered for EPOLLIN only; a hang-up or an error is   *)
(* always reported together with EPOLLIN, so the other branches of         *)
(* deal_epoll_event are not taken here.                                    *)
(***************************************************************************)
EXTENDS Sockets, SequencesExt

CONSTANTS
    MAX_EVENTS,   \* events one epoll_wait returns at most
    MaxWatch      \* the kernel's limit on registered descriptors

ASSUME EpollAssumption == MAX_EVENTS \in Nat \ {0} /\ MaxWatch \in Nat

VARIABLES
    interest,     \* kernel: descriptors registered with epollfd
    rdlist,       \* kernel: its ready list, at the last epoll_wait
    pc, why,
    events, i,    \* the batch, each event with the connection it is about
    len           \* full_write: bytes still to write

epollVars  == <<interest, rdlist>>
serverVars == <<pc, why, events, i, len>>
vars == <<kernelVars, epollVars, serverVars>>

Init ==
    /\ KernelInit
    /\ interest = {SvrFd} /\ rdlist = <<>>
    /\ pc = "wait" /\ why = "none"
    /\ events = <<>> /\ i = 1 /\ len = 0

------------------------------------------------------------------------------
Exit(call) ==
    /\ pc' = "exit" /\ why' = call
    /\ UNCHANGED <<kernelVars, epollVars, events, i, len>>

\* The ready list: what is still readable keeps its order, what became readable
\* joins at the tail, in any order, and the rest is dropped.
ReadyLists ==
    LET place(f) == Min({k \in 1 .. Len(rdlist) : rdlist[k] = f} \cup {Len(rdlist) + 1})
    IN  {q \in SetToSeqs({f \in interest : Readable(f)}) :
            \A k, l \in DOMAIN q : k < l => place(q[k]) <= place(q[l])}

Event(f) == [fd |-> f, conn |-> IF f = SvrFd THEN NULL ELSE owner[f]]

\* epoll_wait hands out the head of the list and, level-triggered, puts it back
\* at the tail.
EpollWait ==
    /\ pc = "wait"
    /\ \E q \in ReadyLists :
          LET n == Min({MAX_EVENTS, Len(q)}) IN
          /\ q # <<>>
          /\ events' = [k \in 1 .. n |-> Event(q[k])]
          /\ rdlist' = SubSeq(q, n + 1, Len(q)) \o SubSeq(q, 1, n)
    /\ i' = 1
    /\ pc' = "batch"
    /\ UNCHANGED <<kernelVars, interest, why, len>>

\* Mutant: a descriptor is handled again before the next event.
NextEvent_Again(k) == k

NextEvent(k) == k + 1

\* The for loop goes on, or back to epoll_wait.
Continue ==
    LET k == NextEvent(i) IN
    IF k <= Len(events)
    THEN i' = k /\ pc' = "batch" /\ UNCHANGED events
    ELSE i' = 1 /\ pc' = "wait" /\ events' = <<>>

f_i == events[i].fd

\* accept_epoll_ctl; epoll_add fails at the kernel's limit.
AcceptFail ==
    /\ pc = "batch" /\ f_i = SvrFd
    /\ FreeFds = {} \/ Cardinality(interest) >= MaxWatch
    /\ Exit("accept")

epoll_add(f) == interest \cup {f}

Accept ==
    /\ pc = "batch" /\ f_i = SvrFd
    /\ FreeFds # {} /\ Cardinality(interest) < MaxWatch
    /\ KAccept
    /\ interest' = epoll_add(NewFd)
    /\ Continue
    /\ UNCHANGED <<rdlist, why, len>>

\* data_echo: read_write, and close on end of file, which also takes the
\* descriptor out of the epoll set.
AtClient == pc = "batch" /\ f_i # SvrFd

ReadFail ==
    /\ AtClient
    /\ f_i \in OpenFds => ReadFails(owner[f_i])
    /\ Exit("read")

\* Mutant: tofd is closed without comparing it with fromfd.
CloseToo_Always(fromfd, tofd) == TRUE

\* Whether tofd is closed as well.
CloseToo(fromfd, tofd) == fromfd # tofd

\* Mutant: a descriptor is read until read fails, past its close.
ReadEnd_UntilError ==
    /\ AtClient /\ f_i \in OpenFds /\ ReadEof(owner[f_i])
    /\ KClose(f_i)
    /\ interest' = interest \ {f_i}
    /\ rdlist' = RemoveFirst(rdlist, f_i)
    /\ UNCHANGED serverVars

\* data_echo passes one descriptor as both; a second close of it would fail.
ReadEnd ==
    /\ AtClient /\ f_i \in OpenFds /\ ReadEof(owner[f_i])
    /\ IF CloseToo(f_i, f_i)
       THEN Exit("close")
       ELSE /\ KClose(f_i)
            /\ interest' = interest \ {f_i}
            /\ rdlist' = RemoveFirst(rdlist, f_i)
            /\ Continue
            /\ UNCHANGED <<why, len>>

ReadData ==
    /\ AtClient /\ f_i \in OpenFds
    /\ LET c == owner[f_i] IN
           wire[c].in > 0 /\ len' = ReadLen(c) /\ KRead(c)
    /\ pc' = "write"
    /\ UNCHANGED <<epollVars, why, events, i>>

WriteFail == pc = "write" /\ WriteFails(owner[f_i]) /\ Exit("write")

\* Mutant: one write, whatever it took.
Left_None(n, k) == 0

Left(n, k) == n - k

\* One round of full_write: write takes k of the bytes left.
WriteStep ==
    /\ pc = "write"
    /\ \E k \in 1 .. len :
          LET c == owner[f_i] IN
          /\ ~WriteFails(c) /\ WriteFits(c, k) /\ KWrite(c, k)
          /\ len' = Left(len, k)
    /\ IF len' = 0 THEN Continue ELSE UNCHANGED <<pc, events, i>>
    /\ UNCHANGED <<epollVars, why>>

ServerStep ==
    EpollWait \/ AcceptFail \/ Accept \/ ReadFail \/ ReadEnd \/ ReadData
    \/ WriteFail \/ WriteStep

Next == ServerStep \/ (ClientStep /\ UNCHANGED <<epollVars, serverVars>>)

Spec == Init /\ [][Next]_vars

\* The kernel schedules the server whenever its call can return, and clients
\* read their echoes.
FairSpec ==
    /\ Spec
    /\ WF_vars(ServerStep)
    /\ \A c \in Conns : WF_vars(Receive(c) /\ UNCHANGED <<epollVars, serverVars>>)

------------------------------------------------------------------------------
Serves(f) == f \in OpenFds

TypeOK ==
    /\ KernelTypeOK
    /\ interest \subseteq Fds \cup {SvrFd}
    /\ rdlist \in Seq(Fds \cup {SvrFd})
    /\ pc \in {"wait", "batch", "write", "exit"}
    /\ why \in {"none", "accept", "read", "close", "write"}
    /\ events \in Seq([fd : Fds \cup {SvrFd}, conn : Conns \cup {NULL}])
    /\ Len(events) <= MAX_EVENTS
    /\ i \in 1 .. MAX_EVENTS /\ len \in 0 .. MAXLINE

\* Every open connection is watched and nothing closed is, and an event still
\* to be handled is about the connection its descriptor refers to now: a close
\* and an accept earlier in the batch reuse no descriptor that occurs later in it.
EventsFresh ==
    /\ TypeOK
    /\ interest = OpenFds \cup {SvrFd}
    /\ pc # "wait" =>
          \A k \in i .. Len(events) :
              events[k].fd # SvrFd => owner[events[k].fd] = events[k].conn

\* No byte is lost, doubled or given to another client on its way through the
\* server, however full_write splits it: what a client sent is what it got
\* back, what waits in the kernel in either direction and what the server
\* holds.
Held(c) == IF pc = "write" /\ owner[f_i] = c THEN len ELSE 0
EchoWhole ==
    pc # "exit" => \A c \in Conns :
        wire[c].sent = wire[c].in + Held(c) + wire[c].out + wire[c].got

\* Only a client's reset or an exhausted table ends the server.
ExitHasCause ==
    pc = "exit" =>
        \/ why = "accept" /\ (FreeFds = {} \/ Cardinality(interest) >= MaxWatch)
        \/ why \in {"read", "write"} /\ \E c \in Conns : wire[c].rst

\* With more ready clients than MAX_EVENTS, every byte a client sends is still
\* read and its echo written, and when it half-closes its descriptor is closed,
\* or the server exits.
Served ==
    \A f \in Fds : Serves(f) /\ Arrived(owner[f])
        ~> \/ pc = "exit"
           \/ ~Serves(f)
           \/ ~Arrived(owner[f]) /\ pc # "write"

\* The server implements EchoService: it admits connections in order, gives the
\* bytes it takes from a client back to that client before it does anything
\* else, and closes a connection only at end of file with every byte echoed; a
\* descriptor that is used again leads no byte and no close to another client.
InHand == IF pc = "write" THEN [conn |-> owner[f_i], n |-> len]
          ELSE [conn |-> NULL, n |-> 0]
Service == INSTANCE EchoService WITH
    queue <- backlog, open <- OpenConns, line <- Lines,
    hand <- InHand, up <- pc # "exit"
ImplementsEcho == Service!Spec
==============================================================================
