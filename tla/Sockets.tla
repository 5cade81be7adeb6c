------------------------------- MODULE Sockets -------------------------------
(***************************************************************************)
(* The kernel side of the echo servers, as the servers of io/ use it: the  *)
(* descriptor table of the server process, its listening socket and the    *)
(* stream connections the clients make, feed, half-close and reset.  No    *)
(* code of the repository is here; the three servers extend this module.   *)
(*                                                                         *)
(* Bytes are counted, not named: a server reads what one connection holds  *)
(* and writes it back to the same descriptor.                              *)
(***************************************************************************)
EXTENDS Integers, Sequences, FiniteSets, FiniteSetsExt

CONSTANTS
    ConnNum,     \* bound: connections made
    SvrFd,       \* the listening descriptor
    MaxFd,       \* the largest descriptor the process may own (its limit)
    MAXLINE,     \* size of the buffer handed to read
    Window,      \* bytes a connection holds towards a client before write blocks
    MaxBytes,    \* bound: bytes all clients together send
    Resetters,   \* bound: the connections that may be reset
    NULL

ASSUME FdAssumption == SvrFd \in Nat /\ MaxFd \in Nat /\ SvrFd < MaxFd
ASSUME WindowAssumption == MAXLINE \in Nat \ {0} /\ Window \in Nat /\ MAXLINE <= Window
ASSUME BoundAssumption == ConnNum \in Nat /\ MaxBytes \in Nat

\* Connections are numbered in the order in which they are made.
Conns == 1 .. ConnNum

ASSUME ConnAssumption == NULL \notin Conns /\ Resetters \subseteq Conns

VARIABLES
    backlog,     \* connections completed by the kernel and not accepted
    owner,       \* descriptor -> the connection it refers to, or NULL
    wire         \* connection -> what the kernel keeps for it

kernelVars == <<backlog, owner, wire>>

Fds == SvrFd + 1 .. MaxFd

\* in: unread by the server; out: written back, unread by the client;
\* got: read by the client; fin: the client sent FIN; rst: it reset the connection.
Wires == [made : BOOLEAN, sent : 0 .. MaxBytes, in : 0 .. MaxBytes,
          out : 0 .. Window, got : 0 .. MaxBytes, fin : BOOLEAN,
          rst : BOOLEAN]

KernelTypeOK ==
    /\ backlog \in Seq(Conns)
    /\ owner \in [Fds -> Conns \cup {NULL}]
    /\ wire \in [Conns -> Wires]

KernelInit ==
    /\ backlog = <<>>
    /\ owner = [f \in Fds |-> NULL]
    /\ wire = [c \in Conns |-> [made |-> FALSE, sent |-> 0, in |-> 0, out |-> 0,
                                got |-> 0, fin |-> FALSE, rst |-> FALSE]]

------------------------------------------------------------------------------
\* What the servers see of a descriptor

OpenFds == {f \in Fds : owner[f] # NULL}
Usable(c) == wire[c].made /\ ~wire[c].rst

\* A blocking read returns, with data, with end of file or with an error.
Arrived(c) == wire[c].in > 0 \/ wire[c].fin \/ wire[c].rst

\* The descriptor is reported readable by select, poll and epoll_wait.
Readable(f) == IF f = SvrFd THEN backlog # <<>> ELSE Arrived(owner[f])

\* Queued data is delivered before an error, an error before end of file.
ReadLen(c) == Min({wire[c].in, MAXLINE})
ReadFails(c) == wire[c].in = 0 /\ wire[c].rst
ReadEof(c) == wire[c].in = 0 /\ ~wire[c].rst /\ wire[c].fin

\* accept blocks while nothing is queued, then takes the oldest connection
\* and the lowest free descriptor.
FreeFds == Fds \ OpenFds
NewFd == Min(FreeFds)

KAccept ==
    /\ backlog # <<>>
    /\ owner' = [owner EXCEPT ![NewFd] = Head(backlog)]
    /\ backlog' = Tail(backlog)
    /\ UNCHANGED wire

KClose(f) == owner' = [owner EXCEPT ![f] = NULL] /\ UNCHANGED <<backlog, wire>>

KRead(c) ==
    /\ wire' = [wire EXCEPT ![c].in = @ - ReadLen(c)]
    /\ UNCHANGED <<backlog, owner>>

\* write(f, n bytes): fails on a reset connection, else blocks until the
\* window has taken all of them.
WriteFails(c) == wire[c].rst
WriteFits(c, n) == wire[c].out + n <= Window

KWrite(c, n) ==
    /\ wire' = [wire EXCEPT ![c].out = @ + n]
    /\ UNCHANGED <<backlog, owner>>

------------------------------------------------------------------------------
\* The clients; they act between any two system calls of the server.

Connect(c) ==
    /\ ~wire[c].made /\ \A d \in 1 .. c - 1 : wire[d].made
    /\ wire' = [wire EXCEPT ![c].made = TRUE]
    /\ backlog' = Append(backlog, c)
    /\ UNCHANGED owner

BytesSent == MapThenSumSet(LAMBDA c : wire[c].sent, Conns)

\* The bound on all bytes is also one on each connection's.
Send(c) ==
    /\ Usable(c) /\ ~wire[c].fin
    /\ BytesSent < MaxBytes /\ wire[c].sent < MaxBytes
    /\ wire' = [wire EXCEPT ![c].sent = @ + 1, ![c].in = @ + 1]
    /\ UNCHANGED <<backlog, owner>>

Receive(c) ==
    /\ wire[c].out > 0 /\ ~wire[c].rst
    /\ wire' = [wire EXCEPT ![c].got = @ + wire[c].out, ![c].out = 0]
    /\ UNCHANGED <<backlog, owner>>

Finish(c) ==
    /\ Usable(c) /\ ~wire[c].fin
    /\ wire' = [wire EXCEPT ![c].fin = TRUE]
    /\ UNCHANGED <<backlog, owner>>

Reset(c) ==
    /\ c \in Resetters /\ Usable(c)
    /\ wire' = [wire EXCEPT ![c].rst = TRUE]
    /\ UNCHANGED <<backlog, owner>>

ClientStep ==
    \E c \in Conns : Connect(c) \/ Send(c) \/ Receive(c) \/ Finish(c) \/ Reset(c)

------------------------------------------------------------------------------
\* What a client can tell of its connection, and the connections the server
\* has open, for the specification the servers implement.
Lines == [c \in Conns |-> [made |-> wire[c].made, sent |-> wire[c].sent,
                           back |-> wire[c].out + wire[c].got,
                           fin |-> wire[c].fin, rst |-> wire[c].rst]]
OpenConns == {owner[f] : f \in OpenFds}
==============================================================================
