------------------------------- MODULE EchoPoll -------------------------------
(***************************************************************************)
(* io/css_echo_poll.cpp: one thread serves every client with poll.  Entry  *)
(* 0 of clients is the listening socket.  fd[s] and revents[s] are the     *)
(* members of clients[s]; revents is whether POLLRDNORM or POLLERR is set. *)
(* pc is the system call the server is about to make, as in EchoSelect.    *)
(***************************************************************************)
EXTENDS Sockets

CONSTANT MAXFDSIZE   \* entries of clients, the listener's included

ASSUME EntryAssumption == MAXFDSIZE \in Nat \ {0}

VARIABLES
    pc, why,
    fd, revents, maxi,
    fdnum, i, len

serverVars == <<pc, why, fd, revents, maxi, fdnum, i, len>>
vars == <<kernelVars, serverVars>>

Slots == 0 .. MAXFDSIZE - 1

\* clients is a local array: only the fd members are initialised.
Init ==
    /\ KernelInit
    /\ pc = "poll" /\ why = "none"
    /\ fd = [s \in Slots |-> IF s = 0 THEN SvrFd ELSE -1]
    /\ revents \in [Slots -> BOOLEAN]
    /\ maxi = 0
    /\ fdnum = 0 /\ i = 0 /\ len = 0

------------------------------------------------------------------------------
Exit(call) ==
    /\ pc' = "exit" /\ why' = call
    /\ UNCHANGED <<kernelVars, fd, revents, maxi, fdnum, i, len>>

\* poll fills in revents of the first maxi+1 entries, 0 where fd is negative.
Ready == {s \in 0 .. maxi : fd[s] \in OpenFds \cup {SvrFd} /\ Readable(fd[s])}

Poll ==
    /\ pc = "poll" /\ Ready # {}
    /\ revents' = [s \in Slots |-> IF s <= maxi THEN s \in Ready ELSE revents[s]]
    /\ fdnum' = Cardinality(Ready)
    /\ pc' = IF 0 \in Ready THEN "accept" ELSE "scan"
    /\ i' = 0
    /\ UNCHANGED <<kernelVars, why, fd, maxi, len>>

FreeSlots == {s \in Slots : fd[s] = -1}

\* Mutant: maxi is not raised for the new client.
Raise_Omitted(s) == maxi

Raise(s) == Max({maxi, s})

AcceptFail == pc = "accept" /\ FreeFds = {} /\ Exit("accept")

Accept ==
    /\ pc = "accept" /\ FreeFds # {}
    /\ KAccept
    /\ IF FreeSlots = {}
       THEN UNCHANGED <<fd, maxi>>
       ELSE /\ fd' = [fd EXCEPT ![Min(FreeSlots)] = NewFd]
            /\ maxi' = Raise(Min(FreeSlots))
    /\ fdnum' = fdnum - 1
    /\ pc' = IF fdnum' <= 0 THEN "poll" ELSE "scan"
    /\ UNCHANGED <<why, revents, i, len>>

\* Mutant: the loop leaves out entry 0, the listener.
Pending_FromOne == {s \in Max({i, 1}) .. maxi : revents[s]}

\* Mutant: revents is not tested.
Pending_Untested == i .. maxi

\* The entries the loop over clients has still to read, in ascending order.
Pending == {s \in i .. maxi : revents[s]}

\* The loop after it: maxi drops to the last entry in use.
Shrink(entries, top) == Max({-1} \cup {s \in 0 .. top : entries[s] # -1})

EndPass ==
    /\ pc = "scan" /\ Pending = {}
    /\ maxi' = Shrink(fd, maxi)
    /\ pc' = "poll"
    /\ UNCHANGED <<kernelVars, why, fd, revents, fdnum, i, len>>

\* read on the listening socket fails with ENOTCONN.
ReadFail(s) ==
    /\ fd[s] \in OpenFds => ReadFails(owner[fd[s]])
    /\ Exit(IF fd[s] = SvrFd THEN "listen" ELSE "read")

\* Mutant: a read that does not fill the buffer is taken for the last one.
ReadEnd_Short(s) ==
    /\ fd[s] \in OpenFds /\ ~ReadFails(owner[fd[s]]) /\ ReadLen(owner[fd[s]]) < MAXLINE
    /\ KClose(fd[s])
    /\ fd' = [fd EXCEPT ![s] = -1]
    /\ i' = s + 1
    /\ UNCHANGED <<pc, why, revents, maxi, fdnum, len>>

ReadEnd(s) ==
    /\ fd[s] \in OpenFds /\ ReadEof(owner[fd[s]])
    /\ KClose(fd[s])
    /\ fd' = [fd EXCEPT ![s] = -1]
    /\ i' = s + 1
    /\ UNCHANGED <<pc, why, revents, maxi, fdnum, len>>

ReadData(s) ==
    /\ fd[s] \in OpenFds
    /\ LET c == owner[fd[s]] IN
           wire[c].in > 0 /\ len' = ReadLen(c) /\ KRead(c)
    /\ i' = s
    /\ pc' = "write"
    /\ UNCHANGED <<why, fd, revents, maxi, fdnum>>

ReadStep ==
    /\ pc = "scan" /\ Pending # {}
    /\ LET s == Min(Pending) IN ReadFail(s) \/ ReadEnd(s) \/ ReadData(s)

WriteFail == pc = "write" /\ WriteFails(owner[fd[i]]) /\ Exit("write")

Done(n) == n <= 0

WriteStep ==
    /\ pc = "write"
    /\ LET c == owner[fd[i]] IN
           ~WriteFails(c) /\ WriteFits(c, len) /\ KWrite(c, len)
    /\ fdnum' = fdnum - 1
    /\ len' = 0
    /\ i' = i + 1
    /\ IF Done(fdnum')
       THEN pc' = "poll" /\ maxi' = Shrink(fd, maxi)
       ELSE pc' = "scan" /\ UNCHANGED maxi
    /\ UNCHANGED <<why, fd, revents>>

ServerStep ==
    Poll \/ AcceptFail \/ Accept \/ ReadStep \/ EndPass \/ WriteFail \/ WriteStep

Next == ServerStep \/ (ClientStep /\ UNCHANGED serverVars)

Spec == Init /\ [][Next]_vars

------------------------------------------------------------------------------
Clients == {s \in Slots \ {0} : fd[s] # -1}

TypeOK ==
    /\ KernelTypeOK
    /\ pc \in {"poll", "accept", "scan", "write", "exit"}
    /\ why \in {"none", "accept", "listen", "read", "write"}
    /\ fd \in [Slots -> Fds \cup {SvrFd, -1}]
    /\ revents \in [Slots -> BOOLEAN]
    /\ maxi \in 0 .. MAXFDSIZE - 1
    /\ fdnum \in 0 .. MAXFDSIZE
    /\ i \in 0 .. MAXFDSIZE /\ len \in 0 .. MAXLINE

\* Entry 0 stays the listener's; every other entry in use holds an open
\* descriptor of its own that poll looks at (<= maxi).
EntriesAgree ==
    /\ TypeOK
    /\ fd[0] = SvrFd
    /\ \A s \in Clients : fd[s] \in OpenFds /\ s <= maxi
    /\ \A s, u \in Clients : fd[s] = fd[u] => s = u

\* The used entries the loop has not come to and poll reported.
Ahead == {s \in Clients : s >= i /\ s <= maxi /\ revents[s]}

\* Leaving the loop when fdnum reaches 0 skips no client reported ready, for a
\* pass that did not start with an accept (one that did never gets past the
\* listener's entry).
NoReadySkipped ==
    /\ pc \in {"scan", "write"} /\ ~revents[0] => Cardinality(Ahead) <= fdnum
    /\ pc = "poll" /\ ~revents[0] => Ahead = {}

\* The server never blocks in a read, although the entry of a client accepted
\* in this pass keeps the revents of an earlier user of the entry, or none at
\* all.
ReadsNeverBlock ==
    pc = "scan" /\ Pending # {} =>
        LET f == fd[Min(Pending)] IN f \in OpenFds => Arrived(owner[f])

\* The server exits for a client's reset, a full descriptor table, or a read of
\* the listener that only follows an accept; never for a read or a write on a
\* descriptor that is not open.
ExitHasCause ==
    pc = "exit" =>
        \/ why = "accept" /\ FreeFds = {}
        \/ why = "listen" /\ revents[0]
        \/ why \in {"read", "write"} /\ \E c \in Conns : wire[c].rst

\* "client fd array" (css_echo_poll.cpp:25): what the loop over clients reads is
\* a client, never the listening socket.
ReadsClientsOnly == pc = "scan" /\ Pending # {} => fd[Min(Pending)] # SvrFd

\* The server implements EchoService: it admits connections in order, gives the
\* bytes it takes from a client back to that client before it does anything
\* else, and closes a connection only at end of file with every byte echoed; a
\* descriptor that is used again leads no byte and no close to another client.
InHand == IF pc = "write" THEN [conn |-> owner[fd[i]], n |-> len]
          ELSE [conn |-> NULL, n |-> 0]
Service == INSTANCE EchoService WITH
    queue <- backlog, open <- OpenConns, line <- Lines,
    hand <- InHand, up <- pc # "exit"
ImplementsEcho == Service!Spec
==============================================================================
