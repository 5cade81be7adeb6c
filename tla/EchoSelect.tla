------------------------------ MODULE EchoSelect ------------------------------
(***************************************************************************)
(* io/css_echo_select.cpp: one thread serves every client with select.     *)
(* pc is the system call the server is about to make:                      *)
(*   select   at the head of while(1)   accept   the listener was reported *)
(*   scan     in the client loop, at i  write    the echo of clifds[i]     *)
(*   exit     print_error ended the process                                *)
(* The code between two system calls touches only the process's own        *)
(* memory and belongs to the action of the call before it.                 *)
(***************************************************************************)
EXTENDS Sockets

CONSTANTS
    MAXFDSIZE,   \* clients the server has room for
    HoleBit      \* the bit FD_ISSET(-1, .) tests: fd 63 on the x86-64 -O0 build

ASSUME SlotAssumption == MAXFDSIZE \in Nat \ {0}

VARIABLES
    pc, why,           \* why: the call that made the process exit
    allset, rset,      \* fd_sets
    maxfd, clifds, maxi,
    fdnum, i, len

serverVars == <<pc, why, allset, rset, maxfd, clifds, maxi, fdnum, i, len>>
vars == <<kernelVars, serverVars>>

Slots == 0 .. MAXFDSIZE - 1
AllFds == Fds \cup {SvrFd}

Init ==
    /\ KernelInit
    /\ pc = "select" /\ why = "none"
    /\ allset = {SvrFd} /\ rset = {}
    /\ maxfd = SvrFd
    /\ clifds = [s \in Slots |-> -1] /\ maxi = -1
    /\ fdnum = 0 /\ i = 0 /\ len = 0

------------------------------------------------------------------------------
\* print_error: print and exit; the kernel closes every descriptor, which no
\* property looks at any more.
Exit(call) ==
    /\ pc' = "exit" /\ why' = call
    /\ UNCHANGED <<kernelVars, allset, rset, maxfd, clifds, maxi, fdnum, i, len>>

\* select looks at the descriptors below maxfd + 1 only.
Watched == {f \in allset : f <= maxfd}

\* A closed descriptor in the set makes select fail with EBADF.
Select ==
    /\ pc = "select"
    /\ IF Watched \ {SvrFd} \subseteq OpenFds
       THEN /\ \E f \in Watched : Readable(f)
            /\ rset' = {f \in Watched : Readable(f)}
            /\ fdnum' = Cardinality(rset')
            /\ pc' = IF SvrFd \in rset' THEN "accept" ELSE "scan"
            /\ i' = 0
            /\ UNCHANGED <<kernelVars, why, allset, maxfd, clifds, maxi, len>>
       ELSE Exit("select")

FreeSlots == {s \in Slots : clifds[s] = -1}

AcceptFail == pc = "accept" /\ FreeFds = {} /\ Exit("accept")

Accept ==
    /\ pc = "accept" /\ FreeFds # {}
    /\ KAccept
    /\ allset' = allset \cup {NewFd}
    /\ maxfd' = Max({maxfd, NewFd})
    /\ IF FreeSlots = {}
       THEN UNCHANGED <<clifds, maxi>>
       ELSE /\ clifds' = [clifds EXCEPT ![Min(FreeSlots)] = NewFd]
            /\ maxi' = Max({maxi, Min(FreeSlots)})
    /\ fdnum' = fdnum - 1
    /\ pc' = IF fdnum' <= 0 THEN "select" ELSE "scan"
    /\ UNCHANGED <<why, rset, i, len>>

\* Mutant: allset is tested in place of the set select filled in.
FD_ISSET_Allset(s) == clifds[s] \in allset

\* FD_ISSET(clifds[s], &rset), for a free slot too.
FD_ISSET(s) == IF clifds[s] = -1 THEN HoleBit \in rset ELSE clifds[s] \in rset

\* The slots the client loop has still to read, in ascending order.
Pending == {s \in i .. maxi : FD_ISSET(s)}

\* Mutant: maxi follows the number of slots in use.
Shrink_Count(slots, top) == Cardinality({s \in 0 .. top : slots[s] # -1}) - 1

\* The loop after the client loop: maxi drops to the last slot in use.
Shrink(slots, top) == Max({-1} \cup {s \in 0 .. top : slots[s] # -1})

Opened(s) == clifds[s] # -1 /\ owner[clifds[s]] # NULL

EndPass ==
    /\ pc = "scan" /\ Pending = {}
    /\ maxi' = Shrink(clifds, maxi)
    /\ pc' = "select"
    /\ UNCHANGED <<kernelVars, why, allset, rset, maxfd, clifds, fdnum, i, len>>

\* read of the next ready slot s; a free one is read as descriptor -1.
ReadFail(s) ==
    /\ Opened(s) => ReadFails(owner[clifds[s]])
    /\ Exit("read")

\* Mutant: FD_CLR is missing.
FD_CLR_Omitted(f) == allset

FD_CLR(f) == allset \ {f}

Lower(f) == IF f = maxfd THEN maxfd - 1 ELSE maxfd

ReadEnd(s) ==
    /\ Opened(s) /\ ReadEof(owner[clifds[s]])
    /\ KClose(clifds[s])
    /\ allset' = FD_CLR(clifds[s])
    /\ maxfd' = Lower(clifds[s])
    /\ clifds' = [clifds EXCEPT ![s] = -1]
    /\ i' = s + 1
    /\ UNCHANGED <<pc, why, rset, maxi, fdnum, len>>

ReadData(s) ==
    /\ Opened(s)
    /\ LET c == owner[clifds[s]] IN
           wire[c].in > 0 /\ len' = ReadLen(c) /\ KRead(c)
    /\ i' = s
    /\ pc' = "write"
    /\ UNCHANGED <<why, allset, rset, maxfd, clifds, maxi, fdnum>>

ReadStep ==
    /\ pc = "scan" /\ Pending # {}
    /\ LET s == Min(Pending) IN ReadFail(s) \/ ReadEnd(s) \/ ReadData(s)

WriteFail == pc = "write" /\ WriteFails(owner[clifds[i]]) /\ Exit("write")

\* Mutant: a served client is counted twice.
Count_Twice(n) == n - 2

Count(n) == n - 1

\* Mutant: the whole buffer is written, not what was read into it.
Written_Whole(n) == MAXLINE

\* The bytes handed to write.
Written(n) == n

WriteStep ==
    /\ pc = "write"
    /\ LET c == owner[clifds[i]] IN
           ~WriteFails(c) /\ WriteFits(c, Written(len)) /\ KWrite(c, Written(len))
    /\ fdnum' = Count(fdnum)
    /\ len' = 0
    /\ i' = i + 1
    /\ IF fdnum' <= 0
       THEN pc' = "select" /\ maxi' = Shrink(clifds, maxi)
       ELSE pc' = "scan" /\ UNCHANGED maxi
    /\ UNCHANGED <<why, allset, rset, maxfd, clifds>>

ServerStep ==
    Select \/ AcceptFail \/ Accept \/ ReadStep \/ EndPass
    \/ WriteFail \/ WriteStep

Next == ServerStep \/ (ClientStep /\ UNCHANGED serverVars)

Spec == Init /\ [][Next]_vars

\* The kernel schedules the server whenever its call can return.
Fairness == WF_vars(ServerStep)
FairSpec == Spec /\ Fairness
                 /\ \A c \in Conns : WF_vars(Receive(c) /\ UNCHANGED serverVars)

------------------------------------------------------------------------------
Used == {s \in Slots : clifds[s] # -1}
Serves(f) == \E s \in Used : clifds[s] = f

TypeOK ==
    /\ KernelTypeOK
    /\ pc \in {"select", "accept", "scan", "write", "exit"}
    /\ why \in {"none", "select", "accept", "read", "write"}
    /\ allset \subseteq AllFds /\ rset \subseteq AllFds
    /\ maxfd \in SvrFd .. MaxFd
    /\ clifds \in [Slots -> Fds \cup {-1}]
    /\ maxi \in -1 .. MAXFDSIZE - 1
    /\ fdnum \in 0 .. Cardinality(AllFds)
    /\ i \in 0 .. MAXFDSIZE /\ len \in 0 .. MAXLINE

\* The tables of the server agree: every client slot holds a descriptor of its
\* own that is open and is reached by the client loop (<= maxi), and select is
\* given exactly the open descriptors: maxfd-- on the close of the highest one
\* never hides another, however many below it are already closed.
TablesAgree ==
    /\ TypeOK
    /\ \A s \in Used : clifds[s] \in OpenFds /\ s <= maxi
    /\ \A s, u \in Used : clifds[s] = clifds[u] => s = u
    /\ allset = OpenFds \cup {SvrFd} /\ Watched = allset

\* The used slots the client loop has not come to and select reported.
Ahead == {s \in Used : s >= i /\ clifds[s] \in rset}

\* Leaving the client loop as soon as fdnum reaches 0 skips no ready client:
\* fdnum is at least the number of ready slots still ahead, and there is none
\* when the pass is over.  (A close does not count, so fdnum may be too large.)
NoReadySkipped ==
    /\ pc \in {"scan", "write"} => Cardinality(Ahead) <= fdnum
    /\ pc = "select" => Ahead = {}

\* The client loop tests the free slot s and takes it for ready, because
\* descriptor HoleBit was reported in this pass.
HoleRead(s) == s \in i .. maxi /\ clifds[s] = -1 /\ HoleBit \in rset

\* The server ends only by a client's reset, by a full descriptor table, or, as
\* FD_ISSET(-1, &rset) is the bit of another descriptor (css_echo_select.cpp:98),
\* by reading a free slot below maxi in a pass that reported that descriptor;
\* never by a select, or by a read or write of a descriptor it has closed.
ExitHasCause ==
    pc = "exit" =>
        \/ why = "accept" /\ FreeFds = {}
        \/ why \in {"read", "write"} /\ \E c \in Conns : wire[c].rst
        \/ why = "read" /\ \E s \in Slots : HoleRead(s)

\* "client fd array" (css_echo_select.cpp:49): what the loop over clients reads
\* is a client, never a free slot.
ReadsClientsOnly == pc = "scan" /\ Pending # {} => clifds[Min(Pending)] # -1

\* Every byte a served client sends is read and its echo written, and when the
\* client half-closes its descriptor is closed, or the server exits: neither a
\* close that leaves fdnum too large, nor a slot freed below maxi, nor a
\* connection without a slot keeps the loop from coming to a ready client.
Served ==
    \A f \in Fds : Serves(f) /\ Arrived(owner[f])
        ~> \/ pc = "exit"
           \/ ~Serves(f)
           \/ ~Arrived(owner[f]) /\ pc = "select"

\* "only %d connect allowed" (css_echo_select.cpp:88): the process holds no
\* more than MAXFDSIZE connections.
OnlyMAXFDSIZEConnects == Cardinality(OpenFds) <= MAXFDSIZE

\* The server implements EchoService: it admits connections in order, gives the
\* bytes it takes from a client back to that client before it does anything
\* else, and closes a connection only at end of file with every byte echoed; a
\* descriptor that is used again leads no byte and no close to another client.
InHand == IF pc = "write" THEN [conn |-> owner[clifds[i]], n |-> len]
          ELSE [conn |-> NULL, n |-> 0]
Service == INSTANCE EchoService WITH
    queue <- backlog, open <- OpenConns, line <- Lines,
    hand <- InHand, up <- pc # "exit"
ImplementsEcho == Service!Spec
==============================================================================
