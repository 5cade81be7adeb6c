---------------------------- MODULE EchoEpollProofs ----------------------------
(***************************************************************************)
(* css_echo_epoll.cpp for any number of connections, descriptors, events   *)
(* per batch and bytes: no event is stale when it is handled, no byte is   *)
(* lost in the server, every exit has a cause, and the server implements   *)
(* EchoService.                                                            *)
(***************************************************************************)
EXTENDS EchoEpoll, TLAPS, FiniteSetTheorems, SequenceTheorems, WellFoundedInduction

EventType == [fd : Fds \cup {SvrFd}, conn : Conns \cup {NULL}]

ServerTypeOK ==
    /\ interest \subseteq Fds \cup {SvrFd}
    /\ rdlist \in Seq(Fds \cup {SvrFd})
    /\ pc \in {"wait", "batch", "write", "exit"}
    /\ why \in {"none", "accept", "read", "close", "write"}
    /\ events \in Seq(EventType)
    /\ Len(events) <= MAX_EVENTS
    /\ i \in 1 .. MAX_EVENTS /\ len \in 0 .. MAXLINE

\* No byte comes from nowhere; those held when the process exits are lost.
WireInv ==
    \A c \in Conns : wire[c].in + Held(c) + wire[c].out + wire[c].got <= wire[c].sent

\* Event k is about the connection that its descriptor refers to now.
Fresh(k) == events[k].fd # SvrFd => /\ events[k].fd \in OpenFds
                                    /\ owner[events[k].fd] = events[k].conn

\* A batch names every descriptor once, and what is still to be handled is fresh.
BatchInv ==
    /\ \A k, l \in 1 .. Len(events) : events[k].fd = events[l].fd => k = l
    /\ pc # "wait" => i <= Len(events) /\ \A k \in i .. Len(events) : Fresh(k)
    /\ pc = "write" => f_i # SvrFd

Inv ==
    /\ KernelTypeOK /\ ServerTypeOK /\ WireInv /\ EchoWhole /\ BatchInv
    /\ interest = OpenFds \cup {SvrFd}

------------------------------------------------------------------------------
\* A set of naturals has a least element.
LEMMA LeastOf ==
    ASSUME NEW S \in SUBSET Nat, S # {}
    PROVE  Min(S) \in S /\ \A g \in S : Min(S) <= g
<1>1. PICK f \in S : \A g \in S : <<g, f>> \notin OpToRel(<, Nat)
    BY NatLessThanWellFounded, WFMin
<1>2. \A g \in S : ~(g < f)
    BY <1>1 DEF OpToRel
<1>3. \A g \in S : f <= g
    BY <1>2
<1> QED
    BY <1>3 DEF Min

\* The smaller of two integers.
LEMMA Smaller ==
    ASSUME NEW a \in Int, NEW b \in Int
    PROVE  Min({a, b}) = IF a <= b THEN a ELSE b
<1> DEFINE m == IF a <= b THEN a ELSE b
<1>1. m \in {a, b} /\ \A y \in {a, b} : m <= y
    OBVIOUS
<1>2. \A x \in {a, b} : (\A y \in {a, b} : x <= y) => x = m
    OBVIOUS
<1> QED
    BY <1>1, <1>2 DEF Min

\* The descriptors are naturals, and none is the listener's or -1.
LEMMA FdFacts ==
    SvrFd \notin Fds /\ -1 \notin Fds /\ Fds \subseteq Nat /\ SvrFd \in Nat /\ SvrFd # -1
<1>1. SvrFd \notin Fds /\ -1 \notin Fds /\ \A f \in Fds : f \in Nat
    BY FdAssumption DEF Fds
<1> QED
    BY <1>1, FdAssumption

\* The counts the kernel keeps for a connection.
LEMMA WireType ==
    ASSUME NEW w \in Wires
    PROVE  /\ w.sent \in Nat /\ w.in \in Nat /\ w.out \in Nat /\ w.got \in Nat
           /\ w.sent <= MaxBytes /\ w.in <= MaxBytes /\ w.got <= MaxBytes /\ w.out <= Window
           /\ MaxBytes \in Nat /\ Window \in Nat /\ MAXLINE \in Nat /\ MAXLINE > 0
    BY BoundAssumption, WindowAssumption DEF Wires

\* Only the connection c is touched.
LEMMA OneWire ==
    ASSUME KernelTypeOK, NEW c \in Conns, NEW v \in Wires,
           wire' = [wire EXCEPT ![c] = v], UNCHANGED <<backlog, owner>>
    PROVE  /\ KernelTypeOK' /\ OpenFds' = OpenFds
           /\ wire'[c] = v /\ \A d \in Conns : d # c => wire'[d] = wire[d]
<1>1. wire' \in [Conns -> Wires] /\ wire'[c] = v /\ \A d \in Conns : d # c => wire'[d] = wire[d]
    BY DEF KernelTypeOK
<1> QED
    BY <1>1 DEF KernelTypeOK, OpenFds

\* What a client adds to one count of its connection it takes from another, or
\* it is a byte more that it sent.
Balanced(c) ==
    wire'[c].in + wire'[c].out + wire'[c].got + wire[c].sent
        = wire[c].in + wire[c].out + wire[c].got + wire'[c].sent

\* A client leaves the descriptors alone, makes no byte appear in the kernel
\* without sending it and takes back no reset.
LEMMA ClientKeeps ==
    ASSUME KernelTypeOK, ClientStep,
           \A c \in Conns : wire[c].in + wire[c].out + wire[c].got <= wire[c].sent
    PROVE  /\ KernelTypeOK' /\ owner' = owner
           /\ \A c \in Conns : Balanced(c) /\ (wire[c].rst => wire'[c].rst)
<1>1. PICK c \in Conns : Connect(c) \/ Send(c) \/ Receive(c) \/ Finish(c) \/ Reset(c)
    BY DEF ClientStep
<1> DEFINE w == wire[c]
<1>2. wire \in [Conns -> Wires] /\ w \in Wires
    BY DEF KernelTypeOK
<1>3. /\ w.in + w.out + w.got <= w.sent
      /\ w.sent \in Nat /\ w.in \in Nat /\ w.out \in Nat /\ w.got \in Nat
      /\ w.sent <= MaxBytes /\ w.out <= Window /\ MaxBytes \in Nat /\ Window \in Nat
    BY <1>2, WireType
<1>4. backlog' \in Seq(Conns) /\ owner' = owner
    <2>1. CASE Connect(c)
        BY <2>1 DEF KernelTypeOK, Connect
    <2> QED
        BY <1>1, <2>1 DEF KernelTypeOK, Send, Receive, Finish, Reset
<1>5. ASSUME NEW v \in Wires, wire' = [wire EXCEPT ![c] = v],
             v.in + v.out + v.got + w.sent = w.in + w.out + w.got + v.sent, w.rst => v.rst
      PROVE  /\ KernelTypeOK' /\ owner' = owner
             /\ \A d \in Conns : Balanced(d) /\ (wire[d].rst => wire'[d].rst)
    <2>1. wire' \in [Conns -> Wires] /\ \A d \in Conns : wire'[d] = IF d = c THEN v ELSE wire[d]
        BY <1>2, <1>5
    <2>2. \A d \in Conns : Balanced(d)
        BY <1>5, <2>1 DEF Balanced
    <2> QED
        BY <1>4, <1>5, <2>1, <2>2 DEF KernelTypeOK
<1>6. CASE Send(c)
    <2>1. wire' = [wire EXCEPT ![c] = [w EXCEPT !.sent = @ + 1, !.in = @ + 1]] /\ w.sent < MaxBytes
        BY <1>6, <1>2 DEF Send
    <2>2. w.in + 1 \in 0 .. MaxBytes /\ w.sent + 1 \in 0 .. MaxBytes
        BY <1>3, <2>1
    <2> DEFINE v == [w EXCEPT !.sent = @ + 1, !.in = @ + 1]
    <2>3. /\ v \in Wires /\ v.rst = w.rst
          /\ v.in = w.in + 1 /\ v.sent = w.sent + 1 /\ v.out = w.out /\ v.got = w.got
        BY <1>2, <2>2 DEF Wires
    <2>4. wire' = [wire EXCEPT ![c] = v]
        BY <2>1
    <2> HIDE DEF v
    <2>5. v.in + v.out + v.got + w.sent = w.in + w.out + w.got + v.sent
        BY <1>3, <2>3
    <2> QED
        BY <1>5, <2>3, <2>4, <2>5
<1>7. CASE Receive(c)
    <2>1. wire' = [wire EXCEPT ![c] = [w EXCEPT !.got = @ + w.out, !.out = 0]]
        BY <1>7, <1>2 DEF Receive
    <2>2. w.got + w.out \in 0 .. MaxBytes /\ 0 \in 0 .. Window
        BY <1>3
    <2> DEFINE v == [w EXCEPT !.got = @ + w.out, !.out = 0]
    <2>3. /\ v \in Wires /\ v.rst = w.rst
          /\ v.in = w.in /\ v.sent = w.sent /\ v.out = 0 /\ v.got = w.got + w.out
        BY <1>2, <2>2 DEF Wires
    <2>4. wire' = [wire EXCEPT ![c] = v]
        BY <2>1
    <2> HIDE DEF v
    <2>5. v.in + v.out + v.got + w.sent = w.in + w.out + w.got + v.sent
        BY <1>3, <2>3
    <2> QED
        BY <1>5, <2>3, <2>4, <2>5
<1>8. CASE Connect(c) \/ Finish(c) \/ Reset(c)
    <2>1. PICK v \in {[w EXCEPT !.made = TRUE], [w EXCEPT !.fin = TRUE], [w EXCEPT !.rst = TRUE]} :
             wire' = [wire EXCEPT ![c] = v]
        BY <1>8, <1>2 DEF Connect, Finish, Reset
    <2>2. v \in Wires /\ v.in = w.in /\ v.sent = w.sent /\ v.out = w.out /\ v.got = w.got
        BY <1>2 DEF Wires
    <2>3. w.rst => v.rst
        BY <1>2 DEF Wires
    <2> QED
        BY <1>3, <1>5, <2>1, <2>2, <2>3
<1> QED
    BY <1>1, <1>6, <1>7, <1>8

\* accept returns a descriptor that was closed.
LEMMA NewFdFree ==
    ASSUME FreeFds # {}
    PROVE  NewFd \in Fds /\ NewFd \notin OpenFds
<1>1. FreeFds \in SUBSET Nat
    BY FdFacts DEF FreeFds
<1>2. NewFd \in FreeFds
    BY <1>1, LeastOf DEF NewFd
<1> QED
    BY <1>2 DEF FreeFds

\* accept gives the first of the backlog a descriptor that was closed.
LEMMA KAcceptKeeps ==
    ASSUME KernelTypeOK, KAccept, FreeFds # {}
    PROVE  /\ KernelTypeOK' /\ OpenFds' = OpenFds \cup {NewFd} /\ wire' = wire
           /\ NewFd \in Fds /\ NewFd \notin OpenFds
           /\ \A f \in OpenFds : owner'[f] = owner[f]
<1>1. /\ backlog # <<>> /\ owner' = [owner EXCEPT ![NewFd] = Head(backlog)]
      /\ backlog' = Tail(backlog) /\ wire' = wire
    BY DEF KAccept
<1>2. NewFd \in Fds /\ NewFd \notin OpenFds
    BY NewFdFree
<1>3. Head(backlog) \in Conns /\ backlog' \in Seq(Conns)
    BY <1>1, HeadTailProperties DEF KernelTypeOK
<1>4. Head(backlog) # NULL
    BY <1>3, ConnAssumption
<1> QED
    BY <1>1, <1>2, <1>3, <1>4 DEF KernelTypeOK, OpenFds

\* close leaves every other descriptor alone.
LEMMA KCloseKeeps ==
    ASSUME KernelTypeOK, NEW f \in OpenFds, KClose(f)
    PROVE  /\ KernelTypeOK' /\ OpenFds' = OpenFds \ {f} /\ wire' = wire
           /\ \A g \in OpenFds' : owner'[g] = owner[g]
    BY DEF KClose, KernelTypeOK, OpenFds

\* read takes at most a buffer of what waits on one connection.
LEMMA KReadKeeps ==
    ASSUME KernelTypeOK, NEW c \in Conns, wire[c].in > 0, KRead(c)
    PROVE  /\ KernelTypeOK' /\ owner' = owner /\ OpenFds' = OpenFds
           /\ ReadLen(c) \in 1 .. MAXLINE
           /\ \A d \in Conns : d # c => wire'[d] = wire[d]
           /\ wire'[c].in = wire[c].in - ReadLen(c) /\ wire'[c].out = wire[c].out
           /\ wire'[c].got = wire[c].got /\ wire'[c].sent = wire[c].sent /\ wire'[c].rst = wire[c].rst
<1> DEFINE w == wire[c]
<1>1. w \in Wires
    BY DEF KernelTypeOK
<1>2. w.in \in Nat /\ w.in <= MaxBytes /\ MaxBytes \in Nat /\ MAXLINE \in Nat /\ MAXLINE > 0
    BY <1>1, WireType
<1>3. ReadLen(c) = IF w.in <= MAXLINE THEN w.in ELSE MAXLINE
    <2>1. w.in \in Int /\ MAXLINE \in Int
        BY <1>2
    <2> QED
        BY <2>1, Smaller DEF ReadLen
<1>4. ReadLen(c) \in 1 .. MAXLINE /\ w.in - ReadLen(c) \in 0 .. MaxBytes
    BY <1>2, <1>3
<1> DEFINE v == [w EXCEPT !.in = @ - ReadLen(c)]
<1>5. /\ v \in Wires /\ v.in = w.in - ReadLen(c) /\ v.out = w.out /\ v.got = w.got
      /\ v.sent = w.sent /\ v.rst = w.rst
    BY <1>1, <1>4 DEF Wires
<1>6. wire' = [wire EXCEPT ![c] = v] /\ UNCHANGED <<backlog, owner>>
    BY DEF KRead
<1> HIDE DEF v
<1>7. KernelTypeOK' /\ OpenFds' = OpenFds
      /\ wire'[c] = v /\ \A d \in Conns : d # c => wire'[d] = wire[d]
    BY <1>5, <1>6, OneWire
<1> QED
    BY <1>4, <1>5, <1>6, <1>7

\* write adds to what waits for the client, within the window.
LEMMA KWriteKeeps ==
    ASSUME KernelTypeOK, NEW c \in Conns, NEW n \in Nat, WriteFits(c, n), KWrite(c, n)
    PROVE  /\ KernelTypeOK' /\ owner' = owner /\ OpenFds' = OpenFds
           /\ \A d \in Conns : d # c => wire'[d] = wire[d]
           /\ wire'[c].in = wire[c].in /\ wire'[c].out = wire[c].out + n
           /\ wire'[c].got = wire[c].got /\ wire'[c].sent = wire[c].sent
           /\ wire'[c].rst = wire[c].rst /\ wire'[c].fin = wire[c].fin
<1> DEFINE w == wire[c]
<1>1. w \in Wires
    BY DEF KernelTypeOK
<1>2. w.out + n \in 0 .. Window
    BY <1>1, WireType DEF WriteFits
<1> DEFINE v == [w EXCEPT !.out = @ + n]
<1>3. /\ v \in Wires /\ v.in = w.in /\ v.out = w.out + n /\ v.got = w.got
      /\ v.sent = w.sent /\ v.rst = w.rst /\ v.fin = w.fin
    BY <1>1, <1>2 DEF Wires
<1>4. wire' = [wire EXCEPT ![c] = v] /\ UNCHANGED <<backlog, owner>>
    BY DEF KWrite
<1> HIDE DEF v
<1>5. KernelTypeOK' /\ OpenFds' = OpenFds
      /\ wire'[c] = v /\ \A d \in Conns : d # c => wire'[d] = wire[d]
    BY <1>3, <1>4, OneWire
<1> QED
    BY <1>3, <1>4, <1>5

------------------------------------------------------------------------------
\* What the server holds is counted in bytes.
LEMMA HeldType ==
    ASSUME ServerTypeOK, NEW c
    PROVE  Held(c) \in Nat
    BY WindowAssumption DEF Held, ServerTypeOK

\* An open descriptor refers to a connection.
LEMMA OwnerType ==
    ASSUME KernelTypeOK, NEW f \in OpenFds
    PROVE  f \in Fds /\ owner[f] \in Conns /\ f # SvrFd
    BY FdFacts DEF KernelTypeOK, OpenFds

\* The first occurrence of an element can be taken out of a sequence.
LEMMA RemoveFirstType ==
    ASSUME NEW S, NEW q \in Seq(S), NEW e
    PROVE  RemoveFirst(q, e) \in Seq(S)
<1> DEFINE I == {k \in 1 .. Len(q) : q[k] = e}
<1>1. CASE I = {}
    BY <1>1 DEF RemoveFirst
<1>2. CASE I # {}
    <2>1. Len(q) \in Nat /\ I \in SUBSET Nat
        BY LenProperties
    <2>2. Min(I) \in 1 .. Len(q)
        BY <1>2, <2>1, LeastOf
    <2>3. RemoveFirst(q, e) = RemoveAt(q, Min(I))
        BY <1>2 DEF RemoveFirst, SelectInSeq
    <2> HIDE DEF I
    <2>4. \A k \in 1 .. Len(q) : q[k] \in S
        BY ElementOfSeq
    <2>5. \A k \in 1 .. Min(I) - 1 : q[k] \in S
        BY <2>1, <2>2, <2>4
    <2>6. \A k \in Min(I) + 1 .. Len(q) : q[k] \in S
        BY <2>1, <2>2, <2>4
    <2>7. SubSeq(q, 1, Min(I) - 1) \in Seq(S) /\ SubSeq(q, Min(I) + 1, Len(q)) \in Seq(S)
        BY <2>1, <2>2, <2>5, <2>6, SubSeqProperties
    <2> QED
        BY <2>3, <2>7, ConcatProperties DEF RemoveAt
<1> QED
    BY <1>1, <1>2

\* The event at hand.
LEMMA AtEvent ==
    ASSUME Inv, pc \in {"batch", "write"}
    PROVE  /\ Len(events) \in Nat /\ i \in 1 .. Len(events) /\ f_i \in Fds \cup {SvrFd}
           /\ f_i # SvrFd => f_i \in OpenFds /\ owner[f_i] \in Conns
           /\ \A k \in i .. Len(events) : k \in 1 .. Len(events) /\ Fresh(k)
           /\ \A k \in i + 1 .. Len(events) : events[k].fd # f_i
<1>1. Len(events) \in Nat /\ i \in Nat /\ i >= 1 /\ i <= Len(events)
    BY LenProperties, EpollAssumption DEF Inv, ServerTypeOK, BatchInv
<1>2. /\ i \in 1 .. Len(events) /\ i \in i .. Len(events)
      /\ \A k \in i .. Len(events) : k \in 1 .. Len(events)
      /\ \A k \in i + 1 .. Len(events) : k \in 1 .. Len(events) /\ k # i
    BY <1>1
<1>3. \A k \in i .. Len(events) : Fresh(k)
    BY DEF Inv, BatchInv
<1>4. f_i \in Fds \cup {SvrFd}
    <2>1. events[i] \in EventType
        BY <1>2, ElementOfSeq DEF Inv, ServerTypeOK
    <2> QED
        BY <2>1 DEF f_i, EventType
<1>5. f_i # SvrFd => f_i \in OpenFds /\ owner[f_i] \in Conns
    BY <1>2, <1>3, OwnerType DEF Fresh, f_i, Inv
<1>6. \A k \in i + 1 .. Len(events) : events[k].fd # f_i
    BY <1>2 DEF Inv, BatchInv, f_i
<1> QED
    BY <1>1, <1>2, <1>3, <1>4, <1>5, <1>6

\* The loop goes on with events that are still fresh.
LEMMA ContinueKeeps ==
    ASSUME Inv, pc \in {"batch", "write"}, Continue, \A k \in i + 1 .. Len(events) :
           events[k].fd # SvrFd => /\ events[k].fd \in OpenFds'
                                   /\ owner'[events[k].fd] = events[k].conn
    PROVE  /\ pc' \in {"batch", "wait"} /\ BatchInv'
           /\ events' \in Seq(EventType) /\ Len(events') <= MAX_EVENTS /\ i' \in 1 .. MAX_EVENTS
<1>1. Len(events) \in Nat /\ i \in 1 .. Len(events)
    BY AtEvent
<1>2. Len(events) <= MAX_EVENTS /\ MAX_EVENTS \in Nat \ {0} /\ events \in Seq(EventType)
    BY EpollAssumption DEF Inv, ServerTypeOK
<1>3. CASE i + 1 <= Len(events)
    <2>1. i' = i + 1 /\ pc' = "batch" /\ events' = events
        BY <1>3 DEF Continue, NextEvent
    <2>2. i' \in 1 .. MAX_EVENTS
        BY <1>1, <1>2, <1>3, <2>1
    <2>3. \A k \in i' .. Len(events') : Fresh(k)'
        BY <2>1 DEF Fresh
    <2>4. BatchInv'
        BY <1>3, <2>1, <2>3 DEF Inv, BatchInv
    <2> QED
        BY <1>2, <2>1, <2>2, <2>4
<1>4. CASE ~(i + 1 <= Len(events))
    <2>1. i' = 1 /\ pc' = "wait" /\ events' = <<>>
        BY <1>4 DEF Continue, NextEvent
    <2>2. Len(events') = 0 /\ events' \in Seq(EventType)
        BY <2>1, EmptySeq
    <2>3. BatchInv'
        BY <2>1, <2>2 DEF BatchInv
    <2> QED
        BY <1>2, <2>1, <2>2, <2>3
<1> QED
    BY <1>3, <1>4

\* print_error disturbs nothing.
LEMMA ExitKeeps ==
    ASSUME Inv, pc # "wait", NEW call \in {"accept", "read", "write"}, Exit(call)
    PROVE  Inv'
<1>1. UNCHANGED <<kernelVars, epollVars, events, i, len>> /\ pc' = "exit" /\ why' = call
    BY DEF Exit
<1>2. KernelTypeOK' /\ ServerTypeOK'
    BY <1>1 DEF Inv, KernelTypeOK, ServerTypeOK, kernelVars, epollVars
<1>3. WireInv' /\ EchoWhole'
    <2>1. ASSUME NEW c \in Conns
          PROVE  (wire[c].in + Held(c) + wire[c].out + wire[c].got <= wire[c].sent)'
        <3>1. Held(c)' = 0 /\ wire'[c] = wire[c]
            BY <1>1 DEF Held, kernelVars
        <3>2. wire[c] \in Wires /\ Held(c) \in Nat
            BY HeldType DEF Inv, KernelTypeOK
        <3>3. wire[c].in + Held(c) + wire[c].out + wire[c].got <= wire[c].sent
            BY DEF Inv, WireInv
        <3> QED
            BY <3>1, <3>2, <3>3, WireType
    <2> QED
        BY <1>1, <2>1 DEF WireInv, EchoWhole
<1>4. OpenFds' = OpenFds /\ interest' = interest
    BY <1>1 DEF OpenFds, kernelVars, epollVars
<1>5. BatchInv'
    BY <1>1, <1>4 DEF Inv, BatchInv, Fresh, kernelVars
<1> QED
    BY <1>2, <1>3, <1>4, <1>5 DEF Inv

\* The clients act between the calls of the server.
LEMMA ClientsKeepInv ==
    ASSUME Inv, ClientStep, UNCHANGED <<epollVars, serverVars>>
    PROVE  Inv' /\ owner' = owner /\ \A c \in Conns : wire[c].rst => wire'[c].rst
<1>1. ASSUME NEW c \in Conns
      PROVE  /\ wire[c].in \in Nat /\ wire[c].out \in Nat /\ wire[c].got \in Nat
             /\ wire[c].sent \in Nat /\ Held(c) \in Nat
             /\ wire[c].in + Held(c) + wire[c].out + wire[c].got <= wire[c].sent
    <2>1. wire[c] \in Wires
        BY DEF Inv, KernelTypeOK
    <2> QED
        BY <2>1, HeldType, WireType DEF Inv, WireInv
<1>2. \A c \in Conns : wire[c].in + wire[c].out + wire[c].got <= wire[c].sent
    <2> SUFFICES ASSUME NEW c \in Conns PROVE wire[c].in + wire[c].out + wire[c].got <= wire[c].sent
        OBVIOUS
    <2> QED
        BY <1>1
<1>3. /\ KernelTypeOK' /\ owner' = owner
      /\ \A c \in Conns : Balanced(c) /\ (wire[c].rst => wire'[c].rst)
    BY <1>2, ClientKeeps DEF Inv
<1>4. \A c \in Conns : Held(c)' = Held(c)
    BY <1>3 DEF Held, f_i, serverVars
<1>5. ASSUME NEW c \in Conns
      PROVE  /\ (wire[c].in + Held(c) + wire[c].out + wire[c].got <= wire[c].sent)'
             /\ wire[c].sent = wire[c].in + Held(c) + wire[c].out + wire[c].got
                  => (wire[c].sent = wire[c].in + Held(c) + wire[c].out + wire[c].got)'
    <2>1. wire'[c] \in Wires
        BY <1>3 DEF KernelTypeOK
    <2>2. /\ wire'[c].in \in Nat /\ wire'[c].out \in Nat /\ wire'[c].got \in Nat
          /\ wire'[c].sent \in Nat
        BY <2>1, WireType
    <2>3. wire'[c].in + wire'[c].out + wire'[c].got + wire[c].sent
             = wire[c].in + wire[c].out + wire[c].got + wire'[c].sent
        BY <1>3 DEF Balanced
    <2>4. /\ wire[c].in \in Nat /\ wire[c].out \in Nat /\ wire[c].got \in Nat
          /\ wire[c].sent \in Nat /\ Held(c) \in Nat
          /\ wire[c].in + Held(c) + wire[c].out + wire[c].got <= wire[c].sent
        BY <1>1
    <2>5. Held(c)' = Held(c)
        BY <1>4
    <2>6. wire'[c].in + Held(c) + wire'[c].out + wire'[c].got <= wire'[c].sent
        BY <2>2, <2>3, <2>4
    <2>7. wire[c].sent = wire[c].in + Held(c) + wire[c].out + wire[c].got
             => wire'[c].sent = wire'[c].in + Held(c) + wire'[c].out + wire'[c].got
        BY <2>2, <2>3, <2>4
    <2> QED
        BY <2>5, <2>6, <2>7
<1>6. WireInv' /\ EchoWhole'
    BY <1>5 DEF Inv, WireInv, EchoWhole, serverVars
<1>7. ServerTypeOK'
    BY DEF Inv, ServerTypeOK, serverVars, epollVars
<1>8. OpenFds' = OpenFds /\ interest' = interest
    BY <1>3 DEF OpenFds, epollVars
<1>9. BatchInv'
    BY <1>3, <1>8 DEF Inv, BatchInv, Fresh, f_i, serverVars
<1> QED
    BY <1>3, <1>6, <1>7, <1>8, <1>9 DEF Inv

\* While the server writes nothing, it holds nothing.
LEMMA IdleWires ==
    ASSUME Inv, pc \notin {"write", "exit"}, pc' # "write", wire' = wire
    PROVE  WireInv' /\ EchoWhole'
<1>1. \A c : Held(c) = 0 /\ Held(c)' = 0
    BY DEF Held
<1> QED
    BY <1>1 DEF Inv, WireInv, EchoWhole

\* A ready list names every descriptor once, and only descriptors that are open,
\* or the listener's.
LEMMA ReadyList ==
    ASSUME Inv, NEW q \in ReadyLists
    PROVE  /\ q \in Seq(Fds \cup {SvrFd}) /\ Len(q) \in Nat
           /\ \A k \in 1 .. Len(q) : q[k] \in OpenFds \cup {SvrFd}
           /\ \A k, l \in 1 .. Len(q) : q[k] = q[l] => k = l
<1> DEFINE S == {f \in interest : Readable(f)}
<1>1. S \subseteq OpenFds \cup {SvrFd} /\ OpenFds \subseteq Fds
    BY DEF Inv, OpenFds
<1>2. IsFiniteSet(S)
    <2>1. IsFiniteSet(Fds)
        BY FS_Interval, FdAssumption DEF Fds
    <2>2. IsFiniteSet(Fds \cup {SvrFd})
        BY <2>1, FS_AddElement
    <2> QED
        BY <1>1, <2>2, FS_Subset
<1>3. q \in SetToSeqs(S)
    BY DEF ReadyLists
<1> HIDE DEF S
<1>4. Cardinality(S) \in Nat
    BY <1>2, FS_CardinalityType
<1>5. /\ q \in [1 .. Cardinality(S) -> S]
      /\ \A k, l \in 1 .. Cardinality(S) : k # l => q[k] # q[l]
    BY <1>3 DEF SetToSeqs
<1>6. q \in Seq(S)
    BY <1>4, <1>5, SeqDef
<1>7. Len(q) = Cardinality(S)
    BY <1>4, <1>5, <1>6, LenProperties
<1>8. q \in Seq(Fds \cup {SvrFd})
    BY <1>1, <1>6, SeqMonotonic
<1> QED
    BY <1>1, <1>4, <1>5, <1>7, <1>8

\* The descriptor refers to the connection that its event names.
LEMMA EventOf ==
    ASSUME KernelTypeOK, NEW f \in OpenFds \cup {SvrFd}
    PROVE  /\ Event(f) \in EventType /\ Event(f).fd = f
           /\ f # SvrFd => f \in OpenFds /\ Event(f).conn = owner[f]
    BY OwnerType DEF Event, EventType

\* A new batch is fresh and names no descriptor twice.
LEMMA EpollWaitKeeps ==
    ASSUME Inv, EpollWait
    PROVE  Inv'
<1>1. pc = "wait" /\ i' = 1 /\ pc' = "batch" /\ UNCHANGED <<kernelVars, interest, why, len>>
    BY DEF EpollWait
<1>2. PICK q \in ReadyLists :
         /\ q # <<>>
         /\ events' = [k \in 1 .. Min({MAX_EVENTS, Len(q)}) |-> Event(q[k])]
         /\ rdlist' = SubSeq(q, Min({MAX_EVENTS, Len(q)}) + 1, Len(q))
                         \o SubSeq(q, 1, Min({MAX_EVENTS, Len(q)}))
    BY DEF EpollWait
<1> DEFINE n == Min({MAX_EVENTS, Len(q)})
<1>3. /\ q \in Seq(Fds \cup {SvrFd}) /\ Len(q) \in Nat
      /\ \A k \in 1 .. Len(q) : q[k] \in OpenFds \cup {SvrFd}
      /\ \A k, l \in 1 .. Len(q) : q[k] = q[l] => k = l
    BY ReadyList
<1>4. Len(q) > 0 /\ MAX_EVENTS \in Nat /\ MAX_EVENTS > 0
    BY <1>2, <1>3, EmptySeq, EpollAssumption
<1>5. n = IF MAX_EVENTS <= Len(q) THEN MAX_EVENTS ELSE Len(q)
    BY <1>3, <1>4, Smaller
<1> HIDE DEF n
<1>6. n \in Nat /\ n >= 1 /\ n <= MAX_EVENTS /\ n <= Len(q)
    BY <1>3, <1>4, <1>5
<1>7. OpenFds' = OpenFds /\ owner' = owner /\ wire' = wire /\ backlog' = backlog
    BY <1>1 DEF OpenFds, kernelVars
<1>8. \A k \in 1 .. n : k \in 1 .. Len(q) /\ q[k] \in OpenFds \cup {SvrFd}
    BY <1>3, <1>6
<1>9. events' = [k \in 1 .. n |-> Event(q[k])]
    BY <1>2 DEF n
<1>10. \A k \in 1 .. n :
          /\ events'[k] \in EventType /\ events'[k].fd = q[k]
          /\ q[k] # SvrFd => q[k] \in OpenFds /\ events'[k].conn = owner[q[k]]
    BY <1>8, <1>9, EventOf DEF Inv
<1>11. events' \in [1 .. n -> EventType]
    BY <1>9, <1>10
<1>12. events' \in Seq(EventType) /\ Len(events') = n
    <2>1. events' \in Seq(EventType)
        BY <1>6, <1>11, SeqDef
    <2> QED
        BY <1>6, <1>11, <2>1, LenProperties
<1>13. rdlist' \in Seq(Fds \cup {SvrFd})
    <2>1. \A k \in 1 .. Len(q) : q[k] \in Fds \cup {SvrFd}
        BY <1>3, ElementOfSeq
    <2>2. \A k \in n + 1 .. Len(q) : q[k] \in Fds \cup {SvrFd}
        BY <1>3, <1>6, <2>1
    <2>3. \A k \in 1 .. n : q[k] \in Fds \cup {SvrFd}
        BY <1>8, <2>1
    <2>4. SubSeq(q, n + 1, Len(q)) \in Seq(Fds \cup {SvrFd}) /\ SubSeq(q, 1, n) \in Seq(Fds \cup {SvrFd})
        BY <1>3, <1>6, <2>2, <2>3, SubSeqProperties
    <2> QED
        BY <1>2, <2>4, ConcatProperties DEF n
<1>14. KernelTypeOK' /\ ServerTypeOK'
    <2>1. i' \in 1 .. MAX_EVENTS /\ Len(events') <= MAX_EVENTS
        BY <1>1, <1>4, <1>6, <1>12
    <2> QED
        BY <1>1, <1>7, <1>12, <1>13, <2>1 DEF Inv, KernelTypeOK, ServerTypeOK
<1>15. WireInv' /\ EchoWhole'
    BY <1>1, <1>7, IdleWires
<1>16. BatchInv'
    <2>1. \A k, l \in 1 .. n : events'[k].fd = events'[l].fd => k = l
        BY <1>3, <1>8, <1>10
    <2>2. \A k \in 1 .. n : Fresh(k)'
        BY <1>7, <1>10 DEF Fresh
    <2> QED
        BY <1>1, <1>6, <1>12, <2>1, <2>2 DEF BatchInv
<1> QED
    BY <1>1, <1>7, <1>14, <1>15, <1>16 DEF Inv

\* An accept reuses no descriptor that the rest of the batch is about.
LEMMA AcceptKeeps ==
    ASSUME Inv, Accept
    PROVE  Inv'
<1>1. /\ pc = "batch" /\ FreeFds # {} /\ KAccept /\ interest' = interest \cup {NewFd}
      /\ Continue /\ UNCHANGED <<rdlist, why, len>>
    BY DEF Accept, epoll_add
<1>2. /\ KernelTypeOK' /\ OpenFds' = OpenFds \cup {NewFd} /\ wire' = wire
      /\ NewFd \in Fds /\ \A f \in OpenFds : owner'[f] = owner[f]
    BY <1>1, KAcceptKeeps DEF Inv
<1>3. \A k \in i .. Len(events) : Fresh(k)
    BY <1>1, AtEvent
<1>4. \A k \in i + 1 .. Len(events) : k \in i .. Len(events)
    BY <1>1, AtEvent
<1>5. \A k \in i + 1 .. Len(events) :
         events[k].fd # SvrFd => events[k].fd \in OpenFds' /\ owner'[events[k].fd] = events[k].conn
    BY <1>2, <1>3, <1>4 DEF Fresh
<1>6. /\ pc' \in {"batch", "wait"} /\ BatchInv'
      /\ events' \in Seq(EventType) /\ Len(events') <= MAX_EVENTS /\ i' \in 1 .. MAX_EVENTS
    BY <1>1, <1>5, ContinueKeeps
<1>7. ServerTypeOK'
    BY <1>1, <1>2, <1>6 DEF Inv, ServerTypeOK
<1>8. WireInv' /\ EchoWhole'
    BY <1>1, <1>2, <1>6, IdleWires
<1>9. interest' = OpenFds' \cup {SvrFd}
    BY <1>1, <1>2 DEF Inv
<1> QED
    BY <1>2, <1>6, <1>7, <1>8, <1>9 DEF Inv

\* A close touches no descriptor that the rest of the batch is about.
LEMMA ReadEndKeeps ==
    ASSUME Inv, ReadEnd
    PROVE  Inv' /\ pc' # "exit"
<1>1. /\ pc = "batch" /\ f_i # SvrFd /\ f_i \in OpenFds /\ KClose(f_i)
      /\ interest' = interest \ {f_i} /\ rdlist' = RemoveFirst(rdlist, f_i)
      /\ Continue /\ UNCHANGED <<why, len>>
    BY DEF ReadEnd, AtClient, CloseToo
<1>2. /\ KernelTypeOK' /\ OpenFds' = OpenFds \ {f_i} /\ wire' = wire
      /\ \A g \in OpenFds' : owner'[g] = owner[g]
    BY <1>1, KCloseKeeps DEF Inv
<1>3. \A k \in i .. Len(events) : Fresh(k)
    BY <1>1, AtEvent
<1>4. \A k \in i + 1 .. Len(events) : k \in i .. Len(events) /\ events[k].fd # f_i
    BY <1>1, AtEvent
<1>5. \A k \in i + 1 .. Len(events) :
         events[k].fd # SvrFd => events[k].fd \in OpenFds' /\ owner'[events[k].fd] = events[k].conn
    BY <1>2, <1>3, <1>4 DEF Fresh
<1>6. /\ pc' \in {"batch", "wait"} /\ BatchInv'
      /\ events' \in Seq(EventType) /\ Len(events') <= MAX_EVENTS /\ i' \in 1 .. MAX_EVENTS
    BY <1>1, <1>5, ContinueKeeps
<1>7. ServerTypeOK'
    <2>1. rdlist' \in Seq(Fds \cup {SvrFd})
        BY <1>1, RemoveFirstType DEF Inv, ServerTypeOK
    <2> QED
        BY <1>1, <1>6, <2>1 DEF Inv, ServerTypeOK
<1>8. WireInv' /\ EchoWhole'
    BY <1>1, <1>2, <1>6, IdleWires
<1>9. interest' = OpenFds' \cup {SvrFd}
    BY <1>1, <1>2 DEF Inv
<1> QED
    BY <1>2, <1>6, <1>7, <1>8, <1>9 DEF Inv

\* One connection's bytes move between its counts and the server's buffer; the
\* others keep theirs.
LEMMA Moved ==
    ASSUME Inv, pc \notin {"wait", "exit"}, NEW c \in Conns,
           \A d \in Conns : d # c => wire'[d] = wire[d] /\ Held(d)' = Held(d),
           wire'[c].sent = wire[c].sent,
           wire'[c].in + Held(c)' + wire'[c].out + wire'[c].got
               = wire[c].in + Held(c) + wire[c].out + wire[c].got
    PROVE  WireInv' /\ EchoWhole'
<1>1. \A d \in Conns : wire[d].in + Held(d) + wire[d].out + wire[d].got <= wire[d].sent
    BY DEF Inv, WireInv
<1>2. \A d \in Conns : wire[d].sent = wire[d].in + Held(d) + wire[d].out + wire[d].got
    BY DEF Inv, EchoWhole
<1>3. ASSUME NEW d \in Conns
      PROVE  /\ (wire[d].in + Held(d) + wire[d].out + wire[d].got <= wire[d].sent)'
             /\ (wire[d].sent = wire[d].in + Held(d) + wire[d].out + wire[d].got)'
    <2>1. CASE d = c
        BY <1>1, <1>2, <2>1
    <2>2. CASE d # c
        BY <1>1, <1>2, <2>2
    <2> QED
        BY <2>1, <2>2
<1> QED
    BY <1>3 DEF WireInv, EchoWhole

\* What is read of a connection becomes what the server holds for it.
LEMMA ReadDataKeeps ==
    ASSUME Inv, ReadData
    PROVE  Inv'
<1>1. pc = "batch" /\ f_i \in OpenFds
    BY DEF ReadData, AtClient
<1>2. PICK c \in Conns : c = owner[f_i]
    BY <1>1, OwnerType DEF Inv
<1>3. /\ pc = "batch" /\ f_i # SvrFd /\ f_i \in OpenFds
      /\ wire[c].in > 0 /\ len' = ReadLen(c) /\ KRead(c) /\ pc' = "write"
      /\ UNCHANGED <<epollVars, why, events, i>>
    BY <1>2 DEF ReadData, AtClient
<1>4. /\ KernelTypeOK' /\ owner' = owner /\ OpenFds' = OpenFds
      /\ ReadLen(c) \in 1 .. MAXLINE
      /\ \A d \in Conns : d # c => wire'[d] = wire[d]
      /\ wire'[c].in = wire[c].in - ReadLen(c) /\ wire'[c].out = wire[c].out
      /\ wire'[c].got = wire[c].got /\ wire'[c].sent = wire[c].sent
    BY <1>3, <1>2, KReadKeeps DEF Inv
<1>5. MAXLINE \in Nat /\ f_i' = f_i
    BY <1>3, WindowAssumption DEF f_i
<1>6. ServerTypeOK'
    <2>1. len' \in 0 .. MAXLINE
        BY <1>3, <1>4, <1>5
    <2> QED
        BY <1>3, <2>1 DEF Inv, ServerTypeOK, epollVars
<1>7. WireInv' /\ EchoWhole'
    <2>1. \A d \in Conns : Held(d) = 0 /\ Held(d)' = IF d = c THEN ReadLen(c) ELSE 0
        BY <1>3, <1>2, <1>4, <1>5 DEF Held
    <2>2. wire[c] \in Wires /\ ReadLen(c) \in Int
        BY <1>2, <1>4, <1>5 DEF Inv, KernelTypeOK
    <2>3. Held(c) = 0 /\ Held(c)' = ReadLen(c)
        BY <1>2, <2>1
    <2>4. wire'[c].in + Held(c)' + wire'[c].out + wire'[c].got
             = wire[c].in + Held(c) + wire[c].out + wire[c].got
        BY <1>4, <2>2, <2>3, WireType
    <2> QED
        BY <1>3, <1>2, <1>4, <2>1, <2>4, Moved
<1>8. BatchInv' /\ interest' = OpenFds' \cup {SvrFd}
    BY <1>3, <1>4, <1>5 DEF Inv, BatchInv, Fresh, epollVars
<1> QED
    BY <1>4, <1>6, <1>7, <1>8 DEF Inv

\* full_write gives the connection k of the bytes the server holds for it; with
\* none left the loop goes on.
LEMMA WriteKeeps ==
    ASSUME Inv, WriteStep
    PROVE  Inv' /\ pc' # "exit"
<1>1. /\ pc = "write" /\ (IF len' = 0 THEN Continue ELSE UNCHANGED <<pc, events, i>>)
      /\ UNCHANGED <<epollVars, why>>
    BY DEF WriteStep
<1>2. PICK c \in Conns : c = owner[f_i]
    BY <1>1, AtEvent DEF Inv, BatchInv
<1>3. PICK k \in 1 .. len : WriteFits(c, k) /\ KWrite(c, k) /\ len' = len - k
    BY <1>2 DEF WriteStep, Left
<1>4. len \in Nat /\ len <= MAXLINE /\ MAXLINE \in Nat
    BY WindowAssumption DEF Inv, ServerTypeOK
<1>5. k \in Nat /\ len' \in 0 .. MAXLINE
    BY <1>3, <1>4
<1>6. /\ KernelTypeOK' /\ owner' = owner /\ OpenFds' = OpenFds
      /\ \A d \in Conns : d # c => wire'[d] = wire[d]
      /\ wire'[c].in = wire[c].in /\ wire'[c].out = wire[c].out + k
      /\ wire'[c].got = wire[c].got /\ wire'[c].sent = wire[c].sent
    BY <1>3, <1>2, <1>5, KWriteKeeps DEF Inv
<1>7. /\ pc' \in {"batch", "wait", "write"} /\ BatchInv'
      /\ events' \in Seq(EventType) /\ Len(events') <= MAX_EVENTS /\ i' \in 1 .. MAX_EVENTS
      /\ len' # 0 => pc' = "write" /\ f_i' = f_i
      /\ len' = 0 => pc' # "write"
    <2>1. CASE len' = 0
        <3>1. \A l \in i .. Len(events) : Fresh(l)
            BY <1>1, AtEvent
        <3>2. \A l \in i + 1 .. Len(events) : l \in i .. Len(events)
            BY <1>1, AtEvent
        <3>3. \A l \in i + 1 .. Len(events) :
                 events[l].fd # SvrFd => events[l].fd \in OpenFds' /\ owner'[events[l].fd] = events[l].conn
            BY <1>6, <3>1, <3>2 DEF Fresh
        <3>4. Continue
            BY <1>1, <2>1
        <3> QED
            BY <1>1, <2>1, <3>3, <3>4, ContinueKeeps
    <2>2. CASE len' # 0
        <3>1. UNCHANGED <<pc, events, i>>
            BY <1>1, <2>2
        <3>2. BatchInv'
            BY <1>6, <3>1 DEF Inv, BatchInv, Fresh, f_i
        <3> QED
            BY <1>1, <2>2, <3>1, <3>2 DEF Inv, ServerTypeOK, f_i
    <2> QED
        BY <2>1, <2>2
<1>8. ServerTypeOK'
    BY <1>1, <1>5, <1>7 DEF Inv, ServerTypeOK, epollVars
<1>9. WireInv' /\ EchoWhole'
    <2>1. \A d \in Conns : /\ Held(d) = IF d = c THEN len ELSE 0
                           /\ Held(d)' = IF d = c THEN len' ELSE 0
        <3>1. CASE len' = 0
            BY <1>1, <1>2, <1>7, <3>1 DEF Held
        <3>2. CASE len' # 0
            BY <1>1, <1>2, <1>6, <1>7, <3>2 DEF Held
        <3> QED
            BY <3>1, <3>2
    <2>2. wire[c] \in Wires
        BY <1>2 DEF Inv, KernelTypeOK
    <2>3. Held(c) = len /\ Held(c)' = len - k
        BY <1>3, <1>2, <2>1
    <2>4. wire'[c].in + Held(c)' + wire'[c].out + wire'[c].got
             = wire[c].in + Held(c) + wire[c].out + wire[c].got
        BY <1>4, <1>5, <1>6, <2>2, <2>3, WireType
    <2> QED
        BY <1>1, <1>2, <1>6, <2>1, <2>4, Moved
<1>10. interest' = OpenFds' \cup {SvrFd}
    BY <1>1, <1>6 DEF Inv, epollVars
<1> QED
    BY <1>6, <1>7, <1>8, <1>9, <1>10 DEF Inv

------------------------------------------------------------------------------
\* The server starts with the listener registered and an empty batch.
LEMMA InitInv == Init => Inv
<1> SUFFICES ASSUME Init PROVE Inv
    OBVIOUS
<1>1. KernelTypeOK
    <2>1. 0 \in 0 .. MaxBytes /\ 0 \in 0 .. Window
        BY BoundAssumption, WindowAssumption
    <2> QED
        BY <2>1 DEF Init, KernelInit, KernelTypeOK, Wires
<1>2. events = <<>> /\ Len(events) = 0 /\ events \in Seq(EventType) /\ rdlist \in Seq(Fds \cup {SvrFd})
    BY EmptySeq DEF Init
<1>3. ServerTypeOK
    BY <1>2, EpollAssumption, WindowAssumption DEF Init, ServerTypeOK
<1>4. WireInv /\ EchoWhole
    BY DEF Init, KernelInit, WireInv, EchoWhole, Held
<1>5. OpenFds = {}
    BY DEF Init, KernelInit, OpenFds
<1>6. BatchInv
    BY <1>2 DEF Init, BatchInv
<1> QED
    BY <1>1, <1>3, <1>4, <1>5, <1>6 DEF Init, Inv

\* Every call of the server and every act of a client keeps the invariant.
LEMMA NextInv == Inv /\ [Next]_vars => Inv'
<1> SUFFICES ASSUME Inv, [Next]_vars PROVE Inv'
    OBVIOUS
<1>1. CASE EpollWait
    BY <1>1, EpollWaitKeeps
<1>2. CASE AcceptFail
    BY <1>2, ExitKeeps DEF AcceptFail
<1>3. CASE Accept
    BY <1>3, AcceptKeeps
<1>4. CASE ReadFail
    BY <1>4, ExitKeeps DEF ReadFail, AtClient
<1>5. CASE ReadEnd
    BY <1>5, ReadEndKeeps
<1>6. CASE ReadData
    BY <1>6, ReadDataKeeps
<1>7. CASE WriteFail
    BY <1>7, ExitKeeps DEF WriteFail
<1>8. CASE WriteStep
    BY <1>8, WriteKeeps
<1>9. CASE ClientStep /\ UNCHANGED <<epollVars, serverVars>>
    BY <1>9, ClientsKeepInv
<1>10. CASE UNCHANGED vars
    BY <1>10 DEF vars, kernelVars, epollVars, serverVars, Inv, KernelTypeOK, ServerTypeOK, WireInv,
                 EchoWhole, Held, f_i, BatchInv, Fresh, OpenFds
<1> QED
    BY <1>1, <1>2, <1>3, <1>4, <1>5, <1>6, <1>7, <1>8, <1>9, <1>10 DEF Next, ServerStep

\* The inductive invariant of the epoll server.
LEMMA InvHolds == Spec => []Inv
    BY InitInv, NextInv, PTL DEF Spec

\* The epoll set holds the open descriptors and the listener, and no close and
\* accept earlier in a batch makes a later event of it mean another client.
THEOREM EventsAlwaysFresh == Spec => []EventsFresh
<1>1. Inv => EventsFresh
    BY DEF Inv, ServerTypeOK, TypeOK, EventType, BatchInv, Fresh, EventsFresh
<1> QED
    BY <1>1, InvHolds, PTL

\* Every byte a client sent is back with it, waits in the kernel or is held by
\* full_write, however write splits the buffer.
THEOREM NoByteLost == Spec => []EchoWhole
<1>1. Inv => EchoWhole
    BY DEF Inv
<1> QED
    BY <1>1, InvHolds, PTL

\* The process exits for a cause outside it.
LEMMA CauseKept ==
    ASSUME Inv, ExitHasCause, [Next]_vars
    PROVE  ExitHasCause'
<1>1. CASE EpollWait
    BY <1>1 DEF EpollWait, ExitHasCause
<1>2. CASE AcceptFail
    BY <1>2 DEF AcceptFail, Exit, ExitHasCause, FreeFds, OpenFds, kernelVars, epollVars
<1>3. CASE Accept \/ ReadData
    BY <1>3 DEF Accept, ReadData, Continue, ExitHasCause
<1>4. CASE ReadFail
    <2>1. f_i \in OpenFds /\ owner[f_i] \in Conns
        BY <1>4, AtEvent DEF ReadFail, AtClient
    <2>2. wire[owner[f_i]].rst /\ pc' = "exit" /\ why' = "read" /\ wire' = wire
        BY <1>4, <2>1 DEF ReadFail, ReadFails, Exit, kernelVars
    <2> QED
        BY <2>1, <2>2 DEF ExitHasCause
<1>5. CASE ReadEnd \/ WriteStep
    BY <1>5, ReadEndKeeps, WriteKeeps DEF ExitHasCause
<1>6. CASE WriteFail
    <2>1. owner[f_i] \in Conns
        BY <1>6, AtEvent DEF WriteFail, Inv, BatchInv
    <2>2. wire[owner[f_i]].rst /\ pc' = "exit" /\ why' = "write" /\ wire' = wire
        BY <1>6 DEF WriteFail, WriteFails, Exit, kernelVars
    <2> QED
        BY <2>1, <2>2 DEF ExitHasCause
<1>7. CASE ClientStep /\ UNCHANGED <<epollVars, serverVars>>
    <2>1. owner' = owner /\ \A c \in Conns : wire[c].rst => wire'[c].rst
        BY <1>7, ClientsKeepInv
    <2> QED
        BY <1>7, <2>1 DEF ExitHasCause, epollVars, serverVars, FreeFds, OpenFds
<1>8. CASE UNCHANGED vars
    BY <1>8 DEF vars, kernelVars, epollVars, serverVars, ExitHasCause, FreeFds, OpenFds
<1> QED
    BY <1>1, <1>2, <1>3, <1>4, <1>5, <1>6, <1>7, <1>8 DEF Next, ServerStep

\* Only a client's reset, a full descriptor table or the kernel's limit on
\* watched descriptors ends the server: no read or write meets a descriptor
\* closed earlier in the batch, and no descriptor is closed twice.
THEOREM ExitsHaveCauses == Spec => []ExitHasCause
<1>1. Init => ExitHasCause
    BY DEF Init, ExitHasCause
<1>2. Inv /\ ExitHasCause /\ [Next]_vars => ExitHasCause'
    BY CauseKept
<1> QED
    BY <1>1, <1>2, InvHolds, PTL DEF Spec

------------------------------------------------------------------------------
Queued == 1 .. Len(backlog)

\* A connection was made once: it waits at one place of the backlog, or one
\* descriptor refers to it, or the server is done with it.
ConnInv ==
    /\ \A k, l \in Queued : backlog[k] = backlog[l] => k = l
    /\ \A k \in Queued : wire[backlog[k]].made
    /\ \A f \in OpenFds : wire[owner[f]].made /\ \A k \in Queued : backlog[k] # owner[f]
    /\ \A f, g \in OpenFds : owner[f] = owner[g] => f = g

\* Where no connection is made, queued or given a descriptor, nothing changes.
LEMMA WireKeepsConn ==
    ASSUME KernelTypeOK, ConnInv, UNCHANGED <<backlog, owner>>,
           \A c \in Conns : wire[c].made => wire'[c].made
    PROVE  ConnInv'
<1>1. OpenFds' = OpenFds /\ Queued' = Queued
    BY DEF OpenFds, Queued
<1>2. \A f \in OpenFds : owner[f] \in Conns
    BY DEF KernelTypeOK, OpenFds
<1>3. \A k \in Queued : backlog[k] \in Conns
    BY ElementOfSeq DEF KernelTypeOK, Queued
<1> QED
    BY <1>1, <1>2, <1>3 DEF ConnInv

\* connect puts a connection into the backlog that was nowhere before.
LEMMA ConnectKeepsConn ==
    ASSUME KernelTypeOK, ConnInv, NEW c \in Conns, Connect(c)
    PROVE  ConnInv'
<1>1. wire \in [Conns -> Wires] /\ backlog \in Seq(Conns) /\ owner \in [Fds -> Conns \cup {NULL}]
    BY DEF KernelTypeOK
<1>2. ~wire[c].made /\ backlog' = Append(backlog, c) /\ owner' = owner
    BY DEF Connect
<1>3. wire'[c].made /\ \A d \in Conns : wire[d].made => wire'[d].made
    BY <1>1 DEF Connect, Wires
<1>4. /\ Len(backlog') = Len(backlog) + 1 /\ Len(backlog) \in Nat
      /\ \A k \in Queued : backlog'[k] = backlog[k]
      /\ backlog'[Len(backlog) + 1] = c
    BY <1>1, <1>2, AppendProperties, LenProperties DEF Queued
<1>5. Queued' = Queued \cup {Len(backlog) + 1}
    BY <1>4 DEF Queued
<1>6. \A k \in Queued : backlog[k] \in Conns /\ backlog[k] # c
    BY <1>1, <1>2, ElementOfSeq DEF Queued, ConnInv
<1>7. OpenFds' = OpenFds /\ \A f \in OpenFds : owner[f] \in Conns /\ owner[f] # c
    BY <1>1, <1>2 DEF OpenFds, ConnInv
<1>8. \A k, l \in Queued' : backlog'[k] = backlog'[l] => k = l
    BY <1>4, <1>5, <1>6 DEF ConnInv
<1>9. \A k \in Queued' : wire'[backlog'[k]].made
    BY <1>3, <1>4, <1>5, <1>6 DEF ConnInv
<1>10. \A f \in OpenFds : wire'[owner[f]].made /\ \A k \in Queued' : backlog'[k] # owner[f]
    BY <1>3, <1>4, <1>5, <1>7 DEF ConnInv
<1> QED
    BY <1>2, <1>7, <1>8, <1>9, <1>10 DEF ConnInv

\* Nothing else that a client does makes a connection.
LEMMA ClientKeepsConn ==
    ASSUME KernelTypeOK, ConnInv, ClientStep
    PROVE  ConnInv'
<1>1. PICK c \in Conns : Connect(c) \/ Send(c) \/ Receive(c) \/ Finish(c) \/ Reset(c)
    BY DEF ClientStep
<1>2. CASE Send(c) \/ Receive(c) \/ Finish(c) \/ Reset(c)
    <2>1. UNCHANGED <<backlog, owner>> /\ \A d \in Conns : wire[d].made => wire'[d].made
        BY <1>2 DEF Send, Receive, Finish, Reset, KernelTypeOK, Wires
    <2> QED
        BY <2>1, WireKeepsConn
<1> QED
    BY <1>1, <1>2, ConnectKeepsConn

\* accept moves the first of the backlog to a descriptor that was closed.
LEMMA AcceptKeepsConn ==
    ASSUME KernelTypeOK, ConnInv, KAccept, FreeFds # {}
    PROVE  /\ ConnInv' /\ OpenFds' = OpenFds \cup {NewFd} /\ NewFd \notin OpenFds
           /\ backlog # <<>> /\ backlog' = Tail(backlog) /\ owner'[NewFd] = Head(backlog)
           /\ \A f \in OpenFds : owner'[f] = owner[f]
<1>1. /\ backlog # <<>> /\ owner' = [owner EXCEPT ![NewFd] = Head(backlog)]
      /\ backlog' = Tail(backlog) /\ wire' = wire
    BY DEF KAccept
<1>2. NewFd \in Fds /\ NewFd \notin OpenFds
    BY NewFdFree
<1>3. /\ Head(backlog) \in Conns /\ Len(backlog') = Len(backlog) - 1
      /\ \A k \in 1 .. Len(backlog') : backlog'[k] = backlog[k + 1]
      /\ Len(backlog) \in Nat \ {0} /\ Head(backlog) = backlog[1]
    BY <1>1, HeadTailProperties, EmptySeq DEF KernelTypeOK
<1>4. \A k \in Queued' : k + 1 \in Queued /\ backlog'[k] = backlog[k + 1] /\ k \in Int
    BY <1>3 DEF Queued
<1>5. 1 \in Queued /\ \A k \in Queued' : k + 1 # 1
    BY <1>3 DEF Queued
<1>6. Head(backlog) # NULL
    BY <1>3, ConnAssumption
<1>7. /\ OpenFds' = OpenFds \cup {NewFd} /\ owner'[NewFd] = Head(backlog)
      /\ \A f \in OpenFds : owner'[f] = owner[f]
    BY <1>1, <1>2, <1>3, <1>6 DEF KernelTypeOK, OpenFds
<1>8. \A k, l \in Queued' : backlog'[k] = backlog'[l] => k = l
    <2> SUFFICES ASSUME NEW k \in Queued', NEW l \in Queued', backlog'[k] = backlog'[l] PROVE k = l
        OBVIOUS
    <2>1. k + 1 = l + 1
        BY <1>4 DEF ConnInv
    <2> QED
        BY <1>4, <2>1
<1>9. \A k \in Queued' : wire[backlog'[k]].made /\ backlog'[k] # Head(backlog)
    BY <1>3, <1>4, <1>5 DEF ConnInv
<1>10. \A f \in OpenFds' : wire'[owner'[f]].made /\ \A k \in Queued' : backlog'[k] # owner'[f]
    <2>1. wire[Head(backlog)].made /\ \A k \in Queued' : backlog'[k] # owner'[NewFd]
        BY <1>3, <1>5, <1>7, <1>9 DEF ConnInv
    <2>2. \A f \in OpenFds : wire[owner[f]].made /\ \A k \in Queued' : backlog'[k] # owner[f]
        BY <1>4 DEF ConnInv
    <2> QED
        BY <1>1, <1>7, <2>1, <2>2
<1>11. \A f, g \in OpenFds' : owner'[f] = owner'[g] => f = g
    BY <1>3, <1>5, <1>7 DEF ConnInv
<1> QED
    BY <1>1, <1>2, <1>7, <1>8, <1>9, <1>10, <1>11 DEF ConnInv

\* close leaves no descriptor for the connection, and every other alone.
LEMMA CloseKeepsConn ==
    ASSUME KernelTypeOK, ConnInv, NEW f \in OpenFds, KClose(f)
    PROVE  /\ ConnInv' /\ OpenConns' = OpenConns \ {owner[f]} /\ owner[f] \in OpenConns
           /\ wire' = wire /\ backlog' = backlog
<1>1. owner' = [owner EXCEPT ![f] = NULL] /\ backlog' = backlog /\ wire' = wire
    BY DEF KClose
<1>2. OpenFds' = OpenFds \ {f} /\ \A g \in OpenFds' : owner'[g] = owner[g]
    BY <1>1 DEF KernelTypeOK, OpenFds
<1>3. Queued' = Queued
    BY <1>1 DEF Queued
<1>4. ConnInv'
    BY <1>1, <1>2, <1>3 DEF ConnInv
<1>5. OpenConns' = OpenConns \ {owner[f]}
    BY <1>2 DEF OpenConns, ConnInv
<1> QED
    BY <1>1, <1>4, <1>5 DEF OpenConns

\* What the service needs besides: a write has bytes to write.
ServiceInv == ConnInv /\ (pc = "write" => len > 0)

\* The lines change where the one connection changes.
LEMMA LineAt ==
    ASSUME NEW c \in Conns, \A d \in Conns : d # c => wire'[d] = wire[d], NEW r,
           r = [made |-> wire'[c].made, sent |-> wire'[c].sent,
                back |-> wire'[c].out + wire'[c].got,
                fin |-> wire'[c].fin, rst |-> wire'[c].rst]
    PROVE  Lines' = [Lines EXCEPT ![c] = r]
    BY DEF Lines

\* What a client does is what EchoService lets it do, or reading its echo.
LEMMA ClientServed ==
    ASSUME KernelTypeOK, ClientStep
    PROVE  \/ \E c \in Conns : Service!Connect(c) \/ Service!Use(c)
           \/ UNCHANGED <<backlog, Lines>>
<1>1. PICK c \in Conns : Connect(c) \/ Send(c) \/ Receive(c) \/ Finish(c) \/ Reset(c)
    BY DEF ClientStep
<1> DEFINE w == wire[c]
<1> DEFINE ln == [made |-> w.made, sent |-> w.sent, back |-> w.out + w.got,
                  fin |-> w.fin, rst |-> w.rst]
<1>2. wire \in [Conns -> Wires] /\ w \in Wires
    BY DEF KernelTypeOK
<1>3. w.sent \in Nat /\ w.in \in Nat /\ w.out \in Nat /\ w.got \in Nat
    BY <1>2, WireType
<1>4. Lines[c] = ln
    BY DEF Lines
<1>5. ASSUME NEW t
      PROVE  [made |-> [w EXCEPT !.made = t].made, sent |-> [w EXCEPT !.made = t].sent,
              back |-> [w EXCEPT !.made = t].out + [w EXCEPT !.made = t].got,
              fin |-> [w EXCEPT !.made = t].fin, rst |-> [w EXCEPT !.made = t].rst] = [ln EXCEPT !.made = t]
    BY <1>2 DEF Wires
<1>6. ASSUME NEW t
      PROVE  [made |-> [w EXCEPT !.fin = t].made, sent |-> [w EXCEPT !.fin = t].sent,
              back |-> [w EXCEPT !.fin = t].out + [w EXCEPT !.fin = t].got,
              fin |-> [w EXCEPT !.fin = t].fin, rst |-> [w EXCEPT !.fin = t].rst] = [ln EXCEPT !.fin = t]
    BY <1>2 DEF Wires
<1>7. ASSUME NEW t
      PROVE  [made |-> [w EXCEPT !.rst = t].made, sent |-> [w EXCEPT !.rst = t].sent,
              back |-> [w EXCEPT !.rst = t].out + [w EXCEPT !.rst = t].got,
              fin |-> [w EXCEPT !.rst = t].fin, rst |-> [w EXCEPT !.rst = t].rst] = [ln EXCEPT !.rst = t]
    BY <1>2 DEF Wires
<1>8. ASSUME NEW v \in {[w EXCEPT !.made = TRUE], [w EXCEPT !.fin = TRUE], [w EXCEPT !.rst = TRUE],
                        [w EXCEPT !.sent = @ + 1, !.in = @ + 1],
                        [w EXCEPT !.got = @ + w.out, !.out = 0]},
             wire' = [wire EXCEPT ![c] = v]
      PROVE  Lines' = [Lines EXCEPT ![c] = [made |-> v.made, sent |-> v.sent,
                              back |-> v.out + v.got, fin |-> v.fin, rst |-> v.rst]]
    <2>1. \A d \in Conns : wire'[d] = IF d = c THEN v ELSE wire[d]
        BY <1>2, <1>8
    <2> QED
        BY <2>1, LineAt
<1>9. CASE Connect(c)
    <2> DEFINE v == [w EXCEPT !.made = TRUE]
    <2>1. wire' = [wire EXCEPT ![c] = v] /\ ~w.made /\ backlog' = Append(backlog, c)
        BY <1>9, <1>2 DEF Connect
    <2>2. [made |-> v.made, sent |-> v.sent, back |-> v.out + v.got, fin |-> v.fin, rst |-> v.rst]
             = [ln EXCEPT !.made = TRUE]
        BY <1>5, Zenon
    <2>3. Lines' = [Lines EXCEPT ![c] = [ln EXCEPT !.made = TRUE]]
        BY <1>8, <2>1, <2>2
    <2>4. Service!Connect(c)
        BY <1>4, <2>1, <2>3 DEF Service!Connect
    <2> QED
        BY <2>3, <2>4
<1>10. CASE Send(c)
    <2> DEFINE v == [w EXCEPT !.sent = @ + 1, !.in = @ + 1]
    <2>1. wire' = [wire EXCEPT ![c] = v] /\ w.made /\ ~w.rst /\ ~w.fin /\ backlog' = backlog
        BY <1>10, <1>2 DEF Send, Usable
    <2>2. [made |-> v.made, sent |-> v.sent, back |-> v.out + v.got, fin |-> v.fin, rst |-> v.rst]
             = [ln EXCEPT !.sent = @ + 1]
        BY <1>2 DEF Wires
    <2>3. Lines' = [Lines EXCEPT ![c] = [ln EXCEPT !.sent = @ + 1]]
        BY <1>8, <2>1, <2>2
    <2>4. Service!Use(c)
        BY <1>4, <2>1, <2>3 DEF Service!Use
    <2> QED
        BY <2>3, <2>4
<1>11. CASE Receive(c)
    <2> DEFINE v == [w EXCEPT !.got = @ + w.out, !.out = 0]
    <2>1. wire' = [wire EXCEPT ![c] = v] /\ backlog' = backlog
        BY <1>11, <1>2 DEF Receive
    <2>2. [made |-> v.made, sent |-> v.sent, back |-> v.out + v.got, fin |-> v.fin, rst |-> v.rst] = ln
        BY <1>2, <1>3 DEF Wires
    <2>3. Lines' = [Lines EXCEPT ![c] = ln]
        BY <1>8, <2>1, <2>2
    <2>4. Lines' = Lines
        BY <1>4, <2>3 DEF Lines
    <2> QED
        BY <2>1, <2>3, <2>4
<1>12. CASE Finish(c)
    <2> DEFINE v == [w EXCEPT !.fin = TRUE]
    <2>1. wire' = [wire EXCEPT ![c] = v] /\ w.made /\ ~w.rst /\ ~w.fin /\ backlog' = backlog
        BY <1>12, <1>2 DEF Finish, Usable
    <2>2. [made |-> v.made, sent |-> v.sent, back |-> v.out + v.got, fin |-> v.fin, rst |-> v.rst]
             = [ln EXCEPT !.fin = TRUE]
        BY <1>6, Zenon
    <2>3. Lines' = [Lines EXCEPT ![c] = [ln EXCEPT !.fin = TRUE]]
        BY <1>8, <2>1, <2>2
    <2>4. Service!Use(c)
        BY <1>4, <2>1, <2>3 DEF Service!Use
    <2> QED
        BY <2>3, <2>4
<1>13. CASE Reset(c)
    <2> DEFINE v == [w EXCEPT !.rst = TRUE]
    <2>1. wire' = [wire EXCEPT ![c] = v] /\ w.made /\ ~w.rst /\ backlog' = backlog
        BY <1>13, <1>2 DEF Reset, Usable
    <2>2. [made |-> v.made, sent |-> v.sent, back |-> v.out + v.got, fin |-> v.fin, rst |-> v.rst]
             = [ln EXCEPT !.rst = TRUE]
        BY <1>7, Zenon
    <2>3. Lines' = [Lines EXCEPT ![c] = [ln EXCEPT !.rst = TRUE]]
        BY <1>8, <2>1, <2>2
    <2>4. Service!Use(c)
        BY <1>4, <2>1, <2>3 DEF Service!Use
    <2> QED
        BY <2>3, <2>4
<1> QED
    BY <1>1, <1>9, <1>10, <1>11, <1>12, <1>13

\* Between a write and the next read the server has nothing in hand.
LEMMA NothingInHand ==
    ASSUME pc # "write"
    PROVE  InHand = Service!Nothing
    BY DEF InHand, Service!Nothing

\* epoll_wait is no step of EchoService.
LEMMA WaitServed ==
    ASSUME Inv, ServiceInv, EpollWait
    PROVE  ServiceInv' /\ UNCHANGED Service!vars
<1>1. pc = "wait" /\ pc' = "batch" /\ UNCHANGED kernelVars
    BY DEF EpollWait
<1>2. InHand = Service!Nothing /\ InHand' = Service!Nothing
    BY <1>1 DEF InHand, Service!Nothing
<1>3. Lines' = Lines /\ OpenConns' = OpenConns
    BY <1>1 DEF Lines, OpenConns, OpenFds, kernelVars
<1>4. (pc # "exit")' = (pc # "exit")
    BY <1>1
<1>5. ConnInv'
    BY <1>1, WireKeepsConn DEF Inv, ServiceInv, kernelVars
<1> QED
    BY <1>1, <1>2, <1>3, <1>4, <1>5 DEF Service!vars, ServiceInv, kernelVars

\* print_error stops the service, with bytes in hand only after a reset.
LEMMA ExitServed ==
    ASSUME Inv, ServiceInv, NEW call, Exit(call), pc # "exit",
           pc = "write" => owner[f_i] \in Conns /\ wire[owner[f_i]].rst
    PROVE  ServiceInv' /\ Service!Stop
<1>1. pc' = "exit" /\ UNCHANGED kernelVars
    BY DEF Exit
<1>2. Lines' = Lines /\ OpenConns' = OpenConns /\ InHand' = Service!Nothing
    BY <1>1 DEF Lines, OpenConns, OpenFds, kernelVars, InHand, Service!Nothing
<1>3. InHand = Service!Nothing \/ Lines[InHand.conn].rst
    BY NothingInHand DEF InHand, Lines
<1>4. ConnInv'
    BY <1>1, WireKeepsConn DEF Inv, ServiceInv, kernelVars
<1> QED
    BY <1>1, <1>2, <1>3, <1>4 DEF ServiceInv, Service!Stop, kernelVars

\* accept admits the connection that waited longest.
LEMMA AcceptServed ==
    ASSUME Inv, ServiceInv, Accept
    PROVE  ServiceInv' /\ Service!Admit /\ pc' # "exit"
<1>1. pc = "batch" /\ FreeFds # {} /\ KAccept /\ pc' \in {"batch", "wait"}
    BY DEF Accept, Continue
<1>2. /\ ConnInv' /\ OpenFds' = OpenFds \cup {NewFd} /\ NewFd \notin OpenFds
      /\ backlog # <<>> /\ backlog' = Tail(backlog) /\ owner'[NewFd] = Head(backlog)
      /\ \A f \in OpenFds : owner'[f] = owner[f]
    BY <1>1, AcceptKeepsConn DEF Inv, ServiceInv
<1>3. OpenConns' = OpenConns \cup {Head(backlog)}
    BY <1>2 DEF OpenConns
<1>4. Lines' = Lines /\ InHand = Service!Nothing /\ InHand' = Service!Nothing
    BY <1>1 DEF KAccept, Lines, InHand, Service!Nothing
<1>5. (pc # "exit")' = (pc # "exit")
    BY <1>1
<1> QED
    BY <1>1, <1>2, <1>3, <1>4, <1>5 DEF ServiceInv, Service!Admit

\* What a connection sent is in the kernel, back with it or in hand.
LEMMA Whole ==
    ASSUME Inv, pc # "exit", NEW c \in Conns
    PROVE  /\ wire[c].sent - (wire[c].in + wire[c].out + wire[c].got) = Held(c)
           /\ Lines[c] = [made |-> wire[c].made, sent |-> wire[c].sent,
                          back |-> wire[c].out + wire[c].got,
                          fin |-> wire[c].fin, rst |-> wire[c].rst]
           /\ wire[c] \in Wires
<1>1. wire[c] \in Wires /\ Held(c) \in Nat
    BY HeldType DEF Inv, KernelTypeOK
<1>2. wire[c].sent = wire[c].in + Held(c) + wire[c].out + wire[c].got
    BY DEF Inv, EchoWhole
<1>3. wire[c].sent - (wire[c].in + wire[c].out + wire[c].got) = Held(c)
    BY <1>1, <1>2, WireType
<1> QED
    BY <1>1, <1>3 DEF Lines

\* close drops a connection that has finished and has all its bytes back: no
\* other descriptor refers to it.
LEMMA ReadEndServed ==
    ASSUME Inv, ServiceInv, ReadEnd
    PROVE  ServiceInv' /\ Service!Drop /\ pc' # "exit"
<1> DEFINE c == owner[f_i]
<1>1. pc = "batch" /\ f_i \in OpenFds /\ ReadEof(c) /\ KClose(f_i) /\ pc' \in {"batch", "wait"}
    BY DEF ReadEnd, AtClient, CloseToo, Continue
<1>2. /\ ConnInv' /\ OpenConns' = OpenConns \ {c} /\ c \in OpenConns
      /\ wire' = wire /\ backlog' = backlog
    BY <1>1, CloseKeepsConn DEF Inv, ServiceInv
<1>3. c \in Conns
    BY <1>1, OwnerType DEF Inv
<1> HIDE DEF c
<1>4. wire[c].in = 0 /\ wire[c].fin /\ ~wire[c].rst
    BY <1>1 DEF ReadEof
<1>5. wire[c].sent = wire[c].out + wire[c].got
    <2>1. Held(c) = 0
        BY <1>1 DEF Held
    <2>2. wire[c] \in Wires /\ wire[c].sent - (wire[c].in + wire[c].out + wire[c].got) = 0
        BY <1>1, <1>3, <2>1, Whole
    <2> QED
        BY <1>4, <2>2, WireType
<1>6. Lines[c].fin /\ ~Lines[c].rst /\ Lines[c].back = Lines[c].sent
    BY <1>3, <1>4, <1>5 DEF Lines
<1>7. Lines' = Lines /\ InHand = Service!Nothing /\ InHand' = Service!Nothing
    BY <1>1, <1>2 DEF Lines, InHand, Service!Nothing
<1>8. (pc # "exit")' = (pc # "exit")
    BY <1>1
<1>9. Service!Drop
    BY <1>2, <1>6, <1>7, <1>8 DEF Service!Drop
<1> QED
    BY <1>1, <1>2, <1>9 DEF ServiceInv

\* read takes bytes of one connection that are not back with it.
LEMMA ReadDataServed ==
    ASSUME Inv, ServiceInv, ReadData
    PROVE  ServiceInv' /\ Service!Take /\ pc' # "exit"
<1> DEFINE c == owner[f_i]
<1>1. /\ pc = "batch" /\ f_i \in OpenFds /\ wire[c].in > 0 /\ len' = ReadLen(c) /\ KRead(c)
      /\ pc' = "write" /\ f_i' = f_i
    BY DEF ReadData, AtClient, f_i
<1>2. c \in Conns /\ c \in OpenConns
    BY <1>1, OwnerType DEF Inv, OpenConns
<1>3. /\ owner' = owner /\ OpenFds' = OpenFds /\ ReadLen(c) \in 1 .. MAXLINE
      /\ wire'[c] \in Wires /\ wire'[c].in = wire[c].in - ReadLen(c)
    BY <1>1, <1>2, KReadKeeps DEF Inv, KernelTypeOK
<1>4. InHand = Service!Nothing /\ InHand' = [conn |-> c, n |-> ReadLen(c)]
    BY <1>1, <1>3 DEF InHand, Service!Nothing
<1>5. /\ backlog' = backlog
      /\ \A d \in Conns : /\ wire'[d].made = wire[d].made /\ wire'[d].sent = wire[d].sent
                          /\ wire'[d].out = wire[d].out /\ wire'[d].got = wire[d].got
                          /\ wire'[d].fin = wire[d].fin /\ wire'[d].rst = wire[d].rst
    BY <1>1, <1>2 DEF KRead, Inv, KernelTypeOK, Wires
<1>6. OpenConns' = OpenConns /\ Lines' = Lines
    BY <1>3, <1>5 DEF Lines, OpenConns
<1>7. ConnInv'
    BY <1>3, <1>5, WireKeepsConn DEF Inv, ServiceInv
<1> HIDE DEF c
<1>8. ReadLen(c) \in Int /\ ReadLen(c) > 0
    BY <1>3, WindowAssumption
<1>9. ReadLen(c) <= Lines[c].sent - Lines[c].back
    <2>1. Held(c) = 0
        BY <1>1 DEF Held
    <2>2. wire'[c].in \in Nat
        BY <1>3, WireType
    <2>3. wire[c] \in Wires /\ wire[c].sent - (wire[c].in + wire[c].out + wire[c].got) = 0
        BY <1>1, <1>2, <2>1, Whole
    <2>4. ReadLen(c) <= wire[c].sent - (wire[c].out + wire[c].got)
        BY <1>3, <1>8, <2>2, <2>3, WireType
    <2> QED
        BY <1>2, <2>4 DEF Lines
<1>10. (pc # "exit")' = (pc # "exit")
    BY <1>1
<1>11. Service!Take
    BY <1>2, <1>3, <1>4, <1>5, <1>6, <1>9, <1>10 DEF Service!Take
<1> QED
    BY <1>1, <1>7, <1>8, <1>11 DEF ServiceInv

\* Each round of full_write gives the connection part of what is in hand.
LEMMA WriteServed ==
    ASSUME Inv, ServiceInv, WriteStep
    PROVE  ServiceInv' /\ Service!Give /\ pc' # "exit"
<1> DEFINE c == owner[f_i]
<1>1. pc = "write" /\ ~wire[c].rst /\ (IF len' = 0 THEN Continue ELSE UNCHANGED <<pc, events, i>>)
    BY DEF WriteStep, WriteFails
<1>2. f_i \in OpenFds
    BY <1>1, AtEvent DEF Inv, BatchInv
<1>3. c \in Conns /\ c \in OpenConns /\ wire[c] \in Wires /\ len \in Nat /\ len > 0
    BY <1>1, <1>2, OwnerType, WindowAssumption DEF Inv, KernelTypeOK, ServerTypeOK, OpenConns, ServiceInv
<1>4. PICK k \in 1 .. len : WriteFits(c, k) /\ KWrite(c, k) /\ len' = len - k
    BY DEF WriteStep, Left
<1>5. k \in Nat /\ k > 0 /\ (len' = 0 <=> k = len) /\ (len' # 0 => len' > 0)
    BY <1>3, <1>4
<1>6. /\ owner' = owner /\ OpenFds' = OpenFds
      /\ \A d \in Conns : d # c => wire'[d] = wire[d]
      /\ wire'[c].in = wire[c].in /\ wire'[c].out = wire[c].out + k
      /\ wire'[c].got = wire[c].got /\ wire'[c].sent = wire[c].sent
      /\ wire'[c].rst = wire[c].rst /\ wire'[c].fin = wire[c].fin
    BY <1>3, <1>4, <1>5, KWriteKeeps DEF Inv
<1>7. /\ len' = 0 => pc' \in {"batch", "wait"}
      /\ len' # 0 => pc' = "write" /\ f_i' = f_i
    BY <1>1 DEF Continue, f_i
<1>8. /\ InHand = [conn |-> c, n |-> len] /\ InHand # Service!Nothing
      /\ InHand' = IF k = len THEN Service!Nothing ELSE [InHand EXCEPT !.n = @ - k]
    <2>1. InHand = [conn |-> c, n |-> len]
        BY <1>1 DEF InHand
    <2>2. InHand' = IF k = len THEN Service!Nothing ELSE [conn |-> c, n |-> len - k]
        BY <1>4, <1>5, <1>6, <1>7 DEF InHand, Service!Nothing
    <2> QED
        BY <1>3, <2>1, <2>2 DEF Service!Nothing
<1>9. wire'[c].made = wire[c].made /\ backlog' = backlog
    BY <1>3, <1>4 DEF KWrite, Inv, KernelTypeOK, Wires
<1>10. ConnInv'
    BY <1>6, <1>9, WireKeepsConn DEF Inv, ServiceInv
<1> HIDE DEF c
<1>11. Lines' = [Lines EXCEPT ![c] = [Lines[c] EXCEPT !.back = @ + k]]
    <2>1. wire'[c].out + wire'[c].got = wire[c].out + wire[c].got + k
        BY <1>3, <1>5, <1>6, WireType
    <2>2. Lines[c] = [made |-> wire[c].made, sent |-> wire[c].sent, back |-> wire[c].out + wire[c].got,
                      fin |-> wire[c].fin, rst |-> wire[c].rst]
        BY <1>3 DEF Lines
    <2>3. [Lines[c] EXCEPT !.back = @ + k]
            = [made |-> wire'[c].made, sent |-> wire'[c].sent, back |-> wire'[c].out + wire'[c].got,
               fin |-> wire'[c].fin, rst |-> wire'[c].rst]
        BY <1>6, <1>9, <2>1, <2>2
    <2> QED
        BY <1>3, <1>6, <2>3, LineAt
<1>12. OpenConns' = OpenConns
    BY <1>6 DEF OpenConns
<1>13. (pc # "exit")' = (pc # "exit")
    BY <1>1, <1>7
<1>14. Service!Give
    <2>1. InHand.conn = c /\ InHand.n = len
        BY <1>8
    <2>2. ~Lines[c].rst
        BY <1>1, <1>3 DEF Lines, c
    <2>3. Lines' = [Lines EXCEPT ![c].back = @ + k]
        BY <1>11
    <2> QED
        BY <1>3, <1>4, <1>8, <1>9, <1>12, <1>13, <2>1, <2>2, <2>3 DEF Service!Give
<1> QED
    BY <1>5, <1>7, <1>10, <1>14 DEF ServiceInv

\* The clients do what EchoService lets them do, whatever the server does.
LEMMA ClientsServed ==
    ASSUME Inv, ServiceInv, ClientStep, UNCHANGED <<epollVars, serverVars>>
    PROVE  ServiceInv' /\ (Service!ClientStep \/ UNCHANGED Service!vars)
<1>1. owner' = owner
    BY ClientsKeepInv
<1>2. pc' = pc /\ f_i' = f_i /\ len' = len
    BY DEF serverVars, f_i
<1>3. InHand' = InHand /\ OpenConns' = OpenConns /\ (pc # "exit")' = (pc # "exit")
    BY <1>1, <1>2 DEF InHand, OpenConns, OpenFds
<1>4. \/ \E c \in Conns : Service!Connect(c) \/ Service!Use(c)
      \/ UNCHANGED <<backlog, Lines>>
    BY ClientServed DEF Inv
<1>5. ConnInv'
    BY ClientKeepsConn DEF Inv, ServiceInv
<1> QED
    BY <1>2, <1>3, <1>4, <1>5 DEF ServiceInv, Service!ClientStep, Service!vars

\* The idle server with no connections is one EchoService starts with.
LEMMA InitServed == Init => ServiceInv /\ Service!Init
<1> SUFFICES ASSUME Init PROVE ServiceInv /\ Service!Init
    OBVIOUS
<1>1. Lines = [c \in Conns |-> [made |-> FALSE, sent |-> 0, back |-> 0, fin |-> FALSE, rst |-> FALSE]]
    BY DEF Init, KernelInit, Lines
<1>2. OpenFds = {} /\ OpenConns = {} /\ backlog = <<>> /\ pc = "wait"
    BY DEF Init, KernelInit, OpenConns, OpenFds
<1>3. InHand = Service!Nothing
    BY <1>2, NothingInHand
<1>4. (pc # "exit") = TRUE
    BY <1>2
<1>5. ServiceInv
    <2>1. Queued = {}
        BY <1>2, EmptySeq DEF Queued
    <2> QED
        BY <1>2, <2>1 DEF ServiceInv, ConnInv
<1> QED
    BY <1>1, <1>2, <1>3, <1>4, <1>5 DEF Service!Init

\* Every step is one of EchoService or changes nothing that it speaks of.
LEMMA NextServed ==
    ASSUME Inv, ServiceInv, [Next]_vars
    PROVE  ServiceInv' /\ [Service!Next]_(Service!vars)
<1>1. ASSUME Service!Admit \/ Service!Take \/ Service!Give \/ Service!Drop \/ Service!Stop,
             pc # "exit"
      PROVE  Service!Next
    BY <1>1 DEF Service!Next, Service!ServerStep
<1>2. CASE EpollWait
    BY <1>2, WaitServed
<1>3. CASE AcceptFail \/ ReadFail
    BY <1>1, <1>3, ExitServed DEF AcceptFail, ReadFail, AtClient
<1>4. CASE Accept
    BY <1>1, <1>4, AcceptServed DEF Accept
<1>5. CASE ReadEnd
    BY <1>1, <1>5, ReadEndServed DEF ReadEnd, AtClient
<1>6. CASE ReadData
    BY <1>1, <1>6, ReadDataServed DEF ReadData, AtClient
<1>7. CASE WriteFail
    <2>1. owner[f_i] \in Conns
        BY <1>7, AtEvent DEF WriteFail, Inv, BatchInv
    <2> QED
        BY <1>1, <1>7, <2>1, ExitServed DEF WriteFail, WriteFails
<1>8. CASE WriteStep
    BY <1>1, <1>8, WriteServed DEF WriteStep
<1>9. CASE ClientStep /\ UNCHANGED <<epollVars, serverVars>>
    BY <1>9, ClientsServed DEF Service!Next
<1>10. CASE UNCHANGED vars
    <2>1. UNCHANGED kernelVars /\ UNCHANGED serverVars
        BY <1>10 DEF vars
    <2>2. ConnInv'
        BY <2>1, WireKeepsConn DEF Inv, ServiceInv, kernelVars
    <2> QED
        BY <2>1, <2>2 DEF kernelVars, serverVars, ServiceInv, Service!vars, InHand, f_i, Lines,
                          OpenConns, OpenFds
<1> QED
    BY <1>2, <1>3, <1>4, <1>5, <1>6, <1>7, <1>8, <1>9, <1>10 DEF Next, ServerStep

\* The epoll server implements EchoService: however write splits what was read
\* and whatever descriptors are used again within a batch, it gives every client
\* its own bytes, those of one before those of the next, and drops none before it
\* has all of them back.
THEOREM EchoImplemented == Spec => ImplementsEcho
<1>1. Init => ServiceInv /\ Service!Init
    BY InitServed
<1>2. Inv /\ ServiceInv /\ [Next]_vars => ServiceInv' /\ [Service!Next]_(Service!vars)
    BY NextServed
<1> QED
    BY <1>1, <1>2, InvHolds, PTL DEF Spec, ImplementsEcho, Service!Spec
==============================================================================
