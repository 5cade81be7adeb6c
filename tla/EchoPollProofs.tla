---------------------------- MODULE EchoPollProofs ----------------------------
(***************************************************************************)
(* css_echo_poll.cpp for any number of connections, descriptors, entries   *)
(* and bytes: the entries agree with the open descriptors, no reported     *)
(* client is skipped, no read blocks, every exit has a cause, and the      *)
(* server implements EchoService.                                          *)
(***************************************************************************)
EXTENDS EchoPoll, TLAPS, FiniteSetTheorems, SequenceTheorems, WellFoundedInduction

ServerTypeOK ==
    /\ pc \in {"poll", "accept", "scan", "write", "exit"}
    /\ why \in {"none", "accept", "listen", "read", "write"}
    /\ fd \in [Slots -> Fds \cup {SvrFd, -1}]
    /\ revents \in [Slots -> BOOLEAN]
    /\ maxi \in 0 .. MAXFDSIZE - 1
    /\ fdnum \in 0 .. MAXFDSIZE
    /\ i \in 0 .. MAXFDSIZE /\ len \in 0 .. MAXLINE

\* What the server has read of c and not yet written back.
Held(c) == IF pc = "write" /\ owner[fd[i]] = c THEN len ELSE 0

\* No byte comes from nowhere; those held when the process exits are lost.
WireInv ==
    \A c \in Conns : wire[c].in + Held(c) + wire[c].out + wire[c].got <= wire[c].sent

Queued == 1 .. Len(backlog)

\* A connection was made once: it waits at one place of the backlog, or one
\* descriptor refers to it, or the server is done with it.
ConnInv ==
    /\ \A k, l \in Queued : backlog[k] = backlog[l] => k = l
    /\ \A k \in Queued : wire[backlog[k]].made
    /\ \A f \in OpenFds : wire[owner[f]].made /\ \A k \in Queued : backlog[k] # owner[f]
    /\ \A f, g \in OpenFds : owner[f] = owner[g] => f = g

EntryInv ==
    /\ fd[0] = SvrFd
    /\ \A s \in Clients : fd[s] \in OpenFds /\ s <= maxi
    /\ \A s, u \in Clients : fd[s] = fd[u] => s = u

\* The entries behind the one that is being served.
Behind == {s \in Slots : s <= maxi /\ revents[s] /\ IF pc = "write" THEN s > i ELSE s >= i}

\* What the loop over clients knows at each place.  In a pass that did not start
\* with an accept every entry reported is a client's, and something arrived
\* for it that only a read of this entry can take away.
ScanInv ==
    /\ pc = "accept" => i = 0 /\ revents[0] /\ fdnum > 0
    /\ pc = "scan" /\ revents[0] => i = 0
    /\ pc = "write" => ~revents[0] /\ i \in Ahead
    /\ pc \in {"scan", "write"} /\ ~revents[0] =>
          /\ Cardinality(Ahead) <= fdnum
          /\ \A s \in Behind : s \in Clients /\ Arrived(owner[fd[s]])
    /\ pc = "poll" /\ ~revents[0] => Ahead = {}

Inv == KernelTypeOK /\ ServerTypeOK /\ WireInv /\ ConnInv /\ EntryInv /\ ScanInv

------------------------------------------------------------------------------
\* A set of naturals has a least element.
LEMMA LeastOf ==
    ASSUME NEW S \in SUBSET Nat, S # {}
    PROVE  Min(S) \in S /\ \A g \in S : Min(S) <= g
<1>1. PICK f \in S : \A g \in S : <<g, f>> \notin OpToRel(<, Nat)
    BY NatLessThanWellFounded, WFMin
<1>2. \A g \in S : ~(g < f)
    BY <1>1 DEF OpToRel
<1>3. \A g \in S : f <= g
    BY <1>2
<1> QED
    BY <1>3 DEF Min

\* A set of integers that has an upper bound has a greatest element.
LEMMA GreatestOf ==
    ASSUME NEW S \in SUBSET Int, S # {}, NEW n \in Int, \A g \in S : g <= n
    PROVE  Max(S) \in S /\ \A g \in S : g <= Max(S)
<1> DEFINE D == {d \in Nat : n - d \in S}
<1>1. PICK x \in S : TRUE
    OBVIOUS
<1>2. n - x \in Nat /\ n - (n - x) = x
    BY <1>1
<1>3. D \in SUBSET Nat /\ D # {}
    BY <1>2
<1> HIDE DEF D
<1>4. Min(D) \in D /\ \A d \in D : Min(D) <= d
    BY <1>3, LeastOf
<1>5. Min(D) \in Nat /\ n - Min(D) \in S
    BY <1>4 DEF D
<1>6. ASSUME NEW g \in S PROVE g <= n - Min(D)
    <2>1. n - g \in Nat /\ n - (n - g) = g
        BY <1>6
    <2>2. n - g \in D
        BY <2>1 DEF D
    <2> QED
        BY <1>4, <1>5, <2>1, <2>2
<1>7. \E m \in S : \A g \in S : m >= g
    BY <1>5, <1>6
<1>8. Max(S) \in S /\ \A g \in S : Max(S) >= g
    BY <1>7 DEF Max
<1> QED
    BY <1>8

\* The larger of two integers.
LEMMA Larger ==
    ASSUME NEW a \in Int, NEW b \in Int
    PROVE  Max({a, b}) = IF a >= b THEN a ELSE b
<1> DEFINE m == IF a >= b THEN a ELSE b
<1>1. m \in {a, b} /\ \A y \in {a, b} : m >= y
    OBVIOUS
<1>2. \A x \in {a, b} : (\A y \in {a, b} : x >= y) => x = m
    OBVIOUS
<1> QED
    BY <1>1, <1>2 DEF Max

\* The smaller of two integers.
LEMMA Smaller ==
    ASSUME NEW a \in Int, NEW b \in Int
    PROVE  Min({a, b}) = IF a <= b THEN a ELSE b
<1> DEFINE m == IF a <= b THEN a ELSE b
<1>1. m \in {a, b} /\ \A y \in {a, b} : m <= y
    OBVIOUS
<1>2. \A x \in {a, b} : (\A y \in {a, b} : x <= y) => x = m
    OBVIOUS
<1> QED
    BY <1>1, <1>2 DEF Min

\* The descriptors are naturals, and none is the listener's or -1.
LEMMA FdFacts ==
    SvrFd \notin Fds /\ -1 \notin Fds /\ Fds \subseteq Nat /\ SvrFd \in Nat /\ SvrFd # -1
<1>1. SvrFd \notin Fds /\ -1 \notin Fds /\ \A f \in Fds : f \in Nat
    BY FdAssumption DEF Fds
<1> QED
    BY <1>1, FdAssumption

\* The counts the kernel keeps for a connection.
LEMMA WireType ==
    ASSUME NEW w \in Wires
    PROVE  /\ w.sent \in Nat /\ w.in \in Nat /\ w.out \in Nat /\ w.got \in Nat
           /\ w.sent <= MaxBytes /\ w.in <= MaxBytes /\ w.got <= MaxBytes /\ w.out <= Window
           /\ MaxBytes \in Nat /\ Window \in Nat /\ MAXLINE \in Nat /\ MAXLINE > 0
    BY BoundAssumption, WindowAssumption DEF Wires

\* Only the connection c is touched, and it stays made.
LEMMA OneWire ==
    ASSUME KernelTypeOK, ConnInv, NEW c \in Conns, NEW v \in Wires,
           wire' = [wire EXCEPT ![c] = v], UNCHANGED <<backlog, owner>>, wire[c].made => v.made
    PROVE  /\ KernelTypeOK' /\ ConnInv' /\ OpenFds' = OpenFds
           /\ wire'[c] = v /\ \A d \in Conns : d # c => wire'[d] = wire[d]
<1>1. wire \in [Conns -> Wires] /\ backlog \in Seq(Conns) /\ owner \in [Fds -> Conns \cup {NULL}]
    BY DEF KernelTypeOK
<1>2. wire' \in [Conns -> Wires] /\ wire'[c] = v /\ \A d \in Conns : d # c => wire'[d] = wire[d]
    BY <1>1
<1>3. OpenFds' = OpenFds /\ Queued' = Queued
    BY DEF OpenFds, Queued
<1>4. \A f \in OpenFds : owner[f] \in Conns
    BY <1>1 DEF OpenFds
<1>5. \A k \in Queued : backlog[k] \in Conns
    BY <1>1, ElementOfSeq DEF Queued
<1>6. \A d \in Conns : wire[d].made => wire'[d].made
    BY <1>2
<1>7. ConnInv'
    BY <1>3, <1>4, <1>5, <1>6 DEF ConnInv
<1> QED
    BY <1>1, <1>2, <1>3, <1>7 DEF KernelTypeOK

\* connect puts a connection into the backlog that was nowhere before.
LEMMA ConnectKeeps ==
    ASSUME KernelTypeOK, ConnInv, NEW c \in Conns, Connect(c)
    PROVE  /\ KernelTypeOK' /\ ConnInv' /\ owner' = owner
           /\ \A d \in Conns : wire'[d] = IF d = c THEN [wire[c] EXCEPT !.made = TRUE] ELSE wire[d]
<1>1. wire \in [Conns -> Wires] /\ backlog \in Seq(Conns) /\ owner \in [Fds -> Conns \cup {NULL}]
    BY DEF KernelTypeOK
<1> DEFINE v == [wire[c] EXCEPT !.made = TRUE]
<1>2. v \in Wires /\ v.made
    <2>1. wire[c] \in Wires
        BY <1>1
    <2> QED
        BY <2>1 DEF Wires
<1>3. ~wire[c].made /\ wire' = [wire EXCEPT ![c] = v] /\ backlog' = Append(backlog, c) /\ owner' = owner
    BY <1>1 DEF Connect
<1> HIDE DEF v
<1>4. wire' \in [Conns -> Wires] /\ \A d \in Conns : wire'[d] = IF d = c THEN v ELSE wire[d]
    BY <1>1, <1>2, <1>3
<1>5. /\ backlog' \in Seq(Conns) /\ Len(backlog') = Len(backlog) + 1 /\ Len(backlog) \in Nat
      /\ \A k \in Queued : backlog'[k] = backlog[k]
      /\ backlog'[Len(backlog) + 1] = c
    BY <1>1, <1>3, AppendProperties, LenProperties DEF Queued
<1>6. Queued' = Queued \cup {Len(backlog) + 1}
    BY <1>5 DEF Queued
<1>7. \A k \in Queued : backlog[k] \in Conns /\ backlog[k] # c
    BY <1>1, <1>3, ElementOfSeq DEF Queued, ConnInv
<1>8. OpenFds' = OpenFds /\ \A f \in OpenFds : owner[f] \in Conns /\ owner[f] # c
    BY <1>1, <1>3 DEF OpenFds, ConnInv
<1>9. \A k, l \in Queued' : backlog'[k] = backlog'[l] => k = l
    BY <1>5, <1>6, <1>7 DEF ConnInv
<1>10. \A k \in Queued' : wire'[backlog'[k]].made
    BY <1>2, <1>4, <1>5, <1>6, <1>7 DEF ConnInv
<1>11. \A f \in OpenFds : wire'[owner[f]].made /\ \A k \in Queued' : backlog'[k] # owner[f]
    BY <1>4, <1>5, <1>6, <1>8 DEF ConnInv
<1>12. ConnInv'
    BY <1>3, <1>8, <1>9, <1>10, <1>11 DEF ConnInv
<1> QED
    BY <1>1, <1>3, <1>4, <1>5, <1>12 DEF KernelTypeOK, v

\* A client leaves the descriptors alone, makes no byte appear in the kernel
\* without sending it and takes back neither data nor a FIN or a reset.
LEMMA ClientKeeps ==
    ASSUME KernelTypeOK, ConnInv, ClientStep, NEW held \in [Conns -> Nat],
           \A c \in Conns : wire[c].in + held[c] + wire[c].out + wire[c].got <= wire[c].sent
    PROVE  /\ KernelTypeOK' /\ ConnInv' /\ owner' = owner
           /\ \A c \in Conns :
                 /\ wire'[c].in + held[c] + wire'[c].out + wire'[c].got <= wire'[c].sent
                 /\ wire[c].rst => wire'[c].rst
                 /\ Arrived(c) => Arrived(c)'
<1>1. PICK c \in Conns : Connect(c) \/ Send(c) \/ Receive(c) \/ Finish(c) \/ Reset(c)
    BY DEF ClientStep
<1> DEFINE w == wire[c]
<1>2. wire \in [Conns -> Wires] /\ w \in Wires /\ held[c] \in Nat
    BY DEF KernelTypeOK
<1>3. /\ w.in + held[c] + w.out + w.got <= w.sent
      /\ w.sent \in Nat /\ w.in \in Nat /\ w.out \in Nat /\ w.got \in Nat
      /\ w.sent <= MaxBytes /\ w.out <= Window /\ MaxBytes \in Nat /\ Window \in Nat
    BY <1>2, WireType
<1>4. ASSUME NEW v, \A d \in Conns : wire'[d] = IF d = c THEN v ELSE wire[d],
             v.in + held[c] + v.out + v.got <= v.sent, w.rst => v.rst, w.fin => v.fin,
             w.in > 0 => v.in > 0
      PROVE  \A d \in Conns :
                 /\ wire'[d].in + held[d] + wire'[d].out + wire'[d].got <= wire'[d].sent
                 /\ wire[d].rst => wire'[d].rst
                 /\ Arrived(d) => Arrived(d)'
    BY <1>4 DEF Arrived
<1>5. ASSUME NEW v \in Wires, wire' = [wire EXCEPT ![c] = v], UNCHANGED <<backlog, owner>>,
             v.in + held[c] + v.out + v.got <= v.sent, w.rst => v.rst, w.fin => v.fin,
             w.in > 0 => v.in > 0, w.made => v.made
      PROVE  /\ KernelTypeOK' /\ ConnInv' /\ owner' = owner
             /\ \A d \in Conns :
                   /\ wire'[d].in + held[d] + wire'[d].out + wire'[d].got <= wire'[d].sent
                   /\ wire[d].rst => wire'[d].rst
                   /\ Arrived(d) => Arrived(d)'
    <2>1. KernelTypeOK' /\ ConnInv' /\ \A d \in Conns : wire'[d] = IF d = c THEN v ELSE wire[d]
        BY <1>5, OneWire
    <2> QED
        BY <1>4, <1>5, <2>1
<1>6. CASE Connect(c)
    <2> DEFINE v == [w EXCEPT !.made = TRUE]
    <2>1. /\ v.in = w.in /\ v.sent = w.sent /\ v.out = w.out /\ v.got = w.got
          /\ v.rst = w.rst /\ v.fin = w.fin
        BY <1>2 DEF Wires
    <2>2. KernelTypeOK' /\ ConnInv' /\ owner' = owner
          /\ \A d \in Conns : wire'[d] = IF d = c THEN v ELSE wire[d]
        BY <1>6, ConnectKeeps
    <2> HIDE DEF v
    <2> QED
        BY <1>3, <1>4, <2>1, <2>2
<1>7. CASE Send(c)
    <2>1. /\ wire' = [wire EXCEPT ![c] = [w EXCEPT !.sent = @ + 1, !.in = @ + 1]]
          /\ w.sent < MaxBytes /\ UNCHANGED <<backlog, owner>>
        BY <1>7, <1>2 DEF Send
    <2>2. w.in + 1 \in 0 .. MaxBytes /\ w.sent + 1 \in 0 .. MaxBytes
        BY <1>2, <1>3, <2>1
    <2> DEFINE v == [w EXCEPT !.sent = @ + 1, !.in = @ + 1]
    <2>3. /\ v \in Wires
          /\ v.in = w.in + 1 /\ v.sent = w.sent + 1 /\ v.out = w.out /\ v.got = w.got
          /\ v.rst = w.rst /\ v.fin = w.fin /\ v.made = w.made
        BY <1>2, <2>2 DEF Wires
    <2>4. wire' = [wire EXCEPT ![c] = v]
        BY <2>1
    <2> HIDE DEF v
    <2>5. v.in + held[c] + v.out + v.got <= v.sent /\ v.in > 0
        BY <1>2, <1>3, <2>3
    <2> QED
        BY <1>5, <2>1, <2>3, <2>4, <2>5
<1>8. CASE Receive(c)
    <2>1. /\ wire' = [wire EXCEPT ![c] = [w EXCEPT !.got = @ + w.out, !.out = 0]]
          /\ UNCHANGED <<backlog, owner>>
        BY <1>8, <1>2 DEF Receive
    <2>2. w.got + w.out \in 0 .. MaxBytes /\ 0 \in 0 .. Window
        BY <1>2, <1>3
    <2> DEFINE v == [w EXCEPT !.got = @ + w.out, !.out = 0]
    <2>3. /\ v \in Wires
          /\ v.in = w.in /\ v.sent = w.sent /\ v.out = 0 /\ v.got = w.got + w.out
          /\ v.rst = w.rst /\ v.fin = w.fin /\ v.made = w.made
        BY <1>2, <2>2 DEF Wires
    <2>4. wire' = [wire EXCEPT ![c] = v]
        BY <2>1
    <2> HIDE DEF v
    <2>5. v.in + held[c] + v.out + v.got <= v.sent
        BY <1>2, <1>3, <2>3
    <2> QED
        BY <1>5, <2>1, <2>3, <2>4, <2>5
<1>9. CASE Finish(c) \/ Reset(c)
    <2>1. PICK v \in {[w EXCEPT !.fin = TRUE], [w EXCEPT !.rst = TRUE]} : wire' = [wire EXCEPT ![c] = v]
        BY <1>9, <1>2 DEF Finish, Reset
    <2>2. UNCHANGED <<backlog, owner>>
        BY <1>9 DEF Finish, Reset
    <2>3. /\ v \in Wires
          /\ v.in = w.in /\ v.sent = w.sent /\ v.out = w.out /\ v.got = w.got
          /\ v.made = w.made
        BY <1>2 DEF Wires
    <2>4. (w.rst => v.rst) /\ (w.fin => v.fin)
        BY <1>2 DEF Wires
    <2> QED
        BY <1>3, <1>5, <2>1, <2>2, <2>3, <2>4
<1> QED
    BY <1>1, <1>6, <1>7, <1>8, <1>9

\* accept returns a descriptor that was closed.
LEMMA Fresh ==
    ASSUME FreeFds # {}
    PROVE  NewFd \in Fds /\ NewFd \notin OpenFds
<1>1. FreeFds \in SUBSET Nat
    BY FdFacts DEF FreeFds
<1>2. NewFd \in FreeFds
    BY <1>1, LeastOf DEF NewFd
<1> QED
    BY <1>2 DEF FreeFds

\* accept gives the first of the backlog a descriptor that was closed.
LEMMA KAcceptKeeps ==
    ASSUME KernelTypeOK, ConnInv, KAccept, FreeFds # {}
    PROVE  /\ KernelTypeOK' /\ ConnInv' /\ OpenFds' = OpenFds \cup {NewFd} /\ wire' = wire
           /\ NewFd \in Fds /\ NewFd \notin OpenFds
           /\ \A f \in OpenFds : owner'[f] = owner[f]
<1>1. /\ backlog # <<>> /\ owner' = [owner EXCEPT ![NewFd] = Head(backlog)]
      /\ backlog' = Tail(backlog) /\ wire' = wire
    BY DEF KAccept
<1>2. NewFd \in Fds /\ NewFd \notin OpenFds
    BY Fresh
<1>3. /\ Head(backlog) \in Conns /\ backlog' \in Seq(Conns) /\ Len(backlog') = Len(backlog) - 1
      /\ \A k \in 1 .. Len(backlog') : backlog'[k] = backlog[k + 1]
      /\ Len(backlog) \in Nat \ {0} /\ Head(backlog) = backlog[1]
    BY <1>1, HeadTailProperties, EmptySeq DEF KernelTypeOK
<1>4. \A k \in Queued' : k + 1 \in Queued /\ backlog'[k] = backlog[k + 1] /\ k \in Int
    BY <1>3 DEF Queued
<1>5. 1 \in Queued /\ \A k \in Queued' : k + 1 # 1
    BY <1>3 DEF Queued
<1>6. Head(backlog) # NULL
    BY <1>3, ConnAssumption
<1>7. /\ KernelTypeOK' /\ OpenFds' = OpenFds \cup {NewFd} /\ owner'[NewFd] = Head(backlog)
      /\ \A f \in OpenFds : owner'[f] = owner[f]
    BY <1>1, <1>2, <1>3, <1>6 DEF KernelTypeOK, OpenFds
<1>8. \A k, l \in Queued' : backlog'[k] = backlog'[l] => k = l
    <2> SUFFICES ASSUME NEW k \in Queued', NEW l \in Queued', backlog'[k] = backlog'[l] PROVE k = l
        OBVIOUS
    <2>1. k + 1 = l + 1
        BY <1>4 DEF ConnInv
    <2> QED
        BY <1>4, <2>1
<1>9. \A k \in Queued' : wire[backlog'[k]].made /\ backlog'[k] # Head(backlog)
    BY <1>3, <1>4, <1>5 DEF ConnInv
<1>10. ConnInv'
    <2>1. \A f \in OpenFds' : wire'[owner'[f]].made /\ \A k \in Queued' : backlog'[k] # owner'[f]
        <3>1. wire[Head(backlog)].made /\ \A k \in Queued' : backlog'[k] # owner'[NewFd]
            BY <1>3, <1>5, <1>7, <1>9 DEF ConnInv
        <3>2. \A f \in OpenFds : wire[owner[f]].made /\ \A k \in Queued' : backlog'[k] # owner[f]
            BY <1>4 DEF ConnInv
        <3> QED
            BY <1>1, <1>7, <3>1, <3>2
    <2>2. \A f, g \in OpenFds' : owner'[f] = owner'[g] => f = g
        BY <1>3, <1>5, <1>7 DEF ConnInv
    <2> QED
        BY <1>1, <1>8, <1>9, <2>1, <2>2 DEF ConnInv
<1> QED
    BY <1>1, <1>2, <1>7, <1>10

\* close leaves every other descriptor alone.
LEMMA KCloseKeeps ==
    ASSUME KernelTypeOK, ConnInv, NEW f \in OpenFds, KClose(f)
    PROVE  /\ KernelTypeOK' /\ ConnInv' /\ OpenFds' = OpenFds \ {f} /\ wire' = wire
           /\ \A g \in OpenFds' : owner'[g] = owner[g]
<1>1. owner' = [owner EXCEPT ![f] = NULL] /\ backlog' = backlog /\ wire' = wire
    BY DEF KClose
<1>2. /\ KernelTypeOK' /\ OpenFds' = OpenFds \ {f}
      /\ \A g \in OpenFds' : owner'[g] = owner[g]
    BY <1>1 DEF KernelTypeOK, OpenFds
<1>3. Queued' = Queued
    BY <1>1 DEF Queued
<1>4. ConnInv'
    BY <1>1, <1>2, <1>3 DEF ConnInv
<1> QED
    BY <1>1, <1>2, <1>4

\* read takes at most a buffer of what waits on one connection.
LEMMA KReadKeeps ==
    ASSUME KernelTypeOK, ConnInv, NEW c \in Conns, wire[c].in > 0, KRead(c)
    PROVE  /\ KernelTypeOK' /\ ConnInv' /\ owner' = owner /\ OpenFds' = OpenFds
           /\ ReadLen(c) \in 1 .. MAXLINE
           /\ \A d \in Conns : d # c => wire'[d] = wire[d]
           /\ wire'[c].in = wire[c].in - ReadLen(c) /\ wire'[c].out = wire[c].out
           /\ wire'[c].got = wire[c].got /\ wire'[c].sent = wire[c].sent /\ wire'[c].rst = wire[c].rst
<1> DEFINE w == wire[c]
<1>1. w \in Wires
    BY DEF KernelTypeOK
<1>2. w.in \in Nat /\ w.in <= MaxBytes /\ MaxBytes \in Nat /\ MAXLINE \in Nat /\ MAXLINE > 0
    BY <1>1, WireType
<1>3. ReadLen(c) = IF w.in <= MAXLINE THEN w.in ELSE MAXLINE
    <2>1. w.in \in Int /\ MAXLINE \in Int
        BY <1>2
    <2> QED
        BY <2>1, Smaller DEF ReadLen
<1>4. ReadLen(c) \in 1 .. MAXLINE /\ w.in - ReadLen(c) \in 0 .. MaxBytes
    BY <1>2, <1>3
<1> DEFINE v == [w EXCEPT !.in = @ - ReadLen(c)]
<1>5. /\ v \in Wires /\ v.in = w.in - ReadLen(c) /\ v.out = w.out /\ v.got = w.got
      /\ v.sent = w.sent /\ v.rst = w.rst /\ v.made = w.made
    BY <1>1, <1>4 DEF Wires
<1>6. wire' = [wire EXCEPT ![c] = v] /\ UNCHANGED <<backlog, owner>>
    BY DEF KRead
<1> HIDE DEF v
<1>7. KernelTypeOK' /\ ConnInv' /\ OpenFds' = OpenFds
      /\ wire'[c] = v /\ \A d \in Conns : d # c => wire'[d] = wire[d]
    BY <1>5, <1>6, OneWire
<1> QED
    BY <1>4, <1>5, <1>6, <1>7

\* write adds to what waits for the client, within the window.
LEMMA KWriteKeeps ==
    ASSUME KernelTypeOK, ConnInv, NEW c \in Conns, NEW n \in Nat, WriteFits(c, n), KWrite(c, n)
    PROVE  /\ KernelTypeOK' /\ ConnInv' /\ owner' = owner /\ OpenFds' = OpenFds
           /\ \A d \in Conns : d # c => wire'[d] = wire[d]
           /\ wire'[c].in = wire[c].in /\ wire'[c].out = wire[c].out + n
           /\ wire'[c].got = wire[c].got /\ wire'[c].sent = wire[c].sent
           /\ wire'[c].rst = wire[c].rst /\ wire'[c].fin = wire[c].fin
<1> DEFINE w == wire[c]
<1>1. w \in Wires
    BY DEF KernelTypeOK
<1>2. w.out + n \in 0 .. Window
    BY <1>1, WireType DEF WriteFits
<1> DEFINE v == [w EXCEPT !.out = @ + n]
<1>3. /\ v \in Wires /\ v.in = w.in /\ v.out = w.out + n /\ v.got = w.got
      /\ v.sent = w.sent /\ v.rst = w.rst /\ v.fin = w.fin /\ v.made = w.made
    BY <1>1, <1>2 DEF Wires
<1>4. wire' = [wire EXCEPT ![c] = v] /\ UNCHANGED <<backlog, owner>>
    BY DEF KWrite
<1> HIDE DEF v
<1>5. KernelTypeOK' /\ ConnInv' /\ OpenFds' = OpenFds
      /\ wire'[c] = v /\ \A d \in Conns : d # c => wire'[d] = wire[d]
    BY <1>3, <1>4, OneWire
<1> QED
    BY <1>3, <1>4, <1>5

------------------------------------------------------------------------------
\* What the server holds is counted in bytes.
LEMMA HeldType ==
    ASSUME ServerTypeOK, NEW c
    PROVE  Held(c) \in Nat
    BY WindowAssumption DEF Held, ServerTypeOK

\* An open descriptor refers to a connection.
LEMMA OwnerType ==
    ASSUME KernelTypeOK, NEW f \in OpenFds
    PROVE  f \in Fds /\ owner[f] \in Conns /\ f # SvrFd /\ f # -1
    BY FdFacts DEF KernelTypeOK, OpenFds

\* The entries: the clients' and the finitely many still ahead.
LEMMA Entries ==
    ASSUME ServerTypeOK
    PROVE  /\ Ahead \subseteq Clients /\ Clients \subseteq Slots /\ Slots \subseteq Nat /\ 0 \in Slots
           /\ IsFiniteSet(Slots) /\ Cardinality(Slots) = MAXFDSIZE
           /\ IsFiniteSet(Ahead) /\ Cardinality(Ahead) \in Nat
           /\ Cardinality(Ahead) = 0 <=> Ahead = {}
<1>1. Ahead \subseteq Clients /\ Clients \subseteq Slots
    BY DEF Clients, Ahead
<1>2. \A s \in Slots : s \in Nat
    BY EntryAssumption DEF Slots
<1>3. IsFiniteSet(Slots) /\ Cardinality(Slots) = MAXFDSIZE /\ 0 \in Slots
    BY EntryAssumption, FS_Interval DEF Slots
<1>4. IsFiniteSet(Ahead)
    BY <1>1, <1>3, FS_Subset
<1> QED
    BY <1>1, <1>2, <1>3, <1>4, FS_CardinalityType, FS_EmptySet

\* The loop behind the loop over clients lowers maxi, to no less than an entry in
\* use; the listener's always is.
LEMMA Shrunk ==
    ASSUME ServerTypeOK, EntryInv
    PROVE  /\ Shrink(fd, maxi) \in 0 .. MAXFDSIZE - 1 /\ Shrink(fd, maxi) <= maxi
           /\ \A s \in Clients : s <= Shrink(fd, maxi)
<1> DEFINE S == {-1} \cup {s \in 0 .. maxi : fd[s] # -1}
<1>1. maxi \in Int /\ 0 <= maxi /\ maxi <= MAXFDSIZE - 1 /\ MAXFDSIZE \in Nat
    BY EntryAssumption DEF ServerTypeOK
<1>2. S \in SUBSET Int /\ S # {} /\ \A g \in S : g <= maxi
    BY <1>1
<1>3. 0 \in S /\ \A s \in Clients : s \in S
    <2>1. 0 \in S
        BY <1>1, FdFacts DEF EntryInv
    <2>2. \A s \in Clients : s \in Nat /\ s <= maxi /\ fd[s] # -1
        BY Entries DEF EntryInv, Clients
    <2> QED
        BY <1>1, <2>1, <2>2
<1> HIDE DEF S
<1>4. Max(S) \in S /\ \A g \in S : g <= Max(S)
    BY <1>1, <1>2, GreatestOf
<1>5. Shrink(fd, maxi) = Max(S)
    BY DEF Shrink, S
<1>6. Max(S) \in Int /\ 0 <= Max(S) /\ Max(S) <= maxi
    BY <1>2, <1>3, <1>4
<1>7. Max(S) \in 0 .. MAXFDSIZE - 1
    BY <1>1, <1>6
<1> QED
    BY <1>3, <1>4, <1>5, <1>6, <1>7

\* print_error disturbs nothing.
LEMMA ExitKeeps ==
    ASSUME Inv, NEW call \in {"accept", "listen", "read", "write"}, Exit(call)
    PROVE  Inv'
<1>1. UNCHANGED <<kernelVars, fd, revents, maxi, fdnum, i, len>> /\ pc' = "exit" /\ why' = call
    BY DEF Exit
<1>2. KernelTypeOK' /\ ServerTypeOK'
    BY <1>1 DEF Inv, KernelTypeOK, ServerTypeOK, kernelVars
<1>3. WireInv'
    <2> SUFFICES ASSUME NEW c \in Conns
                 PROVE  (wire[c].in + Held(c) + wire[c].out + wire[c].got <= wire[c].sent)'
        BY DEF WireInv
    <2>1. Held(c)' = 0 /\ wire'[c] = wire[c]
        BY <1>1 DEF Held, kernelVars
    <2>2. wire[c] \in Wires /\ Held(c) \in Nat
        BY HeldType DEF Inv, KernelTypeOK
    <2>3. wire[c].in + Held(c) + wire[c].out + wire[c].got <= wire[c].sent
        BY DEF Inv, WireInv
    <2> QED
        BY <2>1, <2>2, <2>3, WireType
<1>4. OpenFds' = OpenFds /\ Queued' = Queued /\ Clients' = Clients
    BY <1>1 DEF OpenFds, Queued, Clients, kernelVars
<1>5. ConnInv' /\ EntryInv' /\ ScanInv'
    BY <1>1, <1>4 DEF Inv, ConnInv, EntryInv, ScanInv, kernelVars
<1> QED
    BY <1>2, <1>3, <1>5 DEF Inv

\* The clients act between the calls of the server.
LEMMA ClientsKeepInv ==
    ASSUME Inv, ClientStep, UNCHANGED serverVars
    PROVE  Inv' /\ owner' = owner /\ \A c \in Conns : wire[c].rst => wire'[c].rst
<1> DEFINE h == [c \in Conns |-> Held(c)]
<1>1. h \in [Conns -> Nat] /\ \A c \in Conns : h[c] = Held(c)
    BY HeldType DEF Inv
<1>2. \A c \in Conns : wire[c].in + h[c] + wire[c].out + wire[c].got <= wire[c].sent
    BY <1>1 DEF Inv, WireInv
<1> HIDE DEF h
<1>3. /\ KernelTypeOK' /\ ConnInv' /\ owner' = owner
      /\ \A c \in Conns :
            /\ wire'[c].in + h[c] + wire'[c].out + wire'[c].got <= wire'[c].sent
            /\ wire[c].rst => wire'[c].rst
            /\ Arrived(c) => Arrived(c)'
    BY <1>1, <1>2, ClientKeeps DEF Inv
<1>4. \A c \in Conns : Held(c)' = h[c]
    BY <1>1, <1>3 DEF Held, serverVars
<1>5. WireInv'
    BY <1>3, <1>4 DEF WireInv
<1>6. ServerTypeOK'
    BY DEF Inv, ServerTypeOK, serverVars
<1>7. OpenFds' = OpenFds /\ Clients' = Clients /\ Ahead' = Ahead /\ Behind' = Behind
    BY <1>3 DEF OpenFds, Clients, Ahead, Behind, serverVars
<1>8. EntryInv'
    BY <1>7 DEF Inv, EntryInv, serverVars
<1>9. \A s \in Clients : Arrived(owner[fd[s]]) => Arrived(owner[fd[s]])'
    <2> SUFFICES ASSUME NEW s \in Clients, Arrived(owner[fd[s]]) PROVE Arrived(owner[fd[s]])'
        OBVIOUS
    <2>1. owner[fd[s]] \in Conns /\ fd' = fd
        BY OwnerType DEF Inv, EntryInv, serverVars
    <2> QED
        BY <1>3, <2>1 DEF Arrived
<1>10. ScanInv'
    BY <1>7, <1>9 DEF Inv, ScanInv, serverVars
<1> QED
    BY <1>3, <1>5, <1>6, <1>8, <1>10 DEF Inv

\* While the server writes nothing, it holds nothing.
LEMMA IdleWires ==
    ASSUME Inv, pc # "write", pc' # "write", wire' = wire
    PROVE  WireInv'
<1>1. \A c : Held(c) = 0 /\ Held(c)' = 0
    BY DEF Held
<1> QED
    BY <1>1 DEF Inv, WireInv

\* poll reports entries of clients for which something arrived, and the listener.
LEMMA PollKeeps ==
    ASSUME Inv, Poll
    PROVE  Inv'
<1>1. /\ pc = "poll" /\ Ready # {} /\ i' = 0 /\ fdnum' = Cardinality(Ready)
      /\ revents' = [s \in Slots |-> IF s <= maxi THEN s \in Ready ELSE revents[s]]
      /\ pc' = IF 0 \in Ready THEN "accept" ELSE "scan"
      /\ UNCHANGED <<kernelVars, why, fd, maxi, len>>
    BY DEF Poll
<1>2. /\ maxi \in Int /\ maxi >= 0 /\ maxi <= MAXFDSIZE - 1 /\ MAXFDSIZE \in Nat
    BY EntryAssumption DEF Inv, ServerTypeOK
<1>3. Ready \subseteq Slots /\ \A s \in Ready : s <= maxi
    BY <1>2 DEF Ready, Slots
<1>4. IsFiniteSet(Ready) /\ fdnum' \in 0 .. MAXFDSIZE /\ fdnum' > 0
    <2>1. IsFiniteSet(Ready) /\ Cardinality(Ready) <= MAXFDSIZE
        BY <1>3, Entries, FS_Subset DEF Inv
    <2>2. Cardinality(Ready) \in Nat /\ Cardinality(Ready) # 0
        BY <1>1, <2>1, FS_CardinalityType, FS_EmptySet
    <2> QED
        BY <1>1, <1>2, <2>1, <2>2
<1>5. revents'[0] <=> 0 \in Ready
    BY <1>1, <1>2, Entries DEF Inv
<1>6. revents' \in [Slots -> BOOLEAN] /\ i' \in 0 .. MAXFDSIZE
    <2>1. \A s \in Slots : revents[s] \in BOOLEAN
        BY DEF Inv, ServerTypeOK
    <2>2. \A s \in Slots : (IF s <= maxi THEN s \in Ready ELSE revents[s]) \in BOOLEAN
        <3> SUFFICES ASSUME NEW s \in Slots
                     PROVE  (IF s <= maxi THEN s \in Ready ELSE revents[s]) \in BOOLEAN
            OBVIOUS
        <3>1. CASE s <= maxi
            BY <3>1
        <3>2. CASE ~(s <= maxi)
            BY <2>1, <3>2
        <3> QED
            BY <3>1, <3>2
    <2>3. [s \in Slots |-> IF s <= maxi THEN s \in Ready ELSE revents[s]] \in [Slots -> BOOLEAN]
        BY <2>2, Zenon
    <2> QED
        BY <1>1, <1>2, <2>3
<1>7. KernelTypeOK' /\ ServerTypeOK'
    BY <1>1, <1>4, <1>6 DEF Inv, KernelTypeOK, ServerTypeOK, kernelVars
<1>8. WireInv'
    BY <1>1, IdleWires DEF kernelVars
<1>9. OpenFds' = OpenFds /\ Queued' = Queued /\ Clients' = Clients
    BY <1>1 DEF OpenFds, Queued, Clients, kernelVars
<1>10. ConnInv' /\ EntryInv'
    BY <1>1, <1>9 DEF Inv, ConnInv, EntryInv, kernelVars
<1>11. Ahead' \subseteq Ready
    BY <1>1, <1>9, Entries DEF Ahead, Inv
<1>12. Cardinality(Ahead') <= fdnum'
    BY <1>1, <1>4, <1>11, FS_Subset
<1>13. ASSUME ~revents'[0] PROVE \A s \in Behind' : s \in Clients' /\ Arrived(owner[fd[s]])'
    <2> SUFFICES ASSUME NEW s \in Behind' PROVE s \in Clients' /\ Arrived(owner[fd[s]])'
        OBVIOUS
    <2>1. s \in Slots /\ s \in Ready /\ s # 0
        BY <1>1, <1>5, <1>13 DEF Behind
    <2>2. fd[s] \in OpenFds \cup {SvrFd} /\ Readable(fd[s])
        BY <2>1 DEF Ready
    <2>3. s \in Clients
        BY <2>1, <2>2, OwnerType, FdFacts DEF Clients, Inv
    <2>4. fd[s] \in OpenFds /\ fd[s] # SvrFd
        BY <2>3, OwnerType DEF Inv, EntryInv
    <2>5. Arrived(owner[fd[s]])
        BY <2>2, <2>4 DEF Readable
    <2> QED
        BY <1>1, <1>9, <2>3, <2>5 DEF Arrived, kernelVars
<1>14. ScanInv'
    BY <1>1, <1>4, <1>5, <1>12, <1>13 DEF ScanInv
<1> QED
    BY <1>7, <1>8, <1>10, <1>14 DEF Inv

\* A new client takes a free entry, if there is one.
LEMMA AcceptKeeps ==
    ASSUME Inv, Accept
    PROVE  Inv'
<1>1. /\ pc = "accept" /\ FreeFds # {} /\ KAccept
      /\ fdnum' = fdnum - 1 /\ pc' = IF fdnum' <= 0 THEN "poll" ELSE "scan"
      /\ UNCHANGED <<why, revents, i, len>>
    BY DEF Accept
<1>2. i = 0 /\ revents[0] /\ fdnum > 0
    BY <1>1 DEF Inv, ScanInv
<1>3. /\ KernelTypeOK' /\ ConnInv' /\ OpenFds' = OpenFds \cup {NewFd} /\ wire' = wire
      /\ NewFd \in Fds /\ NewFd \notin OpenFds
    BY <1>1, KAcceptKeeps DEF Inv
<1>4. NewFd # -1 /\ NewFd # SvrFd
    BY <1>3, FdFacts
<1>5. \/ UNCHANGED <<fd, maxi>>
      \/ /\ Min(FreeSlots) \in FreeSlots
         /\ fd' = [fd EXCEPT ![Min(FreeSlots)] = NewFd]
         /\ maxi' = Max({maxi, Min(FreeSlots)})
    <2>1. FreeSlots \in SUBSET Nat
        BY Entries DEF FreeSlots, Inv
    <2> QED
        BY <2>1, LeastOf DEF Accept, Raise
<1>6. /\ fd' \in [Slots -> Fds \cup {SvrFd, -1}] /\ maxi' \in 0 .. MAXFDSIZE - 1
      /\ EntryInv'
    <2>0. /\ fd \in [Slots -> Fds \cup {SvrFd, -1}] /\ maxi \in 0 .. MAXFDSIZE - 1 /\ EntryInv
          /\ MAXFDSIZE \in Nat
        BY EntryAssumption DEF Inv, ServerTypeOK
    <2>1. CASE UNCHANGED <<fd, maxi>>
        <3>1. Clients' = Clients
            BY <2>1 DEF Clients
        <3> QED
            BY <1>3, <2>0, <2>1, <3>1 DEF EntryInv
    <2>2. CASE ~UNCHANGED <<fd, maxi>>
        <3>0. PICK m \in FreeSlots : fd' = [fd EXCEPT ![m] = NewFd] /\ maxi' = Max({maxi, m})
            BY <1>5, <2>2
        <3>1. m \in Slots /\ m \in Nat /\ m <= MAXFDSIZE - 1 /\ fd[m] = -1 /\ m # 0
            BY <2>0, FdFacts DEF FreeSlots, Slots, EntryInv
        <3>2. maxi' \in {maxi, m} /\ maxi' >= maxi /\ maxi' >= m
            BY <2>0, <3>0, <3>1, Larger
        <3>3. Clients' = Clients \cup {m} /\ m \notin Clients /\ \A s \in Clients : fd'[s] = fd[s]
            BY <1>4, <2>0, <3>0, <3>1 DEF Clients
        <3>4. maxi' \in 0 .. MAXFDSIZE - 1
            BY <2>0, <3>1, <3>2
        <3>5. fd' \in [Slots -> Fds \cup {SvrFd, -1}] /\ fd'[m] = NewFd /\ fd'[0] = SvrFd
            BY <1>3, <2>0, <3>0, <3>1, Entries DEF EntryInv, Inv
        <3>6. \A s \in Clients : s \in Int /\ s <= maxi'
            BY <2>0, <3>2, Entries DEF EntryInv, Inv
        <3>7. \A s \in Clients' : fd'[s] \in OpenFds' /\ s <= maxi'
            BY <1>3, <2>0, <3>1, <3>2, <3>3, <3>5, <3>6 DEF EntryInv
        <3>8. \A s, u \in Clients' : fd'[s] = fd'[u] => s = u
            BY <1>3, <2>0, <3>3, <3>5 DEF EntryInv
        <3> QED
            BY <3>4, <3>5, <3>7, <3>8 DEF EntryInv
    <2> QED
        BY <2>1, <2>2
<1>7. fdnum' \in 0 .. MAXFDSIZE
    BY <1>1, <1>2, EntryAssumption DEF Inv, ServerTypeOK
<1>8. ServerTypeOK'
    BY <1>1, <1>6, <1>7 DEF Inv, ServerTypeOK
<1>9. WireInv'
    BY <1>1, <1>3, IdleWires
<1>10. ScanInv'
    BY <1>1, <1>2 DEF ScanInv
<1> QED
    BY <1>3, <1>6, <1>8, <1>9, <1>10 DEF Inv

\* The next entry the loop reads: the listener's after an accept, else one of a
\* client for which something arrived.
LEMMA NextEntry ==
    ASSUME Inv, pc = "scan", Pending # {}
    PROVE  /\ Min(Pending) \in Slots /\ revents[Min(Pending)] /\ Min(Pending) <= maxi
           /\ Min(Pending) >= i
           /\ revents[0] => Min(Pending) = 0
           /\ ~revents[0] => /\ Min(Pending) \in Clients /\ Min(Pending) \in Behind
                             /\ Min(Pending) \in Ahead
                             /\ fd[Min(Pending)] \in OpenFds
                             /\ Arrived(owner[fd[Min(Pending)]])
           /\ \A u \in Slots : u >= i /\ u <= maxi /\ revents[u] => Min(Pending) <= u
<1>1. i \in Nat /\ maxi \in Int /\ maxi >= 0 /\ maxi <= MAXFDSIZE - 1 /\ MAXFDSIZE \in Nat
    BY EntryAssumption DEF Inv, ServerTypeOK
<1>2. Pending \in SUBSET Nat /\ \A s \in Pending : s \in Slots /\ s >= i /\ s <= maxi /\ revents[s]
    BY <1>1 DEF Pending, Slots
<1>3. Min(Pending) \in Pending /\ \A u \in Pending : Min(Pending) <= u
    BY <1>2, LeastOf
<1>4. \A u \in Slots : u >= i /\ u <= maxi /\ revents[u] => u \in Pending
    BY <1>1, Entries DEF Pending, Inv
<1>5. revents[0] => Min(Pending) = 0
    <2> SUFFICES ASSUME revents[0] PROVE Min(Pending) = 0
        OBVIOUS
    <2>1. 0 \in Pending
        BY <1>1, <1>4, Entries DEF Inv, ScanInv
    <2>2. Min(Pending) \in Nat /\ Min(Pending) <= 0
        BY <1>2, <1>3, <2>1
    <2> QED
        BY <2>2
<1>6. Min(Pending) \in Behind
    BY <1>2, <1>3 DEF Behind
<1>7. ~revents[0] => Min(Pending) \in Clients /\ Arrived(owner[fd[Min(Pending)]])
    BY <1>6 DEF Inv, ScanInv
<1>8. Min(Pending) \in Clients => fd[Min(Pending)] \in OpenFds
    BY DEF Inv, EntryInv
<1>9. Min(Pending) \in Clients => Min(Pending) \in Ahead
    BY <1>2, <1>3 DEF Ahead
<1> QED
    BY <1>2, <1>3, <1>4, <1>5, <1>6, <1>7, <1>8, <1>9

\* A client that half-closed leaves its entry.
LEMMA ReadEndKeeps ==
    ASSUME Inv, pc = "scan", Pending # {}, ReadEnd(Min(Pending))
    PROVE  Inv'
<1> DEFINE s == Min(Pending)
<1>1. /\ fd[s] \in OpenFds /\ KClose(fd[s])
      /\ fd' = [fd EXCEPT ![s] = -1] /\ i' = s + 1
      /\ UNCHANGED <<pc, why, revents, maxi, fdnum, len>>
    BY DEF ReadEnd
<1>2. /\ s \in Slots /\ s <= maxi /\ s >= i /\ (revents[0] => s = 0)
      /\ \A u \in Slots : u >= i /\ u <= maxi /\ revents[u] => s <= u
    BY NextEntry
<1> HIDE DEF s
<1>3. ~revents[0] /\ s # 0 /\ s \in Clients
    <2>1. s # 0
        BY <1>1, OwnerType DEF Inv, EntryInv
    <2> QED
        BY <1>1, <1>2, <2>1, OwnerType DEF Clients, Inv
<1>4. /\ KernelTypeOK' /\ ConnInv' /\ OpenFds' = OpenFds \ {fd[s]} /\ wire' = wire
      /\ \A g \in OpenFds' : owner'[g] = owner[g]
    BY <1>1, KCloseKeeps DEF Inv
<1>5. Clients' = Clients \ {s} /\ \A u \in Slots : u # s => fd'[u] = fd[u]
    BY <1>1, <1>2 DEF Clients, Inv, ServerTypeOK
<1>6. s \in Nat /\ s <= MAXFDSIZE - 1 /\ MAXFDSIZE \in Nat /\ i \in Nat /\ maxi \in Nat
    BY <1>2, EntryAssumption DEF Inv, ServerTypeOK, Slots
<1>7. ServerTypeOK'
    <2>1. i' \in 0 .. MAXFDSIZE
        BY <1>1, <1>6
    <2>2. fd' \in [Slots -> Fds \cup {SvrFd, -1}]
        BY <1>1 DEF Inv, ServerTypeOK
    <2> QED
        BY <1>1, <2>1, <2>2 DEF Inv, ServerTypeOK
<1>8. WireInv'
    BY <1>1, <1>4, IdleWires
<1>9. EntryInv'
    <2>1. \A u \in Clients' : u \in Clients /\ u \in Slots /\ fd'[u] = fd[u] /\ fd[u] # fd[s]
        BY <1>3, <1>5, Entries DEF Inv, EntryInv
    <2>2. \A u \in Clients' : fd'[u] \in OpenFds' /\ u <= maxi'
        BY <1>1, <1>4, <2>1 DEF Inv, EntryInv
    <2>3. \A u, v \in Clients' : fd'[u] = fd'[v] => u = v
        BY <2>1 DEF Inv, EntryInv
    <2>4. fd'[0] = SvrFd
        BY <1>3, <1>5, Entries DEF Inv, EntryInv
    <2> QED
        BY <2>2, <2>3, <2>4 DEF EntryInv
<1>10. \A u \in Slots : u \in Int /\ (u >= i' => u >= i /\ u # s)
    BY <1>1, <1>2, <1>6, Entries DEF Inv
<1>11. Cardinality(Ahead') <= fdnum'
    <2>1. Ahead' \subseteq Ahead
        BY <1>1, <1>5, <1>10, Entries DEF Ahead, Inv
    <2>2. IsFiniteSet(Ahead) /\ Cardinality(Ahead) <= fdnum /\ fdnum \in Int /\ Cardinality(Ahead) \in Int
        BY <1>3, Entries DEF Inv, ScanInv, ServerTypeOK
    <2>3. Cardinality(Ahead') <= Cardinality(Ahead) /\ IsFiniteSet(Ahead')
        BY <2>1, <2>2, FS_Subset
    <2>4. Cardinality(Ahead') \in Nat
        BY <2>3, FS_CardinalityType
    <2> QED
        BY <1>1, <2>2, <2>3, <2>4
<1>12. \A u \in Behind' : u \in Clients' /\ Arrived(owner[fd[u]])'
    <2> SUFFICES ASSUME NEW u \in Behind' PROVE u \in Clients' /\ Arrived(owner[fd[u]])'
        OBVIOUS
    <2>1. u \in Behind /\ u # s /\ u \in Slots
        BY <1>1, <1>10 DEF Behind
    <2>2. u \in Clients /\ Arrived(owner[fd[u]])
        BY <1>3, <2>1 DEF Inv, ScanInv
    <2>3. u \in Clients' /\ fd'[u] = fd[u]
        BY <1>5, <2>1, <2>2
    <2>4. fd'[u] \in OpenFds'
        BY <1>9, <2>3 DEF EntryInv
    <2>5. owner'[fd'[u]] = owner[fd[u]]
        BY <1>4, <2>3, <2>4
    <2> QED
        BY <1>4, <2>2, <2>3, <2>5 DEF Arrived
<1>13. ScanInv'
    BY <1>1, <1>3, <1>11, <1>12 DEF ScanInv
<1> QED
    BY <1>4, <1>7, <1>8, <1>9, <1>13 DEF Inv

\* What is read of a connection becomes what the server holds; what arrived for
\* the other clients stays.
LEMMA ReadDataKeeps ==
    ASSUME Inv, pc = "scan", Pending # {}, ReadData(Min(Pending))
    PROVE  Inv'
<1> DEFINE s == Min(Pending)
<1> DEFINE c == owner[fd[s]]
<1>1. /\ fd[s] \in OpenFds /\ wire[c].in > 0 /\ len' = ReadLen(c) /\ KRead(c)
      /\ i' = s /\ pc' = "write"
      /\ UNCHANGED <<why, fd, revents, maxi, fdnum>>
    BY DEF ReadData
<1>2. /\ s \in Slots /\ s <= maxi /\ s >= i /\ (revents[0] => s = 0) /\ revents[s]
      /\ ~revents[0] => s \in Clients /\ s \in Ahead
      /\ \A u \in Slots : u >= i /\ u <= maxi /\ revents[u] => s <= u
    BY NextEntry
<1> HIDE DEF s
<1>3. ~revents[0] /\ s # 0
    <2>1. s # 0
        BY <1>1, OwnerType DEF Inv, EntryInv
    <2> QED
        BY <1>2, <2>1
<1>4. c \in Conns
    BY <1>1, OwnerType DEF Inv
<1> HIDE DEF c
<1>5. /\ KernelTypeOK' /\ ConnInv' /\ owner' = owner /\ OpenFds' = OpenFds
      /\ ReadLen(c) \in 1 .. MAXLINE
      /\ \A d \in Conns : d # c => wire'[d] = wire[d]
      /\ wire'[c].in = wire[c].in - ReadLen(c) /\ wire'[c].out = wire[c].out
      /\ wire'[c].got = wire[c].got /\ wire'[c].sent = wire[c].sent
    BY <1>1, <1>4, KReadKeeps DEF Inv
<1>6. s \in Nat /\ s <= MAXFDSIZE - 1 /\ MAXFDSIZE \in Nat /\ i \in Nat /\ maxi \in Nat /\ MAXLINE \in Nat
    BY <1>2, EntryAssumption, WindowAssumption DEF Inv, ServerTypeOK, Slots
<1>7. ServerTypeOK'
    <2>1. len' \in 0 .. MAXLINE /\ i' \in 0 .. MAXFDSIZE
        BY <1>1, <1>5, <1>6
    <2> QED
        BY <1>1, <2>1 DEF Inv, ServerTypeOK
<1>8. WireInv'
    <2> SUFFICES ASSUME NEW d \in Conns
                 PROVE  (wire[d].in + Held(d) + wire[d].out + wire[d].got <= wire[d].sent)'
        BY DEF WireInv
    <2>1. Held(d) = 0 /\ wire[d].in + Held(d) + wire[d].out + wire[d].got <= wire[d].sent
        BY DEF Held, Inv, WireInv
    <2>2. Held(d)' = IF d = c THEN ReadLen(c) ELSE 0
        BY <1>1, <1>5 DEF Held, c
    <2>3. wire[d] \in Wires /\ ReadLen(c) \in Int
        BY <1>5, <1>6 DEF Inv, KernelTypeOK
    <2>4. CASE d = c
        BY <1>5, <2>1, <2>2, <2>3, <2>4, WireType
    <2>5. CASE d # c
        BY <1>5, <2>1, <2>2, <2>5
    <2> QED
        BY <2>4, <2>5
<1>9. Clients' = Clients /\ EntryInv'
    <2>1. Clients' = Clients
        BY <1>1 DEF Clients
    <2> QED
        BY <1>1, <1>5, <2>1 DEF Inv, EntryInv
<1>10. Ahead' = Ahead
    <2>1. \A u \in Clients : u <= maxi /\ revents[u] => (u >= i <=> u >= s)
        <3>1. \A u \in Clients : u \in Slots /\ u \in Int
            BY Entries DEF Inv
        <3> QED
            BY <1>2, <1>6, <3>1
    <2> QED
        BY <1>1, <1>9, <2>1 DEF Ahead
<1>11. \A u \in Behind' : u \in Clients /\ Arrived(owner[fd[u]])'
    <2> SUFFICES ASSUME NEW u \in Behind' PROVE u \in Clients /\ Arrived(owner[fd[u]])'
        OBVIOUS
    <2>1. u \in Slots /\ u \in Int /\ u > s /\ u <= maxi /\ revents[u]
        BY <1>1, Entries DEF Behind, Inv
    <2>2. u \in Behind
        BY <1>2, <1>6, <2>1 DEF Behind
    <2>3. u \in Clients /\ Arrived(owner[fd[u]])
        BY <1>3, <2>2 DEF Inv, ScanInv
    <2>4. fd[u] \in OpenFds /\ s \in Clients /\ fd[u] # fd[s]
        BY <1>2, <1>3, <1>6, <2>1, <2>3 DEF Inv, EntryInv
    <2>5. owner[fd[u]] # c /\ owner[fd[u]] \in Conns
        BY <1>1, <2>4, OwnerType DEF Inv, ConnInv, c
    <2>6. wire'[owner[fd[u]]] = wire[owner[fd[u]]] /\ owner' = owner /\ fd' = fd
        BY <1>1, <1>5, <2>5
    <2> QED
        BY <2>3, <2>6 DEF Arrived
<1>12. ScanInv'
    <2>1. Cardinality(Ahead') <= fdnum'
        BY <1>1, <1>3, <1>10 DEF Inv, ScanInv
    <2> QED
        BY <1>1, <1>2, <1>3, <1>9, <1>10, <1>11, <2>1 DEF ScanInv
<1> QED
    BY <1>5, <1>7, <1>8, <1>9, <1>12 DEF Inv

\* The loop found nothing more to read: no reported client is left.
LEMMA EndPassKeeps ==
    ASSUME Inv, EndPass
    PROVE  Inv'
<1>1. /\ pc = "scan" /\ Pending = {} /\ pc' = "poll" /\ maxi' = Shrink(fd, maxi)
      /\ UNCHANGED <<kernelVars, why, fd, revents, fdnum, i, len>>
    BY DEF EndPass
<1>2. Clients' = Clients /\ OpenFds' = OpenFds /\ Queued' = Queued
    BY <1>1 DEF Clients, OpenFds, Queued, kernelVars
<1>3. maxi' \in 0 .. MAXFDSIZE - 1 /\ maxi' <= maxi /\ \A s \in Clients : s <= maxi'
    BY <1>1, Shrunk DEF Inv
<1>4. KernelTypeOK' /\ ServerTypeOK'
    BY <1>1, <1>3 DEF Inv, KernelTypeOK, ServerTypeOK, kernelVars
<1>5. WireInv'
    BY <1>1, IdleWires DEF kernelVars
<1>6. ConnInv' /\ EntryInv'
    BY <1>1, <1>2, <1>3 DEF Inv, ConnInv, EntryInv, kernelVars
<1>7. Ahead' = {}
    <2>1. i \in Int /\ maxi \in Int /\ maxi' \in Int
        BY <1>3 DEF Inv, ServerTypeOK
    <2>2. \A u \in Ahead' : u \in Pending
        <3>1. \A u \in Clients : u \in Int
            BY Entries DEF Inv
        <3> QED
            BY <1>1, <1>2, <1>3, <2>1, <3>1 DEF Ahead, Pending
    <2> QED
        BY <1>1, <2>2
<1>8. ScanInv'
    BY <1>1, <1>7 DEF ScanInv
<1> QED
    BY <1>4, <1>5, <1>6, <1>8 DEF Inv

\* A served client is one reported entry less, and one less in fdnum.
LEMMA WriteKeeps ==
    ASSUME Inv, WriteStep
    PROVE  Inv'
<1> DEFINE c == owner[fd[i]]
<1>1. /\ pc = "write" /\ WriteFits(c, len) /\ KWrite(c, len)
      /\ fdnum' = fdnum - 1 /\ len' = 0 /\ i' = i + 1
      /\ \/ fdnum' <= 0 /\ pc' = "poll" /\ maxi' = Shrink(fd, maxi)
         \/ ~(fdnum' <= 0) /\ pc' = "scan" /\ maxi' = maxi
      /\ UNCHANGED <<why, fd, revents>>
    BY DEF WriteStep, Done
<1>2. ~revents[0] /\ i \in Ahead /\ i \in Clients /\ i \in Slots /\ fd[i] \in OpenFds
    BY <1>1, Entries DEF Inv, ScanInv, Ahead, EntryInv
<1>3. c \in Conns /\ len \in Nat /\ MAXLINE \in Nat
    BY <1>2, OwnerType, WindowAssumption DEF Inv, ServerTypeOK
<1> HIDE DEF c
<1>4. /\ KernelTypeOK' /\ ConnInv' /\ owner' = owner /\ OpenFds' = OpenFds
      /\ \A d \in Conns : d # c => wire'[d] = wire[d]
      /\ wire'[c].in = wire[c].in /\ wire'[c].out = wire[c].out + len
      /\ wire'[c].got = wire[c].got /\ wire'[c].sent = wire[c].sent
      /\ wire'[c].rst = wire[c].rst /\ wire'[c].fin = wire[c].fin
    BY <1>1, <1>3, KWriteKeeps DEF Inv
<1>5. WireInv'
    <2> SUFFICES ASSUME NEW d \in Conns
                 PROVE  (wire[d].in + Held(d) + wire[d].out + wire[d].got <= wire[d].sent)'
        BY DEF WireInv
    <2>1. wire[d].in + Held(d) + wire[d].out + wire[d].got <= wire[d].sent
        BY DEF Inv, WireInv
    <2>2. Held(d) = (IF d = c THEN len ELSE 0) /\ Held(d)' = 0
        BY <1>1 DEF Held, c
    <2>3. wire[d] \in Wires
        BY DEF Inv, KernelTypeOK
    <2>4. CASE d = c
        BY <1>3, <1>4, <2>1, <2>2, <2>3, <2>4, WireType
    <2>5. CASE d # c
        BY <1>4, <2>1, <2>2, <2>5
    <2> QED
        BY <2>4, <2>5
<1>6. Clients' = Clients
    BY <1>1 DEF Clients
<1>7. maxi' \in 0 .. MAXFDSIZE - 1 /\ maxi' <= maxi /\ \A s \in Clients : s <= maxi'
    <2>1. maxi \in 0 .. MAXFDSIZE - 1 /\ \A s \in Clients : s <= maxi
        BY DEF Inv, ServerTypeOK, EntryInv
    <2>2. CASE maxi' = maxi
        BY <2>1, <2>2
    <2>3. CASE maxi' = Shrink(fd, maxi)
        BY <2>1, <2>3, Shrunk DEF Inv
    <2> QED
        BY <1>1, <2>2, <2>3
<1>8. EntryInv'
    BY <1>1, <1>4, <1>6, <1>7 DEF Inv, EntryInv
<1>9. Ahead' = Ahead \ {i}
    <2>1. \A u \in Clients : u \in Int /\ u <= maxi /\ u <= maxi'
        BY <1>7, Entries DEF Inv, EntryInv
    <2>2. i \in Int
        BY DEF Inv, ServerTypeOK
    <2>3. \A u \in Clients : u >= i + 1 <=> u >= i /\ u # i
        BY <2>1, <2>2
    <2> QED
        BY <1>1, <1>6, <2>1, <2>3 DEF Ahead
<1>10. /\ Cardinality(Ahead') <= fdnum' /\ fdnum' \in Nat
       /\ fdnum' <= 0 => Ahead' = {}
    <2>1. IsFiniteSet(Ahead) /\ Cardinality(Ahead) \in Nat /\ Cardinality(Ahead) <= fdnum /\ fdnum \in Int
        BY <1>1, <1>2, Entries DEF Inv, ScanInv, ServerTypeOK
    <2>2. IsFiniteSet(Ahead') /\ Cardinality(Ahead') = Cardinality(Ahead) - 1
        BY <1>2, <1>9, <2>1, FS_RemoveElement
    <2>3. Cardinality(Ahead') \in Nat /\ (Cardinality(Ahead') = 0 => Ahead' = {})
        BY <2>2, FS_CardinalityType, FS_EmptySet
    <2> QED
        BY <1>1, <2>1, <2>2, <2>3
<1>11. \A u \in Behind' : pc' = "scan" => u \in Clients /\ Arrived(owner[fd[u]])'
    <2> SUFFICES ASSUME NEW u \in Behind', pc' = "scan" PROVE u \in Clients /\ Arrived(owner[fd[u]])'
        OBVIOUS
    <2>1. u \in Slots /\ u \in Int /\ u >= i + 1 /\ u <= maxi /\ revents[u] /\ i \in Int
        BY <1>1, Entries DEF Behind, Inv, ServerTypeOK
    <2>2. u \in Behind
        BY <1>1, <2>1 DEF Behind
    <2>3. u \in Clients /\ Arrived(owner[fd[u]])
        BY <1>1, <1>2, <2>2 DEF Inv, ScanInv
    <2>4. owner[fd[u]] \in Conns
        BY <2>3, OwnerType DEF Inv, EntryInv
    <2>5. owner'[fd'[u]] = owner[fd[u]]
        BY <1>1, <1>4
    <2>6. \A d \in Conns : wire'[d].in = wire[d].in /\ wire'[d].fin = wire[d].fin /\ wire'[d].rst = wire[d].rst
        BY <1>4
    <2> QED
        BY <2>3, <2>4, <2>5, <2>6 DEF Arrived
<1>12. ScanInv'
    BY <1>1, <1>2, <1>6, <1>10, <1>11 DEF ScanInv
<1>13. ServerTypeOK'
    <2>1. fdnum' \in 0 .. MAXFDSIZE
        BY <1>1, <1>10, EntryAssumption DEF Inv, ServerTypeOK
    <2>2. i' \in 0 .. MAXFDSIZE /\ len' \in 0 .. MAXLINE
        BY <1>1, <1>2, <1>3, EntryAssumption DEF Slots
    <2> QED
        BY <1>1, <1>7, <2>1, <2>2 DEF Inv, ServerTypeOK
<1> QED
    BY <1>4, <1>5, <1>8, <1>12, <1>13 DEF Inv

------------------------------------------------------------------------------
\* The server starts with the listener's entry alone, whatever revents holds.
LEMMA InitInv == Init => Inv
<1> SUFFICES ASSUME Init PROVE Inv
    OBVIOUS
<1>1. KernelTypeOK
    <2>1. 0 \in 0 .. MaxBytes /\ 0 \in 0 .. Window
        BY BoundAssumption, WindowAssumption
    <2> QED
        BY <2>1 DEF Init, KernelInit, KernelTypeOK, Wires
<1>2. ServerTypeOK
    BY FdAssumption, EntryAssumption, WindowAssumption DEF Init, ServerTypeOK
<1>3. WireInv
    BY DEF Init, KernelInit, WireInv, Held
<1>4. Clients = {} /\ Ahead = {} /\ OpenFds = {} /\ Queued = {}
    BY EmptySeq DEF Init, KernelInit, Clients, Ahead, OpenFds, Queued
<1>5. ConnInv /\ EntryInv /\ ScanInv
    BY <1>2, <1>4, Entries DEF Init, ConnInv, EntryInv, ScanInv
<1> QED
    BY <1>1, <1>2, <1>3, <1>5 DEF Inv

\* Every call of the server and every act of a client keeps the invariant.
LEMMA NextInv == Inv /\ [Next]_vars => Inv'
<1> SUFFICES ASSUME Inv, [Next]_vars PROVE Inv'
    OBVIOUS
<1>1. CASE Poll
    BY <1>1, PollKeeps
<1>2. CASE AcceptFail
    BY <1>2, ExitKeeps DEF AcceptFail
<1>3. CASE Accept
    BY <1>3, AcceptKeeps
<1>4. CASE ReadStep
    <2> DEFINE s == Min(Pending)
    <2>1. CASE ReadFail(s)
        <3>1. PICK call \in {"listen", "read"} : Exit(call)
            BY <2>1 DEF ReadFail
        <3> QED
            BY <3>1, ExitKeeps
    <2> QED
        BY <1>4, <2>1, ReadEndKeeps, ReadDataKeeps DEF ReadStep
<1>5. CASE EndPass
    BY <1>5, EndPassKeeps
<1>6. CASE WriteFail
    BY <1>6, ExitKeeps DEF WriteFail
<1>7. CASE WriteStep
    BY <1>7, WriteKeeps
<1>8. CASE ClientStep /\ UNCHANGED serverVars
    BY <1>8, ClientsKeepInv
<1>9. CASE UNCHANGED vars
    BY <1>9 DEF vars, kernelVars, serverVars, Inv, KernelTypeOK, ServerTypeOK, WireInv, Held,
                ConnInv, Queued, EntryInv, ScanInv, Ahead, Behind, Clients, OpenFds, Arrived
<1> QED
    BY <1>1, <1>2, <1>3, <1>4, <1>5, <1>6, <1>7, <1>8, <1>9 DEF Next, ServerStep

\* The inductive invariant of the poll server.
LEMMA InvHolds == Spec => []Inv
    BY InitInv, NextInv, PTL DEF Spec

\* Entry 0 stays the listener's, and every other entry in use holds an open
\* descriptor of its own below maxi.
THEOREM EntriesAlwaysAgree == Spec => []EntriesAgree
<1>1. Inv => EntriesAgree
    BY DEF Inv, ServerTypeOK, TypeOK, EntryInv, EntriesAgree
<1> QED
    BY <1>1, InvHolds, PTL

\* Counting fdnum down skips no client that poll reported.
THEOREM NoneSkipped == Spec => []NoReadySkipped
<1>1. Inv => NoReadySkipped
    BY DEF Inv, ScanInv, NoReadySkipped
<1> QED
    BY <1>1, InvHolds, PTL

\* The server never blocks in a read: what poll reported is still there, and
\* stale revents are not reached.
THEOREM NoBlockingRead == Spec => []ReadsNeverBlock
<1>1. Inv => ReadsNeverBlock
    <2> SUFFICES ASSUME Inv, pc = "scan", Pending # {}, fd[Min(Pending)] \in OpenFds
                 PROVE  Arrived(owner[fd[Min(Pending)]])
        BY DEF ReadsNeverBlock
    <2>1. Min(Pending) # 0
        BY OwnerType DEF Inv, EntryInv
    <2> QED
        BY <2>1, NextEntry
<1> QED
    BY <1>1, InvHolds, PTL

\* The process exits for a cause outside it, or for the listener's entry.
LEMMA CauseKept ==
    ASSUME Inv, ExitHasCause, [Next]_vars
    PROVE  ExitHasCause'
<1>1. CASE Poll
    BY <1>1 DEF Poll, ExitHasCause
<1>2. CASE AcceptFail
    BY <1>2 DEF AcceptFail, Exit, ExitHasCause, FreeFds, OpenFds, kernelVars
<1>3. CASE Accept
    BY <1>3 DEF Accept, ExitHasCause
<1>4. CASE ReadStep
    <2> DEFINE s == Min(Pending)
    <2>0. pc = "scan" /\ Pending # {} /\ (ReadFail(s) \/ ReadEnd(s) \/ ReadData(s))
        BY <1>4 DEF ReadStep
    <2>1. CASE ReadFail(s) /\ fd[s] = SvrFd
        <3>1. revents[s] /\ s \in Slots /\ (~revents[0] => fd[s] \in OpenFds)
            BY <2>0, NextEntry
        <3>2. revents[0]
            BY <2>1, <3>1, OwnerType DEF Inv
        <3> QED
            BY <2>1, <3>2 DEF ReadFail, Exit, ExitHasCause
    <2>2. CASE ReadFail(s) /\ fd[s] # SvrFd
        <3>1. fd[s] \in OpenFds
            BY <2>0, <2>2, NextEntry DEF Inv, EntryInv
        <3>2. owner[fd[s]] \in Conns
            BY <3>1, OwnerType DEF Inv
        <3>3. wire[owner[fd[s]]].rst /\ pc' = "exit" /\ why' = "read" /\ wire' = wire
            BY <2>2, <3>1 DEF ReadFail, ReadFails, Exit, kernelVars
        <3> QED
            BY <3>2, <3>3 DEF ExitHasCause
    <2>3. CASE ReadEnd(s) \/ ReadData(s)
        <3>1. pc' # "exit"
            BY <2>0, <2>3 DEF ReadEnd, ReadData
        <3> QED
            BY <3>1 DEF ExitHasCause
    <2> QED
        BY <2>0, <2>1, <2>2, <2>3
<1>5. CASE EndPass
    BY <1>5 DEF EndPass, ExitHasCause
<1>6. CASE WriteFail
    <2>1. owner[fd[i]] \in Conns
        BY <1>6, Entries, OwnerType DEF WriteFail, Inv, ScanInv, EntryInv
    <2>2. wire[owner[fd[i]]].rst /\ pc' = "exit" /\ why' = "write" /\ wire' = wire
        BY <1>6 DEF WriteFail, WriteFails, Exit, kernelVars
    <2> QED
        BY <2>1, <2>2 DEF ExitHasCause
<1>7. CASE WriteStep
    BY <1>7 DEF WriteStep, ExitHasCause
<1>8. CASE ClientStep /\ UNCHANGED serverVars
    <2>1. owner' = owner /\ \A c \in Conns : wire[c].rst => wire'[c].rst
        BY <1>8, ClientsKeepInv
    <2> QED
        BY <1>8, <2>1 DEF ExitHasCause, serverVars, FreeFds, OpenFds
<1>9. CASE UNCHANGED vars
    BY <1>9 DEF vars, kernelVars, serverVars, ExitHasCause, FreeFds, OpenFds
<1> QED
    BY <1>1, <1>2, <1>3, <1>4, <1>5, <1>6, <1>7, <1>8, <1>9 DEF Next, ServerStep

\* Only a client's reset, a full descriptor table or the read of the listener
\* that follows an accept ends the server: no read or write ever meets a
\* descriptor that is not open, stale revents or not.
THEOREM ExitsHaveCauses == Spec => []ExitHasCause
<1>1. Init => ExitHasCause
    BY DEF Init, ExitHasCause
<1>2. Inv /\ ExitHasCause /\ [Next]_vars => ExitHasCause'
    BY CauseKept
<1> QED
    BY <1>1, <1>2, InvHolds, PTL DEF Spec

------------------------------------------------------------------------------
\* The bytes of c that the kernel has in neither direction.
Missing(c) == wire[c].sent - (wire[c].in + wire[c].out + wire[c].got)

\* What EchoService is about: while the process runs it holds the bytes that are
\* missing, and a write has bytes to write.
Account ==
    /\ pc # "exit" => \A c \in Conns : Missing(c) = Held(c)
    /\ pc = "write" => len > 0

\* The lines change where the one connection changes.
LEMMA LineAt ==
    ASSUME NEW c \in Conns, \A d \in Conns : d # c => wire'[d] = wire[d], NEW r,
           r = [made |-> wire'[c].made, sent |-> wire'[c].sent,
                back |-> wire'[c].out + wire'[c].got,
                fin |-> wire'[c].fin, rst |-> wire'[c].rst]
    PROVE  Lines' = [Lines EXCEPT ![c] = r]
    BY DEF Lines

\* What a client does is what EchoService lets it do, or reading its echo.
LEMMA ClientServed ==
    ASSUME KernelTypeOK, ClientStep
    PROVE  /\ \/ \E c \in Conns : Service!Connect(c) \/ Service!Use(c)
              \/ UNCHANGED <<backlog, Lines>>
           /\ \A c \in Conns : Missing(c)' = Missing(c)
<1>1. PICK c \in Conns : Connect(c) \/ Send(c) \/ Receive(c) \/ Finish(c) \/ Reset(c)
    BY DEF ClientStep
<1> DEFINE w == wire[c]
<1> DEFINE ln == [made |-> w.made, sent |-> w.sent, back |-> w.out + w.got,
                  fin |-> w.fin, rst |-> w.rst]
<1>2. wire \in [Conns -> Wires] /\ w \in Wires
    BY DEF KernelTypeOK
<1>3. w.sent \in Nat /\ w.in \in Nat /\ w.out \in Nat /\ w.got \in Nat
    BY <1>2, WireType
<1>4. Lines[c] = ln
    BY DEF Lines
<1>5. ASSUME NEW t
      PROVE  [made |-> [w EXCEPT !.made = t].made, sent |-> [w EXCEPT !.made = t].sent,
              back |-> [w EXCEPT !.made = t].out + [w EXCEPT !.made = t].got,
              fin |-> [w EXCEPT !.made = t].fin, rst |-> [w EXCEPT !.made = t].rst] = [ln EXCEPT !.made = t]
    BY <1>2 DEF Wires
<1>6. ASSUME NEW t
      PROVE  [made |-> [w EXCEPT !.fin = t].made, sent |-> [w EXCEPT !.fin = t].sent,
              back |-> [w EXCEPT !.fin = t].out + [w EXCEPT !.fin = t].got,
              fin |-> [w EXCEPT !.fin = t].fin, rst |-> [w EXCEPT !.fin = t].rst] = [ln EXCEPT !.fin = t]
    BY <1>2 DEF Wires
<1>7. ASSUME NEW t
      PROVE  [made |-> [w EXCEPT !.rst = t].made, sent |-> [w EXCEPT !.rst = t].sent,
              back |-> [w EXCEPT !.rst = t].out + [w EXCEPT !.rst = t].got,
              fin |-> [w EXCEPT !.rst = t].fin, rst |-> [w EXCEPT !.rst = t].rst] = [ln EXCEPT !.rst = t]
    BY <1>2 DEF Wires
<1>8. ASSUME NEW v \in {[w EXCEPT !.made = TRUE], [w EXCEPT !.fin = TRUE], [w EXCEPT !.rst = TRUE],
                        [w EXCEPT !.sent = @ + 1, !.in = @ + 1],
                        [w EXCEPT !.got = @ + w.out, !.out = 0]},
             wire' = [wire EXCEPT ![c] = v]
      PROVE  /\ \A d \in Conns : Missing(d)' = Missing(d)
             /\ Lines' = [Lines EXCEPT ![c] = [made |-> v.made, sent |-> v.sent,
                              back |-> v.out + v.got, fin |-> v.fin, rst |-> v.rst]]
    <2>1. \A d \in Conns : wire'[d] = IF d = c THEN v ELSE wire[d]
        BY <1>2, <1>8
    <2>2. \/ v.in = w.in /\ v.sent = w.sent /\ v.out = w.out /\ v.got = w.got
          \/ v.in = w.in + 1 /\ v.sent = w.sent + 1 /\ v.out = w.out /\ v.got = w.got
          \/ v.in = w.in /\ v.sent = w.sent /\ v.out = 0 /\ v.got = w.got + w.out
        BY <1>2, <1>8 DEF Wires
    <2>3. v.sent - (v.in + v.out + v.got) = w.sent - (w.in + w.out + w.got)
        BY <1>3, <2>2
    <2> QED
        BY <2>1, <2>3, LineAt DEF Missing
<1>9. CASE Connect(c)
    <2> DEFINE v == [w EXCEPT !.made = TRUE]
    <2>1. wire' = [wire EXCEPT ![c] = v] /\ ~w.made /\ backlog' = Append(backlog, c)
        BY <1>9, <1>2 DEF Connect
    <2>2. [made |-> v.made, sent |-> v.sent, back |-> v.out + v.got, fin |-> v.fin, rst |-> v.rst]
             = [ln EXCEPT !.made = TRUE]
        BY <1>5, Zenon
    <2>3. (\A d \in Conns : Missing(d)' = Missing(d)) /\ Lines' = [Lines EXCEPT ![c] = [ln EXCEPT !.made = TRUE]]
        BY <1>8, <2>1, <2>2
    <2>4. Service!Connect(c)
        BY <1>4, <2>1, <2>3 DEF Service!Connect
    <2> QED
        BY <2>3, <2>4
<1>10. CASE Send(c)
    <2> DEFINE v == [w EXCEPT !.sent = @ + 1, !.in = @ + 1]
    <2>1. wire' = [wire EXCEPT ![c] = v] /\ w.made /\ ~w.rst /\ ~w.fin /\ backlog' = backlog
        BY <1>10, <1>2 DEF Send, Usable
    <2>2. [made |-> v.made, sent |-> v.sent, back |-> v.out + v.got, fin |-> v.fin, rst |-> v.rst]
             = [ln EXCEPT !.sent = @ + 1]
        BY <1>2 DEF Wires
    <2>3. (\A d \in Conns : Missing(d)' = Missing(d)) /\ Lines' = [Lines EXCEPT ![c] = [ln EXCEPT !.sent = @ + 1]]
        BY <1>8, <2>1, <2>2
    <2>4. Service!Use(c)
        BY <1>4, <2>1, <2>3 DEF Service!Use
    <2> QED
        BY <2>3, <2>4
<1>11. CASE Receive(c)
    <2> DEFINE v == [w EXCEPT !.got = @ + w.out, !.out = 0]
    <2>1. wire' = [wire EXCEPT ![c] = v] /\ backlog' = backlog
        BY <1>11, <1>2 DEF Receive
    <2>2. [made |-> v.made, sent |-> v.sent, back |-> v.out + v.got, fin |-> v.fin, rst |-> v.rst] = ln
        BY <1>2, <1>3 DEF Wires
    <2>3. (\A d \in Conns : Missing(d)' = Missing(d)) /\ Lines' = [Lines EXCEPT ![c] = ln]
        BY <1>8, <2>1, <2>2
    <2>4. Lines' = Lines
        BY <1>4, <2>3 DEF Lines
    <2> QED
        BY <2>1, <2>3, <2>4
<1>12. CASE Finish(c)
    <2> DEFINE v == [w EXCEPT !.fin = TRUE]
    <2>1. wire' = [wire EXCEPT ![c] = v] /\ w.made /\ ~w.rst /\ ~w.fin /\ backlog' = backlog
        BY <1>12, <1>2 DEF Finish, Usable
    <2>2. [made |-> v.made, sent |-> v.sent, back |-> v.out + v.got, fin |-> v.fin, rst |-> v.rst]
             = [ln EXCEPT !.fin = TRUE]
        BY <1>6, Zenon
    <2>3. (\A d \in Conns : Missing(d)' = Missing(d)) /\ Lines' = [Lines EXCEPT ![c] = [ln EXCEPT !.fin = TRUE]]
        BY <1>8, <2>1, <2>2
    <2>4. Service!Use(c)
        BY <1>4, <2>1, <2>3 DEF Service!Use
    <2> QED
        BY <2>3, <2>4
<1>13. CASE Reset(c)
    <2> DEFINE v == [w EXCEPT !.rst = TRUE]
    <2>1. wire' = [wire EXCEPT ![c] = v] /\ w.made /\ ~w.rst /\ backlog' = backlog
        BY <1>13, <1>2 DEF Reset, Usable
    <2>2. [made |-> v.made, sent |-> v.sent, back |-> v.out + v.got, fin |-> v.fin, rst |-> v.rst]
             = [ln EXCEPT !.rst = TRUE]
        BY <1>7, Zenon
    <2>3. (\A d \in Conns : Missing(d)' = Missing(d)) /\ Lines' = [Lines EXCEPT ![c] = [ln EXCEPT !.rst = TRUE]]
        BY <1>8, <2>1, <2>2
    <2>4. Service!Use(c)
        BY <1>4, <2>1, <2>3 DEF Service!Use
    <2> QED
        BY <2>3, <2>4
<1> QED
    BY <1>1, <1>9, <1>10, <1>11, <1>12, <1>13

\* Between a write and the next read the server has nothing in hand.
LEMMA NothingInHand ==
    ASSUME pc # "write"
    PROVE  InHand = Service!Nothing
    BY DEF InHand, Service!Nothing

\* The account stays where no byte moves.
LEMMA IdleAccount ==
    ASSUME Account, pc \notin {"write", "exit"}, pc' # "write", wire' = wire
    PROVE  Account'
<1>1. \A c : Held(c) = 0 /\ Held(c)' = 0
    BY DEF Held
<1> QED
    BY <1>1 DEF Account, Missing

\* poll and the end of the loop are no steps of EchoService.
LEMMA QuietServed ==
    ASSUME Account, pc \notin {"write", "exit"}, pc' \notin {"write", "exit"}, UNCHANGED kernelVars
    PROVE  Account' /\ UNCHANGED Service!vars
<1>1. InHand = Service!Nothing /\ InHand' = Service!Nothing
    BY DEF InHand, Service!Nothing
<1>2. Lines' = Lines /\ OpenConns' = OpenConns
    BY DEF Lines, OpenConns, OpenFds, kernelVars
<1>3. (pc # "exit")' = (pc # "exit")
    OBVIOUS
<1> QED
    BY <1>1, <1>2, <1>3, IdleAccount DEF Service!vars, kernelVars

\* print_error stops the service, with bytes in hand only after a reset.
LEMMA ExitServed ==
    ASSUME NEW call, Exit(call), pc # "exit",
           pc = "write" => owner[fd[i]] \in Conns /\ wire[owner[fd[i]]].rst
    PROVE  Account' /\ Service!Stop
<1>1. pc' = "exit" /\ UNCHANGED kernelVars
    BY DEF Exit
<1>2. Lines' = Lines /\ OpenConns' = OpenConns /\ InHand' = Service!Nothing
    BY <1>1 DEF Lines, OpenConns, OpenFds, kernelVars, InHand, Service!Nothing
<1>3. InHand = Service!Nothing \/ Lines[InHand.conn].rst
    BY NothingInHand DEF InHand, Lines
<1> QED
    BY <1>1, <1>2, <1>3 DEF Account, Service!Stop, kernelVars

\* accept admits the connection that waited longest.
LEMMA AcceptServed ==
    ASSUME Inv, Account, Accept
    PROVE  Account' /\ Service!Admit /\ pc' # "exit"
<1>1. pc = "accept" /\ FreeFds # {} /\ KAccept /\ pc' \in {"poll", "scan"}
    BY DEF Accept
<1>2. /\ OpenFds' = OpenFds \cup {NewFd} /\ wire' = wire /\ NewFd \in Fds /\ NewFd \notin OpenFds
      /\ \A f \in OpenFds : owner'[f] = owner[f]
    BY <1>1, KAcceptKeeps DEF Inv
<1>3. /\ backlog # <<>> /\ backlog' = Tail(backlog) /\ owner'[NewFd] = Head(backlog)
    BY <1>1, <1>2 DEF KAccept, Inv, KernelTypeOK
<1>4. OpenConns' = OpenConns \cup {Head(backlog)}
    BY <1>2, <1>3 DEF OpenConns
<1>5. Lines' = Lines /\ InHand = Service!Nothing /\ InHand' = Service!Nothing
    BY <1>1, <1>2 DEF Lines, InHand, Service!Nothing
<1> QED
    BY <1>1, <1>2, <1>3, <1>4, <1>5, IdleAccount DEF Service!Admit

\* close drops a connection that has finished and has all its bytes back: no
\* other descriptor refers to it.
LEMMA ReadEndServed ==
    ASSUME Inv, Account, pc = "scan", NEW s, ReadEnd(s)
    PROVE  Account' /\ Service!Drop /\ pc' # "exit"
<1> DEFINE c == owner[fd[s]]
<1>1. fd[s] \in OpenFds /\ ReadEof(c) /\ KClose(fd[s]) /\ pc' = pc
    BY DEF ReadEnd
<1>2. /\ OpenFds' = OpenFds \ {fd[s]} /\ wire' = wire /\ backlog' = backlog
      /\ \A g \in OpenFds' : owner'[g] = owner[g]
    BY <1>1, KCloseKeeps DEF Inv, KClose
<1>3. \A g \in OpenFds' : owner[g] # c
    BY <1>1, <1>2 DEF Inv, ConnInv
<1>4. c \in OpenConns /\ OpenConns' = OpenConns \ {c}
    BY <1>1, <1>2, <1>3 DEF OpenConns
<1>5. c \in Conns /\ wire[c] \in Wires
    BY <1>1, OwnerType DEF Inv, KernelTypeOK
<1> HIDE DEF c
<1>6. wire[c].sent = wire[c].out + wire[c].got /\ wire[c].fin /\ ~wire[c].rst
    <2>1. wire[c].sent - (wire[c].in + wire[c].out + wire[c].got) = 0
        BY <1>5 DEF Account, Held, Missing
    <2>2. wire[c].in = 0 /\ wire[c].fin /\ ~wire[c].rst
        BY <1>1 DEF ReadEof, c
    <2> QED
        BY <1>5, <2>1, <2>2, WireType
<1>7. Lines[c].fin /\ ~Lines[c].rst /\ Lines[c].back = Lines[c].sent
    BY <1>5, <1>6 DEF Lines
<1>8. Lines' = Lines /\ InHand = Service!Nothing /\ InHand' = Service!Nothing
    BY <1>1, <1>2 DEF Lines, InHand, Service!Nothing
<1>9. (pc # "exit")' = (pc # "exit")
    BY <1>1
<1>10. Service!Drop
    BY <1>2, <1>4, <1>7, <1>8, <1>9 DEF Service!Drop
<1> QED
    BY <1>1, <1>2, <1>10, IdleAccount

\* read takes bytes of one connection that are not back with it.
LEMMA ReadDataServed ==
    ASSUME Inv, Account, pc = "scan", NEW s, ReadData(s)
    PROVE  Account' /\ Service!Take /\ pc' # "exit"
<1> DEFINE c == owner[fd[s]]
<1>1. /\ fd[s] \in OpenFds /\ wire[c].in > 0 /\ len' = ReadLen(c) /\ KRead(c)
      /\ i' = s /\ pc' = "write" /\ fd' = fd
    BY DEF ReadData
<1>2. c \in Conns /\ c \in OpenConns /\ wire[c] \in Wires
    BY <1>1, OwnerType DEF Inv, KernelTypeOK, OpenConns
<1>3. /\ owner' = owner /\ OpenFds' = OpenFds /\ ReadLen(c) \in 1 .. MAXLINE
      /\ \A d \in Conns : d # c => wire'[d] = wire[d]
      /\ wire'[c].in = wire[c].in - ReadLen(c) /\ wire'[c].out = wire[c].out
      /\ wire'[c].got = wire[c].got /\ wire'[c].sent = wire[c].sent
    BY <1>1, <1>2, KReadKeeps DEF Inv
<1>4. InHand = Service!Nothing /\ InHand' = [conn |-> c, n |-> ReadLen(c)]
    BY <1>1, <1>3 DEF InHand, Service!Nothing
<1>5. backlog' = backlog /\ OpenConns' = OpenConns /\ Lines' = Lines
    <2>1. wire' = [wire EXCEPT ![c].in = @ - ReadLen(c)] /\ backlog' = backlog
        BY <1>1 DEF KRead
    <2>2. \A d \in Conns : /\ wire'[d].made = wire[d].made /\ wire'[d].sent = wire[d].sent
                           /\ wire'[d].out = wire[d].out /\ wire'[d].got = wire[d].got
                           /\ wire'[d].fin = wire[d].fin /\ wire'[d].rst = wire[d].rst
        BY <1>2, <2>1 DEF Inv, KernelTypeOK, Wires
    <2> QED
        BY <1>3, <2>1, <2>2 DEF Lines, OpenConns
<1>6. \A d \in Conns : Held(d) = 0 /\ Held(d)' = IF d = c THEN ReadLen(c) ELSE 0
    BY <1>1, <1>3 DEF Held
<1> HIDE DEF c
<1>7. ReadLen(c) \in Int /\ ReadLen(c) > 0
    BY <1>3, WindowAssumption
<1>8. ASSUME NEW d \in Conns
      PROVE  Missing(d)' = Held(d)'
    <2>1. Missing(d) = 0
        BY <1>6 DEF Account
    <2>2. CASE d = c
        BY <1>2, <1>3, <1>6, <1>7, <2>1, <2>2, WireType DEF Missing
    <2>3. CASE d # c
        BY <1>3, <1>6, <2>1, <2>3 DEF Missing
    <2> QED
        BY <2>2, <2>3
<1>9. ReadLen(c) <= Lines[c].sent - Lines[c].back
    <2>1. wire'[c].in \in Nat
        BY <1>1, <1>2, KReadKeeps, WireType DEF Inv, KernelTypeOK
    <2>2. wire[c].sent - (wire[c].in + wire[c].out + wire[c].got) = 0
        BY <1>2, <1>6 DEF Account, Missing
    <2>3. ReadLen(c) <= wire[c].sent - (wire[c].out + wire[c].got)
        BY <1>2, <1>3, <1>7, <2>1, <2>2, WireType
    <2> QED
        BY <1>2, <2>3 DEF Lines
<1>10. (pc # "exit")' = (pc # "exit")
    BY <1>1
<1>11. Service!Take
    BY <1>2, <1>3, <1>4, <1>5, <1>9, <1>10 DEF Service!Take
<1>12. Account'
    BY <1>1, <1>7, <1>8 DEF Account
<1> QED
    BY <1>1, <1>11, <1>12

\* write gives the connection all that is in hand.
LEMMA WriteServed ==
    ASSUME Inv, Account, WriteStep
    PROVE  Account' /\ Service!Give /\ pc' # "exit"
<1> DEFINE c == owner[fd[i]]
<1>1. /\ pc = "write" /\ ~wire[c].rst /\ WriteFits(c, len) /\ KWrite(c, len) /\ pc' \in {"poll", "scan"}
    BY DEF WriteStep, WriteFails
<1>2. fd[i] \in OpenFds
    BY <1>1, Entries DEF Inv, ScanInv, Ahead, EntryInv
<1>3. c \in Conns /\ c \in OpenConns /\ wire[c] \in Wires /\ len \in Nat /\ len > 0
    BY <1>1, <1>2, OwnerType, WindowAssumption DEF Inv, KernelTypeOK, ServerTypeOK, OpenConns, Account
<1>4. /\ owner' = owner /\ OpenFds' = OpenFds
      /\ \A d \in Conns : d # c => wire'[d] = wire[d]
      /\ wire'[c].in = wire[c].in /\ wire'[c].out = wire[c].out + len
      /\ wire'[c].got = wire[c].got /\ wire'[c].sent = wire[c].sent
      /\ wire'[c].rst = wire[c].rst /\ wire'[c].fin = wire[c].fin
    BY <1>1, <1>3, KWriteKeeps DEF Inv
<1>5. InHand = [conn |-> c, n |-> len] /\ InHand # Service!Nothing /\ InHand' = Service!Nothing
    <2>1. InHand = [conn |-> c, n |-> len] /\ InHand' = Service!Nothing
        BY <1>1 DEF InHand, Service!Nothing
    <2> QED
        BY <1>3, <2>1 DEF Service!Nothing
<1>6. wire'[c].made = wire[c].made /\ backlog' = backlog
    BY <1>1, <1>3 DEF KWrite, Inv, KernelTypeOK, Wires
<1>7. \A d \in Conns : Held(d) = (IF d = c THEN len ELSE 0) /\ Held(d)' = 0
    BY <1>1 DEF Held
<1> HIDE DEF c
<1>8. ASSUME NEW d \in Conns
      PROVE  Missing(d)' = Held(d)'
    <2>1. Missing(d) = Held(d)
        BY <1>1 DEF Account
    <2>2. CASE d = c
        BY <1>3, <1>4, <1>7, <2>1, <2>2, WireType DEF Missing
    <2>3. CASE d # c
        BY <1>4, <1>7, <2>1, <2>3 DEF Missing
    <2> QED
        BY <2>2, <2>3
<1>9. Lines[c] = [made |-> wire[c].made, sent |-> wire[c].sent, back |-> wire[c].out + wire[c].got,
                  fin |-> wire[c].fin, rst |-> wire[c].rst]
    BY <1>3 DEF Lines
<1>10. Lines' = [Lines EXCEPT ![c] = [Lines[c] EXCEPT !.back = @ + len]]
    <2>1. wire'[c].out + wire'[c].got = wire[c].out + wire[c].got + len
        BY <1>3, <1>4, WireType
    <2>2. [Lines[c] EXCEPT !.back = @ + len]
            = [made |-> wire'[c].made, sent |-> wire'[c].sent, back |-> wire'[c].out + wire'[c].got,
               fin |-> wire'[c].fin, rst |-> wire'[c].rst]
        BY <1>4, <1>6, <1>9, <2>1
    <2> QED
        BY <1>3, <1>4, <2>2, LineAt
<1>11. OpenConns' = OpenConns
    BY <1>4 DEF OpenConns
<1>12. Service!Give
    <2>1. /\ InHand.conn = c /\ InHand.n = len /\ len \in 1 .. len /\ ~Lines[c].rst
        BY <1>1, <1>3, <1>5, <1>9 DEF c
    <2>2. Lines' = [Lines EXCEPT ![c].back = @ + len]
        BY <1>10
    <2>3. (pc # "exit")' = (pc # "exit")
        BY <1>1
    <2> QED
        BY <1>3, <1>5, <1>6, <1>11, <2>1, <2>2, <2>3 DEF Service!Give
<1>13. Account'
    BY <1>1, <1>8 DEF Account
<1> QED
    BY <1>1, <1>12, <1>13

\* The clients do what EchoService lets them do, whatever the server does.
LEMMA ClientsServed ==
    ASSUME Inv, Account, ClientStep, UNCHANGED serverVars
    PROVE  Account' /\ (Service!ClientStep \/ UNCHANGED Service!vars)
<1>1. owner' = owner /\ KernelTypeOK'
    BY ClientsKeepInv DEF Inv
<1>2. pc' = pc /\ fd' = fd /\ i' = i /\ len' = len
    BY DEF serverVars
<1>3. InHand' = InHand /\ OpenConns' = OpenConns /\ (pc # "exit")' = (pc # "exit")
    BY <1>1, <1>2 DEF InHand, OpenConns, OpenFds
<1>4. /\ \/ \E c \in Conns : Service!Connect(c) \/ Service!Use(c)
         \/ UNCHANGED <<backlog, Lines>>
      /\ \A c \in Conns : Missing(c)' = Missing(c)
    BY ClientServed DEF Inv
<1>5. \A c \in Conns : Held(c)' = Held(c)
    BY <1>1, <1>2 DEF Held
<1>6. Account'
    BY <1>2, <1>4, <1>5 DEF Account
<1> QED
    BY <1>3, <1>4, <1>6 DEF Service!ClientStep, Service!vars

\* The idle server with no connections is one EchoService starts with.
LEMMA InitServed == Init => Account /\ Service!Init
<1> SUFFICES ASSUME Init PROVE Account /\ Service!Init
    OBVIOUS
<1>1. Account
    BY DEF Init, KernelInit, Account, Held, Missing
<1>2. Lines = [c \in Conns |-> [made |-> FALSE, sent |-> 0, back |-> 0, fin |-> FALSE, rst |-> FALSE]]
    BY DEF Init, KernelInit, Lines
<1>3. OpenConns = {} /\ backlog = <<>> /\ pc # "exit"
    BY DEF Init, KernelInit, OpenConns, OpenFds
<1>4. InHand = Service!Nothing
    BY NothingInHand DEF Init
<1>5. (pc # "exit") = TRUE
    BY <1>3
<1> QED
    BY <1>1, <1>2, <1>3, <1>4, <1>5 DEF Service!Init

\* Every step is one of EchoService or changes nothing that it speaks of.
LEMMA NextServed ==
    ASSUME Inv, Account, [Next]_vars
    PROVE  Account' /\ [Service!Next]_(Service!vars)
<1>1. ASSUME Service!Admit \/ Service!Take \/ Service!Give \/ Service!Drop,
             pc # "exit", pc' # "exit"
      PROVE  Service!Next
    <2>1. (pc # "exit")' = (pc # "exit")
        BY <1>1
    <2> QED
        BY <1>1, <2>1 DEF Service!Next, Service!ServerStep
<1>2. CASE Poll \/ EndPass
    <2>1. pc \notin {"write", "exit"} /\ pc' \notin {"write", "exit"} /\ UNCHANGED kernelVars
        BY <1>2 DEF Poll, EndPass
    <2> QED
        BY <2>1, QuietServed
<1>3. ASSUME NEW call, Exit(call), pc # "exit",
             pc = "write" => owner[fd[i]] \in Conns /\ wire[owner[fd[i]]].rst
      PROVE  Account' /\ Service!Next
    BY <1>3, ExitServed DEF Service!Next, Service!ServerStep
<1>4. CASE AcceptFail
    BY <1>3, <1>4 DEF AcceptFail
<1>5. CASE Accept
    BY <1>1, <1>5, AcceptServed DEF Accept
<1>6. CASE ReadStep
    <2> DEFINE s == Min(Pending)
    <2>0. pc = "scan" /\ (ReadFail(s) \/ ReadEnd(s) \/ ReadData(s))
        BY <1>6 DEF ReadStep
    <2>1. CASE ReadFail(s)
        BY <1>3, <2>0, <2>1 DEF ReadFail
    <2>2. CASE ReadEnd(s)
        BY <1>1, <2>0, <2>2, ReadEndServed
    <2>3. CASE ReadData(s)
        BY <1>1, <2>0, <2>3, ReadDataServed
    <2> QED
        BY <2>0, <2>1, <2>2, <2>3
<1>7. CASE WriteFail
    <2>1. owner[fd[i]] \in Conns
        BY <1>7, Entries, OwnerType DEF WriteFail, Inv, ScanInv, EntryInv
    <2> QED
        BY <1>3, <1>7, <2>1 DEF WriteFail, WriteFails
<1>8. CASE WriteStep
    BY <1>1, <1>8, WriteServed DEF WriteStep
<1>9. CASE ClientStep /\ UNCHANGED serverVars
    BY <1>9, ClientsServed DEF Service!Next
<1>10. CASE UNCHANGED vars
    BY <1>10 DEF vars, kernelVars, serverVars, Account, Held, Missing, Service!vars, InHand, Lines,
                OpenConns, OpenFds
<1> QED
    BY <1>2, <1>4, <1>5, <1>6, <1>7, <1>8, <1>9, <1>10 DEF Next, ServerStep

\* The poll server implements EchoService: whatever descriptors and entries are
\* used again, it gives every client its own bytes, those of one before those of
\* the next, and drops none before it has all of them back.
THEOREM EchoImplemented == Spec => ImplementsEcho
<1>1. Init => Account /\ Service!Init
    BY InitServed
<1>2. Inv /\ Account /\ [Next]_vars => Account' /\ [Service!Next]_(Service!vars)
    BY NextServed
<1> QED
    BY <1>1, <1>2, InvHolds, PTL DEF Spec, ImplementsEcho, Service!Spec
==============================================================================
