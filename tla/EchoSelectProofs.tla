--------------------------- MODULE EchoSelectProofs ---------------------------
(***************************************************************************)
(* css_echo_select.cpp for any number of connections, descriptors, client  *)
(* slots and bytes: the tables of the server agree, no reported client is  *)
(* skipped, the process ends only for a reset, a full descriptor table or  *)
(* a free slot taken for ready, and the server implements EchoService.     *)
(***************************************************************************)
EXTENDS EchoSelect, TLAPS, FiniteSetTheorems, SequenceTheorems, WellFoundedInduction

ServerTypeOK ==
    /\ pc \in {"select", "accept", "scan", "write", "exit"}
    /\ why \in {"none", "select", "accept", "read", "write"}
    /\ allset \subseteq AllFds /\ rset \subseteq AllFds
    /\ maxfd \in SvrFd .. MaxFd
    /\ clifds \in [Slots -> Fds \cup {-1}]
    /\ maxi \in -1 .. MAXFDSIZE - 1
    /\ fdnum \in 0 .. Cardinality(AllFds)
    /\ i \in 0 .. MAXFDSIZE /\ len \in 0 .. MAXLINE

\* What the server has read of c and not yet written back.
Held(c) == IF pc = "write" /\ owner[clifds[i]] = c THEN len ELSE 0

\* No byte comes from nowhere; those held when the process exits are lost.
WireInv ==
    \A c \in Conns : wire[c].in + Held(c) + wire[c].out + wire[c].got <= wire[c].sent

TableInv ==
    /\ \A s \in Used : clifds[s] \in OpenFds /\ s <= maxi
    /\ \A s, u \in Used : clifds[s] = clifds[u] => s = u
    /\ allset = OpenFds \cup {SvrFd}
    /\ \A f \in OpenFds : f <= maxfd

\* What the client loop knows at each place.
ScanInv ==
    /\ pc = "accept" =>
          /\ i = 0 /\ SvrFd \in rset /\ rset \subseteq OpenFds \cup {SvrFd}
          /\ fdnum = Cardinality(rset)
    /\ pc \in {"scan", "write"} => Cardinality(Ahead) <= fdnum
    /\ pc = "write" => i \in Ahead
    /\ pc = "select" => Ahead = {}

Inv == KernelTypeOK /\ ServerTypeOK /\ WireInv /\ TableInv /\ ScanInv

------------------------------------------------------------------------------
\* A set of naturals has a least element.
LEMMA LeastOf ==
    ASSUME NEW S \in SUBSET Nat, S # {}
    PROVE  Min(S) \in S /\ \A g \in S : Min(S) <= g
<1>1. PICK f \in S : \A g \in S : <<g, f>> \notin OpToRel(<, Nat)
    BY NatLessThanWellFounded, WFMin
<1>2. \A g \in S : ~(g < f)
    BY <1>1 DEF OpToRel
<1>3. \A g \in S : f <= g
    BY <1>2
<1> QED
    BY <1>3 DEF Min

\* A set of integers that has an upper bound has a greatest element.
LEMMA GreatestOf ==
    ASSUME NEW S \in SUBSET Int, S # {}, NEW n \in Int, \A g \in S : g <= n
    PROVE  Max(S) \in S /\ \A g \in S : g <= Max(S)
<1> DEFINE D == {d \in Nat : n - d \in S}
<1>1. PICK x \in S : TRUE
    OBVIOUS
<1>2. n - x \in Nat /\ n - (n - x) = x
    BY <1>1
<1>3. D \in SUBSET Nat /\ D # {}
    BY <1>2
<1> HIDE DEF D
<1>4. Min(D) \in D /\ \A d \in D : Min(D) <= d
    BY <1>3, LeastOf
<1>5. Min(D) \in Nat /\ n - Min(D) \in S
    BY <1>4 DEF D
<1>6. ASSUME NEW g \in S PROVE g <= n - Min(D)
    <2>1. n - g \in Nat /\ n - (n - g) = g
        BY <1>6
    <2>2. n - g \in D
        BY <2>1 DEF D
    <2> QED
        BY <1>4, <1>5, <2>1, <2>2
<1>7. \E m \in S : \A g \in S : m >= g
    BY <1>5, <1>6
<1>8. Max(S) \in S /\ \A g \in S : Max(S) >= g
    BY <1>7 DEF Max
<1> QED
    BY <1>8

\* An injection does not raise the number of elements.
LEMMA NoMore ==
    ASSUME NEW A, NEW R, IsFiniteSet(R), NEW f,
           \A x \in A : f[x] \in R, \A x, y \in A : f[x] = f[y] => x = y
    PROVE  IsFiniteSet(A) /\ Cardinality(A) <= Cardinality(R)
<1> DEFINE g == [x \in A |-> f[x]]
<1>1. g \in Injection(A, R)
    BY DEF Injection, IsInjective
<1> QED
    BY <1>1, FS_Injection

\* The descriptors and the slots are finitely many.
LEMMA Finite ==
    /\ IsFiniteSet(AllFds) /\ IsFiniteSet(Slots)
    /\ AllFds \subseteq SvrFd .. MaxFd /\ SvrFd \notin Fds /\ -1 \notin Fds /\ Fds \subseteq Nat
<1>1. /\ AllFds \subseteq SvrFd .. MaxFd /\ SvrFd \notin Fds /\ -1 \notin Fds
      /\ \A f \in Fds : f \in Nat
    BY FdAssumption DEF AllFds, Fds
<1>2. IsFiniteSet(SvrFd .. MaxFd) /\ IsFiniteSet(Slots)
    BY FdAssumption, SlotAssumption, FS_Interval DEF Slots
<1> QED
    BY <1>1, <1>2, FS_Subset

\* A client leaves the descriptors alone, makes no byte appear in the kernel
\* without sending it and takes back neither data nor a FIN or a reset.
LEMMA ClientKeeps ==
    ASSUME KernelTypeOK, ClientStep, NEW held \in [Conns -> Nat],
           \A c \in Conns : wire[c].in + held[c] + wire[c].out + wire[c].got <= wire[c].sent
    PROVE  /\ KernelTypeOK' /\ owner' = owner
           /\ \A c \in Conns :
                 /\ wire'[c].in + held[c] + wire'[c].out + wire'[c].got <= wire'[c].sent
                 /\ wire[c].rst => wire'[c].rst
<1>1. PICK c \in Conns : Connect(c) \/ Send(c) \/ Receive(c) \/ Finish(c) \/ Reset(c)
    BY DEF ClientStep
<1> DEFINE w == wire[c]
<1>2. wire \in [Conns -> Wires] /\ w \in Wires /\ held[c] \in Nat
    BY DEF KernelTypeOK
<1>3. /\ w.in + held[c] + w.out + w.got <= w.sent
      /\ w.sent \in Nat /\ w.in \in Nat /\ w.out \in Nat /\ w.got \in Nat
      /\ w.sent <= MaxBytes /\ w.out <= Window /\ MaxBytes \in Nat /\ Window \in Nat
    BY <1>2, BoundAssumption, WindowAssumption DEF Wires
<1>4. backlog' \in Seq(Conns) /\ owner' = owner
    <2>1. CASE Connect(c)
        BY <2>1 DEF KernelTypeOK, Connect
    <2> QED
        BY <1>1, <2>1 DEF KernelTypeOK, Send, Receive, Finish, Reset
<1>5. ASSUME NEW v \in Wires, wire' = [wire EXCEPT ![c] = v],
             v.in + held[c] + v.out + v.got <= v.sent, w.rst => v.rst
      PROVE  /\ wire' \in [Conns -> Wires]
             /\ \A d \in Conns :
                   /\ wire'[d].in + held[d] + wire'[d].out + wire'[d].got <= wire'[d].sent
                   /\ wire[d].rst => wire'[d].rst
    <2>1. wire' \in [Conns -> Wires]
        BY <1>2, <1>5
    <2>2. ASSUME NEW d \in Conns PROVE wire'[d] = IF d = c THEN v ELSE wire[d]
        BY <1>2, <1>5
    <2> QED
        BY <1>5, <2>1, <2>2
<1>6. CASE Connect(c)
    <2>1. wire' = [wire EXCEPT ![c] = [w EXCEPT !.made = TRUE]]
        BY <1>6, <1>2 DEF Connect
    <2>2. [w EXCEPT !.made = TRUE] \in Wires
        BY <1>2 DEF Wires
    <2> QED
        BY <1>2, <1>3, <1>4, <1>5, <2>1, <2>2 DEF KernelTypeOK, Wires
<1>7. CASE Send(c)
    <2>1. wire' = [wire EXCEPT ![c] = [w EXCEPT !.sent = @ + 1, !.in = @ + 1]] /\ w.sent < MaxBytes
        BY <1>7, <1>2 DEF Send
    <2>2. w.in + 1 \in 0 .. MaxBytes /\ w.sent + 1 \in 0 .. MaxBytes
        BY <1>2, <1>3, <2>1
    <2> DEFINE v == [w EXCEPT !.sent = @ + 1, !.in = @ + 1]
    <2>3. /\ v \in Wires
          /\ v.in = w.in + 1 /\ v.sent = w.sent + 1 /\ v.out = w.out /\ v.got = w.got /\ v.rst = w.rst
        BY <1>2, <2>2 DEF Wires
    <2> HIDE DEF v
    <2>4. v.in + held[c] + v.out + v.got <= v.sent
        BY <1>2, <1>3, <2>3
    <2> QED
        BY <1>4, <1>5, <2>1, <2>3, <2>4 DEF KernelTypeOK, v
<1>8. CASE Receive(c)
    <2>1. wire' = [wire EXCEPT ![c] = [w EXCEPT !.got = @ + w.out, !.out = 0]]
        BY <1>8, <1>2 DEF Receive
    <2>2. w.got + w.out \in 0 .. MaxBytes /\ 0 \in 0 .. Window
        BY <1>2, <1>3
    <2> DEFINE v == [w EXCEPT !.got = @ + w.out, !.out = 0]
    <2>3. /\ v \in Wires
          /\ v.in = w.in /\ v.sent = w.sent /\ v.out = 0 /\ v.got = w.got + w.out /\ v.rst = w.rst
        BY <1>2, <2>2 DEF Wires
    <2> HIDE DEF v
    <2>4. v.in + held[c] + v.out + v.got <= v.sent
        BY <1>2, <1>3, <2>3
    <2> QED
        BY <1>4, <1>5, <2>1, <2>3, <2>4 DEF KernelTypeOK, v
<1>9. CASE Finish(c)
    <2>1. wire' = [wire EXCEPT ![c] = [w EXCEPT !.fin = TRUE]]
        BY <1>9, <1>2 DEF Finish
    <2>2. [w EXCEPT !.fin = TRUE] \in Wires
        BY <1>2 DEF Wires
    <2> QED
        BY <1>2, <1>3, <1>4, <1>5, <2>1, <2>2 DEF KernelTypeOK, Wires
<1>10. CASE Reset(c)
    <2>1. wire' = [wire EXCEPT ![c] = [w EXCEPT !.rst = TRUE]]
        BY <1>10, <1>2 DEF Reset
    <2>2. [w EXCEPT !.rst = TRUE] \in Wires
        BY <1>2 DEF Wires
    <2> QED
        BY <1>2, <1>3, <1>4, <1>5, <2>1, <2>2 DEF KernelTypeOK, Wires
<1> QED
    BY <1>1, <1>6, <1>7, <1>8, <1>9, <1>10

\* What the server holds is counted in bytes.
LEMMA HeldType ==
    ASSUME ServerTypeOK, NEW c
    PROVE  Held(c) \in Nat
    BY WindowAssumption DEF Held, ServerTypeOK

\* The table of slots: the used ones and the finitely many still ahead.
LEMMA Slotted ==
    ASSUME ServerTypeOK
    PROVE  /\ \A s \in Used : s \in Slots /\ clifds[s] \in Fds
           /\ Ahead \subseteq Used /\ Used \subseteq Slots /\ Slots \subseteq Nat
           /\ IsFiniteSet(Ahead) /\ Cardinality(Ahead) \in Nat
           /\ Cardinality(Ahead) = 0 <=> Ahead = {}
<1>1. /\ \A s \in Used : s \in Slots /\ clifds[s] \in Fds
      /\ Ahead \subseteq Used /\ Used \subseteq Slots
    BY DEF ServerTypeOK, Used, Ahead
<1>2. \A s \in Slots : s \in Nat
    BY SlotAssumption DEF Slots
<1>3. IsFiniteSet(Ahead)
    BY <1>1, Finite, FS_Subset
<1> QED
    BY <1>1, <1>2, <1>3, FS_CardinalityType, FS_EmptySet

\* The loop behind the client loop lowers maxi, to no less than a slot in use.
LEMMA Shrunk ==
    ASSUME ServerTypeOK, \A s \in Used : s <= maxi
    PROVE  /\ Shrink(clifds, maxi) \in -1 .. MAXFDSIZE - 1
           /\ \A s \in Used : s <= Shrink(clifds, maxi)
<1> DEFINE S == {-1} \cup {s \in 0 .. maxi : clifds[s] # -1}
<1>1. maxi \in Int /\ -1 <= maxi /\ maxi <= MAXFDSIZE - 1 /\ MAXFDSIZE \in Nat
    BY SlotAssumption DEF ServerTypeOK
<1>2. S \in SUBSET Int /\ S # {} /\ \A g \in S : -1 <= g /\ g <= maxi
    BY <1>1
<1>3. \A s \in Used : s \in S
    BY <1>1, Slotted DEF Used
<1> HIDE DEF S
<1>4. Max(S) \in S /\ \A g \in S : g <= Max(S)
    BY <1>1, <1>2, GreatestOf
<1>5. Shrink(clifds, maxi) = Max(S)
    BY DEF Shrink, S
<1>6. Max(S) \in Int /\ -1 <= Max(S) /\ Max(S) <= maxi
    BY <1>2, <1>4
<1>7. Max(S) \in -1 .. MAXFDSIZE - 1
    BY <1>1, <1>6
<1> QED
    BY <1>3, <1>4, <1>5, <1>7

\* print_error disturbs nothing.
LEMMA ExitKeeps ==
    ASSUME Inv, NEW call \in {"select", "accept", "read", "write"}, Exit(call)
    PROVE  Inv'
<1>1. UNCHANGED <<kernelVars, allset, rset, maxfd, clifds, maxi, fdnum, i, len>> /\ pc' = "exit" /\ why' = call
    BY DEF Exit
<1>2. KernelTypeOK' /\ ServerTypeOK'
    BY <1>1 DEF Inv, KernelTypeOK, ServerTypeOK, kernelVars
<1>3. WireInv'
    <2> SUFFICES ASSUME NEW c \in Conns
                 PROVE  (wire[c].in + Held(c) + wire[c].out + wire[c].got <= wire[c].sent)'
        BY DEF WireInv
    <2>1. Held(c)' = 0 /\ wire'[c] = wire[c]
        BY <1>1 DEF Held, kernelVars
    <2>2. wire[c] \in Wires /\ Held(c) \in Nat
        BY HeldType DEF Inv, KernelTypeOK
    <2>3. wire[c].in + Held(c) + wire[c].out + wire[c].got <= wire[c].sent
        BY DEF Inv, WireInv
    <2> QED
        BY <2>1, <2>2, <2>3, BoundAssumption, WindowAssumption DEF Wires
<1>4. TableInv'
    BY <1>1 DEF Inv, TableInv, Used, OpenFds, kernelVars
<1>5. ScanInv'
    BY <1>1 DEF ScanInv
<1> QED
    BY <1>2, <1>3, <1>4, <1>5 DEF Inv

\* The clients act between the calls of the server.
LEMMA ClientsKeepInv ==
    ASSUME Inv, ClientStep, UNCHANGED serverVars
    PROVE  Inv'
<1> DEFINE h == [c \in Conns |-> Held(c)]
<1>1. h \in [Conns -> Nat] /\ \A c \in Conns : h[c] = Held(c)
    BY HeldType DEF Inv
<1>2. \A c \in Conns : wire[c].in + h[c] + wire[c].out + wire[c].got <= wire[c].sent
    BY <1>1 DEF Inv, WireInv
<1> HIDE DEF h
<1>3. /\ KernelTypeOK' /\ owner' = owner
      /\ \A c \in Conns : wire'[c].in + h[c] + wire'[c].out + wire'[c].got <= wire'[c].sent
    BY <1>1, <1>2, ClientKeeps DEF Inv
<1>4. \A c \in Conns : Held(c)' = h[c]
    BY <1>1, <1>3 DEF Held, serverVars
<1>5. WireInv'
    BY <1>3, <1>4 DEF WireInv
<1>6. ServerTypeOK'
    BY DEF Inv, ServerTypeOK, serverVars
<1>7. OpenFds' = OpenFds /\ Used' = Used /\ Ahead' = Ahead
    BY <1>3 DEF OpenFds, Used, Ahead, serverVars
<1>8. TableInv' /\ ScanInv'
    BY <1>7 DEF Inv, TableInv, ScanInv, serverVars
<1> QED
    BY <1>3, <1>5, <1>6, <1>8 DEF Inv

\* While the server writes nothing, it holds nothing.
LEMMA IdleWires ==
    ASSUME Inv, pc # "write", pc' # "write", wire' = wire
    PROVE  WireInv'
<1>1. \A c : Held(c) = 0 /\ Held(c)' = 0
    BY DEF Held
<1> QED
    BY <1>1 DEF Inv, WireInv

\* select reports open descriptors only, and at least as many as there are
\* ready slots.
LEMMA SelectKeeps ==
    ASSUME Inv, Select
    PROVE  Inv'
<1>1. Watched = allset /\ Watched \ {SvrFd} \subseteq OpenFds
    <2>1. \A f \in OpenFds : f \in Fds
        BY DEF OpenFds
    <2> QED
        BY <2>1, FdAssumption DEF Inv, TableInv, Watched, ServerTypeOK
<1>2. /\ rset' \subseteq allset /\ fdnum' = Cardinality(rset') /\ i' = 0
      /\ pc' = IF SvrFd \in rset' THEN "accept" ELSE "scan"
      /\ UNCHANGED <<kernelVars, why, allset, maxfd, clifds, maxi, len>>
    BY <1>1 DEF Select
<1>3. IsFiniteSet(rset') /\ rset' \subseteq AllFds /\ fdnum' \in 0 .. Cardinality(AllFds)
    <2>1. rset' \subseteq AllFds
        BY <1>2 DEF Inv, ServerTypeOK
    <2>2. IsFiniteSet(rset') /\ Cardinality(rset') <= Cardinality(AllFds)
        BY <2>1, Finite, FS_Subset
    <2>3. Cardinality(rset') \in Nat /\ Cardinality(AllFds) \in Nat
        BY <2>2, Finite, FS_CardinalityType
    <2> QED
        BY <1>2, <2>1, <2>2, <2>3
<1>4. KernelTypeOK' /\ ServerTypeOK'
    BY <1>2, <1>3, SlotAssumption DEF Inv, KernelTypeOK, ServerTypeOK, kernelVars
<1>5. WireInv'
    BY <1>2, IdleWires DEF Select, kernelVars
<1>6. TableInv' /\ OpenFds' = OpenFds /\ Used' = Used
    BY <1>2 DEF Inv, TableInv, Used, OpenFds, kernelVars
<1>7. Cardinality(Ahead') <= fdnum'
    <2>1. \A s \in Ahead' : clifds[s] \in rset' /\ s \in Used
        BY <1>2, <1>6 DEF Ahead
    <2>2. \A s, u \in Ahead' : clifds[s] = clifds[u] => s = u
        BY <2>1 DEF Inv, TableInv
    <2> QED
        BY <1>2, <1>3, <2>1, <2>2, NoMore
<1>8. ScanInv'
    BY <1>2, <1>6, <1>7 DEF Inv, TableInv, ScanInv
<1> QED
    BY <1>4, <1>5, <1>6, <1>8 DEF Inv

\* accept returns a descriptor that was closed.
LEMMA Fresh ==
    ASSUME FreeFds # {}
    PROVE  NewFd \in Fds /\ NewFd \notin OpenFds
<1>1. FreeFds \in SUBSET Nat
    BY Finite DEF FreeFds
<1>2. NewFd \in FreeFds
    BY <1>1, LeastOf DEF NewFd
<1> QED
    BY <1>2 DEF FreeFds

\* The larger of two integers.
LEMMA Larger ==
    ASSUME NEW a \in Int, NEW b \in Int
    PROVE  Max({a, b}) = IF a >= b THEN a ELSE b
<1> DEFINE m == IF a >= b THEN a ELSE b
<1>1. m \in {a, b} /\ \A y \in {a, b} : m >= y
    OBVIOUS
<1>2. \A x \in {a, b} : (\A y \in {a, b} : x >= y) => x = m
    OBVIOUS
<1> QED
    BY <1>1, <1>2 DEF Max

\* A new client takes a free slot, if there is one; it was not reported, so that
\* the ready slots are those of before, and the listener was counted once.
LEMMA AcceptKeeps ==
    ASSUME Inv, Accept
    PROVE  Inv'
<1>1. /\ pc = "accept" /\ FreeFds # {} /\ backlog # <<>>
      /\ owner' = [owner EXCEPT ![NewFd] = Head(backlog)] /\ backlog' = Tail(backlog)
      /\ allset' = allset \cup {NewFd} /\ maxfd' = Max({maxfd, NewFd})
      /\ fdnum' = fdnum - 1 /\ pc' = IF fdnum' <= 0 THEN "select" ELSE "scan"
      /\ UNCHANGED <<wire, why, rset, i, len>>
    BY DEF Accept, KAccept
<1>2. /\ i = 0 /\ SvrFd \in rset /\ rset \subseteq OpenFds \cup {SvrFd}
      /\ fdnum = Cardinality(rset)
    BY <1>1 DEF Inv, ScanInv
<1>3. NewFd \in Fds /\ NewFd \notin OpenFds /\ NewFd \in Nat /\ NewFd # SvrFd /\ NewFd # -1
    BY <1>1, Fresh, Finite
<1>4. KernelTypeOK'
    <2>1. Head(backlog) \in Conns /\ Tail(backlog) \in Seq(Conns)
        BY <1>1, HeadTailProperties DEF Inv, KernelTypeOK
    <2> QED
        BY <1>1, <2>1 DEF Inv, KernelTypeOK
<1>5. OpenFds' = OpenFds \cup {NewFd}
    <2>1. Head(backlog) # NULL
        BY <1>1, HeadTailProperties, ConnAssumption DEF Inv, KernelTypeOK
    <2> QED
        BY <1>1, <1>3, <2>1 DEF OpenFds, Inv, KernelTypeOK
<1>6. \/ FreeSlots = {} /\ UNCHANGED <<clifds, maxi>>
      \/ /\ Min(FreeSlots) \in FreeSlots
         /\ clifds' = [clifds EXCEPT ![Min(FreeSlots)] = NewFd]
         /\ maxi' = Max({maxi, Min(FreeSlots)})
    <2>1. FreeSlots \in SUBSET Nat
        BY Slotted DEF FreeSlots, Inv
    <2> QED
        BY <2>1, LeastOf DEF Accept
<1>7. /\ clifds' \in [Slots -> Fds \cup {-1}] /\ maxi' \in -1 .. MAXFDSIZE - 1
      /\ \A s \in Used' : /\ s <= maxi' /\ s \in Slots
                          /\ (s \in Used /\ clifds'[s] = clifds[s]) \/ clifds'[s] = NewFd
      /\ \A s, u \in Used' : clifds'[s] = NewFd /\ clifds'[u] = NewFd => s = u
      /\ \A s \in Used : s \in Used' /\ clifds'[s] = clifds[s]
    <2>0. clifds \in [Slots -> Fds \cup {-1}] /\ maxi \in -1 .. MAXFDSIZE - 1
          /\ \A s \in Used : s <= maxi /\ clifds[s] # NewFd
        BY <1>3 DEF Inv, ServerTypeOK, TableInv
    <2>1. CASE FreeSlots = {} /\ UNCHANGED <<clifds, maxi>>
        BY <2>0, <2>1 DEF Used
    <2>2. CASE ~(FreeSlots = {} /\ UNCHANGED <<clifds, maxi>>)
        <3>0. PICK m \in FreeSlots : clifds' = [clifds EXCEPT ![m] = NewFd] /\ maxi' = Max({maxi, m})
            BY <1>6, <2>2
        <3>1. m \in Slots /\ m \in Nat /\ m <= MAXFDSIZE - 1 /\ clifds[m] = -1 /\ MAXFDSIZE \in Nat
            BY SlotAssumption DEF FreeSlots, Slots
        <3>2. maxi' \in {maxi, m} /\ maxi' >= maxi /\ maxi' >= m
            BY <2>0, <3>0, <3>1, Larger
        <3>3. Used' = Used \cup {m} /\ m \notin Used
            BY <1>3, <2>0, <3>0, <3>1 DEF Used
        <3>4. maxi' \in -1 .. MAXFDSIZE - 1
            BY <2>0, <3>1, <3>2
        <3>5. \A s \in Used : s \in Slots /\ s \in Int /\ s <= maxi'
            BY <2>0, <3>2, Slotted DEF Inv
        <3> QED
            BY <1>3, <2>0, <3>0, <3>1, <3>2, <3>3, <3>4, <3>5
    <2> QED
        BY <2>1, <2>2
<1>8. TableInv'
    <2>1. \A s \in Used' : clifds'[s] \in OpenFds' /\ s <= maxi'
        BY <1>5, <1>7 DEF Inv, TableInv
    <2>2. \A s, u \in Used' : clifds'[s] = clifds'[u] => s = u
        BY <1>3, <1>7 DEF Inv, TableInv
    <2>3. allset' = OpenFds' \cup {SvrFd}
        BY <1>1, <1>5 DEF Inv, TableInv
    <2>4. \A f \in OpenFds' : f <= maxfd'
        <3>1. maxfd \in Int /\ NewFd \in Int
            BY <1>3, FdAssumption DEF Inv, ServerTypeOK
        <3>2. \A f \in OpenFds : f \in Int /\ f <= maxfd
            BY Finite DEF Inv, TableInv, OpenFds
        <3> QED
            BY <1>1, <1>5, <3>1, <3>2, Larger
    <2> QED
        BY <2>1, <2>2, <2>3, <2>4 DEF TableInv
<1>9. Ahead' = Ahead
    <2>1. NewFd \notin rset
        BY <1>2, <1>3
    <2> QED
        BY <1>1, <1>7, <2>1 DEF Ahead
<1>10. Cardinality(Ahead) <= fdnum' /\ fdnum' \in Nat
    <2>1. IsFiniteSet(rset)
        BY Finite, FS_Subset DEF Inv, ServerTypeOK
    <2>2. IsFiniteSet(rset \ {SvrFd}) /\ Cardinality(rset \ {SvrFd}) = fdnum'
        BY <1>1, <1>2, <2>1, FS_RemoveElement
    <2>3. \A s \in Ahead : clifds[s] \in rset \ {SvrFd} /\ s \in Used
        BY Slotted, Finite DEF Ahead, Inv
    <2>4. \A s, u \in Ahead : clifds[s] = clifds[u] => s = u
        BY <2>3 DEF Inv, TableInv
    <2> QED
        BY <2>2, <2>3, <2>4, NoMore, FS_CardinalityType
<1>11. ScanInv'
    <2>1. fdnum' <= 0 => Ahead = {}
        BY <1>10, Slotted DEF Inv
    <2> QED
        BY <1>1, <1>9, <1>10, <2>1 DEF ScanInv
<1>12. ServerTypeOK'
    <2>1. allset' \subseteq AllFds
        BY <1>1, <1>3 DEF Inv, ServerTypeOK, AllFds
    <2>2. maxfd' \in SvrFd .. MaxFd
        <3>1. NewFd \in SvrFd .. MaxFd
            BY <1>3, FdAssumption DEF Fds
        <3> QED
            BY <1>1, <3>1, Larger, FdAssumption DEF Inv, ServerTypeOK
    <2>3. fdnum' \in 0 .. Cardinality(AllFds)
        <3>1. fdnum \in 0 .. Cardinality(AllFds) /\ Cardinality(AllFds) \in Nat
            BY Finite, FS_CardinalityType DEF Inv, ServerTypeOK
        <3> QED
            BY <1>1, <1>10, <3>1
    <2> QED
        BY <1>1, <1>7, <2>1, <2>2, <2>3 DEF Inv, ServerTypeOK
<1>13. WireInv'
    BY <1>1, IdleWires
<1> QED
    BY <1>4, <1>8, <1>11, <1>12, <1>13 DEF Inv

\* The next slot the client loop reads, when it holds a descriptor.
LEMMA NextSlot ==
    ASSUME Inv, Pending # {}, Opened(Min(Pending))
    PROVE  /\ Min(Pending) \in Ahead /\ Min(Pending) \in Used /\ Min(Pending) >= i
           /\ clifds[Min(Pending)] \in OpenFds
           /\ \A u \in Ahead : Min(Pending) <= u
           /\ Min(Pending) \in Int /\ Min(Pending) \in 0 .. MAXFDSIZE - 1
<1>1. i \in Nat /\ maxi \in Int /\ maxi <= MAXFDSIZE - 1 /\ MAXFDSIZE \in Nat
    BY SlotAssumption DEF Inv, ServerTypeOK
<1>2. Pending \in SUBSET Nat /\ \A s \in Pending : s \in Slots /\ s >= i
    BY <1>1 DEF Pending, Slots
<1>3. Min(Pending) \in Pending /\ \A u \in Pending : Min(Pending) <= u
    BY <1>2, LeastOf
<1>4. \A u \in Ahead : u \in Pending
    <2>1. \A u \in Used : u \in Nat /\ u <= maxi /\ clifds[u] # -1
        BY Slotted DEF Inv, TableInv, Used
    <2> QED
        BY <1>1, <2>1 DEF Ahead, Pending, FD_ISSET
<1>5. Min(Pending) \in Used /\ clifds[Min(Pending)] \in rset
    BY <1>2, <1>3 DEF Opened, Used, Pending, FD_ISSET
<1>6. Min(Pending) \in Nat /\ Min(Pending) \in 0 .. MAXFDSIZE - 1 /\ Min(Pending) >= i
    BY <1>2, <1>3 DEF Slots
<1>7. Min(Pending) \in Ahead /\ clifds[Min(Pending)] \in OpenFds
    BY <1>5, <1>6 DEF Ahead, Inv, TableInv
<1> QED
    BY <1>3, <1>4, <1>5, <1>6, <1>7

\* A client that half-closed leaves the tables, and maxfd covers the others.
LEMMA ReadEndKeeps ==
    ASSUME Inv, pc = "scan", Pending # {}, ReadEnd(Min(Pending))
    PROVE  Inv'
<1> DEFINE s == Min(Pending)
<1> DEFINE f == clifds[s]
<1>1. /\ Opened(s) /\ owner' = [owner EXCEPT ![f] = NULL]
      /\ allset' = allset \ {f} /\ maxfd' = Lower(f)
      /\ clifds' = [clifds EXCEPT ![s] = -1] /\ i' = s + 1
      /\ UNCHANGED <<backlog, wire, pc, why, rset, maxi, fdnum, len>>
    BY DEF ReadEnd, KClose, FD_CLR
<1>2. /\ s \in Ahead /\ s \in Used /\ f \in OpenFds /\ s \in Slots
      /\ s \in 0 .. MAXFDSIZE - 1 /\ s >= i
    BY <1>1, NextSlot DEF Used
<1> HIDE DEF s
<1>3. OpenFds' = OpenFds \ {f} /\ f \in Fds /\ f # SvrFd
    BY <1>1, <1>2, Finite DEF OpenFds, Inv, KernelTypeOK
<1>4. Used' = Used \ {s} /\ \A u \in Used' : clifds'[u] = clifds[u]
    BY <1>1, <1>2 DEF Used, Inv, ServerTypeOK
<1>5. KernelTypeOK'
    BY <1>1 DEF Inv, KernelTypeOK
<1>6. maxfd' \in SvrFd .. MaxFd /\ \A g \in OpenFds' : g <= maxfd'
    <2>1. maxfd \in Int /\ SvrFd <= maxfd /\ maxfd <= MaxFd /\ SvrFd \in Int /\ MaxFd \in Int
        BY FdAssumption DEF Inv, ServerTypeOK
    <2>2. f \in Int /\ f > SvrFd
        BY <1>3, FdAssumption DEF Fds
    <2>3. \A g \in OpenFds' : g \in Int /\ g <= maxfd /\ g # f
        BY <1>3, Finite DEF Inv, TableInv, OpenFds
    <2> QED
        BY <1>1, <2>1, <2>2, <2>3 DEF Lower
<1>7. ServerTypeOK'
    <2>1. i' \in 0 .. MAXFDSIZE
        BY <1>1, <1>2, SlotAssumption
    <2>2. clifds' \in [Slots -> Fds \cup {-1}]
        BY <1>1 DEF Inv, ServerTypeOK
    <2> QED
        BY <1>1, <1>6, <2>1, <2>2 DEF Inv, ServerTypeOK
<1>8. WireInv'
    BY <1>1, IdleWires
<1>9. TableInv'
    <2>1. \A u \in Used' : clifds'[u] \in OpenFds' /\ u <= maxi'
        BY <1>1, <1>2, <1>3, <1>4 DEF Inv, TableInv
    <2>2. \A u, v \in Used' : clifds'[u] = clifds'[v] => u = v
        BY <1>4 DEF Inv, TableInv
    <2>3. allset' = OpenFds' \cup {SvrFd}
        BY <1>1, <1>3 DEF Inv, TableInv
    <2> QED
        BY <1>6, <2>1, <2>2, <2>3 DEF TableInv
<1>10. ScanInv'
    <2>1. Ahead' \subseteq Ahead
        <3>1. \A u \in Used : u \in Int
            BY Slotted DEF Inv
        <3>2. i \in Int /\ s \in Int /\ i' = s + 1 /\ rset' = rset
            BY <1>1, <1>2 DEF Inv, ServerTypeOK
        <3>3. \A u \in Used : u >= s + 1 => u >= i
            BY <1>2, <3>1, <3>2
        <3> QED
            BY <1>4, <3>2, <3>3 DEF Ahead
    <2>2. IsFiniteSet(Ahead) /\ Cardinality(Ahead) <= fdnum /\ fdnum \in Nat
        BY Slotted, Finite, FS_CardinalityType DEF Inv, ScanInv, ServerTypeOK
    <2>3. Cardinality(Ahead') <= Cardinality(Ahead) /\ IsFiniteSet(Ahead')
        BY <2>1, <2>2, FS_Subset
    <2>4. Cardinality(Ahead') \in Nat /\ Cardinality(Ahead) \in Nat
        BY <2>2, <2>3, FS_CardinalityType
    <2> QED
        BY <1>1, <2>2, <2>3, <2>4 DEF ScanInv
<1> QED
    BY <1>5, <1>7, <1>8, <1>9, <1>10 DEF Inv

\* The smaller of two integers.
LEMMA Smaller ==
    ASSUME NEW a \in Int, NEW b \in Int
    PROVE  Min({a, b}) = IF a <= b THEN a ELSE b
<1> DEFINE m == IF a <= b THEN a ELSE b
<1>1. m \in {a, b} /\ \A y \in {a, b} : m <= y
    OBVIOUS
<1>2. \A x \in {a, b} : (\A y \in {a, b} : x <= y) => x = m
    OBVIOUS
<1> QED
    BY <1>1, <1>2 DEF Min

\* What is read of a connection becomes what the server holds.
LEMMA ReadDataKeeps ==
    ASSUME Inv, pc = "scan", Pending # {}, ReadData(Min(Pending))
    PROVE  Inv'
<1> DEFINE s == Min(Pending)
<1> DEFINE c == owner[clifds[s]]
<1>1. /\ Opened(s) /\ wire[c].in > 0 /\ len' = ReadLen(c)
      /\ wire' = [wire EXCEPT ![c].in = @ - ReadLen(c)]
      /\ i' = s /\ pc' = "write"
      /\ UNCHANGED <<backlog, owner, why, allset, rset, maxfd, clifds, maxi, fdnum>>
    BY DEF ReadData, KRead
<1>2. /\ s \in Ahead /\ s \in Used /\ clifds[s] \in OpenFds /\ s \in Slots
      /\ s \in 0 .. MAXFDSIZE - 1 /\ s >= i /\ s \in Int /\ \A u \in Ahead : s <= u
    BY <1>1, NextSlot DEF Used
<1>3. c \in Conns
    BY <1>2, ConnAssumption DEF OpenFds, Inv, KernelTypeOK
<1> HIDE DEF s
<1> DEFINE w == wire[c]
<1>4. /\ w \in Wires /\ w.in \in Nat /\ w.out \in Nat /\ w.got \in Nat /\ w.sent \in Nat
      /\ w.in <= MaxBytes /\ MaxBytes \in Nat /\ MAXLINE \in Nat
    BY <1>3, BoundAssumption, WindowAssumption DEF Inv, KernelTypeOK, Wires
<1>5. ReadLen(c) \in Nat /\ ReadLen(c) <= w.in /\ ReadLen(c) <= MAXLINE
    <2>1. w.in \in Int /\ MAXLINE \in Int
        BY <1>4
    <2>2. ReadLen(c) = IF w.in <= MAXLINE THEN w.in ELSE MAXLINE
        BY <2>1, Smaller DEF ReadLen
    <2> QED
        BY <1>4, <2>2
<1> DEFINE v == [w EXCEPT !.in = @ - ReadLen(c)]
<1>6. v \in Wires /\ v.in = w.in - ReadLen(c) /\ v.out = w.out /\ v.got = w.got /\ v.sent = w.sent
    <2>1. w.in - ReadLen(c) \in 0 .. MaxBytes
        BY <1>4, <1>5
    <2> QED
        BY <1>4, <2>1 DEF Wires
<1>7. wire' = [wire EXCEPT ![c] = v]
    BY <1>1
<1> HIDE DEF v, c
<1>8. KernelTypeOK'
    BY <1>1, <1>3, <1>6, <1>7 DEF Inv, KernelTypeOK
<1>9. ServerTypeOK'
    <2>1. len' \in 0 .. MAXLINE /\ i' \in 0 .. MAXFDSIZE
        BY <1>1, <1>2, <1>4, <1>5, SlotAssumption
    <2> QED
        BY <1>1, <2>1 DEF Inv, ServerTypeOK
<1>10. WireInv'
    <2> SUFFICES ASSUME NEW d \in Conns
                 PROVE  (wire[d].in + Held(d) + wire[d].out + wire[d].got <= wire[d].sent)'
        BY DEF WireInv
    <2>1. Held(d) = 0 /\ wire[d].in + Held(d) + wire[d].out + wire[d].got <= wire[d].sent
        BY DEF Held, Inv, WireInv
    <2>2. Held(d)' = IF d = c THEN ReadLen(c) ELSE 0
        BY <1>1 DEF Held, c
    <2>3. CASE d = c
        <3>1. wire'[d] = v
            BY <1>3, <1>7, <2>3 DEF Inv, KernelTypeOK
        <3> QED
            BY <1>4, <1>5, <1>6, <2>1, <2>2, <2>3, <3>1
    <2>4. CASE d # c
        <3>1. wire'[d] = wire[d]
            BY <1>3, <1>7, <2>4 DEF Inv, KernelTypeOK
        <3> QED
            BY <2>1, <2>2, <2>4, <3>1
    <2> QED
        BY <2>3, <2>4
<1>11. TableInv'
    BY <1>1 DEF Inv, TableInv, Used, OpenFds
<1>12. ScanInv'
    <2>1. Ahead' = Ahead
        <3>1. \A u \in Used : u \in Int
            BY Slotted DEF Inv
        <3>2. i \in Int
            BY DEF Inv, ServerTypeOK
        <3>3. \A u \in Used : u >= i /\ clifds[u] \in rset <=> u >= s /\ clifds[u] \in rset
            BY <1>2, <3>1, <3>2 DEF Ahead
        <3> QED
            BY <1>1, <3>3 DEF Ahead, Used
    <2> QED
        BY <1>1, <1>2, <2>1 DEF Inv, ScanInv
<1> QED
    BY <1>8, <1>9, <1>10, <1>11, <1>12 DEF Inv

\* The client loop found nothing more to read: no ready slot is left.
LEMMA EndPassKeeps ==
    ASSUME Inv, EndPass
    PROVE  Inv'
<1>1. /\ pc = "scan" /\ Pending = {} /\ pc' = "select" /\ maxi' = Shrink(clifds, maxi)
      /\ UNCHANGED <<kernelVars, why, allset, rset, maxfd, clifds, fdnum, i, len>>
    BY DEF EndPass
<1>2. Used' = Used /\ OpenFds' = OpenFds /\ Ahead' = Ahead
    BY <1>1 DEF Used, OpenFds, Ahead, kernelVars
<1>3. maxi' \in -1 .. MAXFDSIZE - 1 /\ \A s \in Used : s <= maxi'
    BY <1>1, Shrunk DEF Inv, TableInv
<1>4. KernelTypeOK' /\ ServerTypeOK'
    BY <1>1, <1>3 DEF Inv, KernelTypeOK, ServerTypeOK, kernelVars
<1>5. WireInv'
    BY <1>1, IdleWires DEF kernelVars
<1>6. TableInv'
    BY <1>1, <1>2, <1>3 DEF Inv, TableInv
<1>7. Ahead = {}
    <2>1. \A u \in Used : u \in Int /\ u <= maxi /\ clifds[u] # -1
        BY Slotted DEF Inv, TableInv, Used
    <2>2. i \in Int /\ maxi \in Int
        BY DEF Inv, ServerTypeOK
    <2>3. \A u \in Ahead : u \in Pending
        BY <2>1, <2>2 DEF Ahead, Pending, FD_ISSET
    <2> QED
        BY <1>1, <2>3
<1>8. ScanInv'
    BY <1>1, <1>2, <1>7 DEF ScanInv
<1> QED
    BY <1>4, <1>5, <1>6, <1>8 DEF Inv

\* A served client is one ready slot less, and one less in fdnum.
LEMMA WriteKeeps ==
    ASSUME Inv, WriteStep
    PROVE  Inv'
<1> DEFINE c == owner[clifds[i]]
<1>1. /\ pc = "write" /\ WriteFits(c, len) /\ wire' = [wire EXCEPT ![c].out = @ + len]
      /\ fdnum' = fdnum - 1 /\ len' = 0 /\ i' = i + 1
      /\ \/ fdnum' <= 0 /\ pc' = "select" /\ maxi' = Shrink(clifds, maxi)
         \/ ~(fdnum' <= 0) /\ pc' = "scan" /\ maxi' = maxi
      /\ UNCHANGED <<backlog, owner, why, allset, rset, maxfd, clifds>>
    BY DEF WriteStep, KWrite, Count, Written
<1>2. i \in Ahead /\ i \in Used /\ i \in Slots /\ clifds[i] \in OpenFds
    BY <1>1 DEF Inv, ScanInv, Ahead, Used, TableInv
<1>3. c \in Conns
    BY <1>2, ConnAssumption DEF OpenFds, Inv, KernelTypeOK
<1> DEFINE w == wire[c]
<1>4. /\ w \in Wires /\ w.in \in Nat /\ w.out \in Nat /\ w.got \in Nat /\ w.sent \in Nat
      /\ Window \in Nat /\ len \in Nat /\ MAXLINE \in Nat
    BY <1>3, BoundAssumption, WindowAssumption DEF Inv, KernelTypeOK, Wires, ServerTypeOK
<1> DEFINE v == [w EXCEPT !.out = @ + len]
<1>5. v \in Wires /\ v.in = w.in /\ v.out = w.out + len /\ v.got = w.got /\ v.sent = w.sent
    <2>1. w.out + len \in 0 .. Window
        BY <1>1, <1>4 DEF WriteFits
    <2> QED
        BY <1>4, <2>1 DEF Wires
<1>6. wire' = [wire EXCEPT ![c] = v]
    BY <1>1
<1> HIDE DEF v, c
<1>7. KernelTypeOK'
    BY <1>1, <1>3, <1>5, <1>6 DEF Inv, KernelTypeOK
<1>8. WireInv'
    <2> SUFFICES ASSUME NEW d \in Conns
                 PROVE  (wire[d].in + Held(d) + wire[d].out + wire[d].got <= wire[d].sent)'
        BY DEF WireInv
    <2>1. wire[d].in + Held(d) + wire[d].out + wire[d].got <= wire[d].sent
        BY DEF Inv, WireInv
    <2>2. Held(d) = (IF d = c THEN len ELSE 0) /\ Held(d)' = 0
        BY <1>1 DEF Held, c
    <2>3. CASE d = c
        <3>1. wire'[d] = v
            BY <1>3, <1>6, <2>3 DEF Inv, KernelTypeOK
        <3> QED
            BY <1>4, <1>5, <2>1, <2>2, <2>3, <3>1
    <2>4. CASE d # c
        <3>1. wire'[d] = wire[d]
            BY <1>3, <1>6, <2>4 DEF Inv, KernelTypeOK
        <3> QED
            BY <2>1, <2>2, <2>4, <3>1
    <2> QED
        BY <2>3, <2>4
<1>9. maxi' \in -1 .. MAXFDSIZE - 1 /\ \A s \in Used : s <= maxi'
    <2>1. maxi \in -1 .. MAXFDSIZE - 1 /\ \A s \in Used : s <= maxi
        BY DEF Inv, ServerTypeOK, TableInv
    <2>2. CASE maxi' = maxi
        BY <2>1, <2>2
    <2>3. CASE maxi' = Shrink(clifds, maxi)
        BY <2>1, <2>3, Shrunk DEF Inv
    <2> QED
        BY <1>1, <2>2, <2>3
<1>10. Used' = Used /\ OpenFds' = OpenFds
    BY <1>1 DEF Used, OpenFds
<1>11. TableInv'
    BY <1>1, <1>9, <1>10 DEF Inv, TableInv
<1>12. Ahead' = Ahead \ {i}
    <2>1. \A u \in Used : u \in Int
        BY Slotted DEF Inv
    <2>2. i \in Int
        BY DEF Inv, ServerTypeOK
    <2>3. \A u \in Used : u >= i + 1 <=> u >= i /\ u # i
        BY <2>1, <2>2
    <2> QED
        BY <1>1, <1>10, <2>3 DEF Ahead
<1>13. /\ Cardinality(Ahead') <= fdnum' /\ fdnum' \in Nat
       /\ fdnum' <= 0 => Ahead' = {}
    <2>1. IsFiniteSet(Ahead) /\ Cardinality(Ahead) \in Nat /\ Cardinality(Ahead) <= fdnum /\ fdnum \in Int
        BY <1>1, Slotted, Finite, FS_CardinalityType DEF Inv, ScanInv, ServerTypeOK
    <2>2. IsFiniteSet(Ahead') /\ Cardinality(Ahead') = Cardinality(Ahead) - 1
        BY <1>2, <1>12, <2>1, FS_RemoveElement
    <2>3. Cardinality(Ahead') \in Nat /\ (Cardinality(Ahead') = 0 => Ahead' = {})
        BY <2>2, FS_CardinalityType, FS_EmptySet
    <2> QED
        BY <1>1, <2>1, <2>2, <2>3
<1>14. ScanInv'
    BY <1>1, <1>13 DEF ScanInv
<1>15. ServerTypeOK'
    <2>1. fdnum' \in 0 .. Cardinality(AllFds)
        <3>1. fdnum \in 0 .. Cardinality(AllFds) /\ Cardinality(AllFds) \in Nat
            BY Finite, FS_CardinalityType DEF Inv, ServerTypeOK
        <3> QED
            BY <1>1, <1>13, <3>1
    <2>2. i' \in 0 .. MAXFDSIZE /\ len' \in 0 .. MAXLINE
        BY <1>1, <1>2, <1>4, SlotAssumption DEF Slots
    <2> QED
        BY <1>1, <1>9, <2>1, <2>2 DEF Inv, ServerTypeOK
<1> QED
    BY <1>7, <1>8, <1>11, <1>14, <1>15 DEF Inv

------------------------------------------------------------------------------
\* The server starts with the listener alone.
LEMMA InitInv == Init => Inv
<1> SUFFICES ASSUME Init PROVE Inv
    OBVIOUS
<1>1. KernelTypeOK
    <2>1. /\ 0 \in 0 .. MaxBytes /\ 0 \in 0 .. Window
        BY BoundAssumption, WindowAssumption
    <2> QED
        BY <2>1 DEF Init, KernelInit, KernelTypeOK, Wires
<1>2. ServerTypeOK
    <2>1. Cardinality(AllFds) \in Nat
        BY Finite, FS_CardinalityType
    <2> QED
        BY <2>1, FdAssumption, SlotAssumption, WindowAssumption DEF Init, ServerTypeOK, AllFds
<1>3. WireInv
    BY DEF Init, KernelInit, WireInv, Held
<1>4. Used = {} /\ Ahead = {} /\ OpenFds = {}
    BY DEF Init, KernelInit, Used, Ahead, OpenFds
<1>5. TableInv /\ ScanInv
    BY <1>4 DEF Init, TableInv, ScanInv
<1> QED
    BY <1>1, <1>2, <1>3, <1>5 DEF Inv

\* Every call of the server and every act of a client keeps the invariant.
LEMMA NextInv == Inv /\ [Next]_vars => Inv'
<1> SUFFICES ASSUME Inv, [Next]_vars PROVE Inv'
    OBVIOUS
<1>1. CASE Select
    BY <1>1, SelectKeeps
<1>2. CASE AcceptFail
    BY <1>2, ExitKeeps DEF AcceptFail
<1>3. CASE Accept
    BY <1>3, AcceptKeeps
<1>4. CASE ReadStep
    BY <1>4, ExitKeeps, ReadEndKeeps, ReadDataKeeps DEF ReadStep, ReadFail
<1>5. CASE EndPass
    BY <1>5, EndPassKeeps
<1>6. CASE WriteFail
    BY <1>6, ExitKeeps DEF WriteFail
<1>7. CASE WriteStep
    BY <1>7, WriteKeeps
<1>8. CASE ClientStep /\ UNCHANGED serverVars
    BY <1>8, ClientsKeepInv
<1>9. CASE UNCHANGED vars
    BY <1>9 DEF vars, kernelVars, serverVars, Inv, KernelTypeOK, ServerTypeOK, WireInv, Held,
                TableInv, ScanInv, Ahead, Used, OpenFds
<1> QED
    BY <1>1, <1>2, <1>3, <1>4, <1>5, <1>6, <1>7, <1>8, <1>9 DEF Next, ServerStep

\* The inductive invariant of the select server.
LEMMA InvHolds == Spec => []Inv
    BY InitInv, NextInv, PTL DEF Spec

\* The slots, allset and maxfd agree with the open descriptors before every
\* system call, however clients come and go.
THEOREM TablesAlwaysAgree == Spec => []TablesAgree
<1>1. Inv => TablesAgree
    <2> SUFFICES ASSUME Inv PROVE TablesAgree
        OBVIOUS
    <2>1. TypeOK
        BY DEF Inv, TypeOK, ServerTypeOK
    <2>2. Watched = allset
        <3>1. SvrFd <= maxfd
            BY FdAssumption DEF Inv, ServerTypeOK
        <3> QED
            BY <3>1 DEF Watched, Inv, TableInv
    <2> QED
        BY <2>1, <2>2 DEF Inv, TableInv, TablesAgree
<1> QED
    BY <1>1, InvHolds, PTL

\* Counting fdnum down skips no client that select reported.
THEOREM NoneSkipped == Spec => []NoReadySkipped
<1>1. Inv => NoReadySkipped
    BY DEF Inv, ScanInv, NoReadySkipped
<1> QED
    BY <1>1, InvHolds, PTL

\* The process exits in accept, read or write only, for a cause outside it or for
\* a free slot that passed the test.
LEMMA CauseKept ==
    ASSUME Inv, ExitHasCause, [Next]_vars
    PROVE  ExitHasCause'
<1>1. CASE Select
    <2>1. Watched \ {SvrFd} \subseteq OpenFds
        BY DEF Inv, TableInv, Watched
    <2>2. pc' # "exit"
        BY <1>1, <2>1 DEF Select
    <2> QED
        BY <2>2 DEF ExitHasCause
<1>2. CASE AcceptFail
    BY <1>2 DEF AcceptFail, Exit, ExitHasCause, FreeFds, OpenFds, kernelVars
<1>3. CASE Accept
    BY <1>3 DEF Accept, ExitHasCause
<1>4. CASE ReadStep
    <2> DEFINE s == Min(Pending)
    <2>0. pc = "scan" /\ Pending # {} /\ (ReadFail(s) \/ ReadEnd(s) \/ ReadData(s))
        BY <1>4 DEF ReadStep
    <2>1. CASE ReadFail(s)
        <3>1. s \in Slots /\ s \in i .. maxi /\ FD_ISSET(s)
            <4>1. i \in Nat /\ maxi \in Int /\ maxi <= MAXFDSIZE - 1 /\ MAXFDSIZE \in Nat
                BY SlotAssumption DEF Inv, ServerTypeOK
            <4>2. Pending \in SUBSET Nat /\ \A u \in Pending : u \in Slots /\ u \in i .. maxi /\ FD_ISSET(u)
                BY <4>1 DEF Pending, Slots
            <4> QED
                BY <2>0, <4>2, LeastOf
        <3>2. pc' = "exit" /\ why' = "read" /\ UNCHANGED <<wire, rset, clifds, maxi, i>>
            BY <2>1 DEF ReadFail, Exit, kernelVars
        <3>3. CASE clifds[s] = -1
            <4>1. PICK u \in Slots : HoleRead(u)
                BY <3>1, <3>3 DEF FD_ISSET, HoleRead
            <4>2. HoleRead(u)'
                BY <3>2, <4>1 DEF HoleRead
            <4> QED
                BY <3>2, <4>2 DEF ExitHasCause, Slots
        <3>4. CASE clifds[s] # -1
            <4>1. clifds[s] \in OpenFds
                BY <3>1, <3>4 DEF Used, Inv, TableInv
            <4>2. Opened(s) /\ owner[clifds[s]] \in Conns
                BY <3>4, <4>1, ConnAssumption DEF Opened, OpenFds, Inv, KernelTypeOK
            <4>3. wire[owner[clifds[s]]].rst
                BY <2>1, <4>2 DEF ReadFail, ReadFails
            <4> QED
                BY <3>2, <4>2, <4>3 DEF ExitHasCause
        <3> QED
            BY <3>3, <3>4
    <2>2. CASE ReadEnd(s) \/ ReadData(s)
        <3>1. pc' # "exit"
            BY <2>0, <2>2 DEF ReadEnd, ReadData
        <3> QED
            BY <3>1 DEF ExitHasCause
    <2> QED
        BY <2>0, <2>1, <2>2
<1>5. CASE EndPass
    BY <1>5 DEF EndPass, ExitHasCause
<1>6. CASE WriteFail
    <2>1. i \in Used /\ clifds[i] \in OpenFds
        BY <1>6 DEF WriteFail, Inv, ScanInv, Ahead, TableInv
    <2>2. owner[clifds[i]] \in Conns
        BY <2>1, ConnAssumption DEF OpenFds, Inv, KernelTypeOK
    <2>3. wire[owner[clifds[i]]].rst /\ pc' = "exit" /\ why' = "write" /\ wire' = wire
        BY <1>6 DEF WriteFail, WriteFails, Exit, kernelVars
    <2> QED
        BY <2>2, <2>3 DEF ExitHasCause
<1>7. CASE WriteStep
    BY <1>7 DEF WriteStep, ExitHasCause
<1>8. CASE ClientStep /\ UNCHANGED serverVars
    <2> DEFINE h == [c \in Conns |-> Held(c)]
    <2>1. h \in [Conns -> Nat] /\ \A c \in Conns : h[c] = Held(c)
        BY HeldType DEF Inv
    <2>2. \A c \in Conns : wire[c].in + h[c] + wire[c].out + wire[c].got <= wire[c].sent
        BY <2>1 DEF Inv, WireInv
    <2> HIDE DEF h
    <2>3. owner' = owner /\ \A c \in Conns : wire[c].rst => wire'[c].rst
        BY <1>8, <2>1, <2>2, ClientKeeps DEF Inv
    <2> QED
        BY <1>8, <2>3 DEF ExitHasCause, HoleRead, serverVars, FreeFds, OpenFds
<1>9. CASE UNCHANGED vars
    BY <1>9 DEF vars, kernelVars, serverVars, ExitHasCause, HoleRead, FreeFds, OpenFds
<1> QED
    BY <1>1, <1>2, <1>3, <1>4, <1>5, <1>6, <1>7, <1>8, <1>9 DEF Next, ServerStep

\* Only a client's reset, a full descriptor table or a free slot that shares its
\* bit with a reported descriptor ends the server, whatever that bit is:
\* print_error is never reached by a select, nor by a read or write of a
\* descriptor the server has closed.
THEOREM ExitsHaveCauses == Spec => []ExitHasCause
<1>1. Init => ExitHasCause
    BY DEF Init, ExitHasCause
<1>2. Inv /\ ExitHasCause /\ [Next]_vars => ExitHasCause'
    BY CauseKept
<1> QED
    BY <1>1, <1>2, InvHolds, PTL DEF Spec

------------------------------------------------------------------------------
Queued == 1 .. Len(backlog)

\* A connection was made once: it waits at one place of the backlog, or one
\* descriptor refers to it, or the server is done with it.
ConnInv ==
    /\ \A k, l \in Queued : backlog[k] = backlog[l] => k = l
    /\ \A k \in Queued : wire[backlog[k]].made
    /\ \A f \in OpenFds : wire[owner[f]].made /\ \A k \in Queued : backlog[k] # owner[f]
    /\ \A f, g \in OpenFds : owner[f] = owner[g] => f = g

\* Where no connection is made, queued or given a descriptor, nothing changes.
LEMMA WireKeepsConn ==
    ASSUME KernelTypeOK, ConnInv, UNCHANGED <<backlog, owner>>,
           \A c \in Conns : wire[c].made => wire'[c].made
    PROVE  ConnInv'
<1>1. OpenFds' = OpenFds /\ Queued' = Queued
    BY DEF OpenFds, Queued
<1>2. \A f \in OpenFds : owner[f] \in Conns
    BY DEF KernelTypeOK, OpenFds
<1>3. \A k \in Queued : backlog[k] \in Conns
    BY ElementOfSeq DEF KernelTypeOK, Queued
<1> QED
    BY <1>1, <1>2, <1>3 DEF ConnInv

\* connect puts a connection into the backlog that was nowhere before.
LEMMA ConnectKeepsConn ==
    ASSUME KernelTypeOK, ConnInv, NEW c \in Conns, Connect(c)
    PROVE  ConnInv'
<1>1. wire \in [Conns -> Wires] /\ backlog \in Seq(Conns) /\ owner \in [Fds -> Conns \cup {NULL}]
    BY DEF KernelTypeOK
<1>2. ~wire[c].made /\ backlog' = Append(backlog, c) /\ owner' = owner
    BY DEF Connect
<1>3. wire'[c].made /\ \A d \in Conns : wire[d].made => wire'[d].made
    BY <1>1 DEF Connect, Wires
<1>4. /\ Len(backlog') = Len(backlog) + 1 /\ Len(backlog) \in Nat
      /\ \A k \in Queued : backlog'[k] = backlog[k]
      /\ backlog'[Len(backlog) + 1] = c
    BY <1>1, <1>2, AppendProperties, LenProperties DEF Queued
<1>5. Queued' = Queued \cup {Len(backlog) + 1}
    BY <1>4 DEF Queued
<1>6. \A k \in Queued : backlog[k] \in Conns /\ backlog[k] # c
    BY <1>1, <1>2, ElementOfSeq DEF Queued, ConnInv
<1>7. OpenFds' = OpenFds /\ \A f \in OpenFds : owner[f] \in Conns /\ owner[f] # c
    BY <1>1, <1>2 DEF OpenFds, ConnInv
<1>8. \A k, l \in Queued' : backlog'[k] = backlog'[l] => k = l
    BY <1>4, <1>5, <1>6 DEF ConnInv
<1>9. \A k \in Queued' : wire'[backlog'[k]].made
    BY <1>3, <1>4, <1>5, <1>6 DEF ConnInv
<1>10. \A f \in OpenFds : wire'[owner[f]].made /\ \A k \in Queued' : backlog'[k] # owner[f]
    BY <1>3, <1>4, <1>5, <1>7 DEF ConnInv
<1> QED
    BY <1>2, <1>7, <1>8, <1>9, <1>10 DEF ConnInv

\* Nothing else that a client does makes a connection.
LEMMA ClientKeepsConn ==
    ASSUME KernelTypeOK, ConnInv, ClientStep
    PROVE  ConnInv'
<1>1. PICK c \in Conns : Connect(c) \/ Send(c) \/ Receive(c) \/ Finish(c) \/ Reset(c)
    BY DEF ClientStep
<1>2. CASE Send(c) \/ Receive(c) \/ Finish(c) \/ Reset(c)
    <2>1. UNCHANGED <<backlog, owner>> /\ \A d \in Conns : wire[d].made => wire'[d].made
        BY <1>2 DEF Send, Receive, Finish, Reset, KernelTypeOK, Wires
    <2> QED
        BY <2>1, WireKeepsConn
<1> QED
    BY <1>1, <1>2, ConnectKeepsConn

\* accept moves the first of the backlog to a descriptor that was closed.
LEMMA AcceptKeepsConn ==
    ASSUME KernelTypeOK, ConnInv, KAccept, FreeFds # {}
    PROVE  /\ ConnInv' /\ OpenFds' = OpenFds \cup {NewFd} /\ NewFd \notin OpenFds
           /\ backlog # <<>> /\ backlog' = Tail(backlog) /\ owner'[NewFd] = Head(backlog)
           /\ \A f \in OpenFds : owner'[f] = owner[f]
<1>1. /\ backlog # <<>> /\ owner' = [owner EXCEPT ![NewFd] = Head(backlog)]
      /\ backlog' = Tail(backlog) /\ wire' = wire
    BY DEF KAccept
<1>2. NewFd \in Fds /\ NewFd \notin OpenFds
    BY Fresh
<1>3. /\ Head(backlog) \in Conns /\ Len(backlog') = Len(backlog) - 1
      /\ \A k \in 1 .. Len(backlog') : backlog'[k] = backlog[k + 1]
      /\ Len(backlog) \in Nat \ {0} /\ Head(backlog) = backlog[1]
    BY <1>1, HeadTailProperties, EmptySeq DEF KernelTypeOK
<1>4. \A k \in Queued' : k + 1 \in Queued /\ backlog'[k] = backlog[k + 1] /\ k \in Int
    BY <1>3 DEF Queued
<1>5. 1 \in Queued /\ \A k \in Queued' : k + 1 # 1
    BY <1>3 DEF Queued
<1>6. Head(backlog) # NULL
    BY <1>3, ConnAssumption
<1>7. /\ OpenFds' = OpenFds \cup {NewFd} /\ owner'[NewFd] = Head(backlog)
      /\ \A f \in OpenFds : owner'[f] = owner[f]
    BY <1>1, <1>2, <1>3, <1>6 DEF KernelTypeOK, OpenFds
<1>8. \A k, l \in Queued' : backlog'[k] = backlog'[l] => k = l
    <2> SUFFICES ASSUME NEW k \in Queued', NEW l \in Queued', backlog'[k] = backlog'[l] PROVE k = l
        OBVIOUS
    <2>1. k + 1 = l + 1
        BY <1>4 DEF ConnInv
    <2> QED
        BY <1>4, <2>1
<1>9. \A k \in Queued' : wire[backlog'[k]].made /\ backlog'[k] # Head(backlog)
    BY <1>3, <1>4, <1>5 DEF ConnInv
<1>10. \A f \in OpenFds' : wire'[owner'[f]].made /\ \A k \in Queued' : backlog'[k] # owner'[f]
    <2>1. wire[Head(backlog)].made /\ \A k \in Queued' : backlog'[k] # owner'[NewFd]
        BY <1>3, <1>5, <1>7, <1>9 DEF ConnInv
    <2>2. \A f \in OpenFds : wire[owner[f]].made /\ \A k \in Queued' : backlog'[k] # owner[f]
        BY <1>4 DEF ConnInv
    <2> QED
        BY <1>1, <1>7, <2>1, <2>2
<1>11. \A f, g \in OpenFds' : owner'[f] = owner'[g] => f = g
    BY <1>3, <1>5, <1>7 DEF ConnInv
<1> QED
    BY <1>1, <1>2, <1>7, <1>8, <1>9, <1>10, <1>11 DEF ConnInv

\* close leaves no descriptor for the connection, and every other alone.
LEMMA CloseKeepsConn ==
    ASSUME KernelTypeOK, ConnInv, NEW f \in OpenFds, KClose(f)
    PROVE  /\ ConnInv' /\ OpenConns' = OpenConns \ {owner[f]} /\ owner[f] \in OpenConns
           /\ wire' = wire /\ backlog' = backlog
<1>1. owner' = [owner EXCEPT ![f] = NULL] /\ backlog' = backlog /\ wire' = wire
    BY DEF KClose
<1>2. OpenFds' = OpenFds \ {f} /\ \A g \in OpenFds' : owner'[g] = owner[g]
    BY <1>1 DEF KernelTypeOK, OpenFds
<1>3. Queued' = Queued
    BY <1>1 DEF Queued
<1>4. ConnInv'
    BY <1>1, <1>2, <1>3 DEF ConnInv
<1>5. OpenConns' = OpenConns \ {owner[f]}
    BY <1>2 DEF OpenConns, ConnInv
<1> QED
    BY <1>1, <1>4, <1>5 DEF OpenConns

\* A connection stays in one place: in the backlog, with one descriptor, or done.
LEMMA NextConn == Inv /\ ConnInv /\ [Next]_vars => ConnInv'
<1> SUFFICES ASSUME Inv, ConnInv, [Next]_vars PROVE ConnInv'
    OBVIOUS
<1>1. ASSUME UNCHANGED <<backlog, owner>>, \A c \in Conns : wire[c].made => wire'[c].made
      PROVE  ConnInv'
    BY <1>1, WireKeepsConn DEF Inv
<1>2. ASSUME UNCHANGED kernelVars PROVE ConnInv'
    BY <1>1, <1>2 DEF kernelVars
<1>3. CASE Select \/ AcceptFail \/ EndPass \/ WriteFail
    BY <1>2, <1>3 DEF Select, AcceptFail, EndPass, WriteFail, Exit
<1>4. CASE Accept
    BY <1>4, AcceptKeepsConn DEF Accept, Inv
<1>5. CASE ReadStep
    <2> DEFINE s == Min(Pending)
    <2>0. ReadFail(s) \/ ReadEnd(s) \/ ReadData(s)
        BY <1>5 DEF ReadStep
    <2>1. CASE ReadFail(s)
        BY <1>2, <2>1 DEF ReadFail, Exit
    <2>2. CASE ReadEnd(s)
        <3>1. clifds[s] \in OpenFds /\ KClose(clifds[s])
            BY <1>5, <2>2, NextSlot DEF ReadEnd, ReadStep
        <3> QED
            BY <3>1, CloseKeepsConn DEF Inv
    <2>3. CASE ReadData(s)
        BY <1>1, <2>3 DEF ReadData, KRead, Inv, KernelTypeOK, Wires
    <2> QED
        BY <2>0, <2>1, <2>2, <2>3
<1>6. CASE WriteStep
    BY <1>1, <1>6 DEF WriteStep, KWrite, Inv, KernelTypeOK, Wires
<1>7. CASE ClientStep
    BY <1>7, ClientKeepsConn DEF Inv
<1>8. CASE UNCHANGED vars
    BY <1>2, <1>8 DEF vars
<1> QED
    BY <1>3, <1>4, <1>5, <1>6, <1>7, <1>8 DEF Next, ServerStep

\* The connections' places, of every reachable state.
LEMMA ConnHolds == Spec => []ConnInv
<1>1. Init => ConnInv
    BY EmptySeq DEF Init, KernelInit, ConnInv, OpenFds, Queued
<1> QED
    BY <1>1, InvHolds, NextConn, PTL DEF Spec

------------------------------------------------------------------------------
\* The counts the kernel keeps for a connection.
LEMMA WireType ==
    ASSUME NEW w \in Wires
    PROVE  /\ w.sent \in Nat /\ w.in \in Nat /\ w.out \in Nat /\ w.got \in Nat
           /\ w.sent <= MaxBytes /\ w.in <= MaxBytes /\ w.got <= MaxBytes /\ w.out <= Window
           /\ MaxBytes \in Nat /\ Window \in Nat /\ MAXLINE \in Nat /\ MAXLINE > 0
    BY BoundAssumption, WindowAssumption DEF Wires

\* An open descriptor refers to a connection.
LEMMA OwnerType ==
    ASSUME KernelTypeOK, NEW f \in OpenFds
    PROVE  f \in Fds /\ owner[f] \in Conns /\ f # SvrFd /\ f # -1
    BY Finite DEF KernelTypeOK, OpenFds

\* Only the connection c is touched, and it stays made.
LEMMA OneWire ==
    ASSUME KernelTypeOK, ConnInv, NEW c \in Conns, NEW v \in Wires,
           wire' = [wire EXCEPT ![c] = v], UNCHANGED <<backlog, owner>>, wire[c].made => v.made
    PROVE  /\ KernelTypeOK' /\ ConnInv' /\ OpenFds' = OpenFds
           /\ wire'[c] = v /\ \A d \in Conns : d # c => wire'[d] = wire[d]
<1>1. wire \in [Conns -> Wires] /\ backlog \in Seq(Conns) /\ owner \in [Fds -> Conns \cup {NULL}]
    BY DEF KernelTypeOK
<1>2. wire' \in [Conns -> Wires] /\ wire'[c] = v /\ \A d \in Conns : d # c => wire'[d] = wire[d]
    BY <1>1
<1>3. OpenFds' = OpenFds /\ Queued' = Queued
    BY DEF OpenFds, Queued
<1>4. \A f \in OpenFds : owner[f] \in Conns
    BY <1>1 DEF OpenFds
<1>5. \A k \in Queued : backlog[k] \in Conns
    BY <1>1, ElementOfSeq DEF Queued
<1>6. \A d \in Conns : wire[d].made => wire'[d].made
    BY <1>2
<1>7. ConnInv'
    BY <1>3, <1>4, <1>5, <1>6 DEF ConnInv
<1> QED
    BY <1>1, <1>2, <1>3, <1>7 DEF KernelTypeOK

\* read takes at most a buffer of what waits on one connection.
LEMMA KReadKeeps ==
    ASSUME KernelTypeOK, ConnInv, NEW c \in Conns, wire[c].in > 0, KRead(c)
    PROVE  /\ KernelTypeOK' /\ ConnInv' /\ owner' = owner /\ OpenFds' = OpenFds
           /\ ReadLen(c) \in 1 .. MAXLINE
           /\ \A d \in Conns : d # c => wire'[d] = wire[d]
           /\ wire'[c].in = wire[c].in - ReadLen(c) /\ wire'[c].out = wire[c].out
           /\ wire'[c].got = wire[c].got /\ wire'[c].sent = wire[c].sent /\ wire'[c].rst = wire[c].rst
<1> DEFINE w == wire[c]
<1>1. w \in Wires
    BY DEF KernelTypeOK
<1>2. w.in \in Nat /\ w.in <= MaxBytes /\ MaxBytes \in Nat /\ MAXLINE \in Nat /\ MAXLINE > 0
    BY <1>1, WireType
<1>3. ReadLen(c) = IF w.in <= MAXLINE THEN w.in ELSE MAXLINE
    <2>1. w.in \in Int /\ MAXLINE \in Int
        BY <1>2
    <2> QED
        BY <2>1, Smaller DEF ReadLen
<1>4. ReadLen(c) \in 1 .. MAXLINE /\ w.in - ReadLen(c) \in 0 .. MaxBytes
    BY <1>2, <1>3
<1> DEFINE v == [w EXCEPT !.in = @ - ReadLen(c)]
<1>5. /\ v \in Wires /\ v.in = w.in - ReadLen(c) /\ v.out = w.out /\ v.got = w.got
      /\ v.sent = w.sent /\ v.rst = w.rst /\ v.made = w.made
    BY <1>1, <1>4 DEF Wires
<1>6. wire' = [wire EXCEPT ![c] = v] /\ UNCHANGED <<backlog, owner>>
    BY DEF KRead
<1> HIDE DEF v
<1>7. KernelTypeOK' /\ ConnInv' /\ OpenFds' = OpenFds
      /\ wire'[c] = v /\ \A d \in Conns : d # c => wire'[d] = wire[d]
    BY <1>5, <1>6, OneWire
<1> QED
    BY <1>4, <1>5, <1>6, <1>7

\* write adds to what waits for the client, within the window.
LEMMA KWriteKeeps ==
    ASSUME KernelTypeOK, ConnInv, NEW c \in Conns, NEW n \in Nat, WriteFits(c, n), KWrite(c, n)
    PROVE  /\ KernelTypeOK' /\ ConnInv' /\ owner' = owner /\ OpenFds' = OpenFds
           /\ \A d \in Conns : d # c => wire'[d] = wire[d]
           /\ wire'[c].in = wire[c].in /\ wire'[c].out = wire[c].out + n
           /\ wire'[c].got = wire[c].got /\ wire'[c].sent = wire[c].sent
           /\ wire'[c].rst = wire[c].rst /\ wire'[c].fin = wire[c].fin
<1> DEFINE w == wire[c]
<1>1. w \in Wires
    BY DEF KernelTypeOK
<1>2. w.out + n \in 0 .. Window
    BY <1>1, WireType DEF WriteFits
<1> DEFINE v == [w EXCEPT !.out = @ + n]
<1>3. /\ v \in Wires /\ v.in = w.in /\ v.out = w.out + n /\ v.got = w.got
      /\ v.sent = w.sent /\ v.rst = w.rst /\ v.fin = w.fin /\ v.made = w.made
    BY <1>1, <1>2 DEF Wires
<1>4. wire' = [wire EXCEPT ![c] = v] /\ UNCHANGED <<backlog, owner>>
    BY DEF KWrite
<1> HIDE DEF v
<1>5. KernelTypeOK' /\ ConnInv' /\ OpenFds' = OpenFds
      /\ wire'[c] = v /\ \A d \in Conns : d # c => wire'[d] = wire[d]
    BY <1>3, <1>4, OneWire
<1> QED
    BY <1>3, <1>4, <1>5

------------------------------------------------------------------------------
\* The bytes of c that the kernel has in neither direction.
Missing(c) == wire[c].sent - (wire[c].in + wire[c].out + wire[c].got)

\* What EchoService is about: while the process runs it holds the bytes that are
\* missing, and a write has bytes to write.
Account ==
    /\ pc # "exit" => \A c \in Conns : Missing(c) = Held(c)
    /\ pc = "write" => len > 0

\* The lines change where the one connection changes.
LEMMA LineAt ==
    ASSUME NEW c \in Conns, \A d \in Conns : d # c => wire'[d] = wire[d], NEW r,
           r = [made |-> wire'[c].made, sent |-> wire'[c].sent,
                back |-> wire'[c].out + wire'[c].got,
                fin |-> wire'[c].fin, rst |-> wire'[c].rst]
    PROVE  Lines' = [Lines EXCEPT ![c] = r]
    BY DEF Lines

\* What a client does is what EchoService lets it do, or reading its echo.
LEMMA ClientServed ==
    ASSUME KernelTypeOK, ClientStep
    PROVE  /\ \/ \E c \in Conns : Service!Connect(c) \/ Service!Use(c)
              \/ UNCHANGED <<backlog, Lines>>
           /\ \A c \in Conns : Missing(c)' = Missing(c)
<1>1. PICK c \in Conns : Connect(c) \/ Send(c) \/ Receive(c) \/ Finish(c) \/ Reset(c)
    BY DEF ClientStep
<1> DEFINE w == wire[c]
<1> DEFINE ln == [made |-> w.made, sent |-> w.sent, back |-> w.out + w.got,
                  fin |-> w.fin, rst |-> w.rst]
<1>2. wire \in [Conns -> Wires] /\ w \in Wires
    BY DEF KernelTypeOK
<1>3. w.sent \in Nat /\ w.in \in Nat /\ w.out \in Nat /\ w.got \in Nat
    BY <1>2, WireType
<1>4. Lines[c] = ln
    BY DEF Lines
<1>5. ASSUME NEW t
      PROVE  [made |-> [w EXCEPT !.made = t].made, sent |-> [w EXCEPT !.made = t].sent,
              back |-> [w EXCEPT !.made = t].out + [w EXCEPT !.made = t].got,
              fin |-> [w EXCEPT !.made = t].fin, rst |-> [w EXCEPT !.made = t].rst] = [ln EXCEPT !.made = t]
    BY <1>2 DEF Wires
<1>6. ASSUME NEW t
      PROVE  [made |-> [w EXCEPT !.fin = t].made, sent |-> [w EXCEPT !.fin = t].sent,
              back |-> [w EXCEPT !.fin = t].out + [w EXCEPT !.fin = t].got,
              fin |-> [w EXCEPT !.fin = t].fin, rst |-> [w EXCEPT !.fin = t].rst] = [ln EXCEPT !.fin = t]
    BY <1>2 DEF Wires
<1>7. ASSUME NEW t
      PROVE  [made |-> [w EXCEPT !.rst = t].made, sent |-> [w EXCEPT !.rst = t].sent,
              back |-> [w EXCEPT !.rst = t].out + [w EXCEPT !.rst = t].got,
              fin |-> [w EXCEPT !.rst = t].fin, rst |-> [w EXCEPT !.rst = t].rst] = [ln EXCEPT !.rst = t]
    BY <1>2 DEF Wires
<1>8. ASSUME NEW v \in {[w EXCEPT !.made = TRUE], [w EXCEPT !.fin = TRUE], [w EXCEPT !.rst = TRUE],
                        [w EXCEPT !.sent = @ + 1, !.in = @ + 1],
                        [w EXCEPT !.got = @ + w.out, !.out = 0]},
             wire' = [wire EXCEPT ![c] = v]
      PROVE  /\ \A d \in Conns : Missing(d)' = Missing(d)
             /\ Lines' = [Lines EXCEPT ![c] = [made |-> v.made, sent |-> v.sent,
                              back |-> v.out + v.got, fin |-> v.fin, rst |-> v.rst]]
    <2>1. \A d \in Conns : wire'[d] = IF d = c THEN v ELSE wire[d]
        BY <1>2, <1>8
    <2>2. \/ v.in = w.in /\ v.sent = w.sent /\ v.out = w.out /\ v.got = w.got
          \/ v.in = w.in + 1 /\ v.sent = w.sent + 1 /\ v.out = w.out /\ v.got = w.got
          \/ v.in = w.in /\ v.sent = w.sent /\ v.out = 0 /\ v.got = w.got + w.out
        BY <1>2, <1>8 DEF Wires
    <2>3. v.sent - (v.in + v.out + v.got) = w.sent - (w.in + w.out + w.got)
        BY <1>3, <2>2
    <2> QED
        BY <2>1, <2>3, LineAt DEF Missing
<1>9. CASE Connect(c)
    <2> DEFINE v == [w EXCEPT !.made = TRUE]
    <2>1. wire' = [wire EXCEPT ![c] = v] /\ ~w.made /\ backlog' = Append(backlog, c)
        BY <1>9, <1>2 DEF Connect
    <2>2. [made |-> v.made, sent |-> v.sent, back |-> v.out + v.got, fin |-> v.fin, rst |-> v.rst]
             = [ln EXCEPT !.made = TRUE]
        BY <1>5, Zenon
    <2>3. (\A d \in Conns : Missing(d)' = Missing(d)) /\ Lines' = [Lines EXCEPT ![c] = [ln EXCEPT !.made = TRUE]]
        BY <1>8, <2>1, <2>2
    <2>4. Service!Connect(c)
        BY <1>4, <2>1, <2>3 DEF Service!Connect
    <2> QED
        BY <2>3, <2>4
<1>10. CASE Send(c)
    <2> DEFINE v == [w EXCEPT !.sent = @ + 1, !.in = @ + 1]
    <2>1. wire' = [wire EXCEPT ![c] = v] /\ w.made /\ ~w.rst /\ ~w.fin /\ backlog' = backlog
        BY <1>10, <1>2 DEF Send, Usable
    <2>2. [made |-> v.made, sent |-> v.sent, back |-> v.out + v.got, fin |-> v.fin, rst |-> v.rst]
             = [ln EXCEPT !.sent = @ + 1]
        BY <1>2 DEF Wires
    <2>3. (\A d \in Conns : Missing(d)' = Missing(d)) /\ Lines' = [Lines EXCEPT ![c] = [ln EXCEPT !.sent = @ + 1]]
        BY <1>8, <2>1, <2>2
    <2>4. Service!Use(c)
        BY <1>4, <2>1, <2>3 DEF Service!Use
    <2> QED
        BY <2>3, <2>4
<1>11. CASE Receive(c)
    <2> DEFINE v == [w EXCEPT !.got = @ + w.out, !.out = 0]
    <2>1. wire' = [wire EXCEPT ![c] = v] /\ backlog' = backlog
        BY <1>11, <1>2 DEF Receive
    <2>2. [made |-> v.made, sent |-> v.sent, back |-> v.out + v.got, fin |-> v.fin, rst |-> v.rst] = ln
        BY <1>2, <1>3 DEF Wires
    <2>3. (\A d \in Conns : Missing(d)' = Missing(d)) /\ Lines' = [Lines EXCEPT ![c] = ln]
        BY <1>8, <2>1, <2>2
    <2>4. Lines' = Lines
        BY <1>4, <2>3 DEF Lines
    <2> QED
        BY <2>1, <2>3, <2>4
<1>12. CASE Finish(c)
    <2> DEFINE v == [w EXCEPT !.fin = TRUE]
    <2>1. wire' = [wire EXCEPT ![c] = v] /\ w.made /\ ~w.rst /\ ~w.fin /\ backlog' = backlog
        BY <1>12, <1>2 DEF Finish, Usable
    <2>2. [made |-> v.made, sent |-> v.sent, back |-> v.out + v.got, fin |-> v.fin, rst |-> v.rst]
             = [ln EXCEPT !.fin = TRUE]
        BY <1>6, Zenon
    <2>3. (\A d \in Conns : Missing(d)' = Missing(d)) /\ Lines' = [Lines EXCEPT ![c] = [ln EXCEPT !.fin = TRUE]]
        BY <1>8, <2>1, <2>2
    <2>4. Service!Use(c)
        BY <1>4, <2>1, <2>3 DEF Service!Use
    <2> QED
        BY <2>3, <2>4
<1>13. CASE Reset(c)
    <2> DEFINE v == [w EXCEPT !.rst = TRUE]
    <2>1. wire' = [wire EXCEPT ![c] = v] /\ w.made /\ ~w.rst /\ backlog' = backlog
        BY <1>13, <1>2 DEF Reset, Usable
    <2>2. [made |-> v.made, sent |-> v.sent, back |-> v.out + v.got, fin |-> v.fin, rst |-> v.rst]
             = [ln EXCEPT !.rst = TRUE]
        BY <1>7, Zenon
    <2>3. (\A d \in Conns : Missing(d)' = Missing(d)) /\ Lines' = [Lines EXCEPT ![c] = [ln EXCEPT !.rst = TRUE]]
        BY <1>8, <2>1, <2>2
    <2>4. Service!Use(c)
        BY <1>4, <2>1, <2>3 DEF Service!Use
    <2> QED
        BY <2>3, <2>4
<1> QED
    BY <1>1, <1>9, <1>10, <1>11, <1>12, <1>13

\* Between a write and the next read the server has nothing in hand.
LEMMA NothingInHand ==
    ASSUME pc # "write"
    PROVE  InHand = Service!Nothing
    BY DEF InHand, Service!Nothing

\* The account stays where no byte moves.
LEMMA IdleAccount ==
    ASSUME Account, pc \notin {"write", "exit"}, pc' # "write", wire' = wire
    PROVE  Account'
<1>1. \A c : Held(c) = 0 /\ Held(c)' = 0
    BY DEF Held
<1> QED
    BY <1>1 DEF Account, Missing

\* select and the end of the loop are no steps of EchoService.
LEMMA QuietServed ==
    ASSUME Account, pc \notin {"write", "exit"}, pc' \notin {"write", "exit"}, UNCHANGED kernelVars
    PROVE  Account' /\ UNCHANGED Service!vars
<1>1. InHand = Service!Nothing /\ InHand' = Service!Nothing
    BY DEF InHand, Service!Nothing
<1>2. Lines' = Lines /\ OpenConns' = OpenConns
    BY DEF Lines, OpenConns, OpenFds, kernelVars
<1>3. (pc # "exit")' = (pc # "exit")
    OBVIOUS
<1> QED
    BY <1>1, <1>2, <1>3, IdleAccount DEF Service!vars, kernelVars

\* print_error stops the service, with bytes in hand only after a reset.
LEMMA ExitServed ==
    ASSUME NEW call, Exit(call), pc # "exit",
           pc = "write" => owner[clifds[i]] \in Conns /\ wire[owner[clifds[i]]].rst
    PROVE  Account' /\ Service!Stop
<1>1. pc' = "exit" /\ UNCHANGED kernelVars
    BY DEF Exit
<1>2. Lines' = Lines /\ OpenConns' = OpenConns /\ InHand' = Service!Nothing
    BY <1>1 DEF Lines, OpenConns, OpenFds, kernelVars, InHand, Service!Nothing
<1>3. InHand = Service!Nothing \/ Lines[InHand.conn].rst
    BY NothingInHand DEF InHand, Lines
<1> QED
    BY <1>1, <1>2, <1>3 DEF Account, Service!Stop, kernelVars

\* accept admits the connection that waited longest.
LEMMA AcceptServed ==
    ASSUME Inv, ConnInv, Account, Accept
    PROVE  Account' /\ Service!Admit /\ pc' # "exit"
<1>1. pc = "accept" /\ FreeFds # {} /\ KAccept /\ pc' \in {"select", "scan"}
    BY DEF Accept
<1>2. /\ OpenFds' = OpenFds \cup {NewFd} /\ NewFd \notin OpenFds
      /\ backlog # <<>> /\ backlog' = Tail(backlog) /\ owner'[NewFd] = Head(backlog)
      /\ \A f \in OpenFds : owner'[f] = owner[f]
    BY <1>1, AcceptKeepsConn DEF Inv
<1>3. wire' = wire
    BY <1>1 DEF KAccept
<1>4. OpenConns' = OpenConns \cup {Head(backlog)}
    BY <1>2 DEF OpenConns
<1>5. Lines' = Lines /\ InHand = Service!Nothing /\ InHand' = Service!Nothing
    BY <1>1, <1>3 DEF Lines, InHand, Service!Nothing
<1> QED
    BY <1>1, <1>2, <1>3, <1>4, <1>5, IdleAccount DEF Service!Admit

\* close drops a connection that has finished and has all its bytes back: no
\* other descriptor refers to it.
LEMMA ReadEndServed ==
    ASSUME Inv, ConnInv, Account, pc = "scan", NEW s, clifds[s] \in OpenFds, ReadEnd(s)
    PROVE  Account' /\ Service!Drop /\ pc' # "exit"
<1> DEFINE c == owner[clifds[s]]
<1>1. clifds[s] \in OpenFds /\ ReadEof(c) /\ KClose(clifds[s]) /\ pc' = pc
    BY DEF ReadEnd
<1>2. /\ OpenConns' = OpenConns \ {c} /\ c \in OpenConns
      /\ wire' = wire /\ backlog' = backlog
    BY <1>1, CloseKeepsConn DEF Inv
<1>5. c \in Conns /\ wire[c] \in Wires
    BY <1>1, OwnerType DEF Inv, KernelTypeOK
<1> HIDE DEF c
<1>6. wire[c].sent = wire[c].out + wire[c].got /\ wire[c].fin /\ ~wire[c].rst
    <2>1. wire[c].sent - (wire[c].in + wire[c].out + wire[c].got) = 0
        BY <1>5 DEF Account, Held, Missing
    <2>2. wire[c].in = 0 /\ wire[c].fin /\ ~wire[c].rst
        BY <1>1 DEF ReadEof, c
    <2> QED
        BY <1>5, <2>1, <2>2, WireType
<1>7. Lines[c].fin /\ ~Lines[c].rst /\ Lines[c].back = Lines[c].sent
    BY <1>5, <1>6 DEF Lines
<1>8. Lines' = Lines /\ InHand = Service!Nothing /\ InHand' = Service!Nothing
    BY <1>1, <1>2 DEF Lines, InHand, Service!Nothing
<1>9. (pc # "exit")' = (pc # "exit")
    BY <1>1
<1>10. Service!Drop
    BY <1>2, <1>7, <1>8, <1>9 DEF Service!Drop
<1> QED
    BY <1>1, <1>2, <1>10, IdleAccount

\* read takes bytes of one connection that are not back with it.
LEMMA ReadDataServed ==
    ASSUME Inv, ConnInv, Account, pc = "scan", NEW s, clifds[s] \in OpenFds, ReadData(s)
    PROVE  Account' /\ Service!Take /\ pc' # "exit"
<1> DEFINE c == owner[clifds[s]]
<1>1. /\ clifds[s] \in OpenFds /\ wire[c].in > 0 /\ len' = ReadLen(c) /\ KRead(c)
      /\ i' = s /\ pc' = "write" /\ clifds' = clifds
    BY DEF ReadData
<1>2. c \in Conns /\ c \in OpenConns /\ wire[c] \in Wires
    BY <1>1, OwnerType DEF Inv, KernelTypeOK, OpenConns
<1>3. /\ owner' = owner /\ OpenFds' = OpenFds /\ ReadLen(c) \in 1 .. MAXLINE
      /\ \A d \in Conns : d # c => wire'[d] = wire[d]
      /\ wire'[c].in = wire[c].in - ReadLen(c) /\ wire'[c].out = wire[c].out
      /\ wire'[c].got = wire[c].got /\ wire'[c].sent = wire[c].sent
    BY <1>1, <1>2, KReadKeeps DEF Inv
<1>4. InHand = Service!Nothing /\ InHand' = [conn |-> c, n |-> ReadLen(c)]
    BY <1>1, <1>3 DEF InHand, Service!Nothing
<1>5. backlog' = backlog /\ OpenConns' = OpenConns /\ Lines' = Lines
    <2>1. wire' = [wire EXCEPT ![c].in = @ - ReadLen(c)] /\ backlog' = backlog
        BY <1>1 DEF KRead
    <2>2. \A d \in Conns : /\ wire'[d].made = wire[d].made /\ wire'[d].sent = wire[d].sent
                           /\ wire'[d].out = wire[d].out /\ wire'[d].got = wire[d].got
                           /\ wire'[d].fin = wire[d].fin /\ wire'[d].rst = wire[d].rst
        BY <1>2, <2>1 DEF Inv, KernelTypeOK, Wires
    <2> QED
        BY <1>3, <2>1, <2>2 DEF Lines, OpenConns
<1>6. \A d \in Conns : Held(d) = 0 /\ Held(d)' = IF d = c THEN ReadLen(c) ELSE 0
    BY <1>1, <1>3 DEF Held
<1> HIDE DEF c
<1>7. ReadLen(c) \in Int /\ ReadLen(c) > 0
    BY <1>3, WindowAssumption
<1>8. ASSUME NEW d \in Conns
      PROVE  Missing(d)' = Held(d)'
    <2>1. Missing(d) = 0
        BY <1>6 DEF Account
    <2>2. CASE d = c
        BY <1>2, <1>3, <1>6, <1>7, <2>1, <2>2, WireType DEF Missing
    <2>3. CASE d # c
        BY <1>3, <1>6, <2>1, <2>3 DEF Missing
    <2> QED
        BY <2>2, <2>3
<1>9. ReadLen(c) <= Lines[c].sent - Lines[c].back
    <2>1. wire'[c].in \in Nat
        BY <1>1, <1>2, KReadKeeps, WireType DEF Inv, KernelTypeOK
    <2>2. wire[c].sent - (wire[c].in + wire[c].out + wire[c].got) = 0
        BY <1>2, <1>6 DEF Account, Missing
    <2>3. ReadLen(c) <= wire[c].sent - (wire[c].out + wire[c].got)
        BY <1>2, <1>3, <1>7, <2>1, <2>2, WireType
    <2> QED
        BY <1>2, <2>3 DEF Lines
<1>10. (pc # "exit")' = (pc # "exit")
    BY <1>1
<1>11. Service!Take
    BY <1>2, <1>3, <1>4, <1>5, <1>9, <1>10 DEF Service!Take
<1>12. Account'
    BY <1>1, <1>7, <1>8 DEF Account
<1> QED
    BY <1>1, <1>11, <1>12

\* write gives the connection all that is in hand.
LEMMA WriteServed ==
    ASSUME Inv, ConnInv, Account, WriteStep
    PROVE  Account' /\ Service!Give /\ pc' # "exit"
<1> DEFINE c == owner[clifds[i]]
<1>1. /\ pc = "write" /\ ~wire[c].rst /\ WriteFits(c, len) /\ KWrite(c, len) /\ pc' \in {"select", "scan"}
    BY DEF WriteStep, WriteFails, Written
<1>2. clifds[i] \in OpenFds
    BY <1>1 DEF Inv, ScanInv, Ahead, Used, TableInv
<1>3. c \in Conns /\ c \in OpenConns /\ wire[c] \in Wires /\ len \in Nat /\ len > 0
    BY <1>1, <1>2, OwnerType, WindowAssumption DEF Inv, KernelTypeOK, ServerTypeOK, OpenConns, Account
<1>4. /\ owner' = owner /\ OpenFds' = OpenFds
      /\ \A d \in Conns : d # c => wire'[d] = wire[d]
      /\ wire'[c].in = wire[c].in /\ wire'[c].out = wire[c].out + len
      /\ wire'[c].got = wire[c].got /\ wire'[c].sent = wire[c].sent
      /\ wire'[c].rst = wire[c].rst /\ wire'[c].fin = wire[c].fin
    BY <1>1, <1>3, KWriteKeeps DEF Inv
<1>5. InHand = [conn |-> c, n |-> len] /\ InHand # Service!Nothing /\ InHand' = Service!Nothing
    <2>1. InHand = [conn |-> c, n |-> len] /\ InHand' = Service!Nothing
        BY <1>1 DEF InHand, Service!Nothing
    <2> QED
        BY <1>3, <2>1 DEF Service!Nothing
<1>6. wire'[c].made = wire[c].made /\ backlog' = backlog
    BY <1>1, <1>3 DEF KWrite, Inv, KernelTypeOK, Wires
<1>7. \A d \in Conns : Held(d) = (IF d = c THEN len ELSE 0) /\ Held(d)' = 0
    BY <1>1 DEF Held
<1> HIDE DEF c
<1>8. ASSUME NEW d \in Conns
      PROVE  Missing(d)' = Held(d)'
    <2>1. Missing(d) = Held(d)
        BY <1>1 DEF Account
    <2>2. CASE d = c
        BY <1>3, <1>4, <1>7, <2>1, <2>2, WireType DEF Missing
    <2>3. CASE d # c
        BY <1>4, <1>7, <2>1, <2>3 DEF Missing
    <2> QED
        BY <2>2, <2>3
<1>9. Lines[c] = [made |-> wire[c].made, sent |-> wire[c].sent, back |-> wire[c].out + wire[c].got,
                  fin |-> wire[c].fin, rst |-> wire[c].rst]
    BY <1>3 DEF Lines
<1>10. Lines' = [Lines EXCEPT ![c] = [Lines[c] EXCEPT !.back = @ + len]]
    <2>1. wire'[c].out + wire'[c].got = wire[c].out + wire[c].got + len
        BY <1>3, <1>4, WireType
    <2>2. [Lines[c] EXCEPT !.back = @ + len]
            = [made |-> wire'[c].made, sent |-> wire'[c].sent, back |-> wire'[c].out + wire'[c].got,
               fin |-> wire'[c].fin, rst |-> wire'[c].rst]
        BY <1>4, <1>6, <1>9, <2>1
    <2> QED
        BY <1>3, <1>4, <2>2, LineAt
<1>11. OpenConns' = OpenConns
    BY <1>4 DEF OpenConns
<1>12. Service!Give
    <2>1. /\ InHand.conn = c /\ InHand.n = len /\ len \in 1 .. len /\ ~Lines[c].rst
        BY <1>1, <1>3, <1>5, <1>9 DEF c
    <2>2. Lines' = [Lines EXCEPT ![c].back = @ + len]
        BY <1>10
    <2>3. (pc # "exit")' = (pc # "exit")
        BY <1>1
    <2> QED
        BY <1>3, <1>5, <1>6, <1>11, <2>1, <2>2, <2>3 DEF Service!Give
<1>13. Account'
    BY <1>1, <1>8 DEF Account
<1> QED
    BY <1>1, <1>12, <1>13

\* The clients do what EchoService lets them do, whatever the server does.
LEMMA ClientsServed ==
    ASSUME Inv, Account, ClientStep, UNCHANGED serverVars
    PROVE  Account' /\ (Service!ClientStep \/ UNCHANGED Service!vars)
<1>1. owner' = owner
    BY DEF ClientStep, Connect, Send, Receive, Finish, Reset
<1>2. pc' = pc /\ clifds' = clifds /\ i' = i /\ len' = len
    BY DEF serverVars
<1>3. InHand' = InHand /\ OpenConns' = OpenConns /\ (pc # "exit")' = (pc # "exit")
    BY <1>1, <1>2 DEF InHand, OpenConns, OpenFds
<1>4. /\ \/ \E c \in Conns : Service!Connect(c) \/ Service!Use(c)
         \/ UNCHANGED <<backlog, Lines>>
      /\ \A c \in Conns : Missing(c)' = Missing(c)
    BY ClientServed DEF Inv
<1>5. \A c \in Conns : Held(c)' = Held(c)
    BY <1>1, <1>2 DEF Held
<1>6. Account'
    BY <1>2, <1>4, <1>5 DEF Account
<1> QED
    BY <1>3, <1>4, <1>6 DEF Service!ClientStep, Service!vars

\* The idle server with no connections is one EchoService starts with.
LEMMA InitServed == Init => Account /\ Service!Init
<1> SUFFICES ASSUME Init PROVE Account /\ Service!Init
    OBVIOUS
<1>1. Account
    BY DEF Init, KernelInit, Account, Held, Missing
<1>2. Lines = [c \in Conns |-> [made |-> FALSE, sent |-> 0, back |-> 0, fin |-> FALSE, rst |-> FALSE]]
    BY DEF Init, KernelInit, Lines
<1>3. OpenConns = {} /\ backlog = <<>> /\ pc # "exit"
    BY DEF Init, KernelInit, OpenConns, OpenFds
<1>4. InHand = Service!Nothing
    BY NothingInHand DEF Init
<1>5. (pc # "exit") = TRUE
    BY <1>3
<1> QED
    BY <1>1, <1>2, <1>3, <1>4, <1>5 DEF Service!Init

\* Every step is one of EchoService or changes nothing that it speaks of.
LEMMA NextServed ==
    ASSUME Inv, ConnInv, Account, [Next]_vars
    PROVE  Account' /\ [Service!Next]_(Service!vars)
<1>1. ASSUME Service!Admit \/ Service!Take \/ Service!Give \/ Service!Drop,
             pc # "exit", pc' # "exit"
      PROVE  Service!Next
    <2>1. (pc # "exit")' = (pc # "exit")
        BY <1>1
    <2> QED
        BY <1>1, <2>1 DEF Service!Next, Service!ServerStep
<1>2. CASE EndPass
    <2>1. pc \notin {"write", "exit"} /\ pc' \notin {"write", "exit"} /\ UNCHANGED kernelVars
        BY <1>2 DEF EndPass
    <2> QED
        BY <2>1, QuietServed
<1>3. ASSUME NEW call, Exit(call), pc # "exit",
             pc = "write" => owner[clifds[i]] \in Conns /\ wire[owner[clifds[i]]].rst
      PROVE  Account' /\ Service!Next
    BY <1>3, ExitServed DEF Service!Next, Service!ServerStep
<1>4. CASE Select
    <2>1. CASE pc' # "exit"
        <3>1. pc \notin {"write", "exit"} /\ pc' \notin {"write", "exit"} /\ UNCHANGED kernelVars
            BY <1>4, <2>1 DEF Select, Exit
        <3> QED
            BY <3>1, QuietServed
    <2>2. CASE pc' = "exit"
        <3>1. Exit("select") /\ pc = "select"
            BY <1>4, <2>2 DEF Select
        <3> QED
            BY <1>3, <3>1
    <2> QED
        BY <2>1, <2>2
<1>5. CASE AcceptFail
    BY <1>3, <1>5 DEF AcceptFail
<1>6. CASE Accept
    BY <1>1, <1>6, AcceptServed DEF Accept
<1>7. CASE ReadStep
    <2> DEFINE s == Min(Pending)
    <2>0. pc = "scan" /\ (ReadFail(s) \/ ReadEnd(s) \/ ReadData(s))
        BY <1>7 DEF ReadStep
    <2>1. CASE ReadFail(s)
        BY <1>3, <2>0, <2>1 DEF ReadFail
    <2>2. Opened(s) => clifds[s] \in OpenFds
        BY <1>7, NextSlot DEF ReadStep
    <2>3. CASE ReadEnd(s)
        BY <1>1, <2>0, <2>2, <2>3, ReadEndServed DEF ReadEnd
    <2>4. CASE ReadData(s)
        BY <1>1, <2>0, <2>2, <2>4, ReadDataServed DEF ReadData
    <2> QED
        BY <2>0, <2>1, <2>3, <2>4
<1>8. CASE WriteFail
    <2>1. owner[clifds[i]] \in Conns
        BY <1>8, OwnerType DEF WriteFail, Inv, ScanInv, Ahead, TableInv
    <2> QED
        BY <1>3, <1>8, <2>1 DEF WriteFail, WriteFails
<1>9. CASE WriteStep
    BY <1>1, <1>9, WriteServed DEF WriteStep
<1>10. CASE ClientStep /\ UNCHANGED serverVars
    BY <1>10, ClientsServed DEF Service!Next
<1>11. CASE UNCHANGED vars
    BY <1>11 DEF vars, kernelVars, serverVars, Account, Held, Missing, Service!vars, InHand, Lines,
                OpenConns, OpenFds
<1> QED
    BY <1>2, <1>4, <1>5, <1>6, <1>7, <1>8, <1>9, <1>10, <1>11 DEF Next, ServerStep

\* The select server implements EchoService: whatever descriptors and slots are
\* used again, it gives every client its own bytes, those of one before those of
\* the next, and drops none before it has all of them back.
THEOREM EchoImplemented == Spec => ImplementsEcho
<1>1. Init => Account /\ Service!Init
    BY InitServed
<1>2. Inv /\ ConnInv /\ Account /\ [Next]_vars => Account' /\ [Service!Next]_(Service!vars)
    BY NextServed
<1> QED
    BY <1>1, <1>2, InvHolds, ConnHolds, PTL DEF Spec, ImplementsEcho, Service!Spec
==============================================================================
