--------------------------- MODULE DatagramsProofs ---------------------------
(***************************************************************************)
(* What css_udp_overflow prints, for every number of datagrams and every   *)
(* size of the receive buffer, and what the echo clients print, for every  *)
(* number and length of the lines and every loss and stranger.             *)
(***************************************************************************)
EXTENDS Datagrams, TLAPS, SequenceTheorems, WellFoundedInduction

Overflowing == {Datagram("client", <<>>)}

\* Every datagram sent is in the buffer, was received or was dropped (Flow), and
\* the count lags behind what was received only between recvfrom and cout++
\* (Lag).  CountExact speaks of the moment of the interrupt alone and is not
\* inductive: the sender goes on, and what it sends then must be dropped.
CountTypeOK ==
    /\ sent \in Nat /\ taken \in Nat /\ dropped \in Nat /\ cout \in Nat
    /\ program = "overflow" => srvq \in Seq(Overflowing) /\ srv \in {"recv", "count", "down"}
    /\ program \in Echoes => srv # "count"
Flow == program = "overflow" => Len(srvq) + taken + dropped = sent
Lag ==
    /\ srv # "down" => shown = NONE
    /\ program # "overflow" => shown = NONE
    /\ program = "overflow" =>
          /\ srv = "recv"  => cout = taken
          /\ srv = "count" => cout + 1 = taken
          /\ srv = "down"  => srvq = <<>> /\ shown = cout /\ taken \in {cout, cout + 1}
CountInv == program \in Echoes \cup {"overflow"} /\ CountTypeOK /\ Flow /\ Lag

\* Taking the first of some datagrams leaves one less.
LEMMA TailLen == ASSUME NEW S, NEW q \in Seq(S), q # <<>>
                 PROVE  Tail(q) \in Seq(S) /\ Len(Tail(q)) = Len(q) - 1 /\ Len(q) \in Nat
BY HeadTailProperties, LenProperties

\* Storing a datagram adds one.
LEMMA AppendLen == ASSUME NEW S, NEW q \in Seq(S), NEW d \in S
                   PROVE  Append(q, d) \in Seq(S) /\ Len(Append(q, d)) = Len(q) + 1 /\ Len(q) \in Nat
BY AppendProperties, LenProperties

\* The accounts are right when the programs start.
LEMMA CountInit == Init => CountInv
<1> SUFFICES ASSUME Init PROVE CountInv
    OBVIOUS
<1>1. srvq = <<>> /\ srvq \in Seq(Overflowing) /\ Len(srvq) = 0
    BY EmptySeq DEF Init
<1> QED
    BY <1>1 DEF Init, CountInv, CountTypeOK, Flow, Lag, cout0, Start, Echoes

\* Steps of the echo programs touch nothing that is counted.
LEMMA EchoStep ==
    ASSUME CountInv, [Next]_vars, program # "overflow"
    PROVE  CountInv'
<1>1. program' = program /\ program \in Echoes
    BY DEF Next, vars, CountInv
<1>2. srv # "count"
    BY <1>1 DEF CountInv, CountTypeOK
<1>3. /\ UNCHANGED <<sent, taken, dropped, cout, shown>>
      /\ srv' # "count"
    <2>1. CASE UNCHANGED vars
        BY <2>1, <1>2 DEF vars, overflowVars
    <2>2. CASE ClientStep
        BY <2>2, <1>1, <1>2 DEF ClientStep, SendTo, RecvFrom, RecvFail, SendOne, overflowVars, CountInv
    <2>3. CASE ServerStep
        BY <2>3, <1>1, <1>2 DEF ServerStep, Select, Receive, Reply, TakeOne, Count, Start, overflowVars
    <2>4. CASE Environment
        BY <2>4, <1>1, <1>2 DEF Environment, Fgets, Kill, Restart, ForeignToClient, ForeignToServer,
               print_msg_cout, Start, overflowVars
    <2> QED
        BY <2>1, <2>2, <2>3, <2>4 DEF Next
<1>4. shown = NONE
    BY DEF CountInv, Lag
<1> QED
    BY <1>1, <1>3, <1>4 DEF CountInv, CountTypeOK, Flow, Lag

\* Steps of the overflow programs and of the interrupt.
LEMMA OverflowStep ==
    ASSUME CountInv, [Next]_vars, program = "overflow"
    PROVE  CountInv'
<1> USE DEF CountInv, CountTypeOK, Flow, Lag
<1>0. program' = program /\ program \notin Echoes
    BY DEF Next, vars, Echoes
<1>1. CASE SendOne
    <2>1. Datagram("client", <<>>) \in Overflowing
        BY DEF Overflowing
    <2>2. CASE sent' = sent + 1 /\ srvq' = Append(srvq, Datagram("client", <<>>)) /\ dropped' = dropped /\ srv # "down"
        <3>1. srvq' \in Seq(Overflowing) /\ Len(srvq') = Len(srvq) + 1 /\ Len(srvq) \in Nat
            BY <2>1, <2>2, AppendLen
        <3> QED
            BY <1>0, <1>1, <2>2, <3>1 DEF SendOne
    <2>3. CASE sent' = sent + 1 /\ srvq' = srvq /\ dropped' = dropped + 1
        BY <1>0, <1>1, <2>3, LenProperties DEF SendOne
    <2>4. CASE sent' = sent /\ srvq' = srvq /\ dropped' = dropped
        BY <1>0, <1>1, <2>4 DEF SendOne
    <2> QED
        BY <1>1, <2>2, <2>3, <2>4 DEF SendOne
<1>2. CASE TakeOne
    <2>1. srvq' \in Seq(Overflowing) /\ Len(srvq') = Len(srvq) - 1 /\ Len(srvq) \in Nat
        BY <1>2, TailLen DEF TakeOne
    <2> QED
        BY <1>0, <1>2, <2>1 DEF TakeOne
<1>3. CASE Count
    BY <1>0, <1>3 DEF Count
<1>4. CASE print_msg_cout
    <2>1. srvq' = <<>> /\ srvq' \in Seq(Overflowing) /\ Len(srvq') = 0 /\ Len(srvq) \in Nat
        BY <1>4, EmptySeq, LenProperties DEF print_msg_cout
    <2> QED
        BY <1>0, <1>4, <2>1 DEF print_msg_cout
<1>5. CASE UNCHANGED vars \/ Fgets \/ RecvFrom \/ RecvFail
    BY <1>0, <1>5 DEF vars, Fgets, RecvFrom, RecvFail, overflowVars
<1>6. CASE SendTo \/ Receive \/ Kill \/ Restart \/ ForeignToClient \/ ForeignToServer
    BY <1>0, <1>6 DEF SendTo, Receive, Kill, Restart, ForeignToClient, ForeignToServer
<1>7. CASE Select \/ Reply
    BY <1>7 DEF Select, Reply
<1> QED
    BY <1>1, <1>2, <1>3, <1>4, <1>5, <1>6, <1>7 DEF Next, ClientStep, ServerStep, Environment

\* The accounts of css_udp_overflow are right in every state.
THEOREM CountInvCorrect == Spec => []CountInv
<1>1. CountInv /\ [Next]_vars => CountInv'
    BY EchoStep, OverflowStep
<1> QED
    BY CountInit, <1>1, PTL DEF Spec

\* However many datagrams are sent and however small the receive buffer is, the
\* count that css_udp_overflow prints at the interrupt misses only what the
\* kernel dropped, and perhaps the one datagram just received.
THEOREM CountExactCorrect == Spec => []CountExact
<1>1. CountInv => CountExact
    <2> SUFFICES ASSUME CountInv, shown # NONE PROVE shown + dropped \in {sent - 1, sent}
        BY DEF CountExact
    <2>1. program = "overflow" /\ srv = "down" /\ srvq = <<>> /\ Len(srvq) = 0
        BY EmptySeq DEF CountInv, Lag
    <2> QED
        BY <2>1 DEF CountInv, CountTypeOK, Flow, Lag
<1> QED
    BY <1>1, CountInvCorrect, PTL

------------------------------------------------------------------------------
\* The echoes.  A datagram that is not a stranger's carries a line, or its echo:
\* the line is the first byte of the text.  Those on their way are ordered by
\* their lines from the client's buffer back to the server's, behind every line
\* already printed.

Froms   == {"client", "asked", "other", "stranger"}
Packets == [from : Froms, text : Seq(UNSET .. MaxLines)]

Extra  == IF program = "udp_connect" THEN 1 ELSE 0
Id(d)  == d.text[1]
Own(q) == {k \in 1 .. Len(q) : q[k].from # "stranger"}
Ids(q) == {Id(q[k]) : k \in Own(q)}

\* d is a line of ls, with its NUL if e is 1.
Echo(d, ls, e) ==
    /\ Id(d) \in 1 .. Len(ls) /\ Len(d.text) = ls[Id(d)] + e
    /\ \A k \in 1 .. ls[Id(d)] : d.text[k] = Id(d)
    /\ e = 1 => d.text[ls[Id(d)] + 1] = NUL

Good(q, ls, e) ==
    /\ q \in Seq(Packets)
    /\ \A k \in Own(q) : Echo(q[k], ls, e)
    /\ \A k, l \in Own(q) : k < l => Id(q[k]) < Id(q[l])

Before(q, r) == \A a \in Ids(q), b \in Ids(r) : a < b

InFlight == Ids(cliq) \cup Ids(hand) \cup Ids(srvq)
Requests == IF cli = "sendto" THEN Len(lens) - 1 ELSE Len(lens)

EchoType ==
    /\ srv \in {"select", "recv", "send", "down"}
    /\ cli \in {"fgets", "sendto", "recvfrom", "done", "exit"}
    /\ Len(srvq) <= RcvBuf /\ Len(cliq) <= RcvBuf
    /\ Len(hand) = IF srv = "send" THEN 1 ELSE 0
    /\ lens \in Seq(1 .. MaxLen) /\ Len(lens) <= MaxLines
    /\ buff \in [Bytes -> UNSET .. MaxLines]
    /\ answers \in Seq(Seq(UNSET .. MaxLines))
    /\ refused \in BOOLEAN /\ lost \in BOOLEAN /\ strangers \in Nat

\* One answer for every line that was sent, the last one's pending.
Turns ==
    /\ Len(answers) <= Len(lens)
    /\ cli \in {"fgets", "done"} => Len(answers) = Len(lens)
    /\ cli \in {"sendto", "recvfrom"} => Len(answers) + 1 = Len(lens)

Pipe ==
    /\ Good(cliq, lens, Extra) /\ Good(hand, lens, Extra) /\ Good(srvq, lens, Extra)
    /\ Before(cliq, hand) /\ Before(cliq, srvq) /\ Before(hand, srvq)
    /\ \A b \in InFlight : b <= Requests /\ \A n \in Shown : answers[n][1] < b

\* What fgets and bzero leave in buff for the line at hand.
Buffer ==
    /\ cli = "sendto" => /\ \A k \in 1 .. lens[Len(lens)] : buff[k] = Len(lens)
                         /\ buff[lens[Len(lens)] + 1] = NUL
    /\ cli = "recvfrom" => \A k \in 1 .. lens[Len(lens)] + 1 : buff[k] = NUL

\* Until a stranger's datagram is taken, only the line at hand is on its way.
Alone ==
    /\ Connected => \A k \in 1 .. Len(cliq) : cliq[k].from # "stranger"
    /\ refused => Connected /\ cli = "recvfrom" /\ InFlight = {}
    /\ (Connected \/ strangers = 0) => \A b \in InFlight : cli = "recvfrom" /\ b = Len(lens)

Exact == (program = "udp_connect" \/ strangers = 0) =>
    \A n \in Shown : answers[n] = Text(n, lens[n])
Begins == \A n \in Shown : LET m == answers[n][1] IN
    /\ m \in 1 .. n /\ Len(answers[n]) >= lens[m]
    /\ \A k \in 1 .. lens[m] : answers[n][k] = m
InOrder == \A n, m \in Shown : n < m => answers[n][1] < answers[m][1]

EchoInv ==
    /\ program \in Echoes
    /\ EchoType /\ Turns /\ Pipe /\ Buffer /\ Alone /\ Exact /\ Begins /\ InOrder

\* The overflow programs print no echo.
SilentInv ==
    /\ cli \in {"sendto", "done"} /\ lens = <<>> /\ answers = <<>> /\ cliq = <<>> /\ hand = <<>>
    /\ srvq \in Seq(Overflowing) /\ Len(srvq) <= RcvBuf
    /\ buff \in [Bytes -> UNSET .. MaxLines]
    /\ refused = FALSE /\ lost = FALSE /\ sent <= MSG_NUM

AnswersInv ==
    /\ CountInv
    /\ program \in Echoes => EchoInv /\ cout = 0 /\ shown = NONE
    /\ program = "overflow" => SilentInv

\* Nothing is on its way in an empty buffer.
LEMMA GoodEmpty ==
    ASSUME NEW ls, NEW e
    PROVE  Good(<<>>, ls, e) /\ Ids(<<>>) = {} /\ Len(<<>>) = 0
<1>1. <<>> \in Seq(Packets) /\ Len(<<>>) = 0
    BY EmptySeq
<1>2. Own(<<>>) = {}
    BY <1>1 DEF Own
<1> QED
    BY <1>1, <1>2 DEF Good, Ids

\* A request in hand.
LEMMA GoodOne ==
    ASSUME NEW ls, NEW e, NEW d \in Packets, d.from # "stranger" => Echo(d, ls, e)
    PROVE  /\ Good(<<d>>, ls, e) /\ Len(<<d>>) = 1
           /\ Ids(<<d>>) = IF d.from # "stranger" THEN {Id(d)} ELSE {}
<1> DEFINE q == <<d>>
<1>1. q \in Seq(Packets) /\ Len(q) = 1 /\ q[1] = d
    OBVIOUS
<1> HIDE DEF q
<1>2. Own(q) = IF d.from # "stranger" THEN {1} ELSE {}
    BY <1>1 DEF Own
<1>3. Ids(q) = IF d.from # "stranger" THEN {Id(d)} ELSE {}
    BY <1>1, <1>2 DEF Ids
<1>4. Good(q, ls, e)
    BY <1>1, <1>2 DEF Good
<1> QED
    BY <1>1, <1>3, <1>4 DEF q

\* A datagram with a later line than all before it, or a stranger's, comes last.
LEMMA GoodAppend ==
    ASSUME NEW ls, NEW e, NEW q, Good(q, ls, e), NEW d \in Packets,
           d.from # "stranger" => Echo(d, ls, e) /\ \A a \in Ids(q) : a < Id(d)
    PROVE  /\ Good(Append(q, d), ls, e) /\ Len(Append(q, d)) = Len(q) + 1
           /\ Ids(Append(q, d)) = Ids(q) \cup IF d.from # "stranger" THEN {Id(d)} ELSE {}
<1> DEFINE r == Append(q, d)
<1>1. q \in Seq(Packets) /\ Len(q) \in Nat
    BY LenProperties DEF Good
<1>2. /\ r \in Seq(Packets) /\ Len(r) = Len(q) + 1 /\ r[Len(q) + 1] = d
      /\ \A k \in 1 .. Len(q) : r[k] = q[k]
    BY <1>1, AppendProperties
<1> HIDE DEF r
<1>3. Own(r) = Own(q) \cup IF d.from # "stranger" THEN {Len(q) + 1} ELSE {}
    BY <1>1, <1>2 DEF Own
<1>4. \A k \in Own(q) : k \in 1 .. Len(q) /\ r[k] = q[k] /\ Id(q[k]) \in Ids(q)
    BY <1>2 DEF Own, Ids
<1>5. Ids(r) = Ids(q) \cup IF d.from # "stranger" THEN {Id(d)} ELSE {}
    BY <1>2, <1>3, <1>4 DEF Ids
<1>6. \A k \in Own(r) : Echo(r[k], ls, e)
    BY <1>2, <1>3, <1>4 DEF Good
<1>7. ASSUME NEW k \in Own(r), NEW l \in Own(r), k < l PROVE Id(r[k]) < Id(r[l])
    <2>1. k \in Own(q)
        BY <1>1, <1>2, <1>3, <1>4, <1>7
    <2>2. CASE l \in Own(q)
        BY <1>4, <1>7, <2>1, <2>2 DEF Good
    <2>3. CASE l \notin Own(q)
        BY <1>2, <1>3, <1>4, <2>1, <2>3
    <2> QED
        BY <2>2, <2>3
<1>8. Good(r, ls, e)
    BY <1>2, <1>6, <1>7 DEF Good
<1> QED
    BY <1>2, <1>5, <1>8 DEF r

\* The first datagram has the earliest line.
LEMMA GoodTail ==
    ASSUME NEW ls, NEW e, NEW q, Good(q, ls, e), q # <<>>
    PROVE  /\ Good(Tail(q), ls, e) /\ Ids(Tail(q)) \subseteq Ids(q)
           /\ Len(Tail(q)) = Len(q) - 1 /\ Len(q) \in Nat /\ Len(q) >= 1
           /\ Head(q) \in Packets /\ Head(q) = q[1]
           /\ \A k \in 1 .. Len(Tail(q)) : k + 1 \in 1 .. Len(q) /\ Tail(q)[k] = q[k + 1]
           /\ Head(q).from # "stranger" =>
                 /\ Echo(Head(q), ls, e) /\ Id(Head(q)) \in Ids(q)
                 /\ \A b \in Ids(Tail(q)) : Id(Head(q)) < b
<1> DEFINE r == Tail(q)
<1>1. q \in Seq(Packets) /\ Len(q) \in Nat /\ Len(q) >= 1
    BY LenProperties, EmptySeq DEF Good
<1>2. /\ Head(q) \in Packets /\ r \in Seq(Packets) /\ Len(r) = Len(q) - 1
      /\ \A k \in 1 .. Len(r) : r[k] = q[k + 1]
    BY <1>1, HeadTailProperties
<1>3. Head(q) = q[1]
    BY <1>1
<1> HIDE DEF r
<1>4. \A k \in 1 .. Len(r) : k \in Nat /\ k >= 1 /\ k + 1 \in 1 .. Len(q)
    BY <1>1, <1>2
<1>5. \A k \in Own(r) : k \in Nat /\ k >= 1 /\ k + 1 \in Own(q) /\ r[k] = q[k + 1]
    BY <1>2, <1>4 DEF Own
<1>6. Ids(r) \subseteq Ids(q)
    BY <1>5 DEF Ids
<1>7. \A k, l \in Own(r) : k < l => k + 1 < l + 1
    BY <1>5
<1>8. Good(r, ls, e)
    BY <1>2, <1>5, <1>7 DEF Good
<1>9. ASSUME Head(q).from # "stranger"
      PROVE  /\ Echo(Head(q), ls, e) /\ Id(Head(q)) \in Ids(q)
             /\ \A b \in Ids(r) : Id(Head(q)) < b
    <2>1. 1 \in Own(q)
        BY <1>1, <1>3, <1>9 DEF Own
    <2>2. \A k \in Own(r) : 1 < k + 1
        BY <1>5
    <2>3. \A b \in Ids(r) : Id(q[1]) < b
        BY <1>5, <2>1, <2>2 DEF Good, Ids
    <2> QED
        BY <1>3, <2>1, <2>3 DEF Good, Ids
<1> QED
    BY <1>1, <1>2, <1>3, <1>4, <1>6, <1>8, <1>9 DEF r

\* A line more changes none of the earlier ones.
LEMMA GoodMore ==
    ASSUME NEW ls \in Seq(1 .. MaxLen), NEW n \in 1 .. MaxLen, NEW e, NEW q, Good(q, ls, e)
    PROVE  Good(q, Append(ls, n), e)
<1>1. /\ Len(ls) \in Nat /\ Len(Append(ls, n)) = Len(ls) + 1
      /\ \A k \in 1 .. Len(ls) : Append(ls, n)[k] = ls[k]
    BY LenProperties, AppendProperties
<1>2. \A k \in Own(q) : Echo(q[k], Append(ls, n), e)
    BY <1>1 DEF Good, Echo
<1> QED
    BY <1>2 DEF Good

\* fputs prints what is before the first NUL.
LEMMA FputsPrints ==
    ASSUME NEW b \in [Bytes -> UNSET .. MaxLines], NEW n \in 0 .. MaxLen + 1,
           \A k \in 1 .. n : b[k] # NUL
    PROVE  /\ fputs(b) \in Seq(UNSET .. MaxLines) /\ Len(fputs(b)) \in Nat /\ Len(fputs(b)) >= n
           /\ \A k \in 1 .. n : fputs(b)[k] = b[k]
           /\ n <= MaxLen /\ b[n + 1] = NUL => Len(fputs(b)) = n
<1> DEFINE Ends(m) == /\ \A k \in 1 .. m : b[k] # NUL
                      /\ m = MaxLen + 1 \/ b[m + 1] = NUL
<1>0. MaxLen \in Nat
    BY BoundAssumption
<1>1. \E m \in 0 .. MaxLen + 1 : Ends(m)
    <2> DEFINE Z == {k \in Bytes : b[k] = NUL}
    <2>1. CASE Z = {}
        <3>1. Ends(MaxLen + 1)
            BY <1>0, <2>1 DEF Bytes
        <3> QED
            BY <1>0, <3>1
    <2>2. CASE Z # {}
        <3>1. Z \in SUBSET Nat
            BY DEF Bytes
        <3>2. PICK f \in Z : \A g \in Z : <<g, f>> \notin OpToRel(<, Nat)
            BY <2>2, <3>1, NatLessThanWellFounded, WFMin
        <3>3. f \in Nat /\ f >= 1 /\ f <= MaxLen + 1 /\ b[f] = NUL
            BY <1>0 DEF Bytes
        <3>4. \A g \in Z : g \in Nat /\ ~(g < f)
            BY <3>1, <3>2 DEF OpToRel
        <3>5. \A k \in 1 .. f - 1 : k \in Bytes /\ k < f
            BY <1>0, <3>3 DEF Bytes
        <3>6. \A k \in 1 .. f - 1 : b[k] # NUL
            BY <3>4, <3>5
        <3>7. f - 1 \in 0 .. MaxLen + 1 /\ (f - 1) + 1 = f
            BY <1>0, <3>3
        <3> QED
            BY <3>3, <3>6, <3>7
    <2> QED
        BY <2>1, <2>2
<1> DEFINE m == CHOOSE m \in 0 .. MaxLen + 1 : Ends(m)
<1>2. m \in 0 .. MaxLen + 1 /\ Ends(m)
    BY <1>1
<1>3. fputs(b) = SubSeq(b, 1, m)
    BY DEF fputs
<1> HIDE DEF m
<1>4. m \in Nat /\ m <= MaxLen + 1 /\ n \in Nat /\ n <= MaxLen + 1
    BY <1>0, <1>2
<1>5. \A k \in 1 .. m : b[k] \in UNSET .. MaxLines
    BY <1>0, <1>4 DEF Bytes
<1>6. /\ SubSeq(b, 1, m) \in Seq(UNSET .. MaxLines)
      /\ Len(SubSeq(b, 1, m)) = m
      /\ \A k \in 1 .. m : SubSeq(b, 1, m)[k] = b[k]
    BY <1>4, <1>5, SubSeqProperties
<1>7. m >= n
    <2>1. CASE m < n
        <3>1. b[m + 1] = NUL /\ m + 1 \in 1 .. n
            BY <1>2, <1>4, <2>1
        <3> QED
            BY <3>1
    <2> QED
        BY <1>4, <2>1
<1>8. ASSUME n <= MaxLen, b[n + 1] = NUL PROVE m = n
    <2>1. CASE m > n
        <3>1. n + 1 \in 1 .. m
            BY <1>4, <2>1
        <3> QED
            BY <1>2, <1>8, <3>1
    <2> QED
        BY <1>4, <1>7, <2>1
<1>9. \A k \in 1 .. n : k \in 1 .. m
    BY <1>4, <1>7
<1> QED
    BY <1>3, <1>4, <1>6, <1>7, <1>8, <1>9

\* What the servers and the kernel do to the datagrams on their way: some are
\* lost, none appears, and their order stays.
LEMMA ServersKeep ==
    ASSUME EchoInv, UNCHANGED <<program, clientVars>>,
           srv' \in {"select", "recv", "send", "down"}, lost' \in BOOLEAN,
           Len(srvq') <= RcvBuf, Len(cliq') <= RcvBuf,
           Len(hand') = IF srv' = "send" THEN 1 ELSE 0,
           Good(cliq', lens, Extra), Good(hand', lens, Extra), Good(srvq', lens, Extra),
           Before(cliq', hand'), Before(cliq', srvq'), Before(hand', srvq'),
           Ids(cliq') \cup Ids(hand') \cup Ids(srvq') \subseteq InFlight,
           Connected => \A k \in 1 .. Len(cliq') : cliq'[k].from # "stranger"
    PROVE  EchoInv'
<1>1. /\ program' = program /\ cli' = cli /\ refused' = refused /\ lens' = lens /\ buff' = buff
      /\ answers' = answers /\ strangers' = strangers
    BY DEF clientVars
<1>2. Extra' = Extra /\ Shown' = Shown /\ Requests' = Requests /\ (Connected' <=> Connected)
      /\ InFlight' \subseteq InFlight
    BY <1>1 DEF Extra, Shown, Requests, Connected, InFlight
<1>3. EchoType'
    BY <1>1 DEF EchoInv, EchoType
<1>4. Pipe'
    BY <1>1, <1>2 DEF EchoInv, Pipe
<1>5. Turns' /\ Buffer'
    BY <1>1 DEF EchoInv, Turns, Buffer
<1>6. Alone'
    BY <1>1, <1>2 DEF EchoInv, Alone
<1>7. Exact' /\ Begins' /\ InOrder'
    BY <1>1, <1>2 DEF EchoInv, Exact, Begins, InOrder
<1> QED
    BY <1>1, <1>3, <1>4, <1>5, <1>6, <1>7 DEF EchoInv

\* The parts of the invariant about the datagrams.
LEMMA PipeFacts ==
    ASSUME EchoInv
    PROVE  /\ Good(cliq, lens, Extra) /\ Good(hand, lens, Extra) /\ Good(srvq, lens, Extra)
           /\ Before(cliq, hand) /\ Before(cliq, srvq) /\ Before(hand, srvq)
           /\ srvq \in Seq(Packets) /\ cliq \in Seq(Packets) /\ hand \in Seq(Packets)
           /\ Len(srvq) \in Nat /\ Len(cliq) \in Nat /\ Len(hand) \in Nat
           /\ Len(srvq) <= RcvBuf /\ Len(cliq) <= RcvBuf /\ RcvBuf \in Nat /\ RcvBuf > 0
    BY LenProperties, BufAssumption DEF EchoInv, Pipe, Good, EchoType

\* The places of an echo server.
LEMMA StartPlace == Start \in {"select", "recv"}
    BY DEF Start

\* Without the request in hand there is none.
LEMMA EmptyHand ==
    ASSUME EchoInv, srv # "send"
    PROVE  hand = <<>> /\ Ids(hand) = {}
<1>1. hand \in Seq(Packets) /\ Len(hand) = 0
    BY PipeFacts DEF EchoInv, EchoType
<1>2. hand = <<>>
    BY <1>1, EmptySeq
<1> QED
    BY <1>2, GoodEmpty

\* select and a restart move no datagram.
LEMMA PlaceKeeps ==
    ASSUME EchoInv, Select \/ Restart, program' = program
    PROVE  EchoInv'
<1>1. /\ srv # "send" /\ srv' \in {"select", "recv", "down"} /\ lost' = lost
      /\ UNCHANGED <<srvq, hand, clientVars, cliq>>
    BY StartPlace DEF Select, Restart
<1>2. hand' = hand /\ srvq' = srvq /\ cliq' = cliq
    BY <1>1
<1>3. Len(hand) = 0
    BY <1>1 DEF EchoInv, EchoType
<1>4. lost' \in BOOLEAN /\ Ids(cliq') \cup Ids(hand') \cup Ids(srvq') \subseteq InFlight
    BY <1>1, <1>2 DEF EchoInv, EchoType, InFlight
<1>5. Connected => \A k \in 1 .. Len(cliq') : cliq'[k].from # "stranger"
    BY <1>2 DEF EchoInv, Alone
<1> QED
    BY <1>1, <1>2, <1>3, <1>4, <1>5, PipeFacts, ServersKeep

\* recvfrom of the server takes the first datagram in hand.
LEMMA ReceiveKeeps ==
    ASSUME EchoInv, Receive, program' = program
    PROVE  EchoInv'
<1>1. /\ srv = "recv" /\ srvq # <<>> /\ hand' = <<Head(srvq)>> /\ srvq' = Tail(srvq) /\ srv' = "send"
      /\ UNCHANGED <<clientVars, cliq, lost>>
    BY DEF Receive
<1> DEFINE d == Head(srvq)
<1>2. /\ Good(Tail(srvq), lens, Extra) /\ Ids(Tail(srvq)) \subseteq Ids(srvq)
      /\ Len(Tail(srvq)) = Len(srvq) - 1 /\ d \in Packets
      /\ d.from # "stranger" =>
            /\ Echo(d, lens, Extra) /\ Id(d) \in Ids(srvq)
            /\ \A b \in Ids(Tail(srvq)) : Id(d) < b
    BY <1>1, PipeFacts, GoodTail
<1>3. /\ Good(<<d>>, lens, Extra) /\ Len(<<d>>) = 1
      /\ Ids(<<d>>) = IF d.from # "stranger" THEN {Id(d)} ELSE {}
    BY <1>2, GoodOne
<1> HIDE DEF d
<1>4. Good(hand', lens, Extra) /\ Len(hand') = 1 /\ Ids(hand') \subseteq Ids(srvq)
      /\ Before(hand', srvq')
    BY <1>1, <1>2, <1>3 DEF Before, d
<1>5. Before(cliq', hand') /\ Before(cliq', srvq')
    BY <1>1, <1>2, <1>4, PipeFacts DEF Before
<1>6. Good(srvq', lens, Extra) /\ Len(srvq') <= RcvBuf
    BY <1>1, <1>2, PipeFacts
<1>7. Ids(cliq') \cup Ids(hand') \cup Ids(srvq') \subseteq InFlight
    BY <1>1, <1>2, <1>4 DEF InFlight
<1>8. /\ lost' \in BOOLEAN /\ Good(cliq', lens, Extra) /\ Len(cliq') <= RcvBuf
      /\ Connected => \A k \in 1 .. Len(cliq') : cliq'[k].from # "stranger"
    BY <1>1, PipeFacts DEF EchoInv, EchoType, Alone
<1> QED
    BY <1>1, <1>4, <1>5, <1>6, <1>7, <1>8, ServersKeep

\* The reply follows those in the client's buffer, or is lost.
LEMMA ReplyKeeps ==
    ASSUME EchoInv, Reply, program' = program
    PROVE  EchoInv'
<1>1. srv = "send" /\ hand' = <<>> /\ srv' = Start /\ UNCHANGED <<srvq, clientVars>>
    BY DEF Reply
<1> DEFINE h == hand[1]
<1>2. Len(hand) = 1 /\ h \in Packets
    <2>1. Len(hand) = 1 /\ hand \in Seq(Packets)
        BY <1>1, PipeFacts DEF EchoInv, EchoType
    <2> QED
        BY <2>1, ElementOfSeq
<1>3. h.from # "stranger" => Echo(h, lens, Extra) /\ Id(h) \in Ids(hand)
    BY <1>2, PipeFacts DEF Good, Own, Ids
<1>4. Good(hand', lens, Extra) /\ Ids(hand') = {} /\ Len(hand') = 0
    BY <1>1, GoodEmpty
<1>5. \/ cliq' = cliq /\ lost' \in BOOLEAN
      \/ \E x \in {"asked", "other"} : /\ h.from # "stranger" /\ Room(cliq) /\ lost' = lost
                                       /\ cliq' = Append(cliq, Datagram(x, h.text))
    <2>1. lost \in BOOLEAN
        BY DEF EchoInv, EchoType
    <2>2. CASE h.from = "client"
        <3> DEFINE x == IF Connected \/ route THEN "asked" ELSE "other"
        <3>1. ToClient(Datagram(x, h.text)) /\ x \in {"asked", "other"}
            BY <2>2 DEF Reply
        <3> HIDE DEF x
        <3> QED
            BY <2>1, <2>2, <3>1 DEF ToClient
    <2>3. CASE h.from # "client"
        BY <2>1, <2>3 DEF Reply
    <2> QED
        BY <2>2, <2>3
<1> HIDE DEF h
<1>6. /\ Good(cliq', lens, Extra) /\ Len(cliq') <= RcvBuf /\ lost' \in BOOLEAN
      /\ Ids(cliq') \subseteq Ids(cliq) \cup Ids(hand)
      /\ Connected => \A k \in 1 .. Len(cliq') : cliq'[k].from # "stranger"
    <2>0. Connected => \A k \in 1 .. Len(cliq) : cliq[k].from # "stranger"
        BY DEF EchoInv, Alone
    <2>1. CASE cliq' = cliq /\ lost' \in BOOLEAN
        BY <2>0, <2>1, PipeFacts
    <2>2. CASE ~(cliq' = cliq /\ lost' \in BOOLEAN)
        <3>1. PICK x \in {"asked", "other"} : /\ h.from # "stranger" /\ Room(cliq) /\ lost' = lost
                                              /\ cliq' = Append(cliq, Datagram(x, h.text))
            BY <1>5, <2>2
        <3> DEFINE d == Datagram(x, h.text)
        <3>2. d \in Packets /\ d.text = h.text /\ d.from # "stranger"
            BY <1>2 DEF Packets, Datagram, Froms
        <3> HIDE DEF d
        <3>3. Echo(d, lens, Extra) /\ Id(d) = Id(h)
            BY <1>3, <3>1, <3>2 DEF Echo, Id
        <3>4. \A a \in Ids(cliq) : a < Id(d)
            BY <1>3, <3>1, <3>3, PipeFacts DEF Before
        <3>5. /\ Good(Append(cliq, d), lens, Extra) /\ Len(Append(cliq, d)) = Len(cliq) + 1
              /\ Ids(Append(cliq, d)) = Ids(cliq) \cup IF d.from # "stranger" THEN {Id(d)} ELSE {}
            BY <3>2, <3>3, <3>4, PipeFacts, GoodAppend
        <3>6. cliq' = Append(cliq, d)
            BY <3>1 DEF d
        <3>7. Ids(cliq') \subseteq Ids(cliq) \cup Ids(hand)
            BY <1>3, <3>1, <3>3, <3>5, <3>6
        <3>8. Len(cliq') <= RcvBuf
            BY <3>1, <3>5, <3>6, PipeFacts DEF Room
        <3>9. Connected => \A k \in 1 .. Len(cliq') : cliq'[k].from # "stranger"
            BY <2>0, <3>2, <3>6, PipeFacts, AppendProperties
        <3> QED
            BY <3>1, <3>5, <3>6, <3>7, <3>8, <3>9 DEF EchoInv, EchoType
    <2> QED
        BY <2>1, <2>2
<1>7. Before(cliq', hand') /\ Before(cliq', srvq') /\ Before(hand', srvq')
    BY <1>1, <1>4, <1>6, PipeFacts DEF Before
<1>8. Ids(cliq') \cup Ids(hand') \cup Ids(srvq') \subseteq InFlight
    BY <1>1, <1>4, <1>6 DEF InFlight
<1>9. Good(srvq', lens, Extra) /\ Len(srvq') <= RcvBuf
    BY <1>1, PipeFacts
<1>10. srv' \in {"select", "recv"}
    BY <1>1, StartPlace
<1> QED
    BY <1>1, <1>4, <1>6, <1>7, <1>8, <1>9, <1>10, ServersKeep

\* A killed server takes what it has not answered with it.
LEMMA KillKeeps ==
    ASSUME EchoInv, Kill, program' = program
    PROVE  EchoInv'
<1>1. /\ srv' = "down" /\ srvq' = <<>> /\ hand' = <<>> /\ lost' \in BOOLEAN
      /\ UNCHANGED <<clientVars, cliq>>
    BY DEF Kill
<1>2. /\ Good(hand', lens, Extra) /\ Ids(hand') = {} /\ Len(hand') = 0
      /\ Good(srvq', lens, Extra) /\ Ids(srvq') = {} /\ Len(srvq') = 0
    BY <1>1, GoodEmpty
<1>3. Before(cliq', hand') /\ Before(cliq', srvq') /\ Before(hand', srvq')
    BY <1>2 DEF Before
<1>4. Ids(cliq') \cup Ids(hand') \cup Ids(srvq') \subseteq InFlight
    BY <1>1, <1>2 DEF InFlight
<1>5. /\ Good(cliq', lens, Extra) /\ Len(cliq') <= RcvBuf
      /\ Connected => \A k \in 1 .. Len(cliq') : cliq'[k].from # "stranger"
    BY <1>1, PipeFacts DEF EchoInv, Alone
<1>6. Len(srvq') <= RcvBuf
    BY <1>2, BufAssumption
<1> QED
    BY <1>1, <1>2, <1>3, <1>4, <1>5, <1>6, ServersKeep

\* The text of another process.
LEMMA StrangersText == Datagram("stranger", Text(FOREIGN, MaxLen)) \in Packets
                       /\ Datagram("stranger", Text(FOREIGN, MaxLen)).from = "stranger"
<1>1. MaxLen \in Nat /\ FOREIGN \in UNSET .. MaxLines
    BY BoundAssumption DEF FOREIGN, UNSET
<1>2. Text(FOREIGN, MaxLen) \in [1 .. MaxLen -> UNSET .. MaxLines]
    BY <1>1 DEF Text
<1>3. Text(FOREIGN, MaxLen) \in Seq(UNSET .. MaxLines)
    BY <1>1, <1>2, SeqDef
<1> QED
    BY <1>3 DEF Datagram, Packets, Froms

\* A stranger's datagram stands behind those that are there.
LEMMA StrangersKeep ==
    ASSUME EchoInv, ForeignToClient \/ ForeignToServer, program' = program
    PROVE  EchoInv'
<1> DEFINE d == Datagram("stranger", Text(FOREIGN, MaxLen))
<1>1. d \in Packets /\ d.from = "stranger"
    BY StrangersText
<1>2. /\ \/ cliq' = cliq /\ srvq' = srvq
         \/ ~Connected /\ Room(cliq) /\ cliq' = Append(cliq, d) /\ srvq' = srvq
         \/ Room(srvq) /\ cliq' = cliq /\ srvq' = Append(srvq, d)
      /\ UNCHANGED <<srv, hand, clientVars, lost>>
    BY DEF ForeignToClient, ForeignToServer
<1> HIDE DEF d
<1>3. ASSUME NEW q \in {cliq, srvq}, Room(q)
      PROVE  /\ Good(Append(q, d), lens, Extra) /\ Ids(Append(q, d)) = Ids(q)
             /\ Len(Append(q, d)) <= RcvBuf
    <2>1. Good(q, lens, Extra) /\ Len(q) \in Nat /\ Len(q) < RcvBuf /\ RcvBuf \in Nat
        BY <1>3, PipeFacts DEF Room
    <2>2. /\ Good(Append(q, d), lens, Extra) /\ Len(Append(q, d)) = Len(q) + 1
          /\ Ids(Append(q, d)) = Ids(q) \cup IF d.from # "stranger" THEN {Id(d)} ELSE {}
        BY <1>1, <2>1, GoodAppend
    <2>3. Len(Append(q, d)) <= RcvBuf
        BY <2>1, <2>2
    <2> QED
        BY <1>1, <2>2, <2>3
<1>4. /\ Good(cliq', lens, Extra) /\ Ids(cliq') = Ids(cliq) /\ Len(cliq') <= RcvBuf
      /\ Good(srvq', lens, Extra) /\ Ids(srvq') = Ids(srvq) /\ Len(srvq') <= RcvBuf
    BY <1>2, <1>3, PipeFacts
<1>5. Before(cliq', hand') /\ Before(cliq', srvq') /\ Before(hand', srvq')
      /\ Good(hand', lens, Extra)
    BY <1>2, <1>4, PipeFacts DEF Before
<1>6. Ids(cliq') \cup Ids(hand') \cup Ids(srvq') \subseteq InFlight
    BY <1>2, <1>4 DEF InFlight
<1>7. Connected => \A k \in 1 .. Len(cliq') : cliq'[k].from # "stranger"
    BY <1>2 DEF EchoInv, Alone
<1>8. /\ srv' \in {"select", "recv", "send", "down"} /\ lost' \in BOOLEAN
      /\ Len(hand') = IF srv' = "send" THEN 1 ELSE 0
    BY <1>2 DEF EchoInv, EchoType
<1> QED
    BY <1>2, <1>4, <1>5, <1>6, <1>7, <1>8, ServersKeep

\* The counts of lines and answers.
LEMMA LineFacts ==
    ASSUME EchoInv
    PROVE  /\ Len(lens) \in Nat /\ Len(answers) \in Nat /\ MaxLen \in Nat /\ MaxLen > 0 /\ MaxLines \in Nat
           /\ \A n \in 1 .. Len(lens) : lens[n] \in 1 .. MaxLen
           /\ \A n \in Shown : n \in Nat /\ n >= 1 /\ n <= Len(answers) /\ n <= Len(lens)
           /\ cli \in {"sendto", "recvfrom"} => Len(lens) \in 1 .. Len(lens)
<1>1. Len(lens) \in Nat /\ Len(answers) \in Nat
    BY LenProperties DEF EchoInv, EchoType
<1>2. \A n \in 1 .. Len(lens) : lens[n] \in 1 .. MaxLen
    BY ElementOfSeq DEF EchoInv, EchoType
<1>3. \A n \in Shown : n \in Nat /\ n >= 1 /\ n <= Len(answers) /\ n <= Len(lens)
    BY <1>1 DEF Shown, EchoInv, Turns
<1>4. cli \in {"sendto", "recvfrom"} => Len(lens) \in 1 .. Len(lens)
    BY <1>1 DEF EchoInv, Turns
<1> QED
    BY <1>1, <1>2, <1>3, <1>4, BoundAssumption

\* The next line is read, or the input ends.
LEMMA FgetsKeeps ==
    ASSUME EchoInv, Fgets, program' = program
    PROVE  EchoInv'
<1>1. /\ cli = "fgets"
      /\ UNCHANGED <<srv, srvq, hand, cliq, refused, answers, strangers, lost>>
    BY DEF Fgets
<1>2. ~refused /\ Len(answers) = Len(lens)
    BY <1>1 DEF EchoInv, Alone, Turns
<1>3. /\ Shown' = Shown /\ InFlight' = InFlight /\ Extra' = Extra
      /\ (Connected' <=> Connected) /\ Ids(cliq') = Ids(cliq)
    BY <1>1 DEF Shown, InFlight, Extra, Connected
<1>4. (Connected \/ strangers = 0) => InFlight = {}
    BY <1>1 DEF EchoInv, Alone
<1>5. CASE cli' = "done" /\ UNCHANGED <<lens, buff>>
    <2>1. EchoType' /\ Turns' /\ Buffer'
        BY <1>1, <1>5 DEF EchoInv, EchoType, Turns, Buffer
    <2>2. Requests' = Requests
        BY <1>1, <1>5 DEF Requests
    <2>3. Pipe'
        BY <1>1, <1>3, <1>5, <2>2 DEF EchoInv, Pipe
    <2>4. Alone'
        BY <1>1, <1>2, <1>3, <1>4 DEF EchoInv, Alone
    <2>5. Exact' /\ Begins' /\ InOrder'
        BY <1>1, <1>3, <1>5 DEF EchoInv, Exact, Begins, InOrder
    <2> QED
        BY <2>1, <2>3, <2>4, <2>5 DEF EchoInv
<1>6. CASE \E len \in 1 .. MaxLen : /\ line < MaxLines /\ lens' = Append(lens, len) /\ buff' = Filled(len)
                                    /\ cli' = "sendto"
    <2>1. PICK len \in 1 .. MaxLen : /\ Len(lens) < MaxLines /\ lens' = Append(lens, len)
                                     /\ buff' = Filled(len) /\ cli' = "sendto"
        BY <1>6 DEF line
    <2>2. /\ lens' \in Seq(1 .. MaxLen) /\ Len(lens') = Len(lens) + 1 /\ lens'[Len(lens')] = len
          /\ \A n \in 1 .. Len(lens) : lens'[n] = lens[n]
        BY <2>1, AppendProperties DEF EchoInv, EchoType
    <2>3. \A n \in Shown : n \in 1 .. Len(lens) /\ lens'[n] = lens[n]
        BY <2>2, LineFacts
    <2>4. buff' \in [Bytes -> UNSET .. MaxLines]
        <3>1. Len(lens) + 1 \in UNSET .. MaxLines /\ NUL \in UNSET .. MaxLines
            BY <2>1, LineFacts DEF UNSET, NUL
        <3> QED
            BY <2>1, <3>1 DEF Filled, line, EchoInv, EchoType
    <2>5. EchoType'
        BY <1>1, <2>1, <2>2, <2>4, LineFacts DEF EchoInv, EchoType
    <2>6. Turns'
        BY <1>1, <1>2, <2>1, <2>2, LineFacts DEF Turns
    <2>7. Buffer'
        <3>1. \A k \in 1 .. len : k \in Bytes /\ buff'[k] = Len(lens) + 1
            BY <2>1, LineFacts DEF Filled, line, Bytes
        <3>2. buff'[len + 1] = NUL
            BY <2>1, LineFacts DEF Filled, Bytes
        <3> QED
            BY <2>1, <2>2, <3>1, <3>2 DEF Buffer
    <2>8. Pipe'
        <3>1. /\ Good(cliq, lens', Extra) /\ Good(hand, lens', Extra) /\ Good(srvq, lens', Extra)
            BY <2>1, PipeFacts, GoodMore DEF EchoInv, EchoType
        <3>2. Requests' = Requests
            BY <1>1, <2>1, <2>2, LineFacts DEF Requests
        <3> QED
            BY <1>1, <1>3, <3>1, <3>2 DEF EchoInv, Pipe
    <2>9. Alone'
        BY <1>1, <1>2, <1>3, <1>4 DEF EchoInv, Alone
    <2>10. Exact' /\ InOrder'
        BY <1>1, <1>3, <2>3 DEF EchoInv, Exact, InOrder
    <2>11. Begins'
        <3> SUFFICES ASSUME NEW n \in Shown
                     PROVE  LET m == answers[n][1] IN
                               /\ m \in 1 .. n /\ Len(answers[n]) >= lens'[m]
                               /\ \A k \in 1 .. lens'[m] : answers[n][k] = m
            BY <1>1, <1>3 DEF Begins
        <3> DEFINE m == answers[n][1]
        <3>1. /\ m \in 1 .. n /\ Len(answers[n]) >= lens[m]
              /\ \A k \in 1 .. lens[m] : answers[n][k] = m
            BY DEF EchoInv, Begins
        <3>2. m \in 1 .. Len(lens)
            BY <3>1, LineFacts
        <3>3. lens'[m] = lens[m]
            BY <2>2, <3>2
        <3> QED
            BY <3>1, <3>3
    <2> QED
        BY <2>5, <2>6, <2>7, <2>8, <2>9, <2>10, <2>11 DEF EchoInv
<1> QED
    BY <1>5, <1>6 DEF Fgets

\* The line at hand is behind all others that are on their way.
LEMMA SendToKeeps ==
    ASSUME EchoInv, SendTo, program' = program
    PROVE  EchoInv'
<1> DEFINE N == Len(lens)
<1> DEFINE d == Datagram("client", Request)
<1>1. /\ cli = "sendto" /\ cli' = "recvfrom" /\ buff' = Cleared(buff, SendLen)
      /\ UNCHANGED <<srv, hand, cliq, lens, answers, strangers>>
    BY DEF SendTo
<1>2. \/ Room(srvq) /\ srvq' = Append(srvq, d) /\ UNCHANGED <<lost, refused>>
      \/ srvq' = srvq /\ Connected /\ refused' = TRUE /\ lost' = lost
      \/ srvq' = srvq /\ lost' = TRUE /\ refused' = refused
    BY DEF SendTo
<1>3. ~refused /\ Len(answers) + 1 = N /\ N \in 1 .. N /\ N \in Nat
    BY <1>1, LineFacts DEF EchoInv, Alone, Turns
<1>4. lens[N] \in Nat /\ lens[N] >= 1 /\ lens[N] <= MaxLen /\ MaxLen \in Nat /\ N <= MaxLines
    BY <1>3, LineFacts DEF EchoInv, EchoType
<1>5. SendLen = lens[N] + Extra /\ Extra \in {0, 1}
    BY DEF SendLen, Extra, line
<1>6. /\ \A k \in 1 .. lens[N] : buff[k] = N
      /\ buff[lens[N] + 1] = NUL
    BY <1>1 DEF EchoInv, Buffer
<1>7. /\ Request \in Seq(UNSET .. MaxLines) /\ Len(Request) = lens[N] + Extra
      /\ \A k \in 1 .. lens[N] + Extra : Request[k] = buff[k]
    <2>1. \A k \in 1 .. lens[N] + Extra : k \in Bytes
        BY <1>4, <1>5 DEF Bytes
    <2>2. \A k \in 1 .. lens[N] + Extra : buff[k] \in UNSET .. MaxLines
        BY <2>1 DEF EchoInv, EchoType
    <2> QED
        BY <1>4, <1>5, <2>2, SubSeqProperties DEF Request
<1>8. d \in Packets /\ d.text = Request /\ d.from # "stranger"
    BY <1>7 DEF Datagram, Packets, Froms
<1> HIDE DEF d
<1>9. \A k \in 1 .. lens[N] : k \in 1 .. lens[N] + Extra
    BY <1>4, <1>5
<1>10. Id(d) = N
    <2>1. 1 \in 1 .. lens[N]
        BY <1>4
    <2> QED
        BY <1>6, <1>7, <1>8, <1>9, <2>1 DEF Id
<1>11. Echo(d, lens, Extra)
    <2>1. Extra = 1 => lens[N] + 1 \in 1 .. lens[N] + Extra
        BY <1>4
    <2> QED
        BY <1>3, <1>6, <1>7, <1>8, <1>9, <1>10, <2>1 DEF Echo
<1>12. \A b \in InFlight : b \in Int /\ b < N
    <2>1. \A b \in InFlight : b <= N - 1
        BY <1>1 DEF EchoInv, Pipe, Requests
    <2>2. \A q \in {cliq, hand, srvq} : \A k \in Own(q) : Id(q[k]) \in 1 .. N
        BY PipeFacts DEF Good, Echo
    <2>3. \A b \in InFlight : b \in Int
        BY <2>2 DEF InFlight, Ids
    <2> QED
        BY <1>3, <2>1, <2>3
<1>13. /\ Good(srvq', lens, Extra) /\ Len(srvq') <= RcvBuf
       /\ Ids(srvq') \subseteq Ids(srvq) \cup {N}
       /\ refused' => Ids(srvq') = Ids(srvq)
    <2>1. CASE srvq' = srvq
        BY <2>1, PipeFacts
    <2>2. CASE Room(srvq) /\ srvq' = Append(srvq, d) /\ UNCHANGED <<lost, refused>>
        <3>1. \A a \in Ids(srvq) : a < Id(d)
            BY <1>10, <1>12 DEF InFlight
        <3>2. /\ Good(Append(srvq, d), lens, Extra) /\ Len(Append(srvq, d)) = Len(srvq) + 1
              /\ Ids(Append(srvq, d)) = Ids(srvq) \cup IF d.from # "stranger" THEN {Id(d)} ELSE {}
            BY <1>8, <1>11, <3>1, PipeFacts, GoodAppend
        <3>3. Len(srvq') <= RcvBuf
            BY <2>2, <3>2, PipeFacts DEF Room
        <3> QED
            BY <1>3, <1>8, <1>10, <2>2, <3>2, <3>3
    <2> QED
        BY <1>2, <2>1, <2>2
<1>14. InFlight' \subseteq InFlight \cup {N} /\ (refused' => InFlight' = InFlight)
    BY <1>1, <1>13 DEF InFlight
<1>15. Shown' = Shown /\ Extra' = Extra /\ (Connected' <=> Connected) /\ Requests' = N
    BY <1>1 DEF Shown, Extra, Connected, Requests
<1>16. \A n \in Shown : answers[n][1] \in Int /\ answers[n][1] < N
    <2>1. \A n \in Shown : answers[n][1] \in 1 .. n /\ n \in Nat /\ n < N
        BY <1>3, LineFacts DEF EchoInv, Begins
    <2> QED
        BY <1>3, <2>1
<1>17. Pipe'
    <2>1. Before(cliq, srvq') /\ Before(hand, srvq')
        BY <1>12, <1>13, PipeFacts DEF Before, InFlight
    <2>2. \A b \in InFlight' : b <= N /\ \A n \in Shown : answers[n][1] < b
        BY <1>3, <1>12, <1>14, <1>16 DEF EchoInv, Pipe
    <2> QED
        BY <1>1, <1>13, <1>15, <2>1, <2>2, PipeFacts DEF Pipe
<1>18. buff' \in [Bytes -> UNSET .. MaxLines] /\ \A k \in 1 .. lens[N] + 1 : buff'[k] = NUL
    <2>1. NUL \in UNSET .. MaxLines
        BY BoundAssumption DEF NUL, UNSET
    <2>2. buff' \in [Bytes -> UNSET .. MaxLines]
        BY <1>1, <2>1 DEF Cleared, EchoInv, EchoType
    <2>3. \A k \in 1 .. lens[N] + 1 : k \in Bytes
        BY <1>4 DEF Bytes
    <2>4. \A k \in 1 .. lens[N] + 1 : k <= SendLen \/ k = lens[N] + 1
        BY <1>4, <1>5
    <2>5. \A k \in Bytes : buff'[k] = IF k <= SendLen THEN NUL ELSE buff[k]
        BY <1>1 DEF Cleared
    <2> QED
        BY <1>6, <2>2, <2>3, <2>4, <2>5
<1>19. EchoType'
    <2>1. refused' \in BOOLEAN /\ lost' \in BOOLEAN
        BY <1>2, <1>3 DEF EchoInv, EchoType
    <2> QED
        BY <1>1, <1>13, <1>18, <2>1 DEF EchoInv, EchoType
<1>20. Turns' /\ Buffer'
    BY <1>1, <1>18 DEF EchoInv, Turns, Buffer
<1>21. Alone'
    <2>1. (Connected \/ strangers = 0) => InFlight = {}
        BY <1>1 DEF EchoInv, Alone
    <2>2. refused' => Connected
        BY <1>2, <1>3
    <2>3. Connected => \A k \in 1 .. Len(cliq) : cliq[k].from # "stranger"
        BY DEF EchoInv, Alone
    <2> QED
        BY <1>1, <1>14, <1>15, <2>1, <2>2, <2>3 DEF Alone
<1>22. Exact' /\ Begins' /\ InOrder'
    BY <1>1, <1>15 DEF EchoInv, Exact, Begins, InOrder
<1> QED
    BY <1>17, <1>19, <1>20, <1>21, <1>22 DEF EchoInv

\* ECONNREFUSED ends csc_echo_udp_connect; no datagram is on its way then.
LEMMA RecvFailKeeps ==
    ASSUME EchoInv, RecvFail, program' = program
    PROVE  EchoInv'
<1>1. /\ cli = "recvfrom" /\ refused /\ cli' = "exit" /\ refused' = FALSE
      /\ UNCHANGED <<srv, srvq, hand, cliq, lens, buff, answers, strangers, lost>>
    BY DEF RecvFail
<1>2. /\ Shown' = Shown /\ InFlight' = InFlight /\ Extra' = Extra /\ Requests' = Requests
      /\ (Connected' <=> Connected)
    BY <1>1 DEF Shown, InFlight, Extra, Requests, Connected
<1>3. InFlight = {}
    BY <1>1 DEF EchoInv, Alone
<1>4. EchoType' /\ Turns' /\ Buffer'
    BY <1>1 DEF EchoInv, EchoType, Turns, Buffer
<1>5. Pipe'
    BY <1>1, <1>2 DEF EchoInv, Pipe
<1>6. Alone'
    BY <1>1, <1>2, <1>3 DEF EchoInv, Alone
<1>7. Exact' /\ Begins' /\ InOrder'
    BY <1>1, <1>2 DEF EchoInv, Exact, Begins, InOrder
<1> QED
    BY <1>4, <1>5, <1>6, <1>7 DEF EchoInv

\* What is printed of an echo: all of it, and nothing else if it is the line at
\* hand.
LEMMA Printed ==
    ASSUME EchoInv, cli = "recvfrom", NEW d \in Packets, Echo(d, lens, Extra)
    PROVE  LET A == fputs(Received(d.text)) IN
           /\ A \in Seq(UNSET .. MaxLines) /\ Len(A) >= lens[Id(d)] /\ A # <<>> /\ A[1] = Id(d)
           /\ \A k \in 1 .. lens[Id(d)] : A[k] = Id(d)
           /\ Id(d) = Len(lens) => A = Text(Id(d), lens[Id(d)])
<1> DEFINE m == Id(d)
<1> DEFINE L == lens[m]
<1> DEFINE b == Received(d.text)
<1> DEFINE A == fputs(b)
<1>1. /\ m \in 1 .. Len(lens) /\ Len(d.text) = L + Extra
      /\ \A k \in 1 .. L : d.text[k] = m
      /\ Extra = 1 => d.text[L + 1] = NUL
    BY DEF Echo
<1>2. m \in Nat /\ m >= 1 /\ m <= Len(lens) /\ L \in Nat /\ L >= 1 /\ L <= MaxLen /\ MaxLen \in Nat
      /\ Extra \in {0, 1}
    BY <1>1, LineFacts DEF Extra
<1>3. d.text \in Seq(UNSET .. MaxLines)
    BY DEF Packets
<1>4. b \in [Bytes -> UNSET .. MaxLines]
    <2>1. \A k \in Bytes : k <= Len(d.text) => k \in 1 .. Len(d.text)
        BY <1>1, <1>2 DEF Bytes
    <2>2. \A k \in Bytes : k <= Len(d.text) => d.text[k] \in UNSET .. MaxLines
        BY <1>3, <2>1, ElementOfSeq
    <2> QED
        BY <2>2 DEF Received, EchoInv, EchoType
<1>5. \A k \in Bytes : b[k] = IF k <= Len(d.text) THEN d.text[k] ELSE buff[k]
    BY DEF Received
<1> HIDE DEF m, L, b, A
<1>6. \A k \in 1 .. L : k \in Bytes /\ k <= Len(d.text)
    BY <1>1, <1>2 DEF Bytes
<1>7. \A k \in 1 .. L : b[k] = m /\ b[k] # NUL
    BY <1>1, <1>2, <1>5, <1>6 DEF NUL
<1>8. L \in 0 .. MaxLen + 1
    BY <1>2
<1>9. /\ A \in Seq(UNSET .. MaxLines) /\ Len(A) \in Nat /\ Len(A) >= L
      /\ \A k \in 1 .. L : A[k] = b[k]
      /\ L <= MaxLen /\ b[L + 1] = NUL => Len(A) = L
    BY <1>4, <1>7, <1>8, FputsPrints DEF A
<1>10. 1 \in 1 .. L
    BY <1>2
<1>11. A # <<>>
    BY <1>2, <1>9, EmptySeq
<1>12. ASSUME m = Len(lens) PROVE A = Text(m, L)
    <2>1. L + 1 \in Bytes /\ L + 1 \in 1 .. L + 1
        BY <1>2 DEF Bytes
    <2>2. Extra = 0 => buff[L + 1] = NUL
        BY <1>12, <2>1 DEF EchoInv, Buffer, L
    <2>3. b[L + 1] = NUL
        BY <1>1, <1>2, <1>5, <2>1, <2>2
    <2>4. Len(A) = L
        BY <1>2, <1>9, <2>3
    <2>5. A = [k \in 1 .. L |-> A[k]]
        BY <1>9, <2>4, LenProperties
    <2>6. \A k \in 1 .. L : A[k] = m
        BY <1>7, <1>9
    <2>7. [k \in 1 .. L |-> A[k]] = [k \in 1 .. L |-> m]
        BY <2>6
    <2> QED
        BY <2>5, <2>7 DEF Text
<1> QED
    BY <1>7, <1>9, <1>10, <1>11, <1>12 DEF m, L, b, A

\* The client takes the earliest datagram.
LEMMA RecvFromKeeps ==
    ASSUME EchoInv, RecvFrom, program' = program
    PROVE  EchoInv'
<1> DEFINE N == Len(lens)
<1> DEFINE d == Head(cliq)
<1> DEFINE A == IF Accepted(d) THEN fputs(Received(d.text)) ELSE <<>>
<1>1. /\ cli = "recvfrom" /\ ~refused /\ cliq # <<>>
      /\ buff' = Received(d.text) /\ answers' = Append(answers, A)
      /\ strangers' = strangers + IF d.from = "stranger" THEN 1 ELSE 0
      /\ cli' = "fgets" /\ cliq' = Tail(cliq)
      /\ UNCHANGED <<srv, srvq, hand, refused, lens, lost>>
    BY DEF RecvFrom, AfterForeign
<1>2. /\ Good(Tail(cliq), lens, Extra) /\ Ids(Tail(cliq)) \subseteq Ids(cliq)
      /\ Len(Tail(cliq)) = Len(cliq) - 1 /\ Len(cliq) >= 1
      /\ d \in Packets /\ d = cliq[1]
      /\ \A k \in 1 .. Len(Tail(cliq)) : k + 1 \in 1 .. Len(cliq) /\ Tail(cliq)[k] = cliq[k + 1]
      /\ d.from # "stranger" =>
            /\ Echo(d, lens, Extra) /\ Id(d) \in Ids(cliq)
            /\ \A b \in Ids(Tail(cliq)) : Id(d) < b
    BY <1>1, PipeFacts, GoodTail
<1>3. Len(answers) + 1 = N /\ Len(answers) \in Nat /\ N \in Nat /\ N \in 1 .. N
    BY <1>1, LineFacts DEF EchoInv, Turns
<1>4. Connected => d.from # "stranger"
    <2>1. 1 \in 1 .. Len(cliq)
        BY <1>2, PipeFacts
    <2> QED
        BY <1>2, <2>1 DEF EchoInv, Alone
<1>5. Accepted(d) => d.from # "stranger"
    BY <1>4 DEF Accepted
<1> HIDE DEF d
<1>6. ASSUME Accepted(d)
      PROVE  /\ d.from # "stranger" /\ A \in Seq(UNSET .. MaxLines) /\ A # <<>>
             /\ Len(A) >= lens[Id(d)] /\ A[1] = Id(d)
             /\ \A k \in 1 .. lens[Id(d)] : A[k] = Id(d)
             /\ Id(d) = N => A = Text(Id(d), lens[Id(d)])
    BY <1>1, <1>2, <1>5, <1>6, Printed
<1>7. ~Accepted(d) => A = <<>>
    OBVIOUS
<1> HIDE DEF A
<1>8. A \in Seq(UNSET .. MaxLines)
    BY <1>6, <1>7, EmptySeq
<1>9. /\ answers' \in Seq(Seq(UNSET .. MaxLines)) /\ Len(answers') = N /\ answers'[N] = A
      /\ \A n \in 1 .. Len(answers) : answers'[n] = answers[n]
    BY <1>1, <1>3, <1>8, AppendProperties DEF EchoInv, EchoType
<1>10. Shown' = Shown \cup (IF Accepted(d) THEN {N} ELSE {})
    <2>1. \A n \in 1 .. N : n \in 1 .. Len(answers) \/ n = N
        BY <1>3
    <2>2. \A n \in 1 .. Len(answers) : n \in 1 .. N
        BY <1>3
    <2> QED
        BY <1>3, <1>6, <1>7, <1>9, <2>1, <2>2 DEF Shown
<1>11. \A n \in Shown : n \in 1 .. Len(answers) /\ answers'[n] = answers[n] /\ n \in Nat /\ n < N
    BY <1>3, <1>9, LineFacts
<1>12. Extra' = Extra /\ (Connected' <=> Connected) /\ Requests' = N /\ Requests = N
    BY <1>1 DEF Extra, Connected, Requests
<1>13. InFlight' \subseteq InFlight /\ Ids(cliq) \subseteq InFlight
    BY <1>1, <1>2 DEF InFlight
<1>14. d.from # "stranger" => \A b \in InFlight' : Id(d) < b
    BY <1>1, <1>2, PipeFacts DEF InFlight, Before
<1>15. d.from # "stranger" => Id(d) \in 1 .. N /\ \A n \in Shown : answers[n][1] < Id(d)
    BY <1>2, <1>13 DEF EchoInv, Pipe, Echo
<1>16. EchoType'
    <2>1. buff' \in [Bytes -> UNSET .. MaxLines]
        <3>1. d.text \in Seq(UNSET .. MaxLines)
            BY <1>2 DEF Packets
        <3>2. \A k \in Bytes : k <= Len(d.text) => k \in 1 .. Len(d.text)
            BY <3>1, LenProperties DEF Bytes
        <3>3. \A k \in Bytes : k <= Len(d.text) => d.text[k] \in UNSET .. MaxLines
            BY <3>1, <3>2, ElementOfSeq
        <3> QED
            BY <1>1, <3>3 DEF Received, EchoInv, EchoType
    <2>2. strangers' \in Nat
        BY <1>1 DEF EchoInv, EchoType
    <2>3. Len(cliq') <= RcvBuf
        BY <1>1, <1>2, PipeFacts
    <2> QED
        BY <1>1, <1>9, <2>1, <2>2, <2>3 DEF EchoInv, EchoType
<1>17. Turns' /\ Buffer'
    BY <1>1, <1>3, <1>9 DEF Turns, Buffer
<1>18. Pipe'
    <2>1. Before(cliq', hand) /\ Before(cliq', srvq)
        BY <1>1, <1>2, PipeFacts DEF Before
    <2>2. \A b \in InFlight' : b <= N
        BY <1>12, <1>13 DEF EchoInv, Pipe
    <2>3. ASSUME NEW b \in InFlight', NEW n \in Shown' PROVE answers'[n][1] < b
        <3>1. CASE n \in Shown
            BY <1>11, <1>13, <3>1 DEF EchoInv, Pipe
        <3>2. CASE n \notin Shown
            BY <1>6, <1>9, <1>10, <1>14, <3>2
        <3> QED
            BY <3>1, <3>2
    <2> QED
        BY <1>1, <1>2, <1>12, <2>1, <2>2, <2>3, PipeFacts DEF Pipe
<1>19. (Connected \/ strangers' = 0) => /\ Connected \/ strangers = 0
                                        /\ d.from # "stranger" /\ Id(d) = N
    <2>1. strangers' = 0 => strangers = 0 /\ d.from # "stranger"
        BY <1>1 DEF EchoInv, EchoType
    <2> QED
        BY <1>2, <1>4, <1>13, <2>1 DEF EchoInv, Alone
<1>20. Alone'
    <2>1. (Connected \/ strangers' = 0) => InFlight' = {}
        <3> SUFFICES ASSUME Connected \/ strangers' = 0, NEW b \in InFlight' PROVE FALSE
            OBVIOUS
        <3>1. b = N
            BY <1>13, <1>19 DEF EchoInv, Alone
        <3>2. N < b
            BY <1>14, <1>19
        <3> QED
            BY <1>3, <3>1, <3>2
    <2>2. Connected => \A k \in 1 .. Len(cliq') : cliq'[k].from # "stranger"
        BY <1>1, <1>2 DEF EchoInv, Alone
    <2> QED
        BY <1>1, <1>12, <2>1, <2>2 DEF Alone
<1>21. Exact'
    <2> SUFFICES ASSUME Connected \/ strangers' = 0, NEW n \in Shown'
                 PROVE  answers'[n] = Text(n, lens[n])
        BY <1>1 DEF Exact, Connected
    <2>1. CASE n \in Shown
        BY <1>11, <1>19, <2>1 DEF EchoInv, Exact, Connected
    <2>2. CASE n \notin Shown
        BY <1>6, <1>9, <1>10, <1>19, <2>2
    <2> QED
        BY <2>1, <2>2
<1>22. Begins'
    <2> SUFFICES ASSUME NEW n \in Shown'
                 PROVE  LET m == answers'[n][1] IN
                           /\ m \in 1 .. n /\ Len(answers'[n]) >= lens[m]
                           /\ \A k \in 1 .. lens[m] : answers'[n][k] = m
        BY <1>1 DEF Begins
    <2>1. CASE n \in Shown
        BY <1>11, <2>1 DEF EchoInv, Begins
    <2>2. CASE n \notin Shown
        BY <1>6, <1>9, <1>10, <1>15, <2>2
    <2> QED
        BY <2>1, <2>2
<1>23. InOrder'
    <2> SUFFICES ASSUME NEW n \in Shown', NEW m \in Shown', n < m
                 PROVE  answers'[n][1] < answers'[m][1]
        BY DEF InOrder
    <2>1. n \in Shown
        BY <1>3, <1>10, <1>11
    <2>2. CASE m \in Shown
        BY <1>11, <2>1, <2>2 DEF EchoInv, InOrder
    <2>3. CASE m \notin Shown
        BY <1>6, <1>9, <1>10, <1>11, <1>15, <2>1, <2>3
    <2> QED
        BY <2>2, <2>3
<1> QED
    BY <1>16, <1>17, <1>18, <1>20, <1>21, <1>22, <1>23 DEF EchoInv

------------------------------------------------------------------------------
\* Nothing is printed and nothing is on its way when the programs start.
LEMMA AnswersInit == Init => AnswersInv
<1> SUFFICES ASSUME Init PROVE AnswersInv
    OBVIOUS
<1>1. CountInv
    BY CountInit
<1>2. /\ srvq = <<>> /\ hand = <<>> /\ cliq = <<>> /\ lens = <<>> /\ answers = <<>>
      /\ refused = FALSE /\ lost = FALSE /\ strangers = 0 /\ sent = 0 /\ cout = 0 /\ shown = NONE
    BY DEF Init, cout0
<1>3. Len(<<>>) = 0 /\ \A S : <<>> \in Seq(S)
    BY EmptySeq
<1>4. buff \in [Bytes -> UNSET .. MaxLines]
    <2>1. UNSET \in UNSET .. MaxLines /\ NUL \in UNSET .. MaxLines
        BY BoundAssumption DEF UNSET, NUL
    <2> QED
        BY <2>1 DEF Init
<1>5. ASSUME program \in Echoes PROVE EchoInv
    <2>1. cli \in {"fgets", "exit"} /\ srv \in {"select", "recv", "down"}
        BY <1>5 DEF Init, Start, Echoes
    <2>2. EchoType
        <3>1. lens \in Seq(1 .. MaxLen) /\ answers \in Seq(Seq(UNSET .. MaxLines))
            BY <1>2, <1>3
        <3>2. Len(srvq) = 0 /\ Len(cliq) = 0 /\ Len(hand) = 0 /\ Len(lens) = 0
            BY <1>2, <1>3
        <3>3. /\ Len(srvq) <= RcvBuf /\ Len(cliq) <= RcvBuf /\ Len(lens) <= MaxLines
              /\ Len(hand) = IF srv = "send" THEN 1 ELSE 0
            BY <2>1, <3>2, BufAssumption, BoundAssumption
        <3>4. refused \in BOOLEAN /\ lost \in BOOLEAN /\ strangers \in Nat
            BY <1>2
        <3> QED
            BY <1>4, <2>1, <3>1, <3>3, <3>4 DEF EchoType
    <2>3. Shown = {}
        BY <1>2, <1>3 DEF Shown
    <2>4. /\ Good(cliq, lens, Extra) /\ Good(hand, lens, Extra) /\ Good(srvq, lens, Extra)
          /\ Ids(cliq) = {} /\ Ids(hand) = {} /\ Ids(srvq) = {}
        BY <1>2, GoodEmpty
    <2>5. Pipe
        BY <2>4 DEF Pipe, Before, InFlight
    <2>6. Turns /\ Buffer /\ Alone
        BY <1>2, <1>3, <2>1, <2>4 DEF Turns, Buffer, Alone, InFlight
    <2> QED
        BY <1>5, <2>2, <2>3, <2>5, <2>6 DEF EchoInv, Exact, Begins, InOrder
<1>6. ASSUME program = "overflow" PROVE SilentInv
    BY <1>2, <1>3, <1>4, <1>6, BufAssumption DEF SilentInv, Init
<1> QED
    BY <1>1, <1>2, <1>5, <1>6 DEF AnswersInv

\* Every step of the echo programs, of the kernel and of other processes keeps
\* the invariant.
LEMMA EchoesStep ==
    ASSUME EchoInv, CountInv, [Next]_vars
    PROVE  EchoInv'
<1>1. program' = program /\ program \in Echoes /\ program # "overflow"
    BY DEF Next, vars, EchoInv, Echoes
<1>2. srv # "count"
    BY <1>1 DEF CountInv, CountTypeOK
<1>3. CASE UNCHANGED vars
    <2>1. /\ UNCHANGED <<program, clientVars, srv, srvq, hand, cliq, lost>>
        BY <1>3 DEF vars
    <2>2. /\ srv' \in {"select", "recv", "send", "down"} /\ lost' \in BOOLEAN
          /\ Len(hand') = IF srv' = "send" THEN 1 ELSE 0
          /\ Connected => \A k \in 1 .. Len(cliq') : cliq'[k].from # "stranger"
        BY <2>1 DEF EchoInv, EchoType, Alone
    <2>3. Ids(cliq') \cup Ids(hand') \cup Ids(srvq') \subseteq InFlight
        BY <2>1 DEF InFlight
    <2> QED
        BY <2>1, <2>2, <2>3, PipeFacts, ServersKeep
<1>4. CASE ClientStep
    BY <1>1, <1>4, SendToKeeps, RecvFromKeeps, RecvFailKeeps DEF ClientStep, SendOne
<1>5. CASE ServerStep
    BY <1>1, <1>2, <1>5, PlaceKeeps, ReceiveKeeps, ReplyKeeps DEF ServerStep, TakeOne, Count
<1>6. CASE Environment
    BY <1>1, <1>6, FgetsKeeps, KillKeeps, PlaceKeeps, StrangersKeep DEF Environment, print_msg_cout
<1> QED
    BY <1>3, <1>4, <1>5, <1>6 DEF Next

\* The overflow programs neither read lines nor print echoes.
LEMMA SilentStep ==
    ASSUME SilentInv, CountInv, [Next]_vars, program = "overflow"
    PROVE  SilentInv'
<1>1. program \notin Echoes /\ srv \in {"recv", "count", "down"} /\ sent \in Nat
      /\ Len(srvq) \in Nat /\ RcvBuf \in Nat /\ MSG_NUM \in Nat
    BY LenProperties, BufAssumption DEF Echoes, CountInv, CountTypeOK, SilentInv
<1>2. CASE SendOne
    <2>1. Datagram("client", <<>>) \in Overflowing
        BY DEF Overflowing
    <2>2. srvq' \in Seq(Overflowing) /\ Len(srvq') <= RcvBuf
        <3>1. CASE srvq' = srvq
            BY <3>1 DEF SilentInv
        <3>2. CASE srvq' = Append(srvq, Datagram("client", <<>>)) /\ Room(srvq)
            BY <1>1, <2>1, <3>2, AppendLen DEF SilentInv, Room
        <3> QED
            BY <1>2, <3>1, <3>2 DEF SendOne
    <2>3. sent' \in Nat /\ sent' <= MSG_NUM
        BY <1>1, <1>2 DEF SendOne, SilentInv
    <2> QED
        BY <1>2, <2>2, <2>3 DEF SendOne, SilentInv
<1>3. CASE TakeOne
    <2>1. srvq' \in Seq(Overflowing) /\ Len(srvq') = Len(srvq) - 1
        BY <1>3, TailLen DEF TakeOne, SilentInv
    <2>2. Len(srvq') <= RcvBuf
        BY <1>1, <2>1 DEF SilentInv
    <2> QED
        BY <1>3, <2>1, <2>2 DEF TakeOne, SilentInv, clientVars
<1>4. CASE print_msg_cout
    <2>1. srvq' \in Seq(Overflowing) /\ Len(srvq') <= RcvBuf
        BY <1>1, <1>4, EmptySeq DEF print_msg_cout
    <2> QED
        BY <1>4, <2>1 DEF print_msg_cout, SilentInv, clientVars
<1>5. CASE Count \/ UNCHANGED vars
    BY <1>5 DEF Count, vars, SilentInv, clientVars, overflowVars
<1>6. CASE Fgets \/ RecvFrom \/ RecvFail
    BY <1>6 DEF Fgets, RecvFrom, RecvFail, SilentInv
<1>7. CASE SendTo \/ Receive \/ Kill \/ Restart \/ ForeignToClient \/ ForeignToServer \/ Select \/ Reply
    BY <1>1, <1>7 DEF SendTo, Receive, Kill, Restart, ForeignToClient, ForeignToServer, Select, Reply
<1> QED
    BY <1>2, <1>3, <1>4, <1>5, <1>6, <1>7 DEF Next, ClientStep, ServerStep, Environment

\* The echo programs leave the count of css_udp_overflow alone.
LEMMA EchoesDoNotCount ==
    ASSUME CountInv, [Next]_vars, program \in Echoes
    PROVE  cout' = cout /\ shown' = shown
<1>1. program # "overflow" /\ srv # "count"
    BY DEF CountInv, CountTypeOK, Echoes
<1>2. CASE UNCHANGED vars
    BY <1>2 DEF vars, overflowVars
<1>3. CASE ClientStep
    BY <1>1, <1>3 DEF ClientStep, SendTo, RecvFrom, RecvFail, SendOne, overflowVars
<1>4. CASE ServerStep
    BY <1>1, <1>4 DEF ServerStep, Select, Receive, Reply, TakeOne, Count, overflowVars
<1>5. CASE Environment
    BY <1>1, <1>5 DEF Environment, Fgets, Kill, Restart, ForeignToClient, ForeignToServer,
                      print_msg_cout, overflowVars
<1> QED
    BY <1>2, <1>3, <1>4, <1>5 DEF Next

\* The invariant of all three pairs of programs.
LEMMA AnswersInvHolds == Spec => []AnswersInv
<1>1. AnswersInv /\ [Next]_vars => AnswersInv'
    <2> SUFFICES ASSUME AnswersInv, [Next]_vars PROVE AnswersInv'
        OBVIOUS
    <2>1. CountInv /\ CountInv' /\ program' = program
        BY EchoStep, OverflowStep DEF AnswersInv, Next, vars
    <2>2. program \in Echoes => EchoInv' /\ cout' = 0 /\ shown' = NONE
        BY <2>1, EchoesStep, EchoesDoNotCount DEF AnswersInv
    <2>3. program = "overflow" => SilentInv'
        BY <2>1, SilentStep DEF AnswersInv
    <2> QED
        BY <2>1, <2>2, <2>3 DEF AnswersInv
<1> QED
    BY <1>1, AnswersInit, PTL DEF Spec

\* However many lines are typed, however long they are, whatever is lost and
\* whoever else sends datagrams: csc_echo_udp_connect prints after each line
\* that line or nothing, and so does csc_echo_udp until it has taken a
\* stranger's datagram; from then on an echo may come late and be followed by
\* what the buffer held, but begins with a whole line, each at most once and in
\* order.
THEOREM EchoesInOrder == Spec => []AnswersInOrder
<1>1. AnswersInv => AnswersInOrder
    <2> SUFFICES ASSUME AnswersInv PROVE AnswersInOrder
        OBVIOUS
    <2>1. CASE program \in Echoes
        <3>1. EchoInv /\ cout = 0 /\ shown = NONE
            BY <2>1 DEF AnswersInv
        <3>2. TypeOK
            <4>1. \A n \in 1 .. Len(lens) : lens[n] \in 1 .. MaxLen
                BY <3>1, LineFacts
            <4>2. 0 \in 0 .. MSG_NUM /\ NONE \in NONE .. MSG_NUM
                BY BufAssumption DEF NONE
            <4>3. Len(hand) <= 1
                BY <3>1 DEF EchoInv, EchoType
            <4> QED
                BY <3>1, <4>1, <4>2, <4>3 DEF EchoInv, EchoType, Turns, TypeOK, line
        <3> QED
            BY <3>1, <3>2 DEF EchoInv, Exact, Begins, InOrder, AnswersInOrder
    <2>2. CASE program = "overflow"
        <3>1. SilentInv /\ CountInv
            BY <2>2 DEF AnswersInv
        <3>2. Len(<<>>) = 0
            BY EmptySeq
        <3>3. Shown = {}
            BY <3>1, <3>2 DEF SilentInv, Shown
        <3>4. cout \in 0 .. MSG_NUM /\ shown \in NONE .. MSG_NUM
            <4>1. Len(srvq) \in Nat /\ sent <= MSG_NUM /\ MSG_NUM \in Nat
                BY <3>1, LenProperties, BufAssumption DEF SilentInv
            <4>2. cout \in Nat /\ cout <= taken /\ taken \in Nat /\ taken <= sent /\ sent \in Nat
                BY <2>2, <3>1, <4>1 DEF CountInv, CountTypeOK, Flow, Lag
            <4>3. shown = NONE \/ shown = cout
                BY <2>2, <3>1 DEF CountInv, CountTypeOK, Lag
            <4> QED
                BY <4>1, <4>2, <4>3 DEF NONE
        <3>5. TypeOK
            <4>1. Len(cliq) = 0 /\ Len(hand) = 0 /\ Len(lens) = 0 /\ Len(answers) = 0
                BY <3>1, <3>2 DEF SilentInv
            <4>2. srv \in {"recv", "count", "down"}
                BY <2>2, <3>1 DEF CountInv, CountTypeOK
            <4>3. Len(cliq) <= RcvBuf /\ Len(hand) <= 1 /\ Len(lens) <= MaxLines /\ Len(answers) <= Len(lens)
                BY <4>1, BoundAssumption, BufAssumption
            <4>4. \A n \in 1 .. Len(lens) : lens[n] \in 1 .. MaxLen
                BY <4>1
            <4> QED
                BY <3>1, <3>4, <4>2, <4>3, <4>4 DEF SilentInv, TypeOK, line
        <3> QED
            BY <3>3, <3>5 DEF AnswersInOrder
    <2> QED
        BY <2>1, <2>2 DEF AnswersInv, CountInv
<1> QED
    BY <1>1, AnswersInvHolds, PTL
==============================================================================
