------------------------------ MODULE Datagrams ------------------------------
(***************************************************************************)
(* The UDP programs, in pairs:                                             *)
(*   udp           csc_echo_udp          with css_echo_udp                 *)
(*   udp_connect   csc_echo_udp_connect  with css_echo_udp_connect         *)
(*   overflow      csc_udp_overflow      with css_udp_overflow             *)
(* program is the pair that runs.  All of them use the loopback interface, *)
(* which neither reorders nor duplicates: sendto puts a datagram into the  *)
(* receive buffer of the socket it is for, or it is lost, because the      *)
(* buffer is full, nobody has the port, or the receiver is killed before   *)
(* it has read it.  Other processes may send to either socket.             *)
(*   srv   select, recv, send   where an echo server stands                *)
(*         recv, count          where css_udp_overflow stands              *)
(*         down                 not running                                *)
(*   cli   fgets, sendto, recvfrom, done, exit                             *)
(* Line n is the byte n, written as often as the line is long.             *)
(***************************************************************************)
EXTENDS Integers, Sequences

CONSTANTS
    RcvBuf,       \* datagrams a receive buffer holds
    MSG_NUM,      \* datagrams csc_udp_overflow sends (1000 in the code)
    MaxLines,     \* bound: lines typed
    MaxLen,       \* bound: bytes of a line or of another process's datagram
    MaxForeign,   \* bound: datagrams of other processes
    MaxKills      \* bound: how often the echo server is killed

ASSUME BufAssumption   == RcvBuf \in Nat \ {0} /\ MSG_NUM \in Nat
ASSUME BoundAssumption ==
    /\ MaxLines \in Nat /\ MaxLen \in Nat \ {0}
    /\ MaxForeign \in Nat /\ MaxKills \in Nat

VARIABLES
    program,
    route,               \* replies carry the address the client asked
    srv, srvq, hand,     \* server: place, receive buffer, request in hand
    cli, cliq, refused,  \* client: place, receive buffer, ICMP error pending
    lens,                \* the lengths of the lines read from stdin so far
    buff,                \* the buffer for lines and replies
    answers,             \* what was printed after each line sent
    strangers,           \* foreign datagrams the client took
    lost,                \* a request or a reply was lost
    foreign, kills,      \* foreign datagrams sent, kills
    sent, taken, dropped,   \* overflow: datagrams sent, received, lost
    cout, shown             \* css_udp_overflow: its count, and what it printed

faultVars    == <<foreign, kills>>
overflowVars == <<sent, taken, dropped, cout, shown>>
clientVars   == <<cli, refused, lens, buff, answers, strangers>>
vars == <<program, route, srv, srvq, hand, clientVars, cliq, lost, faultVars, overflowVars>>

NONE    == -1     \* css_udp_overflow has printed nothing
NUL     == 0
FOREIGN == -1     \* a byte of another process
UNSET   == -2     \* a byte of buff that was never written
Bytes   == 1 .. MaxLen + 1
line    == Len(lens)
Echoes  == {"udp", "udp_connect"}
Start   == IF program = "udp_connect" THEN "select" ELSE "recv"

\* Mutant: cout is not initialised with 0.
cout0_One == 1

cout0 == 0

\* buff is uninitialised.  getsockname in csc_echo_udp_connect is given an
\* uninitialised length and may fail.  The echo server may be started after the client.
Init ==
    /\ program \in Echoes \cup {"overflow"}
    /\ route \in BOOLEAN
    /\ srv \in {Start} \cup IF program \in Echoes THEN {"down"} ELSE {}
    /\ cli \in IF program = "overflow" THEN {"sendto"}
               ELSE IF program = "udp_connect" THEN {"fgets", "exit"} ELSE {"fgets"}
    /\ srvq = <<>> /\ hand = <<>> /\ cliq = <<>> /\ refused = FALSE
    /\ lens = <<>> /\ buff \in {[k \in Bytes |-> b] : b \in {UNSET, NUL}}
    /\ answers = <<>> /\ strangers = 0 /\ lost = FALSE
    /\ foreign = 0 /\ kills = 0
    /\ sent = 0 /\ taken = 0 /\ dropped = 0 /\ cout = cout0 /\ shown = NONE

------------------------------------------------------------------------------
\* Delivery

Datagram(from, text) == [from |-> from, text |-> text]
Text(n, len) == [k \in 1 .. len |-> n]
Room(q) == Len(q) < RcvBuf

\* Mutant: connect is left out.
Connected_Not == FALSE

\* The client's socket is connected: the kernel passes on what comes from that
\* address only, and reports a port that nobody has.
Connected == program = "udp_connect"

\* A datagram for the client.
ToClient(d) ==
    IF ~Room(cliq) \/ cli \in {"done", "exit"}
    THEN lost' = TRUE /\ UNCHANGED cliq
    ELSE cliq' = Append(cliq, d) /\ UNCHANGED lost

------------------------------------------------------------------------------
\* The echo clients: main, and sendto_recvfrom_fputs (_after_connect)

\* fgets ends the line with a NUL and leaves the rest of buff as it is.
Filled(len) == [k \in Bytes |-> IF k <= len THEN line + 1 ELSE IF k = len + 1 THEN NUL ELSE buff[k]]

Fgets ==
    /\ cli = "fgets"
    /\ \/ \E len \in 1 .. MaxLen :
            /\ line < MaxLines /\ lens' = Append(lens, len) /\ buff' = Filled(len)
            /\ cli' = "sendto"
       \/ cli' = "done" /\ UNCHANGED <<lens, buff>>
    /\ UNCHANGED <<srv, srvq, hand, cliq, refused, answers, strangers, lost, faultVars, overflowVars>>

\* len is strlen(buff), and one more in csc_echo_udp_connect, which sends the NUL.
SendLen == lens[line] + IF program = "udp_connect" THEN 1 ELSE 0
Request == SubSeq(buff, 1, SendLen)

\* bzero(buff, len)
Cleared(b, len) == [k \in Bytes |-> IF k <= len THEN NUL ELSE b[k]]

SendTo ==
    /\ program \in Echoes /\ cli = "sendto"
    /\ cli' = "recvfrom" /\ buff' = Cleared(buff, SendLen)
    /\ IF srv # "down" /\ Room(srvq)
       THEN srvq' = Append(srvq, Datagram("client", Request)) /\ UNCHANGED <<lost, refused>>
       ELSE /\ UNCHANGED srvq
            /\ IF srv = "down" /\ Connected
               THEN refused' = TRUE /\ UNCHANGED lost
               ELSE lost' = TRUE /\ UNCHANGED refused
    /\ UNCHANGED <<srv, hand, cliq, lens, answers, strangers, faultVars, overflowVars>>

\* Mutant: the client waits for another datagram after a foreign one.
AfterForeign_Again == "recvfrom"

AfterForeign == "fgets"

\* The datagram is from the address that was asked (memcmp), or connect has made
\* sure of it.
Accepted(d) == Connected \/ d.from = "asked"

\* recvfrom ends the text with no NUL, fputs prints what is before the first one.
Received(text) == [k \in Bytes |-> IF k <= Len(text) THEN text[k] ELSE buff[k]]
fputs(b) == SubSeq(b, 1, CHOOSE n \in 0 .. MaxLen + 1 :
                             /\ \A k \in 1 .. n : b[k] # NUL
                             /\ n = MaxLen + 1 \/ b[n + 1] = NUL)

RecvFrom ==
    /\ cli = "recvfrom" /\ ~refused /\ cliq # <<>>
    /\ LET d == Head(cliq) IN
       /\ buff' = Received(d.text)
       /\ answers' = Append(answers, IF Accepted(d) THEN fputs(Received(d.text)) ELSE <<>>)
       /\ strangers' = strangers + IF d.from = "stranger" THEN 1 ELSE 0
       /\ cli' = IF Accepted(d) THEN "fgets" ELSE AfterForeign
    /\ cliq' = Tail(cliq)
    /\ UNCHANGED <<srv, srvq, hand, refused, lens, lost, faultVars, overflowVars>>

RecvFail ==
    /\ cli = "recvfrom" /\ refused
    /\ cli' = "exit" /\ refused' = FALSE
    /\ UNCHANGED <<srv, srvq, hand, cliq, lens, buff, answers, strangers, lost, faultVars, overflowVars>>

------------------------------------------------------------------------------
\* The echo servers: main, udp_echo and udp_echo_connect

Select ==
    /\ srv = "select" /\ srvq # <<>>
    /\ srv' = "recv"
    /\ UNCHANGED <<srvq, hand, clientVars, cliq, lost, faultVars, overflowVars>>

Receive ==
    /\ program \in Echoes /\ srv = "recv" /\ srvq # <<>>
    /\ hand' = <<Head(srvq)>> /\ srvq' = Tail(srvq)
    /\ srv' = "send"
    /\ UNCHANGED <<clientVars, cliq, lost, faultVars, overflowVars>>

\* The reply leaves from the address of the route back to the client.  That is
\* not 127.0.0.2, which csc_echo_udp asks, unless the host is set up so.
Reply ==
    /\ srv = "send"
    /\ IF hand[1].from = "client"
       THEN ToClient(Datagram(IF Connected \/ route THEN "asked" ELSE "other", hand[1].text))
       ELSE UNCHANGED <<cliq, lost>>
    /\ hand' = <<>>
    /\ srv' = Start
    /\ UNCHANGED <<srvq, clientVars, faultVars, overflowVars>>

------------------------------------------------------------------------------
\* csc_udp_overflow and css_udp_overflow

SendOne ==
    /\ program = "overflow" /\ cli = "sendto"
    /\ IF sent = MSG_NUM
       THEN cli' = "done" /\ UNCHANGED <<srvq, sent, dropped>>
       ELSE /\ sent' = sent + 1
            /\ IF srv # "down" /\ Room(srvq)
               THEN srvq' = Append(srvq, Datagram("client", <<>>)) /\ UNCHANGED dropped
               ELSE dropped' = dropped + 1 /\ UNCHANGED srvq
            /\ UNCHANGED cli
    /\ UNCHANGED <<srv, hand, cliq, refused, lens, buff, answers, strangers, lost, faultVars, taken, cout, shown>>

TakeOne ==
    /\ program = "overflow" /\ srv = "recv" /\ srvq # <<>>
    /\ srvq' = Tail(srvq) /\ taken' = taken + 1
    /\ srv' = "count"
    /\ UNCHANGED <<hand, clientVars, cliq, lost, faultVars, sent, dropped, cout, shown>>

Count ==
    /\ srv = "count"
    /\ cout' = cout + 1
    /\ srv' = "recv"
    /\ UNCHANGED <<srvq, hand, clientVars, cliq, lost, faultVars, sent, taken, dropped, shown>>

\* The handler of SIGINT runs at any moment and ends the process, which loses
\* what is still in its buffer.
print_msg_cout ==
    /\ program = "overflow" /\ srv # "down"
    /\ shown' = cout
    /\ srv' = "down" /\ srvq' = <<>> /\ dropped' = dropped + Len(srvq)
    /\ UNCHANGED <<hand, clientVars, cliq, lost, faultVars, sent, taken, cout>>

------------------------------------------------------------------------------
\* Other processes, and the fate of the echo servers

OfClient(q) == \E k \in 1 .. Len(q) : q[k].from = "client"

Kill ==
    /\ program \in Echoes /\ srv # "down" /\ kills < MaxKills
    /\ srv' = "down" /\ srvq' = <<>> /\ hand' = <<>> /\ kills' = kills + 1
    /\ lost' = (lost \/ OfClient(srvq) \/ OfClient(hand))
    /\ UNCHANGED <<clientVars, cliq, foreign, overflowVars>>

Restart ==
    /\ program \in Echoes /\ srv = "down"
    /\ srv' = Start
    /\ UNCHANGED <<srvq, hand, clientVars, cliq, lost, faultVars, overflowVars>>

ForeignToClient ==
    /\ program \in Echoes /\ line > 0 /\ foreign < MaxForeign
    /\ foreign' = foreign + 1
    /\ cliq' = IF Connected \/ ~Room(cliq) THEN cliq
               ELSE Append(cliq, Datagram("stranger", Text(FOREIGN, MaxLen)))
    /\ UNCHANGED <<srv, srvq, hand, clientVars, lost, kills, overflowVars>>

ForeignToServer ==
    /\ program \in Echoes /\ srv # "down" /\ foreign < MaxForeign
    /\ foreign' = foreign + 1
    /\ srvq' = IF Room(srvq) THEN Append(srvq, Datagram("stranger", Text(FOREIGN, MaxLen))) ELSE srvq
    /\ UNCHANGED <<srv, hand, clientVars, cliq, lost, kills, overflowVars>>

------------------------------------------------------------------------------
ClientStep == SendTo \/ RecvFrom \/ RecvFail \/ SendOne
ServerStep == Select \/ Receive \/ Reply \/ TakeOne \/ Count
Environment ==
    Fgets \/ Kill \/ Restart \/ ForeignToClient \/ ForeignToServer \/ print_msg_cout

Next == (ClientStep \/ ServerStep \/ Environment) /\ UNCHANGED <<program, route>>

Spec == Init /\ [][Next]_vars

\* Processes run when their call can return.  Nothing is asked of the user, nor
\* that anybody restarts a server.
FairSpec ==
    /\ Spec
    /\ WF_vars(ClientStep /\ UNCHANGED <<program, route>>)
    /\ WF_vars(ServerStep /\ UNCHANGED <<program, route>>)

------------------------------------------------------------------------------
TypeOK ==
    /\ srv \in {"select", "recv", "send", "count", "down"}
    /\ cli \in {"fgets", "sendto", "recvfrom", "done", "exit"}
    /\ Len(srvq) <= RcvBuf /\ Len(cliq) <= RcvBuf /\ Len(hand) <= 1
    /\ line <= MaxLines /\ \A n \in 1 .. line : lens[n] \in 1 .. MaxLen
    /\ buff \in [Bytes -> UNSET .. MaxLines] /\ Len(answers) <= line
    /\ refused \in BOOLEAN /\ lost \in BOOLEAN
    /\ cout \in 0 .. MSG_NUM /\ shown \in NONE .. MSG_NUM

Shown == {n \in 1 .. Len(answers) : answers[n] # <<>>}

\* A client that has not spent a recvfrom on a stranger's datagram prints every
\* line exactly as it was sent, or nothing, whatever is lost when the server is
\* killed; csc_echo_udp_connect always does.  Afterwards every echo of
\* csc_echo_udp may come one line or more too late, and a longer one may be
\* followed by what an earlier datagram left in the buffer, the stranger's text
\* and uninitialised memory included; but it still begins with the whole echo of
\* a line it has sent, each at most once and in order.
AnswersInOrder ==
    /\ TypeOK
    /\ (program = "udp_connect" \/ strangers = 0) =>
          \A n \in Shown : answers[n] = Text(n, lens[n])
    /\ \A n \in Shown : LET m == answers[n][1] IN
          /\ m \in 1 .. n /\ Len(answers[n]) >= lens[m]
          /\ \A k \in 1 .. lens[m] : answers[n][k] = m
    /\ \A n, m \in Shown : n < m => answers[n][1] < answers[m][1]

\* A client waits for ever only if a datagram was lost.  A server that is not
\* running when the line is sent loses it for csc_echo_udp, but ends
\* csc_echo_udp_connect.
Answered == cli = "recvfrom" ~> (cli # "recvfrom" \/ lost)

\* What css_udp_overflow prints when it is interrupted misses no datagram but
\* those the kernel dropped, and the one it may just have received.
CountExact ==
    shown # NONE => shown + dropped \in {sent - 1, sent}
==============================================================================
