----------------------------- MODULE EchoService -----------------------------
(***************************************************************************)
(* What the single-threaded echo servers of io/ promise their clients,     *)
(* whatever tables they keep and whatever system call they wait in:        *)
(* connections are admitted in the order in which they came, the server    *)
(* has the bytes of one client in hand at a time and gives them to that    *)
(* client before it takes others, and it drops a connection only after the *)
(* client has finished and every byte of its is written back.  It may      *)
(* stop, but loses bytes in hand only to a reset.                          *)
(***************************************************************************)
EXTENDS Integers, Sequences

CONSTANTS
    Conns,     \* connections
    MAXLINE,   \* bytes the server takes at a time
    NULL

VARIABLES
    queue,     \* connections that wait to be admitted
    open,      \* connections admitted and not dropped
    line,      \* connection -> what both sides have done with it
    hand,      \* the bytes in hand: whose, and how many
    up         \* whether the server runs

vars == <<queue, open, line, hand, up>>

Nothing == [conn |-> NULL, n |-> 0]

Init ==
    /\ queue = <<>> /\ open = {}
    /\ line = [c \in Conns |-> [made |-> FALSE, sent |-> 0, back |-> 0,
                                fin |-> FALSE, rst |-> FALSE]]
    /\ hand = Nothing /\ up = TRUE

------------------------------------------------------------------------------
\* The clients

Connect(c) ==
    /\ ~line[c].made
    /\ line' = [line EXCEPT ![c].made = TRUE]
    /\ queue' = Append(queue, c)

Use(c) ==
    /\ line[c].made /\ ~line[c].rst
    /\ \/ ~line[c].fin /\ line' = [line EXCEPT ![c].sent = @ + 1]
       \/ ~line[c].fin /\ line' = [line EXCEPT ![c].fin = TRUE]
       \/ line' = [line EXCEPT ![c].rst = TRUE]
    /\ UNCHANGED queue

ClientStep ==
    /\ \E c \in Conns : Connect(c) \/ Use(c)
    /\ UNCHANGED <<open, hand, up>>

------------------------------------------------------------------------------
\* The server

Admit ==
    /\ hand = Nothing /\ queue # <<>>
    /\ open' = open \cup {Head(queue)} /\ queue' = Tail(queue)
    /\ UNCHANGED <<line, hand, up>>

\* What was sent and not written back is still to be taken, as nothing is in
\* hand.
Take ==
    /\ hand = Nothing
    /\ \E c \in open, n \in 1 .. MAXLINE :
          n <= line[c].sent - line[c].back /\ hand' = [conn |-> c, n |-> n]
    /\ UNCHANGED <<queue, open, line, up>>

Give ==
    /\ hand # Nothing /\ hand.conn \in open /\ ~line[hand.conn].rst
    /\ \E k \in 1 .. hand.n :
          /\ line' = [line EXCEPT ![hand.conn].back = @ + k]
          /\ hand' = IF k = hand.n THEN Nothing ELSE [hand EXCEPT !.n = @ - k]
    /\ UNCHANGED <<queue, open, up>>

Drop ==
    /\ hand = Nothing
    /\ \E c \in open :
          /\ line[c].fin /\ ~line[c].rst /\ line[c].back = line[c].sent
          /\ open' = open \ {c}
    /\ UNCHANGED <<queue, line, hand, up>>

Stop ==
    /\ hand = Nothing \/ line[hand.conn].rst
    /\ up' = FALSE /\ hand' = Nothing
    /\ UNCHANGED <<queue, open, line>>

ServerStep == up /\ (Admit \/ Take \/ Give \/ Drop \/ Stop)

Next == ServerStep \/ ClientStep

Spec == Init /\ [][Next]_vars
==============================================================================
