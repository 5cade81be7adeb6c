# TLA+ models of serversidedev

The repository is a collection of small server-side programs in C++: a
producer/consumer buffer, echo servers built on `select`, `poll`, `epoll` and
`fork` and their clients, counters shared by threads, a quicksort, UDP and
daytime programs, and helper functions.  This directory holds TLA+ models of the programs that have
concurrency, failure handling or an algorithm of their own, the TLC
configurations that check them, and TLAPS proofs of every safety property the
runs check, refinements included.

Every module names the source it models in its header.  `PROJECT.json` maps each
definition to source lines, lists the runs, the mutants that show each property
can fail, the findings, the hazards and the theorems.

    tlc -workers 2 -config ConcurrentArray.cfg ConcurrentArray
    tlapm ConcurrentArrayProofs.tla

## Inventory

| component | state | operations | what is hard | what makes it correct |
|---|---|---|---|---|
| `pthread/concurrent_array.cpp` | ring of pointers, two indices, mutex, two condition variables, two ticket counters | `append`, `get`, `produce_thread`, `consume_thread`, `main` | full and empty told apart by slot 0 alone; signals lost or overtaken; spurious wake-ups; tickets drawn outside the mutex | no product lost, doubled or overwritten; the asserts hold; FIFO order; `main` returns |
| `io/css_echo_select.cpp` | `allset`, `rset`, `maxfd`, `clifds`, `maxi`, `fdnum` | the loop of `main`: select, accept, read, write, close | five tables kept in step by hand over connects and closes in any order; free slots tested; early exit of the loop | no open descriptor hidden from select; no ready client skipped; exit only with a cause |
| `io/css_echo_poll.cpp` | `clients` (fd, revents), `maxi`, `fdnum` | the loop of `main` | stale or uninitialised `revents`; the listener's own entry | the same, and no read blocks |
| `io/css_echo_epoll.cpp`, `io/socketio.cpp`, `full_write` of `lib/lhf.cpp` | interest and ready lists (kernel), the batch `events` | `epoll_wait`, `accept_epoll_ctl`, `deal_epoll_event`, `data_echo`, `full_write` | events of one batch become stale; partial writes; more ready clients than a batch holds | every event is about the connection it was raised for; every byte comes back; nobody starves |
| `css_echo.cpp`, `sigaction_waitpidS.cpp`, `test_fork_and_waitpid.cpp` | process table, SIGCHLD pending bit, errno, descriptors of each process | accept, fork, the children's echo loop, exit, the SIGCHLD handlers, `wait_all_children` | signals merge; the handler runs between any two steps of `main` and changes `errno`; forks fail; descriptors are inherited | every child is reaped; `main` is never held up; every client with a process is served; descriptors are released |
| `atomic/` (four counters) | `gnum`, a mutex, the threads' copies | compare-and-swap loops, a locked loop, an unprotected loop, `main` | stale copies; `int` copy of a `long long`; lost updates; `pthread_create` errors not noticed | each value worked on once; what `main` prints; every program ends |
| `basic/qsort.cpp` | the array, the recursion, partition's locals | `qsort`, `partition`, `swap`, `is_increase`, `main` | boundaries of partition's result; empty parts; recursion that does not shrink | what is returned is sorted and a rearrangement |
| `io/csc_echo_select.cpp`, `io/csc_echo_poll.cpp`, `io/csc_echo_epoll.cpp`, `csc_echo.cpp` | connection, `stdineof`; `gfinish`, `gmsgno`, `gcnt` | relay loops, line by line echo, threads, the SIGINT handler | end of input while echoes are on their way; a flag set at any moment; an unprotected counter; a server that goes away | echoes are read before the connection is dropped; numbers are not left out; the client ends |
| `cs?_echo_udp.cpp`, `cs?_echo_udp_connect.cpp`, `cs?_udp_overflow.cpp` | sockets, the client's `buff`, `cout` | `sendto`/`recvfrom` loops, the filter on the reply's address, the SIGINT handler | lost and foreign datagrams; a buffer that is cleared only in part; a full receive buffer; a server that is killed and restarted | replies belong to the lines; a client waits for ever only after a loss; the count is exact |
| `initd/daytimetcpsrv2.cpp`, `names/daytimetcpcli1.cpp`, `daemon_init` and `tcp_listen` of `lib/lhf.cpp` | process ids, descriptors, the list of addresses | fork, setsid, chdir, closing, socket/setsockopt/bind/listen per address, accept, write; the client's connect per address | any one of the calls fails | what runs in the end is a daemon with one listening socket and no leaked descriptor |
| `css.cpp`, `csc.cpp` | descriptors of server and children | accept, fork, the records of both, close | the child runs on into its parent's code; a client that goes away kills a writer | only one process accepts; a client at the end has all records; nobody waits for ever |
| `lib/lhf.cpp` (rest) | none | `strtol_on_error_exit`, `date_echo`, dumps, logging | nothing | not modelled |
| `atomic/HAVE_IB_GCC_ATOMIC_BUILTINS.cpp`, `names/hostent.cpp`, `my_string.cpp`, language experiments | little | straight-line code | nothing concurrent | not modelled |

Components do not call each other except through the helpers of `socketio.cpp`
and `lhf.cpp`; the servers meet their clients through the kernel's sockets,
which `Sockets.tla` stands for.  The threads of `concurrent_array` and of the
counters meet in shared variables, the forking programs in signals and the
process table.

## Modules

`Sockets` is the kernel as the three echo servers of `io/` use it (it is no code of
the repository): connections in a backlog, the descriptor table with the lowest
free descriptor given first, and for each connection the bytes unread by the
server, written back, and read by the client, with half-close and reset.  Bytes
are counted, not named.  Clients act between any two system calls of the server.
`Lines` and `OpenConns` are what of this `EchoService` speaks about.

| module | code | state and actions |
|---|---|---|
| `ConcurrentArray` | `concurrent_array.cpp` | `buff`, `pindex`, `cindex`, `mutex` are the class; `pc`, `cnt_cache`, `t` the threads' places and locals; one action for each access to shared state: load, CAS, lock, wait, put/take with the signal, unlock, print; `mpc`, `mi` are `main` with create, failing create, join, assert |
| `BoundedFifo` | what `concurrent_array` promises | a queue of at most `Capacity`, and the hands that give to and take from it |
| `EchoService` | what the three echo servers of `io/` promise | connections that wait, those admitted, what was sent on and written back to each, the bytes in hand; `Admit`, `Take`, `Give`, `Drop`, `Stop`, and the clients' `Connect` and `Use` |
| `EchoSelect` | `css_echo_select.cpp` | the variables of `main`; `Select`, `Accept`, `ReadStep` (data, end of file, error), `WriteStep`, `EndPass`, and an exit for each failing call, recorded in `why` |
| `EchoPoll` | `css_echo_poll.cpp` | the same with `fd` and `revents` of the array; `revents` starts with anything |
| `EchoEpoll` | `css_echo_epoll.cpp` with its helpers | `interest` and `rdlist` are the kernel's lists, `events` and `i` the batch, `len` what `full_write` still has to write |
| `EchoClients` | the four TCP clients | `client` says which; `conn` the connections with the bytes on their way up and down, `stdin` what the user typed; `at[t]` where each thread stands; one action per system call and per access to `gmsgno`; the server is any echo server that may exit |
| `MCEchoClients` | | the pairs of options: one thread with two connections, two threads with one |
| `Datagrams` | the three UDP pairs | `program` says which; `srvq`, `cliq` are the receive buffers, `buff` the client's buffer byte by byte (line n is the byte n), `answers` what was printed after each line; kills, restarts and foreign datagrams are the environment's |
| `Services` | `daytimetcpsrv2` with its library code and client, `css` with `csc` | `program` says which; `pc[p]` where server and children stand, one place per system call of `daemon_init` and `tcp_listen`; `proc`, `fds`, `failed` what they have made; `hold`, `left` the connection each process has open and the records it still has to write |
| `Forking` | the three forking programs | `program` says which; `mpc` is `main`, `handler` the SIGCHLD handler on top of it, `pending` the signal; process c is the child for connection c, -c its child; `held` the connections each process has open |
| `Counters` | the four programs of `atomic/` | `program` says which; each access to `gnum` is an action of its own; `worked` counts calls of `work_func` |
| `Countdown` | what the protected counters promise | a number that goes down by ones to 0 |
| `QSort` | `qsort.cpp` | `todo` is the recursion (pending calls, next one first); one action for each branch of `qsort` and of the loop of `partition`; a false assert ends in `abort` with its line |
| `ConcurrentArrayProofs`, `EchoSelectProofs`, `EchoPollProofs`, `EchoEpollProofs`, `DatagramsProofs`, `ServicesProofs`, `QSortProofs` (with those of `Forking`), `CountersProofs` (with those of `EchoClients`) | | the theorems |

`QSort` and `Counters` carry their own names in `SortSpec`, `CountSpec` and the like, so
that one module of theorems can extend `QSort` and `Forking`, and another `Counters`
and `EchoClients`.

Where a property depends on it, the code is taken as it is built: `FD_ISSET` of
-1 tests bit 63 of the set (`HoleBit`), `gnum--` without protection is a load and
a store, an uninitialised `revents`, `addrlen` or buffer is any value.
Connections are numbered in the order in which clients start, instead of a
symmetry, so that temporal properties can be checked in the same run.

## Runs

| run | instance | checks |
|---|---|---|
| `ConcurrentArray` | ring of 2, 2 producers, 2 consumers, 4 products, 1 spurious wake-up | `Asserts`, `FullEmptyExact`, `Conserved`, `Termination`, `ImplementsFifo` |
| `EchoSelect` | 4 clients, 2 slots, 3 descriptors, up to 2 bytes of a client, buffers of 2, one client that resets; `HoleBit` the highest descriptor | `TablesAgree`, `NoReadySkipped`, `ExitHasCause`, `Served`, `ImplementsEcho` |
| `EchoPoll` | 4 clients, array of 3 entries, buffers of 2, two clients that reset | `EntriesAgree`, `ReadsNeverBlock`, `ExitHasCause`, `ImplementsEcho` |
| `EchoPollListen` | 2 clients | violated: `ReadsClientsOnly` |
| `EchoEpoll` | 3 clients, 2 descriptors, batches of 2, 3 bytes, one client that resets | `EventsFresh`, `ExitHasCause`, `Served`, `ImplementsEcho` |
| `EchoClients` | 3 bytes typed; 3 messages of 2 bytes; two threads, or two connections | `EchoesRead`, `Numbering`, `Ends`, `Printed` |
| `Datagrams` | 3 lines of up to 3 bytes, 5 overflow datagrams, buffers of 2, 2 foreign datagrams, 2 kills | `AnswersInOrder`, `CountExact`, `Answered` |
| `Services` | 3 clients of css, 2 of daytimetcpsrv2, 1 record of child and of server each, 1 or 2 addresses, every set of inherited descriptors 3 to 5 with `MAXDESCRIPTOR` 4 | `DaemonReady`, `OneAcceptor`, `EofComplete`, `Served` |
| `Forking` | 2 connections or children, 2 descriptors, 1 message each | `HeldRight`, `WaitsForAll`, `Reaped`, `MainGoesOn`, `Served` |
| `ForkingErrno` | 2 connections | violated: `InterruptRetried` |
| `QSort` | all arrays of 5 elements over 4 values | `SortOk`, `Ends` |
| `Counters` | 3 workers, start value 5, an `int` of 4 values | `WorkOnce`, `FinalValue`, `CountsDown`, `CountEnds` |

`EchoSelectHole.cfg` and `EchoSelectLimit.cfg` (with `EchoSelect`) and `QSortPivot.cfg`
(with `QSort`) show three further violations, described under Findings.

The bounds make the cases happen that the code is exposed to: the ring fills,
empties and wraps twice, and waiters exist on both sides; there are more clients
than slots and than descriptors, so slots and descriptors are reused while
others are in use; a read takes one or two bytes, so bytes in hand can differ in number
from the buffer and, in `EchoEpoll`, be written in parts; there are more ready clients
than a batch holds; two children
exit together; the table of descriptors runs full in `css_echo`; an `int` is
narrower than the counter; two threads meet in `gmsgno++` while a third message
is due; a late reply is shorter, as long or longer than the line it is printed
for, and the line before it; more datagrams are sent than a buffer holds; one
client of `css` is served by server and child while another waits and a third
goes away.  One record of each process is enough for `Services` to have either
finish and close first, and the theorems cover any number.  `MaxBytes`,
`MaxSend`, `MaxSpurious`, `Resetters`, `MaxDepth`, `MaxTyped`, `MaxMsgs`,
`MaxLines`, `MaxForeign`, `MaxKills`, `ConnNum` and `DayConns` bound what would
otherwise be unbounded.

Deadlock checking is off because the programs end (`main` returns or exits) and
because a server may wait for ever for clients that do nothing.  That nobody
waits wrongly is what `Termination`, `Served`, `Answered`, `MainGoesOn`, `Ends` and
`CountEnds` say.

### Fairness

Weak fairness of each thread, process and handler: the kernel runs whatever can
run, and delivers a signal that is pending and not blocked.  Nothing more is
assumed: no strong fairness of mutexes or of compare-and-swap (a thread that is
overtaken is overtaken only finitely often, because the counters are finite), no
fairness of spurious wake-ups, of failing calls, or of clients, except that the
clients of the `select` and `epoll` servers read what is sent to them, without
which a blocking `write` may hold up the whole server.  Users are never fair: they
need not type, interrupt a client, or restart a server that was killed.

### Findings

* `EchoPollListen`: the loop over the clients starts at entry 0, the listener:
  after an accept in the same pass with another event left it reads the
  listening socket, which fails, and the server exits.
* `ForkingErrno`: `sigchld_func` does not save `errno`.  If the last child exits
  between the return of an interrupted `accept` and `errno==EINTR`, the handler
  leaves `ECHILD` there and the server exits.
* `EchoSelectHole.cfg`, `ReadsClientsOnly`: the loop over the clients evaluates `FD_ISSET(clifds[i],&rset)` for
  free slots, -1.  In the x86-64 build this is the bit of descriptor 63 (`HoleBit`; the
  run takes a smaller one), which the server uses from about 60 clients on, of
  `MAXFDSIZE` = 500.  When that descriptor is ready and a slot below `maxi` is free, the
  server calls `read(-1)`, which fails, and exits.
* `EchoSelectLimit.cfg`, `OnlyMAXFDSIZEConnects`: beyond `MAXFDSIZE` clients the
  server announces that no more are allowed, but keeps the connection open and in
  `allset`, never serves it, and `select` returns at once from then on.
* `QSortPivot.cfg`, `PivotFound`: `assert(array[re]==pivot)` fails for some arrays.
  The model shows two further defects of the same function: `qsort` is called for
  empty parts, so `assert(right>=left)` fails, and for arrays such as 0 1 1 0 1 it
  calls itself for the same part until the stack is used up (`pc` = "crash").
  `SortOk` is therefore about the runs that return.

### What the properties leave room for

Some properties are stated so as to hold of what the programs do, which is not
always what one would wish:

* `ExitHasCause` of `EchoSelect` names the read of a free slot (`HoleRead`, see
  Findings) as a cause of an exit beside a reset and a full descriptor table.
* `css_echo.cpp` never closes accepted connections in `main`, so it exits when its
  descriptors are used up, and a client never sees its connection closed.
* `csc_echo_select` closes the connection at end of file of stdin and loses the
  echoes on their way (`EchoesRead` allows it that, `Printed` leaves it out); `csc_echo_poll`
  keeps it open and then ends only when the server goes away; `csc_echo` reads for
  ever when the server has gone (both in `Ends`).
* `csc_echo_epoll` uses message numbers twice when its threads meet (`Numbering`),
  and after SIGINT may exit with an error because a second `shutdown` finds the
  connection closed by both sides.  The echoes of its other threads are then lost, as
  after a failed `pthread_create` or a write to a server that has gone: `EchoesRead`
  names these exits (`EndsEarly`) as the only ones that lose any.
* `csc_echo_udp` takes any datagram as the end of its wait: after a stranger's
  every reply comes one line late, and may be followed by older bytes of the
  buffer (`AnswersInOrder`).  It ignores all replies unless they come from
  127.0.0.2 (`route`).  A line sent while no server runs is waited for for ever;
  `csc_echo_udp_connect` gets an error and exits.
* `daemon_init` closes the descriptors from 3 up to `MAXDESCRIPTOR`; those of stdio
  and inherited ones from there on stay open (`DaemonReady`).
* The child of `css` runs on into its parent's code and is ended by the write to
  the descriptor it has closed (`OneAcceptor`).  A client that goes away ends the
  server with its second write; while a child lives on, the listening socket stays
  open and clients connect that nobody will accept, until the child ends too and
  they are reset (`Served`).

## Proofs

All theorems are about `Spec` for every value of the constants, from the
`ASSUME`s of the modules (sizes and thread counts are naturals, not zero where
the code divides by them).

`ConcurrentArrayProofs`.  `IInv` says that the occupied slots are those from
`cindex` up to `pindex` around the end (`RingInv`), that exactly the thread
between lock and unlock owns the mutex, and who holds a product.  `FullEmptyExact`
alone is not inductive: that slot 0 speaks for all slots when the indices meet
follows only from knowing the occupied interval.  `FullEmptyExact` and the asserts
of `append` follow from `IInv`; `Conserved` is proved from `IInv`; main's assert, the
other half of `Asserts`, needs a count: tickets drawn by producers less
the producers still busy equals the products in the ring plus tickets drawn by
consumers less the consumers still busy (`Ledger`), with `Cardinality` of the busy
threads, and the fact that a thread ends only after the last ticket (`EndInv`).
`FifoImplemented` is the refinement of `BoundedFifo`: the abstract queue is the ring
read from `cindex` on (`Contents`), `AppendPut` appends to it because the slot behind the
last is `pindex` (`SlotAtEffect`), `GetTake` removes its head, and every other step of a
thread leaves it alone.

The three servers of `io/` share their kernel, so each proof begins with the same
lemmas about `Sockets`: `accept` returns a descriptor that was closed, `close`, `read`
and `write` touch one connection, and clients keep the account of bytes (`WireInv`),
without which a count would leave its range.

`EchoSelectProofs`.  `TableInv` is `TablesAgree` without the types.  It is inductive
with `ScanInv`, which says at each place of the client loop how many reported
clients are still ahead: never more than `fdnum`.  The count starts as the number of
descriptors in `rset` and goes down once for each client served, so when it is 0
nobody is left (`NoReadySkipped`).  That `Shrink` lowers `maxi` to no less than the last
place in use follows from `Max` being the largest of a bounded set (`GreatestOf`);
`maxfd` goes down by one when the highest descriptor is closed, below which all others
are.
`ExitsHaveCauses` holds for every `HoleBit`, a descriptor of the process or not: when the
read that fails was of a free slot, the bit was reported in this pass (`HoleRead`), and
of any other slot the table says that the descriptor is open, so only a reset makes it
fail.

`EchoPollProofs`.  Here a pass is sound only if it did not start with an accept, so
`ScanInv` speaks of passes with `revents[0]` unset: every reported entry behind the one
at hand is a client's, and something arrived for it.  That it is still there when
it is read needs that nobody else reads it, i.e. that two descriptors never refer to
one connection (`ConnInv`: a connection waits at one place of the backlog, or one
descriptor refers to it).  `ReadsNeverBlock` follows, for any contents that `revents`
may have had at the start.

`EchoEpollProofs`.  `EventsFresh` is not inductive: a close in the batch followed by an
accept reuses a descriptor.  `BatchInv` adds why this does no harm: a batch names
each descriptor once, and the descriptors of the events still to come are open, so
neither the close of the present one nor the descriptor an accept returns is among
them.  That a batch has no doubles comes from the ready list being an enumeration of
a finite set (`ReadyList`).  `EchoWhole` is carried through `full_write` by moving bytes
between the counts of one connection and the buffer (`Moved`).

The refinement (`EchoImplemented`) is the same theorem in the three proofs: the server,
whatever it waits in, implements `EchoService`.  A connection is open for the service
when a descriptor refers to it, and the bytes in hand are those between the read and
the write.  `accept` is `Admit`, a read of data `Take`, a write `Give`, the read of an end
of file `Drop`, an exit `Stop`; `select`, `poll`, `epoll_wait` and the end of a pass are
stutters, and so is a client that takes in what was written to it; its connect, send,
half-close and reset are `Connect` and `Use`.  Each step has a lemma (`AcceptServed`,
`ReadEndServed`, ...).  Two facts carry it.  A connection is in one place, one place of the
backlog or one descriptor (`ConnInv`), so closing a descriptor closes exactly the
connection that was read from and `Admit` adds a new one.  And the account of each
connection is exact while the server runs: what was sent and is not yet back or in
the kernel is what is in hand (`Account` for `select` and `poll`, `EchoWhole` for `epoll`);
without it `Take` could exceed what the service has been sent, and `Drop` could lose
bytes, as inequalities between the counts do not exclude.  A server also has to know
that it never writes an empty buffer.

`QSortProofs`.  Two positions are in order unless a pending call covers both
(`Separated`); pending calls are disjoint and ascending (`CallsInv`); what the loop
of `partition` has passed is on the right side of the pivot (`PartitionInv`).  The
invariant needs nothing of the pivot's final position, so `SortCorrect` holds
although the asserts can fail: whatever `qsort` returns is sorted.  That it is a
rearrangement is carried by a permutation of the positions, which every `swap`
composes with the exchange of two (`SwapRearranged`).

Its second half is about `Forking`.  `HeldRight` needs to
know that main forks once for a connection: a connection waits at one place of the
backlog and has no process yet (`QueueInv`), and neither has the one main is about to
fork for (`ServerInv`).  Types alone need more: `echoed` stays within `sent` only
because a connection has one reader, so a son of `css_echo` that has a child of its own
serves nobody (`FamilyInv`), and a process at `write` has a message in hand (`EchoInv`).
`WaitsForAll` follows from `RoundInv`: a child of `test_fork_and_waitpid` was forked in
each round before `cur`, and when `waitpid` returns -1 none of them is a zombie or
running.  The handler may have waited for any of them in between; `ReapKeeps` says
that this disturbs nothing.  The theorems are for any number of connections and of
messages and any limit on descriptors, and assume no fork to succeed.

`CountersProofs`.  `IInv` covers all four programs: claims are unique
(`WorkOnce`), a copy is never below the counter (`NotAhead`), mutual exclusion
(`Exclusive`), the range of the counter, and that an unfinished count always has a
worker that is still going to look at it (`NotAbandoned`), from which
`FinalValue` follows at the end of the joins.  `CountsDownCorrect` is the
refinement of `Countdown`.

Its second half is about `EchoClients`.  `WireInv`
accounts for the bytes of each connection: before a reset they are all on their way up,
on their way down or read, and only a server that exits causes a reset.  That a thread
closes a connection only when everything came back rests on `FinInv`: when a connection
was shut down its thread is not between `gmsgno++` and its write, since the signal is
looked at only at the top of the loop.  `LineInv` relates `cnt` of `csc_echo` to what is
still outstanding, so `read` never returns more than is missing.  `Numbering` is `IdInv`
(numbers of connections are below `gcnt`) and `UsedInv`: the
numbers used are an interval from 0 that contains everything below `gmsgno` and every
number a thread is about to store the successor of; the lost updates of `gmsgno++` lower
the counter, never over a gap.  Both need that a thread past its connects has all its
connections (`ReachedInv`).  `EchoesAllRead` covers the end of the process too, when
connections are open that nobody reads any more.  `DropInv` says for each way to end
what became of them, and stays true because nothing happens afterwards.  When `main`
of `csc_echo_epoll` returns from its joins it needs `SettledInv`: a thread that is done
has closed all its connections, and one that failed to connect has sent nothing.  That there is a largest number of threads uses that the options are
`int`s (`INT_MAX`).

`DatagramsProofs`.  Every datagram of `csc_udp_overflow` is in the buffer, was
received or was dropped (`Flow`), and `cout` lags behind only between `recvfrom` and
`cout++` (`Lag`); `CountExact` follows, for any number of datagrams and any buffer.
`EchoesInOrder` is about the echo pairs.  Its invariant follows the datagrams on their
way: each of the client's carries one of its lines, and from the client's buffer
over the server's hand to the server's buffer their lines ascend, all later than any
line already printed (`Pipe`); before a stranger's datagram is taken only the line at
hand is on its way (`Alone`); `fgets` and `bzero` leave a NUL behind the line (`Buffer`).
So `fputs`, which prints up to the first NUL (`FputsPrints`), prints the line at hand
exactly, and any other echo at least as a whole (`Printed`).

`ServicesProofs`.  `Inv` says, for each place of `daemon_init` and `tcp_listen`, what
the process ids are (`ProcInv`), which descriptors are open (`FdInv`) and which
addresses were given up (`AddressInv`); then where the processes may be and what
they hold there (`HoldInv`), that nothing has happened yet to a connection still in
the backlog (`QueueInv`), and that what was written and what is still due do not
exceed the records of two processes (`RecordInv`).  `DaemonReady` and `OneAcceptor`
follow.  The hard part of `DaemonReady` is that no client ends `daytimetcpsrv2`:
it needs that the one write comes before any reset can (`RecordInv`).
`EofComplete` needs the account to be exact for every client that has not gone
away (`ExactInv`): only a reset ends a writer early, and only a client that is gone
has its connection reset.  The theorems are for any number of clients and records,
any inherited descriptors and any `MAXDESCRIPTOR`; the lists of addresses are those
of `Init`.

Model-checked only: all liveness (`Termination`, `Served`, `Answered`, `Ends`, `CountEnds`,
`Printed`, `Reaped`, `MainGoesOn`: the prover has no fairness).  Proved and in no run:
`IInv` of `QSort`, `EchoWhole` of `EchoEpoll`, `NoReadySkipped` of `EchoPoll`, the types,
and the invariants of the proof modules; a run of theirs would say no more than the theorem.
The two violated properties, and those of `EchoSelectHole.cfg`, `EchoSelectLimit.cfg` and
`QSortPivot.cfg`, are not theorems, of course.

## Not modelled

* `sigaction_waitpidC.cpp` clears its line with the size of another buffer and
  writes past its end, so what it does is undefined; `Forking` has an abstract client
  in its place.
* In `lib/lhf.cpp`: `strtol_on_error_exit` (parses one option), `date_echo` (called by
  no program), the dump and log functions.
* `my_string.cpp`, a string class exercised by a fixed `main`; the look-up of names
  in `names/hostent.cpp`; the probe of the atomic builtins; the language experiments: straight-line
  code with one thread and no failure path.
* The destructor of `concurrent_array`, which the program never calls; output,
  logging and the step numbers of `test_fork_and_waitpid`; set-up calls of the echo
  servers (`socket`, `bind`, `listen`) whose failure ends the program before it
  starts; failures of `accept` in `Services`; the text of the records of `css` and how
  `csc` cuts it.

## Plan

1. Every invariant and every refinement of a passing run is a theorem; what is left to
   TLC is liveness.
2. `sigaction_waitpidC.cpp` and the rest of `lib/lhf.cpp`, should they become more than
   straight-line code.
