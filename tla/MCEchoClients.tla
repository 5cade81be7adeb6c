---------------------------- MODULE MCEchoClients ----------------------------
(***************************************************************************)
(* EchoClients for model checking: csc_echo_epoll with two threads of one  *)
(* connection, and with one thread of two.                                 *)
(***************************************************************************)
EXTENDS EchoClients

MCOptions == {<<2, 1>>, <<1, 2>>}
==============================================================================
