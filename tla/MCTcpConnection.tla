-------------------------- MODULE MCTcpConnection --------------------------
(* TcpConnection with the values of the configuration files. *)
EXTENDS TcpConnection
=============================================================================
