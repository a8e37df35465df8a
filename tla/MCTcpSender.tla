---------------------------- MODULE MCTcpSender ----------------------------
(* TcpSender with the values of the configuration files. *)
EXTENDS TcpSender
=============================================================================
