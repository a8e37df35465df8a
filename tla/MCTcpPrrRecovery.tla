-------------------------- MODULE MCTcpPrrRecovery --------------------------
(* TcpPrrRecovery with the values of the configuration files. *)
EXTENDS TcpPrrRecovery
=============================================================================
