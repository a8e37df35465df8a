-------------------------- MODULE MCTcpFlowControl --------------------------
(* TcpFlowControl with the values of the configuration files. *)
EXTENDS TcpFlowControl
=============================================================================
