---------------------------- MODULE MCTcpFusion ----------------------------
(***************************************************************************)
(* The congestion control of TcpFusion on small transfers.                 *)
(***************************************************************************)
EXTENDS TcpFusion
=============================================================================
