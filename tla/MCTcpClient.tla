---------------------------- MODULE MCTcpClient ----------------------------
(***************************************************************************)
(* TcpClient for TLC: buffers of two bytes and three bytes each way, so    *)
(* that every buffer fills up, drains partly and is filled again.          *)
(***************************************************************************)
EXTENDS TcpClient
============================================================================
