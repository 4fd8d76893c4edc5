---------------------------- MODULE MCTcpChannel ----------------------------
(* Scripts for TcpChannel.                                                 *)
EXTENDS TcpChannel

\* The two messages each command starts with: the checksum and the answer.
Handshake == {<<"a", "b">>}
=============================================================================
