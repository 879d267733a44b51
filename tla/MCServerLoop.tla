---------------------------- MODULE MCServerLoop ----------------------------
(* Instance of ServerLoop: the log file, the sockets and then connections. *)
EXTENDS ServerLoop

MCConnFd == 5..8
=============================================================================
