----------------------------- MODULE MCProcess -----------------------------
(* Process on a Linux host, as a child of a shell and under a subreaper, *)
(* and as process 1.                                                     *)
EXTENDS Process

MCPlatforms ==
  {[pid1 |-> FALSE, subreaper |-> FALSE, eof_readable |-> FALSE],
   [pid1 |-> FALSE, subreaper |-> TRUE, eof_readable |-> FALSE],
   [pid1 |-> TRUE, subreaper |-> FALSE, eof_readable |-> TRUE]}
=============================================================================
