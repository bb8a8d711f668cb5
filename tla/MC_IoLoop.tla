------------------------------ MODULE MC_IoLoop ------------------------------
(* A listening socket and two stream sockets on sock_list, one spare      *)
(* structure for an accepted or newly opened socket, and the loop's       *)
(* constants scaled down so that every limit is reached.  Two of the      *)
(* three async flags, the first and the last that io_loop tests, and two  *)
(* signals: enough for a signal to arrive while another handler runs.     *)
EXTENDS IoLoop

CONSTANTS l, a, b

MC_Sock == {l, a, b}
MC_InitSocks == <<l, a>>
MC_AsyncOrder == <<"config", "shutdown">>

=============================================================================
