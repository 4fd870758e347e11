----------------------------- MODULE MCTcpServer -----------------------------
(* TcpServer under a few loads per backend: one client that sends lines, one *)
(* of them empty, and then one over the limit of two bytes; one client to    *)
(* whom the application sends twice; two clients, one of whom is turned away *)
(* while the other is there; two clients at once, who are sent to from each  *)
(* other's callbacks.                                                        *)
EXTENDS TcpServer

Load(backend, connections, input, sends) ==
  [backend |-> backend, connections |-> connections, input |-> input, sends |-> sends]

MCSettings ==
  {Load(b, 1, << <<"x", CR, LF, LF, "x", "x", "x", LF>> >>, 0) : b \in {"threaded", "iocp"}}
    \cup {Load(b, 1, << <<>>, <<>> >>, 0) : b \in {"threaded", "iocp"}}
    \cup {Load("threaded", 1, << <<LF>> >>, 2), Load("threaded", 2, << <<LF>>, <<>> >>, 1),
          Load("iocp", 1, << <<>> >>, 2), Load("iocp", 2, << <<LF>>, <<>> >>, 0)}
=============================================================================
