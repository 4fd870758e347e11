---------------------------- MODULE MCConnections ----------------------------
(* Connections with small limits.  A send budget of 260 bytes holds one      *)
(* large frame but not two, and an error response of 256 bytes; two frames   *)
(* reach the entry limit; 131 bytes exceed a message.                        *)
EXTENDS Connections

MCSizes == {0, 130, 131}
=============================================================================
