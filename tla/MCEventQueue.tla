---------------------------- MODULE MCEventQueue ----------------------------
(* EventQueue with payloads of 0..2 bytes, a count cap that three small      *)
(* events reach and a byte cap that two large ones reach.                    *)
EXTENDS EventQueue

\* Peers are interchangeable to the queue, two tell FIFO order apart.
MCPeers == {"a", "b"}
=============================================================================
