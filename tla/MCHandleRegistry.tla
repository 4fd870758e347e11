-------------------------- MODULE MCHandleRegistry --------------------------
(* Two threads share a handle of a server with one stream listener.          *)
EXTENDS HandleRegistry
CONSTANTS t1, t2
=============================================================================
