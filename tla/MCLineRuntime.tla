---------------------------- MODULE MCLineRuntime ----------------------------
(* Three connections of two listeners compete for two sessions; ids repeat   *)
(* across the listeners and after a restart.                                 *)
EXTENDS LineRuntime

CONSTANTS l1, l2

MCConns == {<<l1, 1>>, <<l1, 2>>, <<l2, 1>>}
=============================================================================
