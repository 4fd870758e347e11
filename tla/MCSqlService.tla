---------------------------- MODULE MCSqlService ----------------------------
(* Three request ids, batches of up to two statements, and a budget that two *)
(* or three requests exhaust.                                                *)
EXTENDS SqlService
=============================================================================
