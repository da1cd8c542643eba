--------------------------- MODULE MCQueueStore ---------------------------
(* The queue store with the worker and one web handler, one durable entry  *)
(* and one claim.                                                          *)
EXTENDS QueueStore
=============================================================================
