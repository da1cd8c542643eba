-------------------------- MODULE MCMoverDelivery --------------------------
(* Two discs of one title; the second keeps its ISO beside the MKV. *)
EXTENDS MoverDelivery
=============================================================================
