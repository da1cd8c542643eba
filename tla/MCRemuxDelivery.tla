-------------------------- MODULE MCRemuxDelivery --------------------------
(* RemuxDelivery on a small instance. *)
EXTENDS RemuxDelivery
=============================================================================
