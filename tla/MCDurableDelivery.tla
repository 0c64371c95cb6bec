-------------------------- MODULE MCDurableDelivery -------------------------
(* Small instances of DurableDelivery for TLC. *)
EXTENDS DurableDelivery
=============================================================================
