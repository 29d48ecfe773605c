--------------------------- MODULE MCTriggerDelivery ---------------------------
(* Small instances of TriggerDelivery: the constants have their values in the .cfg. *)
EXTENDS TriggerDeliveryProps
================================================================================
