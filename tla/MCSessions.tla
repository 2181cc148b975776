----------------------------- MODULE MCSessions -----------------------------
(***************************************************************************)
(* Instances of Sessions for TLC.                                          *)
(***************************************************************************)
EXTENDS Sessions

\* Every queued report is delivered or dropped in the end.
DeliverySettles == Delivery!Settled
=============================================================================
