--------------------------- MODULE MCDeviceCommands ---------------------------
(***************************************************************************)
(* Instances of DeviceCommands for TLC.                                    *)
(***************************************************************************)
EXTENDS DeviceCommands, TLC

CommandSymmetry == Permutations(Commands)

\* Every command is delivered or dropped in the end.
DeliverySettles == Delivery!Settled
=============================================================================
