----------------------------- MODULE MCDeviceRow -----------------------------
(***************************************************************************)
(* Instances of DeviceRow for TLC.                                         *)
(***************************************************************************)
EXTENDS DeviceRow, TLC

\* Slots, accounts, devices and settings are only compared for equality, so
\* they are interchangeable in the runs that check safety.
SlotSymmetry ==
  Permutations(Slots) \cup Permutations(Users)
    \cup Permutations(DeviceIds) \cup Permutations(Settings)
=============================================================================
