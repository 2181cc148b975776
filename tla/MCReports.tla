------------------------------ MODULE MCReports ------------------------------
(***************************************************************************)
(* Instances of Reports for TLC.                                           *)
(***************************************************************************)
EXTENDS Reports, TLC

DeviceUserSymmetry == Permutations(Devices) \cup Permutations(Users)

\* One that takes points for amounts, and leaves one weight to the default.
PenaltyFormula == [processedAmount |-> -20, efficiency |-> 100, co2Savings |-> Null]

\* One that weighs nothing, so that the default weights are used.
EmptyFormula == [processedAmount |-> 30, efficiency |-> 0, co2Savings |-> -30]

InstanceFormulas == {EmptyFormula, PenaltyFormula}

\* From the day before to the day after.
AroundToday == {-1, 0, 1}

\* The month turns on the Sunday of the instance.
InstanceMonths == {-22, 7}

\* One above both targets, and one below zero, whose score ends in a half.
InstanceAmounts == {-3, 12}

\* The example of ProcessingSummaryDto, and a run that does meet the target.
GramAmounts == {1300, 5200}
=============================================================================
