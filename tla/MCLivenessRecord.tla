-------------------------- MODULE MCLivenessRecord --------------------------
(* One `sandbox prompt` after another, and two at once.                    *)
EXTENDS LivenessRecord, TLC

CONSTANTS p1, p2

MCTwoDrivers == {p1, p2}
DriverSymmetry == Permutations(MCTwoDrivers)
=============================================================================
