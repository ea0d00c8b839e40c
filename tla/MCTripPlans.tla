----------------------------- MODULE MCTripPlans -----------------------------
(* Small instances of TripPlans; the configurations choose the endpoints. *)
EXTENDS TripPlans, TLC

TripSymmetry == Permutations(Trips \ Legacy)
RequestSymmetry == Permutations(Requests)
Symmetry == TripSymmetry \cup RequestSymmetry
=============================================================================
