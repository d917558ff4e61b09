-------------------------------- MODULE MCEngine --------------------------------
(* Constants for the model checking of EngineTunnel. *)
EXTENDS EngineTunnel, TLC

TheThreads == AllThreads
PathSymmetry == Permutations(Paths)
=============================================================================
