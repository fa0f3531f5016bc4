----------------------------- MODULE MCDelivery -----------------------------
(* JobDelivery's small instances: two interchangeable worker processes.    *)
EXTENDS JobDelivery, TLC

CONSTANTS w1, w2

WorkerSymmetry == Permutations({w1, w2})
=============================================================================
