--------------------------- MODULE MCDeployments ---------------------------
(* Instances of Deployments: two or three requests to the two endpoints.     *)
EXTENDS Deployments, TLC

(* Requests are interchangeable (safety runs only). *)
Symmetry == Permutations(Requests)
=============================================================================
