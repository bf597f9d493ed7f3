----------------------------- MODULE MCDelivery -----------------------------
(* Delivery on small instances. *)
EXTENDS Delivery, TLC

\* Paths are interchangeable: safety runs only.
PathSymmetry == Permutations(Paths)
=============================================================================
