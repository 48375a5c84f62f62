----------------------------- MODULE MCStorage -----------------------------
(* TLC instance of Storage and of its refinement of TurnDelivery.         *)
EXTENDS StorageDelivery, TLC

Symmetry == Permutations(Sessions) \cup Permutations(Keys)
            \cup Permutations(RunIds) \cup Permutations(Calls)
=============================================================================
