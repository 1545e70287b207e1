------------------------ MODULE MCRuntimeLifecycle ------------------------
(* Symmetry for model-checking RuntimeLifecycle on small instances. *)
EXTENDS RuntimeLifecycle, TLC

Symmetry == Permutations(Runtimes) \cup Permutations(Requests)
              \cup Permutations(Deleters) \cup Permutations(Ips)
===========================================================================
