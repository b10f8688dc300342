----------------------------- MODULE MCOwnership -----------------------------
(* Two clients that want the same ID, two handlers, and one more ID, which *)
(* is only ever drawn at random.                                           *)
EXTENDS Ownership, TLC

Symmetry == Permutations(Clients) \cup Permutations(Handlers)
              \cup Permutations(Secrets)
=============================================================================
