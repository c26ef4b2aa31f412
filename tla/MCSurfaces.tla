----------------------------- MODULE MCSurfaces -----------------------------
(***************************************************************************)
(* An instance of Surfaces for TLC: two providers, one with a write.       *)
(***************************************************************************)
EXTENDS Surfaces, TLC

Booted == <<"p", "q">>
Manifests == [p |-> <<FALSE, TRUE>>, q |-> <<FALSE>>]
Minted == {[providers |-> {"p", "q"}, readOnly |-> FALSE],
           [providers |-> {"p"}, readOnly |-> TRUE]}

Symmetry == Permutations(Requests) \cup Permutations(Admins)
=============================================================================
