--------------------------- MODULE MCConnections ---------------------------
(***************************************************************************)
(* Instances of Connections for TLC: gmail and gcal share the google       *)
(* grant, stripe takes an api key.                                         *)
(***************************************************************************)
EXTENDS Connections, TLC

CONSTANTS gmail, gcal, stripe, google, stripeKey

Symmetry == Permutations(Runs) \cup Permutations(States)

Providers == {gmail, gcal, stripe}
Backing == [p \in Providers |-> IF p = stripe THEN stripeKey ELSE google]
=============================================================================
