--------------------------- MODULE MCGrantRefresh ---------------------------
(***************************************************************************)
(* Instances of GrantRefresh for TLC.                                      *)
(***************************************************************************)
EXTENDS GrantRefresh

\* A bound is a function that is zero except where a run says otherwise.
Never == [k \in Kinds |-> 0]

\* Expiries, connects, disconnects and every failure, at any moment.
BoundCalls == [[k \in Kinds |-> 1] EXCEPT !["expire"] = 2]

\* The counterexamples: the events they need.
BoundDrop == [Never EXCEPT !["expire"] = 1, !["drop"] = 1]
BoundTransient == [Never EXCEPT !["expire"] = 1, !["lost"] = 1]
=============================================================================
