----------------------------- MODULE MCDatabase -----------------------------
(***************************************************************************)
(* An instance of Database for TLC: two refreshes of one grant and one of  *)
(* another, over a pool with one connection more than there are grants.    *)
(***************************************************************************)
EXTENDS Database

CONSTANTS g1, g2, s1, s2, s3

Shared == [s \in Sessions |-> IF s = s3 THEN g2 ELSE g1]
=============================================================================
