----------------------------- MODULE MCHelmSync -----------------------------
(***************************************************************************)
(* An instance of HelmSync for TLC: one Application in the operator's own  *)
(* cluster, one in another.                                                *)
(***************************************************************************)
EXTENDS HelmSync, TLC

CONSTANTS a1, a2, o1, o2, k1, k2

TwoDests == (a1 :> k1 @@ a2 :> k2)
Objects  == (a1 :> {o1} @@ a2 :> {o2})
=============================================================================
