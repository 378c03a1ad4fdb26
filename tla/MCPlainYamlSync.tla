-------------------------- MODULE MCPlainYamlSync ---------------------------
(***************************************************************************)
(* Instances of PlainYamlSync for TLC: how Applications, objects,          *)
(* repositories and clusters hang together.                                *)
(***************************************************************************)
EXTENDS PlainYamlSync, TLC

CONSTANTS a1, a2, o1, o2, o3, r1, r2, p1, p2, k1, k2, v1, v2

\* One Application with two objects.
OneRepo  == (a1 :> r1)
OnePath  == (a1 :> p1)
OneDest  == (a1 :> k1)
OneLabel == (a1 :> "app1-ns")
OneHome  == (o1 :> <<r1, p1>> @@ o2 :> <<r1, p1>>)

\* Two Applications in one repository under two paths, for two clusters; the first
\* one has two objects.
SameRepo  == (a1 :> r1 @@ a2 :> r1)
TwoPaths  == (a1 :> p1 @@ a2 :> p2)
TwoDests  == (a1 :> k1 @@ a2 :> k2)
TwoLabels == (a1 :> "app1-ns" @@ a2 :> "app2-ns")
PathHome  == (o1 :> <<r1, p1>> @@ o2 :> <<r1, p1>> @@ o3 :> <<r1, p2>>)

\* Contents are alike, and so are the two objects of the first Application.
Alike == Permutations({o1, o2}) \cup Permutations(Contents)
=============================================================================
