--------------------------- MODULE MCHttpApproval ---------------------------
(* Instances of HttpApproval for TLC: one session whose turns may overlap,  *)
(* and two sessions whose turns do not.                                    *)
EXTENDS HttpApproval, TLC

CONSTANTS s1, s2, p1, p2, p3, r1, r2

OneSession == [p \in Proposal |-> s1]
TwoSessions == (p1 :> s1) @@ (p2 :> s1) @@ (p3 :> s2)

RequestSymmetry == Permutations(Request)
=============================================================================
