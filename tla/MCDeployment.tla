----------------------------- MODULE MCDeployment -----------------------------
(* Small hosts for TLC: revisions are interchangeable, applications are not *)
(* (their policies differ).                                                *)
EXTENDS Deployment, TLC

Symmetry == Permutations(Revisions)
=============================================================================
