---------------------------- MODULE MCHostParts ----------------------------
(* HostParts with four images, three of them of the accepted configuration and *)
(* one of these known to Docker by it.                                     *)
EXTENDS HostParts, TLC

CONSTANTS i1, i2, i3, i4, k1, k2

MCImages == {i1, i2, i3, i4}
MCConfigs == {k1, k2}
MCConfigOf == [i \in MCImages |-> IF i = i3 THEN k2 ELSE k1]
MCByConfig == {i4}

PartsSymmetry == Permutations(StaticRevisions)
====
