---------------------------- MODULE MCHostAdmits ----------------------------
(* A stateful application whose operator trusts one repository after the   *)
(* other or protects deliveries, a stateless one and one whose releases    *)
(* the owner approves; a pipeline that deploys and one that uploads        *)
(* secrets, in turn with a root operator who bootstraps releases.  Commits *)
(* and builds are interchangeable, and so are previews of one image and    *)
(* the domains that route by path.                                         *)
EXTENDS HostAdmits, TLC

CONSTANTS s1, s2, deployer, uploader

MCAdmitters == {deployer, uploader}
MCAdmissionKinds ==
    [a \in MCAdmitters |-> IF a = deployer THEN {"submit"} ELSE {"secrets", "bootstrap"}]
MCSources == {s1, s2}
Registered == [source |-> s1, delivery |-> FALSE, stateful |-> TRUE, owner |-> FALSE]
MCFirstPolicies == {Registered, [Registered EXCEPT !.stateful = FALSE],
                    [Registered EXCEPT !.owner = TRUE]}
MCPolicyEdits == {<<Registered, [Registered EXCEPT !.source = s2]>>,
                  <<Registered, [Registered EXCEPT !.delivery = TRUE]>>}
MCSymmetry == Permutations(Commits) \cup Permutations(Builds)
              \cup Permutations(Gates) \cup Permutations(PathTargets)
=============================================================================
