---------------------------- MODULE MCMembership ----------------------------
(* Small instances of Membership. *)
EXTENDS Membership, TLC

CONSTANTS a, b, c, o1, w1, w2

OneOrg == [w \in Workspaces |-> o1]
OwnedByA == [o \in Orgs |-> a]

\* Nothing tells the workspaces apart, nor the requests.
Symmetry == Permutations(Workspaces) \cup Permutations(Requests)
=============================================================================
