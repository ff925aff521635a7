----------------------------- MODULE MCRotation -----------------------------
(***************************************************************************)
(* An instance of Rotation: two rotations in a row over two replicas, with *)
(* two applications that are re-sealed at different times.                 *)
(***************************************************************************)
EXTENDS Rotation, TLC

CONSTANTS r1, r2, a1, a2

MCReplicas == {r1, r2}
MCApps == {a1, a2}
Symmetry == Permutations(MCReplicas) \cup Permutations(MCApps)

=============================================================================
