---------------------------- MODULE MCFleetRunner ----------------------------
(***************************************************************************)
(* Instances of FleetRunner for TLC: the first two markers are of the same *)
(* snapshot.                                                               *)
(***************************************************************************)
EXTENDS FleetRunner

CONSTANTS k1, k2, k3, s1, s2

MCSnapshotOf == [k \in Markers |-> IF k = k3 THEN s2 ELSE s1]

=============================================================================
