--------------------------- MODULE MCSnapshotCut ---------------------------
(* The instances of MCFoodDelivery with the history of SnapshotCut.        *)
EXTENDS MCFoodDelivery, SnapshotCut

=============================================================================
