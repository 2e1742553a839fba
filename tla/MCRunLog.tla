------------------------------ MODULE MCRunLog ------------------------------
(***************************************************************************)
(* Instances of RunLog for TLC, with the process numbers of the programs:  *)
(* restaurant r hands its orders to runner r + 2.                          *)
(***************************************************************************)
EXTENDS RunLog, TLC

MCPartner == [r \in Restaurants |-> r + 2]

\* Orders are alike.
MCSymmetry == Permutations(Orders)

=============================================================================
