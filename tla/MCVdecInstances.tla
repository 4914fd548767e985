-------------------------- MODULE MCVdecInstances --------------------------
(* Four decoders for TLC, which no property tells apart.                    *)
EXTENDS VdecInstances, TLC

CONSTANTS c1, c2, c3, c4
MCComponent == {c1, c2, c3, c4}
Symmetry == Permutations(MCComponent)
=============================================================================
