-------------------------- MODULE MCReorderBuffer --------------------------
(***************************************************************************)
(* The reorder buffer on a small instance: five numbers, two links.        *)
(***************************************************************************)
EXTENDS ReorderBuffer

\* Two links; RTTs whose difference is below, between and above the clamps.
MCRtts == {0, 20, 110}
MCJitters == {0, 20}
=============================================================================
