------------------------- MODULE MCSegmentedObject -------------------------
(***************************************************************************)
(* Every object of up to MaxInt bytes and every segment size: shorter,     *)
(* equal to and longer than the backend's minimum, and close enough to     *)
(* MaxInt for the comparison of the two-segment case to overflow.          *)
(***************************************************************************)
EXTENDS SegmentedObject

MCDataLens == 0..MaxInt
MCSegmentSizes == 1..MaxInt
=============================================================================
